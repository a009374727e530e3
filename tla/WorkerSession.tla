---------------------------- MODULE WorkerSession ---------------------------
(***************************************************************************)
(* One session on a worker (shiitake-worker/src/client.rs, run_session and *)
(* the tasks it spawns): commands are queued, started in order, cancelled, *)
(* and reported while the session's shell lives.                           *)
(*                                                                         *)
(* The loop of run_session owns the queue, the shell and the socket; every *)
(* turn starts what may start and then waits in its select!.  Each started *)
(* command has a task that watches it and one that tails its output; they  *)
(* talk to the loop over one bounded channel.  The processes themselves    *)
(* and the server are the environment.                                     *)
(*                                                                         *)
(* A command's two output streams are abstracted to one, its output to the *)
(* number of chunks, and the cwd and environment of the shell to the last  *)
(* stateful command whose snapshot was taken.  Polling intervals and grace *)
(* periods are abstracted: they may have elapsed whenever they are tested. *)
(***************************************************************************)
EXTENDS Naturals, Sequences, FiniteSets

CONSTANTS
    Commands,       \* how many commands the server submits, in this order
    MaxJobs,        \* commands running or waiting at most (32)
    Capacity,       \* of the event channel (64)
    MaxChunks       \* bound of the output chunks of all commands

ASSUME SessionAssumption ==
    /\ Commands \in Nat /\ MaxChunks \in Nat
    /\ MaxJobs \in Nat \ {0} /\ Capacity \in Nat \ {0}

Job == 1..Commands
\* No command.
None == 0

VARIABLES
    \* run_session
    pc,                 \* where the loop is
    running,            \* commands with an entry in the running map
    queued,             \* Seq(Job)
    stateful_running,   \* Job or None
    current,            \* whose state current_workdir and current_env hold
    completed,          \* the marker of stateful_running was seen
    events,             \* the channel from the tasks
    \* the tasks of a command
    task,               \* [Job -> TaskPc]: run_session_job, watch_stateful_job
    cancelled,          \* commands whose task saw the cancel
    tail,               \* [Job -> TailPc]: tail_capture
    \* the processes
    alive,              \* commands whose process, or script, runs
    files,              \* [Job -> Files]: what a stateful command left behind
    marker,             \* Job or None: whose marker is in the PTY, unread
    unread,             \* [Job -> Nat]: chunks in the capture file, not tailed yet
    chunks,             \* chunks written so far, for the bound
    \* the socket
    received,           \* SessionRuns read so far
    mode,               \* [Job -> Mode]
    told,               \* commands whose Cancel was read while they were known
    results,            \* [Job -> Seq(ResultKind)]: Results sent
    \* history
    inherits            \* [Job -> Job or None]: the state a command started with

loopVars == <<pc, running, queued, stateful_running, current, completed>>
taskVars == <<task, cancelled, tail>>
procVars == <<alive, files, marker, unread, chunks>>
wireVars == <<received, mode, told, results>>
vars == <<loopVars, events, taskVars, procVars, wireVars, inherits>>

LoopPc == {"opening", "scheduling", "selecting", "closing", "ended"}
Mode == {"Stateful", "Parallel"}
TaskPc == {"none", "watching", "interrupting", "interrupted", "draining", "aborting",
           "ended"}
TailPc == {"none", "reading", "eof", "ended"}
Files == {"none", "good", "no_state", "no_status"}
ResultKind == {"done", "cancelled", "error"}
\* A SessionEvent::Result is Done or Cancelled.
EventKind == {"Output", "Done", "Cancelled", "Interrupt", "Abort"}
Event(k, j) == [kind |-> k, job |-> j]

Queued == {queued[i] : i \in DOMAIN queued}
\* done_tx was sent, or dropped with the task.
Done(j) == task[j] \in {"draining", "aborting", "ended"}
IsOpen == pc \in {"scheduling", "selecting"}

Init ==
    /\ pc = "opening"
    /\ running = {}
    /\ queued = <<>>
    /\ stateful_running = None
    /\ current = None
    /\ completed = FALSE
    /\ events = <<>>
    /\ task = [j \in Job |-> "none"]
    /\ cancelled = {}
    /\ tail = [j \in Job |-> "none"]
    /\ alive = {}
    /\ files = [j \in Job |-> "none"]
    /\ marker = None
    /\ unread = [j \in Job |-> 0]
    /\ chunks = 0
    /\ received = 0
    /\ mode = [j \in Job |-> "Parallel"]
    /\ told = {}
    /\ results = [j \in Job |-> <<>>]
    /\ inherits = [j \in Job |-> None]

-----------------------------------------------------------------------------
(* How a turn of the loop ends.                                            *)

\* Round again, once what was sent or written in this turn has been taken: by a server
\* that reads its socket, and a shell or a terminal's program that reads its input
\* (write_input).  The wait, while which the loop does nothing else, is part of the
\* time at "scheduling".
Loops == pc' = "scheduling"
\* break: the loop is left, for good.
Breaks == pc' = "closing"
\* A Result is sent.
SendsResult(j, k) == results' = [results EXCEPT ![j] = Append(@, k)]

\* The shell starts and SessionReady is sent; or it does not and both
\* SessionReady and SessionClosed carry the error; or the socket is gone.
OpenSession ==
    /\ pc = "opening"
    /\ \/ Loops
       \/ pc' = "ended"
    /\ UNCHANGED <<running, queued, stateful_running, current, completed, events,
                   taskVars, procVars, wireVars, inherits>>

-----------------------------------------------------------------------------
(* The top of the loop: start what may start.                              *)

\* Mutants of MayStart: the shell's command is overtaken; or it, and every other
\* command too, is waited for.
MayOvertake == queued # <<>> /\ Cardinality(running) < MaxJobs
MayStartAlone == queued # <<>> /\ running = {}

MayStart == queued # <<>> /\ stateful_running = None /\ Cardinality(running) < MaxJobs

\* The command gets a task, a tail and the state of the shell.
Spawn(j) ==
    /\ running' = running \cup {j}
    /\ task' = [task EXCEPT ![j] = "watching"]
    /\ tail' = [tail EXCEPT ![j] = "reading"]
    /\ alive' = alive \cup {j}
    /\ inherits' = [inherits EXCEPT ![j] = current]

StartParallel ==
    LET j == Head(queued) IN
    /\ pc = "scheduling" /\ MayStart
    /\ mode[j] = "Parallel"
    /\ queued' = Tail(queued)
    /\ Spawn(j)
    /\ UNCHANGED <<pc, stateful_running, current, completed, events, cancelled,
                   files, marker, unread, chunks, wireVars>>

\* The script is prepared and sourced; nothing else starts until it is done.
StartStateful ==
    LET j == Head(queued) IN
    /\ pc = "scheduling" /\ MayStart
    /\ mode[j] = "Stateful"
    /\ queued' = Tail(queued)
    /\ Spawn(j)
    /\ stateful_running' = j
    /\ completed' = FALSE
    /\ pc' = "selecting"
    /\ UNCHANGED <<current, events, cancelled, files, marker, unread, chunks,
                   wireVars>>

\* prepare_stateful_job fails: report it, and leave the rest of the queue to the
\* next turn.
SetupFails ==
    LET j == Head(queued) IN
    /\ pc = "scheduling" /\ MayStart
    /\ mode[j] = "Stateful"
    /\ queued' = Tail(queued)
    /\ SendsResult(j, "error")
    /\ pc' = "selecting"
    /\ UNCHANGED <<running, stateful_running, current, completed, events, taskVars,
                   procVars, received, mode, told, inherits>>

\* The shell does not take the command: the session ends.
WriteFails ==
    LET j == Head(queued) IN
    /\ pc = "scheduling" /\ MayStart
    /\ mode[j] = "Stateful"
    /\ queued' = Tail(queued)
    /\ Breaks
    /\ UNCHANGED <<running, stateful_running, current, completed, events, taskVars,
                   procVars, wireVars, inherits>>

NothingToStart ==
    /\ pc = "scheduling" /\ ~MayStart
    /\ pc' = "selecting"
    /\ UNCHANGED <<running, queued, stateful_running, current, completed, events,
                   taskVars, procVars, wireVars, inherits>>

-----------------------------------------------------------------------------
(* The select!: the shell's PTY.                                           *)

\* ShellCompletion.feed finds the marker in the PTY's output and drops it.
ReadMarker ==
    /\ pc = "selecting"
    /\ marker # None
    /\ marker' = None
    /\ completed' = TRUE
    /\ Loops
    /\ UNCHANGED <<running, queued, stateful_running, current, events, taskVars, alive,
                   files, unread, chunks, wireVars, inherits>>

-----------------------------------------------------------------------------
(* The select!: events of the tasks.                                       *)

Receives(k, j) ==
    /\ pc = "selecting"
    /\ events # <<>> /\ Head(events) = Event(k, j)
    /\ events' = Tail(events)

HandleOutput(j) ==
    /\ Receives("Output", j)
    /\ Loops \/ Breaks
    /\ UNCHANGED <<running, queued, stateful_running, current, completed, taskVars,
                   procVars, wireVars, inherits>>

\* The command is done: take over the shell's state, then report.
HandleResult(j, k) ==
    /\ Receives(k, j)
    /\ j = stateful_running => files[j] # "no_state"
    /\ IF j = stateful_running
       THEN current' = j /\ stateful_running' = None
       ELSE UNCHANGED <<current, stateful_running>>
    /\ running' = running \ {j}
    /\ files' = [files EXCEPT ![j] = "none"]
    /\ \/ Loops /\ SendsResult(j, IF k = "Cancelled" THEN "cancelled" ELSE "done")
       \/ Breaks /\ UNCHANGED results
    /\ UNCHANGED <<queued, completed, taskVars, alive, marker, unread, chunks, received,
                   mode, told, inherits>>

\* The snapshot cannot be read: report the error and end the session.
StateUnreadable(j, k) ==
    /\ Receives(k, j)
    /\ j = stateful_running
    /\ files[j] = "no_state"
    /\ SendsResult(j, "error")
    /\ Breaks
    /\ UNCHANGED <<running, queued, stateful_running, current, completed, taskVars,
                   procVars, received, mode, told, inherits>>

\* Ctrl-C.  The line discipline may flush what the PTY holds, the marker too.
HandleInterrupt(j) ==
    /\ Receives("Interrupt", j)
    /\ marker' \in {marker, None}
    /\ Loops
    /\ UNCHANGED <<running, queued, stateful_running, current, completed, taskVars, alive,
                   files, unread, chunks, wireVars, inherits>>

\* The command did not stop: report it and end the session.
HandleAbort(j) ==
    /\ Receives("Abort", j)
    /\ SendsResult(j, "cancelled")
    /\ Breaks
    /\ UNCHANGED <<running, queued, stateful_running, current, completed, taskVars,
                   procVars, received, mode, told, inherits>>

-----------------------------------------------------------------------------
(* The select!: frames from the server.                                    *)

\* Mutant of Rejects: one command too many.
RejectsLate(j) ==
    \/ j \in running \cup Queued
    \/ Cardinality(running) + Len(queued) > MaxJobs

Rejects(j) ==
    \/ j \in running \cup Queued
    \/ Cardinality(running) + Len(queued) >= MaxJobs

\* SessionRun.  Handle ids are unique, and named here in the order of arrival.
ReceiveRun(m) ==
    LET j == received + 1 IN
    /\ pc = "selecting"
    /\ j \in Job
    /\ received' = j
    /\ mode' = [mode EXCEPT ![j] = m]
    /\ IF Rejects(j)
       THEN SendsResult(j, "error") /\ UNCHANGED queued
       ELSE queued' = Append(queued, j) /\ UNCHANGED results
    /\ Loops
    /\ UNCHANGED <<running, stateful_running, current, completed, events, taskVars,
                   procVars, told, inherits>>

\* Mutant of Unqueue: a waiting command is reported, and runs later.
KeepQueued(j) == queued

\* The first entry with that handle id goes.
Unqueue(j) ==
    LET pos == CHOOSE i \in DOMAIN queued :
                   queued[i] = j /\ \A k \in 1..(i - 1) : queued[k] # j
    IN  SubSeq(queued, 1, pos - 1) \o SubSeq(queued, pos + 1, Len(queued))

\* Cancel: signal the task of a running command, report a waiting one.
ReceiveCancel(j) ==
    /\ pc = "selecting"
    /\ j \notin told
    /\ \/ j \in running /\ UNCHANGED <<queued, results>>
       \/ /\ j \in Queued
          /\ queued' = Unqueue(j)
          /\ SendsResult(j, "cancelled")
    /\ told' = told \cup {j}
    /\ Loops
    /\ UNCHANGED <<running, stateful_running, current, completed, events, taskVars,
                   procVars, received, mode, inherits>>

\* A ping, a resize, terminal input or output, or a frame that is ignored.
OtherTurn ==
    /\ pc = "selecting"
    /\ Loops
    /\ UNCHANGED <<running, queued, stateful_running, current, completed, events, taskVars,
                   procVars, wireVars, inherits>>

\* SessionClose arrives, the shell exits, the socket fails or closes, or the
\* lease lapses.
LeaveLoop ==
    /\ pc = "selecting"
    /\ Breaks
    /\ UNCHANGED <<running, queued, stateful_running, current, completed, events, taskVars,
                   procVars, wireVars, inherits>>

\* After the loop: close the channel, signal every task, hang up the shell, wait
\* for the tasks a while, abort the rest and purge the captures.
Cleanup ==
    /\ pc = "closing"
    /\ pc' = "ended"
    /\ events' = <<>>
    /\ task' = [j \in Job |-> IF task[j] = "none" THEN "none" ELSE "ended"]
    /\ tail' = [j \in Job |-> IF tail[j] = "none" THEN "none" ELSE "ended"]
    /\ alive' = {}
    /\ marker' = None
    /\ queued' = <<>> /\ running' = {}
    /\ cancelled' = {}
    /\ files' = [j \in Job |-> "none"]
    /\ unread' = [j \in Job |-> 0]
    /\ UNCHANGED <<stateful_running, current, completed, chunks, wireVars, inherits>>

-----------------------------------------------------------------------------
(* The tasks of a command.  What they do while the loop cleans up after    *)
(* itself is of no consequence, and left out.                              *)

\* Mutant of Post: Results overtake the events before them.
PostFirst(k, j) ==
    /\ Len(events) < Capacity
    /\ events' = IF k \in {"Done", "Cancelled"}
                 THEN <<Event(k, j)>> \o events
                 ELSE Append(events, Event(k, j))

\* Send an event, once the channel has room.
Post(k, j) ==
    /\ Len(events) < Capacity
    /\ events' = Append(events, Event(k, j))

TaskMoves(j, from, to) == IsOpen /\ task[j] = from /\ task' = [task EXCEPT ![j] = to]
TaskOnly(j, from, to) ==
    /\ TaskMoves(j, from, to)
    /\ UNCHANGED <<loopVars, tail, files, marker, wireVars, inherits>>

\* exec::run: the process has exited, and no cancel was there first.
ParallelEnds(j) ==
    /\ mode[j] = "Parallel"
    /\ j \notin alive /\ j \notin told
    /\ TaskOnly(j, "watching", "draining")
    /\ UNCHANGED <<events, cancelled, alive, unread, chunks>>

\* SIGTERM, a grace period, SIGKILL, then a notice in the output.
ParallelCancel(j) ==
    /\ mode[j] = "Parallel"
    /\ j \in told
    /\ TaskOnly(j, "watching", "draining")
    /\ cancelled' = cancelled \cup {j}
    /\ alive' = alive \ {j}
    /\ unread' = [unread EXCEPT ![j] = @ + 1]
    /\ UNCHANGED <<events, chunks>>

\* watch_stateful_job: the marker was seen and the status file can be read.
IsComplete(j) == completed /\ files[j] # "no_status"

StatefulEnds(j) ==
    /\ mode[j] = "Stateful"
    /\ IsComplete(j)
    /\ \E from \in {"watching", "interrupted"} : TaskOnly(j, from, "draining")
    /\ UNCHANGED <<events, cancelled, alive, unread, chunks>>

StatefulCancel(j) ==
    /\ mode[j] = "Stateful"
    /\ ~IsComplete(j)
    /\ j \in told
    /\ TaskOnly(j, "watching", "interrupting")
    /\ cancelled' = cancelled \cup {j}
    /\ UNCHANGED <<events, alive, unread, chunks>>

SendInterrupt(j) ==
    /\ TaskOnly(j, "interrupting", "interrupted")
    /\ Post("Interrupt", j)
    /\ UNCHANGED <<cancelled, alive, unread, chunks>>

\* Mutant of Overdue: there is no deadline.
NeverOverdue(j) == FALSE

\* The grace period after the interrupt is over.
Overdue(j) == ~IsComplete(j)

\* abandon_stateful_job: the tails are aborted.
StatefulAbandon(j) ==
    /\ Overdue(j)
    /\ TaskMoves(j, "interrupted", "aborting")
    /\ tail' = [tail EXCEPT ![j] = "ended"]
    /\ UNCHANGED <<loopVars, events, cancelled, procVars, wireVars, inherits>>

SendAbort(j) ==
    /\ TaskOnly(j, "aborting", "ended")
    /\ Post("Abort", j)
    /\ UNCHANGED <<cancelled, alive, unread, chunks>>

\* Mutant of Drained: nobody waits for the tails.
NotDrained(j) == TRUE

\* Both tails were joined.
Drained(j) == tail[j] = "ended"

SendReport(j) ==
    /\ Drained(j)
    /\ TaskOnly(j, "draining", "ended")
    /\ Post(IF j \in cancelled THEN "Cancelled" ELSE "Done", j)
    /\ cancelled' = cancelled \ {j}
    /\ UNCHANGED <<alive, unread, chunks>>

TailOnly(j, from, to) ==
    /\ IsOpen
    /\ tail[j] = from
    /\ tail' = [tail EXCEPT ![j] = to]
    /\ UNCHANGED <<loopVars, task, cancelled, alive, files, marker, chunks, wireVars,
                   inherits>>

\* tail_capture reads a chunk, or finds the end of the file and then looks
\* whether the command is done.
TailReads(j) ==
    /\ unread[j] > 0
    /\ TailOnly(j, "reading", "reading")
    /\ Post("Output", j)
    /\ unread' = [unread EXCEPT ![j] = @ - 1]

\* A chunk of a process that the command left in the background, with its output:
\* written and read at once.
TailNoise(j) ==
    /\ Done(j)
    /\ TailOnly(j, "reading", "reading")
    /\ Post("Output", j)
    /\ UNCHANGED unread

TailAtEnd(j) ==
    /\ unread[j] = 0
    /\ TailOnly(j, "reading", "eof")
    /\ UNCHANGED <<events, unread>>

TailLooks(j) ==
    /\ TailOnly(j, "eof", IF Done(j) THEN "ended" ELSE "reading")
    /\ UNCHANGED <<events, unread>>

-----------------------------------------------------------------------------
(* The processes.                                                          *)

Writes(j) ==
    /\ IsOpen /\ j \in alive
    /\ chunks < MaxChunks
    /\ chunks' = chunks + 1
    /\ unread' = [unread EXCEPT ![j] = @ + 1]
    /\ UNCHANGED <<loopVars, events, taskVars, alive, files, marker, wireVars, inherits>>

ProcessExits(j) ==
    /\ IsOpen /\ j \in alive
    /\ mode[j] = "Parallel"
    /\ alive' = alive \ {j}
    /\ UNCHANGED <<loopVars, events, taskVars, files, marker, unread, chunks, wireVars,
                   inherits>>

\* The shell has sourced the script, written its snapshot and status files (which
\* the command may have spoilt) and printed the marker.
ScriptEnds(j, f) ==
    /\ IsOpen /\ j \in alive
    /\ mode[j] = "Stateful"
    /\ alive' = alive \ {j}
    /\ files' = [files EXCEPT ![j] = f]
    /\ marker' = j
    /\ UNCHANGED <<loopVars, events, taskVars, unread, chunks, wireVars, inherits>>

-----------------------------------------------------------------------------
Schedule ==
    StartParallel \/ StartStateful \/ SetupFails \/ WriteFails \/ NothingToStart

HandleEvent(j) ==
    \/ HandleOutput(j) \/ HandleInterrupt(j) \/ HandleAbort(j)
    \/ \E k \in {"Done", "Cancelled"} : HandleResult(j, k) \/ StateUnreadable(j, k)

\* What the task of a command does unless it waits for a process that it has killed.
TaskGoesOn(j) ==
    \/ ParallelEnds(j)
    \/ StatefulEnds(j) \/ StatefulCancel(j) \/ SendInterrupt(j) \/ StatefulAbandon(j)
    \/ SendAbort(j) \/ SendReport(j)

TaskStep(j) == ParallelCancel(j) \/ TaskGoesOn(j)

TailStep(j) == TailReads(j) \/ TailNoise(j) \/ TailAtEnd(j) \/ TailLooks(j)

ProcessStep(j) ==
    \/ Writes(j) \/ ProcessExits(j)
    \/ \E f \in Files \ {"none"} : ScriptEnds(j, f)

Ended == pc = "ended" /\ UNCHANGED vars

Next ==
    \/ OpenSession \/ Schedule \/ ReadMarker \/ (\E m \in Mode : ReceiveRun(m))
    \/ OtherTurn \/ LeaveLoop \/ Cleanup \/ Ended
    \/ \E j \in Job : HandleEvent(j) \/ ReceiveCancel(j)
    \/ \E j \in Job : TaskStep(j) \/ TailStep(j) \/ ProcessStep(j)

Spec == Init /\ [][Next]_vars

(***************************************************************************)
(* The runtime goes on with every task that can go on.  A branch of the    *)
(* select! that is ready time and again is taken in the end (tokio picks   *)
(* among the ready ones at random), and tokio's channel gives its room to  *)
(* its senders in the order they asked.  The server pings a worker that    *)
(* has a session, so there is always another turn.  Nothing is assumed of  *)
(* the commands and of the server: commands need not end nor their         *)
(* processes die, what they leave in the background may write for ever,    *)
(* and a write of the loop may wait for ever, so that nothing is assumed   *)
(* of Schedule.                                                            *)
(***************************************************************************)
Fairness ==
    /\ WF_vars(OpenSession) /\ WF_vars(OtherTurn) /\ WF_vars(Cleanup)
    /\ SF_vars(ReadMarker \/ \E j \in Job : HandleEvent(j))
    /\ \A j \in Job : SF_vars(TaskGoesOn(j)) /\ SF_vars(TailStep(j))

FairSpec == Spec /\ Fairness

-----------------------------------------------------------------------------
(* Properties.                                                             *)

\* The shape of the session's state: the queue and the running map together
\* never hold more than MaxJobs commands, the channel no more than Capacity.
TypeOK ==
    /\ pc \in LoopPc
    /\ running \subseteq Job
    /\ queued \in Seq(Job)
    /\ Cardinality(running) + Len(queued) <= MaxJobs
    /\ stateful_running \in Job \cup {None}
    /\ current \in Job \cup {None}
    /\ completed \in BOOLEAN
    /\ events \in Seq([kind : EventKind, job : Job])
    /\ Len(events) <= Capacity
    /\ task \in [Job -> TaskPc]
    /\ cancelled \subseteq Job
    /\ tail \in [Job -> TailPc]
    /\ alive \subseteq Job
    /\ files \in [Job -> Files]
    /\ marker \in Job \cup {None}
    /\ unread \in [Job -> 0..(MaxChunks + 1)]
    /\ chunks \in 0..MaxChunks
    /\ received \in 0..Commands
    /\ mode \in [Job -> Mode]
    /\ told \subseteq Job
    /\ results \in [Job -> Seq(ResultKind)]
    /\ inherits \in [Job -> Job \cup {None}]

Started == {j \in Job : task[j] # "none"}
\* Stateful commands that have left the shell with a state of their own.
HasRun(j) == mode[j] = "Stateful" /\ j \in Started /\ results[j] # <<>>

\* "Commands in a session start in the order they are submitted" and wait for
\* the stateful commands before them, whose directory and variables they start
\* with (README.md, Command ordering): behind a command that has started, no
\* earlier one waits, no earlier stateful one still has the shell, and it
\* inherited from the last stateful command before it that ran.
StartsInOrder ==
    \A j \in Started : \A i \in 1..(j - 1) :
        /\ i \notin Queued
        /\ stateful_running # i
        /\ HasRun(i) => inherits[j] >= i
        /\ inherits[j] = i => mode[i] = "Stateful"

\* Every accepted command is answered exactly once: while the session is open, a
\* command that arrived is waiting, running, or has one Result; later it has one
\* at most.  A Result says cancelled only of a command whose Cancel arrived.
AnsweredOnce ==
    \A j \in Job :
        /\ Len(results[j]) <= 1
        /\ IsOpen /\ j <= received => (results[j] = <<>> <=> j \in running \cup Queued)
        /\ results[j] = <<"cancelled">> => j \in told

\* The interrupt of a cancelled stateful command cannot hit a later one: while
\* it is on its way to the shell, the command it is meant for has the shell
\* (watch_stateful_job, SessionEvent::Interrupt).
InterruptsOwn ==
    \A i \in DOMAIN events :
        IsOpen /\ events[i].kind = "Interrupt" => stateful_running = events[i].job

\* No output follows the Result of its command, or the server, which has freed
\* the inflight entry, would drop it (run_session_job, route_output).
OutputBeforeResult ==
    \A i \in DOMAIN events : events[i].kind = "Output" => results[events[i].job] = <<>>

\* All the output of a command is sent before its Result: "Output is redirected
\* to local files, tailed into the dispatch socket, and spooled by the server"
\* (prepare_stateful_job).
OutputComplete ==
    \A i \in DOMAIN events : events[i].kind = "Done" => unread[events[i].job] = 0

\* The loop is never held for good by what it sends or writes.
WritesEnd == []<>(pc # "scheduling")

\* exec::run was told to cancel, and waits for the exit of the process, SIGKILL and all.
BeingKilled(j) == mode[j] = "Parallel" /\ task[j] = "watching" /\ j \in told

\* The command is over, and its tails have not met the end of its output.
StillTailed(j) == Done(j) /\ tail[j] = "reading"

\* A cancel takes effect: the command is reported, or the session ends, whatever the
\* command does (watch_stateful_job's abort, wait_with_signals' SIGKILL), unless one of
\* three waits that nothing bounds never ends: the loop's for a write, exec::run's for a
\* process that SIGKILL does not end, and run_session_job's and watch_stateful_job's for
\* the tails of a command whose background processes go on writing.
CancelEnds ==
    \A j \in Job :
        WritesEnd /\ []<>~BeingKilled(j) /\ []<>~StillTailed(j) =>
            (j \in told ~> results[j] # <<>> \/ pc = "ended")

\* Nothing but a stateful command and a write that waits hold the queue back: if the
\* shell and the loop are free time and again, every waiting command starts, is
\* answered, or the session ends.
QueueMoves ==
    []<>(stateful_running = None) /\ WritesEnd =>
        \A j \in Job : j \in Queued ~> j \notin Queued \/ pc = "ended"
=============================================================================
