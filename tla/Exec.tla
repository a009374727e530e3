-------------------------------- MODULE Exec --------------------------------
(***************************************************************************)
(* The two older ways to use a worker of the pool, without a session:      *)
(* dispatch runs one command (shiitake-server/src/pool/mod.rs and          *)
(* http/exec.rs), acquire_pinned and release_pinned hold a worker for an   *)
(* interactive shell (http/pty.rs).  Both take workers from the idle queue *)
(* that sessions use, and the sweeper cancels and purges the handles of    *)
(* the commands.                                                           *)
(*                                                                         *)
(* An action is one critical section of the pool's mutex, or one await     *)
(* between two of them; a cancel and a Result, whose own two sections are  *)
(* taken apart in Pool, are one action each, and so are the section and    *)
(* the eviction after a failed Execute.  The sweeper works on one          *)
(* handle at a time, with the snapshot it took of it.  A session appears   *)
(* as a holder that takes an entry and brings it back.                     *)
(*                                                                         *)
(* The idle queue is abstracted to a bag: any entry may be the next one.   *)
(***************************************************************************)
EXTENDS Naturals, Sequences

CONSTANTS
    Worker,     \* worker ids, stable across reconnects
    Conn,       \* WebSocket connections, each used once
    WorkerOf,   \* [Conn -> Worker]
    Handle,     \* commands, by their handle ids
    Pty,        \* calls of the pty handler
    Sessions,   \* BOOLEAN: do sessions use the pool as well
    Env,        \* what the environment may do, a subset of EnvBehaviours
    None        \* no connection, handle or PTY

(***************************************************************************)
(* overlap: a worker may register again while a handler of the server      *)
(*          still holds its previous connection;                           *)
(* abandon: a client may hang up and so drop the future of its dispatch;   *)
(* hasty:   the worker may take longer than the 5 s that the pty handler   *)
(*          waits for it after a PtyClose;                                 *)
(* disk:    the capture files of a command may fail to be created.         *)
(***************************************************************************)
EnvBehaviours == {"overlap", "abandon", "hasty", "disk"}

ASSUME ExecAssumption ==
    /\ WorkerOf \in [Conn -> Worker]
    /\ Sessions \in BOOLEAN
    /\ Env \subseteq EnvBehaviours
    /\ None \notin Worker \cup Conn \cup Handle \cup Pty

VARIABLES
    idle,               \* [Conn -> Nat]: entries of the idle queue
    liveness,           \* [Worker -> Conn or None]
    inflight,           \* [Handle -> Conn or None]
    handles,            \* [Handle -> HandleState]
    cancel_requested,   \* SUBSET Handle
    polled,             \* handles polled within the sweeper's TTL
    pty_sessions,       \* [Worker -> Pty or None]: whose channel gets the output
    leased,             \* connections that a session holds
    dispatch,           \* [Handle -> DispatchPc]
    taken,              \* [Handle -> Conn or None]: the entry dispatch popped
    serve,              \* [Pty -> ServePc]
    pinned,             \* [Pty -> Conn or None]: the PinnedSession
    event,              \* [Pty -> {"none", "exit", "closed"}]: its channel
    sweep,              \* the sweeper: [handle, status, stage]
    loop,               \* [Conn -> LoopPc]: read loops
    pending,            \* [Conn -> SUBSET Handle]: what its drop has to fill in
    evict,              \* connections with a permit in their shutdown Notify
    up,                 \* connections whose worker holds the socket
    toWorker,           \* [Conn -> Seq(Frame)]
    toServer,           \* [Conn -> Seq(Frame)]
    far                 \* [Worker -> [pc, job]]: the process at the far end

poolVars == <<idle, liveness, inflight, handles, cancel_requested, polled, pty_sessions, leased>>
handlerVars == <<dispatch, taken, serve, pinned, event, sweep>>
loopVars == <<loop, pending, evict>>
farVars == <<up, toWorker, toServer, far>>
vars == <<poolVars, handlerVars, loopVars, farVars>>

DispatchPc == {"none", "setup", "sending", "done", "failed", "abandoned"}
ServePc == {"none", "opening", "splicing", "hangup", "closing", "releasing", "over"}
LoopPc == {"new", "reading", "drop1", "drop2", "fill", "ended"}
Terminal == {"Finished", "WorkerDied"}
HandleState == {"Absent", "Running", "Purged"} \cup Terminal

\* Work that the worker is sent, its reports, named after it, and the other frames.
Frame(kind, id) == [kind |-> kind, id |-> id]
WorkFrame ==
    {Frame("Execute", h) : h \in Handle} \cup {Frame("PtyOpen", p) : p \in Pty}
        \cup {Frame("SessionOpen", None)}
ControlFrame == {Frame("Cancel", h) : h \in Handle} \cup {Frame("PtyClose", p) : p \in Pty}
NoFrame == Frame("none", None)
Idle == [pc |-> "idle", job |-> NoFrame]
Off == [pc |-> "off", job |-> NoFrame]
NoSweep == [handle |-> None, status |-> "Absent", stage |-> "none"]

Init ==
    /\ idle = [c \in Conn |-> 0]
    /\ liveness = [w \in Worker |-> None]
    /\ inflight = [h \in Handle |-> None]
    /\ handles = [h \in Handle |-> "Absent"]
    /\ cancel_requested = {}
    /\ polled = {}
    /\ pty_sessions = [w \in Worker |-> None]
    /\ leased = {}
    /\ dispatch = [h \in Handle |-> "none"]
    /\ taken = [h \in Handle |-> None]
    /\ serve = [p \in Pty |-> "none"]
    /\ pinned = [p \in Pty |-> None]
    /\ event = [p \in Pty |-> "none"]
    /\ sweep = NoSweep
    /\ loop = [c \in Conn |-> "new"]
    /\ pending = [c \in Conn |-> {}]
    /\ evict = {}
    /\ up = {}
    /\ toWorker = [c \in Conn |-> <<>>]
    /\ toServer = [c \in Conn |-> <<>>]
    /\ far = [w \in Worker |-> Off]

\* The idle queue with another entry of c, and with one less.
Pushed(c) == [idle EXCEPT ![c] = @ + 1]
Popped(c) == [idle EXCEPT ![c] = @ - 1]

-----------------------------------------------------------------------------
(* Connections.                                                            *)

\* The server still does something with connection c.
Handled(c) ==
    \/ loop[c] \notin {"new", "ended"}
    \/ c \in leased
    \/ \E h \in Handle : taken[h] = c /\ dispatch[h] \in {"setup", "sending"}
    \/ \E p \in Pty : pinned[p] = c /\ serve[p] \notin {"none", "over"}

\* register_and_run, after the Hello.
Register(c) ==
    LET w == WorkerOf[c] IN
    /\ loop[c] = "new"
    /\ far[w].pc = "off"
    /\ liveness[w] = None
    /\ "overlap" \in Env \/ \A d \in Conn : WorkerOf[d] = w => ~Handled(d)
    /\ idle' = Pushed(c)
    /\ liveness' = [liveness EXCEPT ![w] = c]
    /\ loop' = [loop EXCEPT ![c] = "reading"]
    /\ up' = up \cup {c}
    /\ far' = [far EXCEPT ![w] = Idle]
    /\ UNCHANGED <<inflight, handles, cancel_requested, polled, pty_sessions, leased, handlerVars,
                   pending, evict, toWorker, toServer>>

\* A frame for the worker; into a dead socket it may go without an error.
Send(c, frame) ==
    toWorker' = IF c \in up THEN [toWorker EXCEPT ![c] = Append(@, frame)] ELSE toWorker

\* run_keepalive pings what is idle, in flight or leased, but no pinned worker.
KeepaliveEvicts(c) ==
    /\ c \notin up
    /\ c \notin evict
    /\ liveness[WorkerOf[c]] = c
    /\ \/ idle[c] > 0
       \/ \E h \in Handle : inflight[h] = c
       \/ c \in leased
    /\ evict' = evict \cup {c}
    /\ UNCHANGED <<poolVars, handlerVars, loop, pending, farVars>>

\* The stream has ended, or the permit is there.
LoopEnds(c) ==
    /\ loop[c] = "reading"
    /\ c \in evict \/ (c \notin up /\ toServer[c] = <<>>)
    /\ loop' = [loop EXCEPT ![c] = "drop1"]
    /\ UNCHANGED <<poolVars, handlerVars, pending, evict, farVars>>

\* handle_worker_drop takes what is in flight on the worker, by its id.
Drop1(c) ==
    LET hit == {h \in Handle : inflight[h] # None /\ WorkerOf[inflight[h]] = WorkerOf[c]} IN
    /\ loop[c] = "drop1"
    /\ inflight' = [h \in Handle |-> IF h \in hit THEN None ELSE inflight[h]]
    /\ pending' = [pending EXCEPT ![c] = hit]
    /\ loop' = [loop EXCEPT ![c] = "drop2"]
    /\ UNCHANGED <<idle, liveness, handles, cancel_requested, polled, pty_sessions, leased,
                   handlerVars, evict, farVars>>

\* Its second section: the idle entries, the session, the PTY's channel (with a
\* full backlog the Exit is dropped and only the channel closes), liveness.
Drop2(c) ==
    LET w == WorkerOf[c]
        p == pty_sessions[w] IN
    /\ loop[c] = "drop2"
    /\ idle' = [d \in Conn |-> IF WorkerOf[d] = w THEN 0 ELSE idle[d]]
    /\ leased' = {d \in leased : WorkerOf[d] # w}
    /\ pty_sessions' = [pty_sessions EXCEPT ![w] = None]
    /\ \/ p = None /\ UNCHANGED event
       \/ p # None /\ \E e \in {"exit", "closed"} : event' = [event EXCEPT ![p] = e]
    /\ liveness' = [liveness EXCEPT ![w] = None]
    /\ loop' = [loop EXCEPT ![c] = "fill"]
    /\ UNCHANGED <<inflight, handles, cancel_requested, polled, dispatch, taken, serve, pinned,
                   sweep, pending, evict, farVars>>

\* Mutant of Fill: the drop forgets the handles it took.
FillNothing(c) ==
    /\ loop[c] = "fill"
    /\ loop' = [loop EXCEPT ![c] = "ended"]
    /\ pending' = [pending EXCEPT ![c] = {}]
    /\ UNCHANGED <<poolVars, handlerVars, evict, farVars>>

\* Its end: handles that still run are filled in.
Fill(c) ==
    /\ loop[c] = "fill"
    /\ handles' = [h \in Handle |-> IF h \in pending[c] /\ handles[h] = "Running"
                                    THEN "WorkerDied" ELSE handles[h]]
    /\ loop' = [loop EXCEPT ![c] = "ended"]
    /\ pending' = [pending EXCEPT ![c] = {}]
    /\ UNCHANGED <<idle, liveness, inflight, cancel_requested, polled, pty_sessions, leased,
                   handlerVars, evict, farVars>>

\* Mutant of ReadResult: the inflight entry stays.
ReadResultKeeps(c, h) ==
    /\ idle' = IF inflight[h] = None THEN idle ELSE Pushed(inflight[h])
    /\ handles' = IF handles[h] = "Running" THEN [handles EXCEPT ![h] = "Finished"] ELSE handles
    /\ UNCHANGED <<inflight, leased, event>>

\* complete_request: whatever became of the handle, the worker is idle again.
ReadResult(c, h) ==
    /\ IF inflight[h] = None
       THEN UNCHANGED <<idle, inflight>>
       ELSE /\ idle' = Pushed(inflight[h])
            /\ inflight' = [inflight EXCEPT ![h] = None]
    /\ handles' = IF handles[h] = "Running" THEN [handles EXCEPT ![h] = "Finished"] ELSE handles
    /\ UNCHANGED <<leased, event>>

\* A PtyExit goes to the session that has the worker now: its id is not compared.
ReadPtyExit(c) ==
    LET p == pty_sessions[WorkerOf[c]] IN
    /\ event' = IF p = None THEN event ELSE [event EXCEPT ![p] = "exit"]
    /\ UNCHANGED <<idle, inflight, handles, leased>>

\* session_closed, reusable.
ReadSessionClosed(c) ==
    /\ leased' = leased \ {c}
    /\ idle' = IF c \in leased /\ liveness[WorkerOf[c]] # None THEN Pushed(c) ELSE idle
    /\ UNCHANGED <<inflight, handles, event>>

ReadFrame(c) ==
    /\ loop[c] = "reading"
    /\ toServer[c] # <<>>
    /\ toServer' = [toServer EXCEPT ![c] = Tail(@)]
    /\ LET frame == Head(toServer[c]) IN
       \/ frame.kind = "Execute" /\ ReadResult(c, frame.id)
       \/ frame.kind = "PtyOpen" /\ ReadPtyExit(c)
       \/ frame.kind = "SessionOpen" /\ ReadSessionClosed(c)
    /\ UNCHANGED <<liveness, cancel_requested, polled, pty_sessions, dispatch, taken, serve,
                   pinned, sweep, loopVars, up, toWorker, far>>

-----------------------------------------------------------------------------
(* dispatch, and a session as another user of the queue.                   *)

\* An idle worker is popped, before the capture files exist.
DispatchTake(h, c) ==
    /\ dispatch[h] = "none"
    /\ idle[c] > 0
    /\ taken' = [taken EXCEPT ![h] = c]
    /\ idle' = Popped(c)
    /\ dispatch' = [dispatch EXCEPT ![h] = "setup"]
    /\ UNCHANGED <<liveness, inflight, handles, cancel_requested, polled, pty_sessions, leased,
                   serve, pinned, event, sweep, loopVars, farVars>>

\* The files could not be created: the entry goes back, connected or not.
SetupFails(h) ==
    /\ "disk" \in Env
    /\ dispatch[h] = "setup"
    /\ idle' = Pushed(taken[h])
    /\ dispatch' = [dispatch EXCEPT ![h] = "failed"]
    /\ UNCHANGED <<liveness, inflight, handles, cancel_requested, polled, pty_sessions, leased,
                   taken, serve, pinned, event, sweep, loopVars, farVars>>

\* The handle and its inflight entry are registered before the send.
DispatchRegister(h) ==
    /\ dispatch[h] = "setup"
    /\ inflight' = [inflight EXCEPT ![h] = taken[h]]
    /\ handles' = [handles EXCEPT ![h] = "Running"]
    /\ polled' = polled \cup {h}
    /\ dispatch' = [dispatch EXCEPT ![h] = "sending"]
    /\ UNCHANGED <<idle, liveness, cancel_requested, pty_sessions, leased, taken, serve, pinned,
                   event, sweep, loopVars, farVars>>

\* The Execute is sent.
DispatchSend(h) ==
    /\ dispatch[h] = "sending"
    /\ Send(taken[h], Frame("Execute", h))
    /\ dispatch' = [dispatch EXCEPT ![h] = "done"]
    /\ UNCHANGED <<poolVars, taken, serve, pinned, event, sweep, loopVars, up, toServer, far>>

\* Mutant of DispatchSendFails: the eviction takes for granted that it is connected.
EvictUnknown(h) ==
    /\ dispatch[h] = "sending"
    /\ taken[h] \notin up
    /\ inflight' = [inflight EXCEPT ![h] = None]
    /\ handles' = [handles EXCEPT ![h] = "Purged"]
    /\ evict' = evict \cup {liveness[WorkerOf[taken[h]]]}
    /\ dispatch' = [dispatch EXCEPT ![h] = "failed"]
    /\ UNCHANGED <<idle, liveness, cancel_requested, polled, pty_sessions, leased, taken, serve,
                   pinned, event, sweep, loop, pending, farVars>>

\* The send fails: everything is undone, and the worker, by its id, evicted.
DispatchSendFails(h) ==
    LET now == liveness[WorkerOf[taken[h]]] IN
    /\ dispatch[h] = "sending"
    /\ taken[h] \notin up
    /\ inflight' = [inflight EXCEPT ![h] = None]
    /\ handles' = [handles EXCEPT ![h] = "Purged"]
    /\ evict' = evict \cup ({now} \ {None})
    /\ dispatch' = [dispatch EXCEPT ![h] = "failed"]
    /\ UNCHANGED <<idle, liveness, cancel_requested, polled, pty_sessions, leased, taken, serve,
                   pinned, event, sweep, loop, pending, farVars>>

\* The client hangs up: the future is dropped where it waits.
Abandon(h) ==
    /\ "abandon" \in Env
    /\ dispatch[h] \in {"setup", "sending"}
    /\ dispatch' = [dispatch EXCEPT ![h] = "abandoned"]
    /\ UNCHANGED <<poolVars, taken, serve, pinned, event, sweep, loopVars, farVars>>

\* create_session takes an entry; ReadSessionClosed brings it back.
SessionTakes(c) ==
    /\ Sessions
    /\ idle[c] > 0
    /\ leased' = leased \cup {c}
    /\ idle' = Popped(c)
    /\ Send(c, Frame("SessionOpen", None))
    /\ UNCHANGED <<liveness, inflight, handles, cancel_requested, polled, pty_sessions,
                   handlerVars, loopVars, up, toServer, far>>

-----------------------------------------------------------------------------
(* Handles: polls, cancels and the sweeper.                                *)

\* Every GET for the handle.
Poll(h) ==
    /\ handles[h] \notin {"Absent", "Purged"}
    /\ h \notin polled
    /\ polled' = polled \cup {h}
    /\ UNCHANGED <<idle, liveness, inflight, handles, cancel_requested, pty_sessions, leased,
                   handlerVars, loopVars, farVars>>

\* Time passes without a poll.
TtlPasses(h) ==
    /\ h \in polled
    /\ polled' = polled \ {h}
    /\ UNCHANGED <<idle, liveness, inflight, handles, cancel_requested, pty_sessions, leased,
                   handlerVars, loopVars, farVars>>

\* cancel: once per handle, and only while it runs.
Cancel(h) ==
    IF handles[h] = "Running" /\ h \notin cancel_requested
    THEN /\ cancel_requested' = cancel_requested \cup {h}
         /\ IF inflight[h] = None THEN UNCHANGED toWorker
                                  ELSE Send(inflight[h], Frame("Cancel", h))
    ELSE UNCHANGED <<cancel_requested, toWorker>>

\* DELETE of a handle that its client knows.
Kill(h) ==
    /\ dispatch[h] = "done"
    /\ handles[h] = "Running" /\ h \notin cancel_requested
    /\ Cancel(h)
    /\ UNCHANGED <<idle, liveness, inflight, handles, polled, pty_sessions, leased, handlerVars,
                   loopVars, up, toServer, far>>

\* list_snapshots.
SweepSnapshot(h) ==
    /\ sweep = NoSweep
    /\ handles[h] \notin {"Absent", "Purged"}
    /\ sweep' = [handle |-> h, status |-> handles[h], stage |-> "look"]
    /\ UNCHANGED <<poolVars, dispatch, taken, serve, pinned, event, loopVars, farVars>>

\* Mutant of SweepLooks: the age decides, whatever the status was.
SweepLooksAtAge ==
    LET h == sweep.handle IN
    /\ sweep.stage = "look"
    /\ sweep' = IF h \in polled \/ handles[h] \in {"Absent", "Purged"} THEN NoSweep
                ELSE [sweep EXCEPT !.stage = "act", !.status = "Finished"]
    /\ UNCHANGED <<poolVars, dispatch, taken, serve, pinned, event, loopVars, farVars>>

\* last_polled, read when the snapshot is already old; a vanished handle is young.
SweepLooks ==
    LET h == sweep.handle IN
    /\ sweep.stage = "look"
    /\ sweep' = IF h \in polled \/ handles[h] \in {"Absent", "Purged"} THEN NoSweep
                ELSE [sweep EXCEPT !.stage = "act"]
    /\ UNCHANGED <<poolVars, dispatch, taken, serve, pinned, event, loopVars, farVars>>

\* Cancel or purge, by the status in the snapshot.
SweepActs ==
    LET h == sweep.handle IN
    /\ sweep.stage = "act"
    /\ sweep' = NoSweep
    /\ \/ /\ sweep.status = "Running"
          /\ Cancel(h)
          /\ UNCHANGED handles
       \/ /\ sweep.status \in Terminal
          /\ handles' = [handles EXCEPT ![h] = "Purged"]
          /\ UNCHANGED <<cancel_requested, toWorker>>
    /\ UNCHANGED <<idle, liveness, inflight, polled, pty_sessions, leased, dispatch, taken, serve,
                   pinned, event, loopVars, up, toServer, far>>

-----------------------------------------------------------------------------
(* The pty handler.                                                        *)

Serving(p, pc) == serve' = [serve EXCEPT ![p] = pc]

\* acquire_pinned, once the client has sent its open frame.
PtyPin(p, c) ==
    /\ serve[p] = "none"
    /\ idle[c] > 0
    /\ pinned' = [pinned EXCEPT ![p] = c]
    /\ pty_sessions' = [pty_sessions EXCEPT ![WorkerOf[c]] = p]
    /\ idle' = Popped(c)
    /\ Serving(p, "opening")
    /\ UNCHANGED <<liveness, inflight, handles, cancel_requested, polled, leased, dispatch, taken,
                   event, sweep, loopVars, farVars>>

\* Mutant of PtyOpens: an unreachable worker is not released.
PtyOpensOrReturns(p) ==
    /\ serve[p] = "opening"
    /\ \/ Send(pinned[p], Frame("PtyOpen", p)) /\ Serving(p, "splicing")
       \/ pinned[p] \notin up /\ Serving(p, "over") /\ UNCHANGED toWorker
    /\ UNCHANGED <<poolVars, dispatch, taken, pinned, event, sweep, loopVars, up, toServer, far>>

\* PtyOpen is sent, or the worker is unreachable.
PtyOpens(p) ==
    /\ serve[p] = "opening"
    /\ \/ Send(pinned[p], Frame("PtyOpen", p)) /\ Serving(p, "splicing")
       \/ pinned[p] \notin up /\ Serving(p, "releasing") /\ UNCHANGED toWorker
    /\ UNCHANGED <<poolVars, dispatch, taken, pinned, event, sweep, loopVars, up, toServer, far>>

\* The client leaves, or the worker's socket refuses a frame.
PtyLeft(p) ==
    /\ serve[p] = "splicing"
    /\ Serving(p, "hangup")
    /\ UNCHANGED <<poolVars, dispatch, taken, pinned, event, sweep, loopVars, farVars>>

\* Mutant of PtyHangsUp: the worker is handed back without waiting for it.
PtyHangsUpOnly(p) ==
    /\ serve[p] = "hangup"
    /\ Send(pinned[p], Frame("PtyClose", p))
    /\ Serving(p, "releasing")
    /\ UNCHANGED <<poolVars, dispatch, taken, pinned, event, sweep, loopVars, up, toServer, far>>

\* PtyClose asks the worker to hang up the shell and to reset.
PtyHangsUp(p) ==
    /\ serve[p] = "hangup"
    /\ Send(pinned[p], Frame("PtyClose", p))
    /\ Serving(p, "closing")
    /\ UNCHANGED <<poolVars, dispatch, taken, pinned, event, sweep, loopVars, up, toServer, far>>

\* session.recv: the Exit, or the end of the channel.
PtySeesEnd(p) ==
    /\ serve[p] \in {"splicing", "closing"}
    /\ event[p] # "none"
    /\ Serving(p, "releasing")
    /\ UNCHANGED <<poolVars, dispatch, taken, pinned, event, sweep, loopVars, farVars>>

\* Mutant of PtyTimeout: the handler waits for the Exit as long as it takes.
PtyWaits(p) == FALSE /\ UNCHANGED vars

\* No Exit within 5 s.
PtyTimeout(p) ==
    /\ serve[p] = "closing"
    /\ event[p] = "none"
    /\ "hasty" \in Env \/ pinned[p] \notin up
    /\ Serving(p, "releasing")
    /\ UNCHANGED <<poolVars, dispatch, taken, pinned, event, sweep, loopVars, farVars>>

\* Removing the map's sender ends the channel of the PTY that has the worker now.
ChannelCloses(w) ==
    LET q == pty_sessions[w] IN
    /\ pty_sessions' = [pty_sessions EXCEPT ![w] = None]
    /\ event' = IF q = None \/ event[q] # "none" THEN event ELSE [event EXCEPT ![q] = "closed"]

\* release_pinned: by the worker's id, whatever connection it has by now.
PtyRelease(p) ==
    LET w == WorkerOf[pinned[p]] IN
    /\ serve[p] = "releasing"
    /\ ChannelCloses(w)
    /\ idle' = IF liveness[w] # None THEN Pushed(pinned[p]) ELSE idle
    /\ Serving(p, "over")
    /\ UNCHANGED <<liveness, inflight, handles, cancel_requested, polled, leased, dispatch, taken,
                   pinned, sweep, loopVars, farVars>>

-----------------------------------------------------------------------------
(* The worker: serve_session as far as the dispatched frames go.           *)

\* next_execute takes work and ignores the rest; run_command takes a Cancel of
\* its own, run_pty any PtyClose; the reset's loop ignores everything.
FarReads(c) ==
    LET w == WorkerOf[c]
        frame == Head(toWorker[c])
        me == far[w] IN
    /\ c \in up
    /\ toWorker[c] # <<>>
    /\ toWorker' = [toWorker EXCEPT ![c] = Tail(@)]
    /\ far' = [far EXCEPT ![w] =
          CASE me.pc = "idle" /\ frame.kind \in {"Execute", "PtyOpen", "SessionOpen"} ->
                  [pc |-> "running", job |-> frame]
            [] me.pc = "running" /\ frame.kind = "Cancel" /\ me.job = Frame("Execute", frame.id) ->
                  [me EXCEPT !.pc = "resetting"]
            [] me.pc = "running" /\ frame.kind = "PtyClose" /\ me.job.kind = "PtyOpen" ->
                  [me EXCEPT !.pc = "resetting"]
            [] OTHER -> me]
    /\ UNCHANGED <<poolVars, handlerVars, loopVars, up, toServer>>

\* Mutant of FarEnds: the report goes out before the reset.
FarEndsReporting(w) ==
    /\ far[w].pc = "running"
    /\ far' = [far EXCEPT ![w].pc = "resetting"]
    /\ toServer' = [c \in Conn |-> IF c \in up /\ WorkerOf[c] = w
                                   THEN Append(toServer[c], far[w].job) ELSE toServer[c]]
    /\ UNCHANGED <<poolVars, handlerVars, loopVars, up, toWorker>>

\* The command, the shell or the session ends by itself.
FarEnds(w) ==
    /\ far[w].pc = "running"
    /\ far' = [far EXCEPT ![w].pc = "resetting"]
    /\ UNCHANGED <<poolVars, handlerVars, loopVars, up, toWorker, toServer>>

\* After the reset: Result, PtyExit or SessionClosed, named after its work.
FarReports(c) ==
    LET w == WorkerOf[c] IN
    /\ c \in up
    /\ far[w].pc = "resetting"
    /\ toServer' = [toServer EXCEPT ![c] = Append(@, far[w].job)]
    /\ far' = [far EXCEPT ![w] = Idle]
    /\ UNCHANGED <<poolVars, handlerVars, loopVars, up, toWorker>>

\* The worker loses its connection, or gives it up after its lease: it kills
\* what it runs.  The server may still read what was under way.
FarLost(c) ==
    /\ c \in up
    /\ up' = up \ {c}
    /\ far' = [far EXCEPT ![WorkerOf[c]] = Off]
    /\ toWorker' = [toWorker EXCEPT ![c] = <<>>]
    /\ \E kept \in {toServer[c], <<>>} : toServer' = [toServer EXCEPT ![c] = kept]
    /\ UNCHANGED <<poolVars, handlerVars, loopVars>>

ConnStep(c) ==
    \/ Register(c) \/ KeepaliveEvicts(c) \/ LoopEnds(c) \/ Drop1(c) \/ Drop2(c) \/ Fill(c)
    \/ ReadFrame(c) \/ FarReads(c) \/ FarReports(c) \/ FarLost(c) \/ SessionTakes(c)

HandleStep(h) ==
    \/ (\E c \in Conn : DispatchTake(h, c)) \/ SetupFails(h) \/ DispatchRegister(h)
    \/ DispatchSend(h) \/ DispatchSendFails(h) \/ Abandon(h) \/ Poll(h) \/ TtlPasses(h)
    \/ Kill(h) \/ SweepSnapshot(h)

PtyStep(p) ==
    \/ (\E c \in Conn : PtyPin(p, c)) \/ PtyOpens(p) \/ PtyLeft(p) \/ PtyHangsUp(p) \/ PtySeesEnd(p) \/ PtyTimeout(p)
    \/ PtyRelease(p)

Next ==
    \/ \E c \in Conn : ConnStep(c)
    \/ \E h \in Handle : HandleStep(h)
    \/ \E p \in Pty : PtyStep(p)
    \/ \E w \in Worker : FarEnds(w)
    \/ SweepLooks \/ SweepActs

Spec == Init /\ [][Next]_vars

\* The PtyClose is sent with no timeout, into the socket of a worker that is not
\* known to read it: run_pty may be in write_input or in sink.send for as long as
\* the shell leaves its pty full, or the server its socket.
StuckOnWorker(p) ==
    /\ serve[p] = "hangup"
    /\ pinned[p] \in up
    /\ far[WorkerOf[pinned[p]]].pc = "running"

(***************************************************************************)
(* The server's tasks go on, and the worker's loop reads its socket, kills *)
(* what it must and resets.  Nothing is assumed of clients, of the length  *)
(* of a command, or of the network: a broken connection may stay unnoticed *)
(* until the keepalive evicts it.                                          *)
(*                                                                         *)
(* The pty handler need not get out of its splice loop, whose sends to     *)
(* either side have no timeout, nor past a PtyClose for a stuck worker; a  *)
(* socket that is dead refuses the frame in the end.  Once the PtyClose is *)
(* sent, a worker that does not get to it within 5 s is a hasty one.       *)
(***************************************************************************)
Fairness ==
    /\ \A c \in Conn :
          /\ WF_vars(KeepaliveEvicts(c))
          /\ WF_vars(c \in evict /\ LoopEnds(c))
          /\ WF_vars(Drop1(c) \/ Drop2(c) \/ Fill(c) \/ ReadFrame(c))
          /\ WF_vars(FarReads(c)) /\ WF_vars(FarReports(c))
    /\ \A p \in Pty :
          /\ WF_vars(~StuckOnWorker(p) /\ PtyHangsUp(p))
          /\ WF_vars((serve[p] = "closing" /\ PtySeesEnd(p)) \/ PtyTimeout(p) \/ PtyRelease(p))
    /\ \A h \in Handle :
          WF_vars(DispatchRegister(h) \/ DispatchSend(h) \/ DispatchSendFails(h))

FairSpec == Spec /\ Fairness

-----------------------------------------------------------------------------
(* Properties.                                                             *)

\* The shape of the state.
TypeOK ==
    /\ idle \in [Conn -> Nat]
    /\ liveness \in [Worker -> Conn \cup {None}]
    /\ inflight \in [Handle -> Conn \cup {None}]
    /\ handles \in [Handle -> HandleState]
    /\ cancel_requested \subseteq Handle
    /\ polled \subseteq Handle
    /\ pty_sessions \in [Worker -> Pty \cup {None}]
    /\ leased \subseteq Conn
    /\ dispatch \in [Handle -> DispatchPc]
    /\ taken \in [Handle -> Conn \cup {None}]
    /\ serve \in [Pty -> ServePc]
    /\ pinned \in [Pty -> Conn \cup {None}]
    /\ event \in [Pty -> {"none", "exit", "closed"}]
    /\ sweep \in [handle : Handle \cup {None}, status : HandleState,
                  stage : {"none", "look", "act"}]
    /\ loop \in [Conn -> LoopPc]
    /\ pending \in [Conn -> SUBSET Handle]
    /\ evict \subseteq Conn
    /\ up \subseteq Conn
    /\ toWorker \in [Conn -> Seq(WorkFrame \cup ControlFrame)]
    /\ toServer \in [Conn -> Seq(WorkFrame)]
    /\ far \in [Worker -> [pc : {"off", "idle", "running", "resetting"},
                           job : WorkFrame \cup {NoFrame}]]

HoldsByDispatch(h, c) ==
    taken[h] = c /\ (dispatch[h] = "setup" \/ (dispatch[h] = "sending" /\ inflight[h] = c))
HoldsByPty(p, c) == pinned[p] = c /\ serve[p] \notin {"none", "over"}

\* Who holds connection c, apart from the idle queue.
Holders(c) ==
    {h \in Handle : HoldsByDispatch(h, c) \/ inflight[h] = c}
        \cup {p \in Pty : HoldsByPty(p, c)}
        \cup (IF c \in leased THEN {c} ELSE {})

\* dispatch, the pty handler and sessions pop entries of one queue, and each
\* puts its entry back itself: a connection is in the queue at most once and has
\* at most one holder, never both (dispatch, acquire_pinned, release_pinned,
\* complete_request, session_closed).
HeldOnce ==
    \A c \in Conn :
       /\ idle[c] <= 1
       /\ \A x, y \in Holders(c) : x = y
       /\ idle[c] > 0 => Holders(c) = {}

\* A connected worker is idle, has a holder that will give it back, or is being
\* evicted, unless a client abandoned the dispatch that had popped it.
NoLeak ==
    \A w \in Worker :
       LET c == liveness[w] IN
       c # None /\ loop[c] = "reading" =>
          \/ idle[c] > 0 \/ Holders(c) # {} \/ c \in evict
          \/ \E h \in Handle : taken[h] = c /\ dispatch[h] = "abandoned"

\* The command of a handle is somewhere: it was sent and not read yet, it runs,
\* or its Result is under way; no frame is thrown away by a worker that is not
\* ready for it, because entries return to the queue only after the reset.
NoLostWork ==
    \A h \in Handle :
       LET c == inflight[h] IN
       c # None /\ c \in up /\ dispatch[h] = "done" =>
          \/ \E i \in DOMAIN toWorker[c] : toWorker[c][i] = Frame("Execute", h)
          \/ far[WorkerOf[c]].job = Frame("Execute", h)
          \/ \E i \in DOMAIN toServer[c] : toServer[c][i] = Frame("Execute", h)

\* A client of the pty handler talks to the shell that it opened, and only the
\* end of that shell, or of the connection, ends its session: nobody is given a
\* worker that still runs or resets somebody else's work (serve, run_pty).
OwnShell ==
    \A p \in Pty :
       LET c == pinned[p] IN
       serve[p] \in {"splicing", "hangup", "closing"} /\ c \in up =>
          /\ \A i \in DOMAIN toServer[c] : toServer[c][i] = Frame("PtyOpen", p)
          /\ far[WorkerOf[c]].job \in {NoFrame, Frame("PtyOpen", p)}

\* The sweeper works with an old snapshot, and a cancel with no lock at all, yet
\* a handle is purged only once it is terminal, or when its Execute could not be
\* sent; its outcome never changes (run_sweeper, cancel, complete_request).
PurgesFinished ==
    [][\A h \in Handle :
          /\ handles'[h] = "Purged" /\ handles[h] # "Purged" =>
                handles[h] \in Terminal \/ dispatch[h] = "sending"
          /\ handles[h] \in Terminal => handles'[h] \in {handles[h], "Purged"}]_vars

\* A handler that has seen its client leave, and gets its PtyClose out, gives the
\* worker back even when no Exit comes: the worker's connection may break while it
\* waits, with nobody to ping it, so only the timeout ends the wait.  A handler
\* that is stuck on its worker for good never gets there (serve).
PtyReleased ==
    \A p \in Pty :
       []<>~StuckOnWorker(p) =>
          (serve[p] \in {"hangup", "closing"} ~> serve[p] = "over")

\* A handle that is in flight when its worker goes does not stay Running: the
\* keepalive or the stream ends the read loop, and the drop fills the handle in
\* (run_keepalive, register_and_run, handle_worker_drop).
HandleEnds ==
    \A h \in Handle :
       (/\ handles[h] = "Running"
        /\ inflight[h] \in Conn \ up
        /\ loop[inflight[h]] = "reading") ~> handles[h] # "Running"
=============================================================================
