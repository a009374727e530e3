------------------------------ MODULE Terminal ------------------------------
(***************************************************************************)
(* The byte stream of a session's terminal, end to end: the client's       *)
(* WebSocket, serve_terminal (shiitake-server/src/http/sessions.rs), the   *)
(* bounded channel of the attachment, the read loop of the worker          *)
(* connection (shiitake-server/src/pool/mod.rs), the dispatch socket, the  *)
(* worker's run_session (shiitake-worker/src/client.rs) and the shell's    *)
(* pty.                                                                    *)
(*                                                                         *)
(* Every hop is bounded, and each of the three loops sends inline: while   *)
(* it waits for room it looks at nothing else, neither at its timers nor   *)
(* at an eviction.  The model is about who then waits for whom.            *)
(*                                                                         *)
(* Terminal output and input are numbered units.  Time is abstracted: a    *)
(* bounded wait may end in its timeout when it cannot end otherwise, and   *)
(* the keepalive counts its rounds.                                        *)
(***************************************************************************)
EXTENDS Naturals, Sequences

CONSTANTS
    Attachment,     \* terminal attachments of the session
    WireCap,        \* frames that fit into one direction of the dispatch socket
    Backlog,        \* the attachment channel's capacity, 64 in the code
    PtyCap,         \* units of input that the pty accepts before a read
    KeepTimeout,    \* keepalive rounds without a frame that a worker is allowed
    MaxOut,         \* bound: units of output
    MaxIn,          \* bound: units of input
    None            \* no attachment

ASSUME TerminalAssumption ==
    /\ {WireCap, Backlog, PtyCap, KeepTimeout} \subseteq Nat \ {0}
    /\ {MaxOut, MaxIn} \subseteq Nat
    /\ None \notin Attachment

VARIABLES
    session,    \* the record: "active" or "ended"
    terminal,   \* the record's reservation: Attachment or None
    handler,    \* [Attachment -> HandlerPc]: serve_terminal
    sending,    \* [Attachment -> Frame]: what the handler is sending
    backlog,    \* [Attachment -> Seq(Frame)]: events in the attachment's channel
    spawned,    \* attachments a spawned task wants to tell that it is over
    loop,       \* the read loop of the connection
    routing,    \* the output it is routing: [to, frame]
    permit,     \* eviction permit of the shutdown Notify
    silent,     \* keepalive rounds since the last frame of the worker
    link,       \* the dispatch socket still works
    up,         \* frames on their way to the server
    down,       \* frames on their way to the worker
    worker,     \* where run_session is
    held,       \* the frame it is about to send or write
    pty,        \* input the shell has not read
    produced,   \* units of output so far
    typed,      \* units of input so far
    consumed,   \* input the shell has read
    client,     \* [Attachment -> ClientState]
    received    \* [Attachment -> Seq(Nat)]: output the client's socket accepted

recordVars == <<session, terminal, spawned>>
handlerVars == <<handler, sending>>
loopVars == <<loop, routing>>
keepVars == <<permit, silent>>
linkVars == <<link, up, down>>
workerVars == <<worker, held, pty, produced, consumed>>
clientVars == <<client, received, typed>>
vars == <<recordVars, handlerVars, backlog, loopVars, keepVars, linkVars, workerVars, clientVars>>

(***************************************************************************)
(* The handler: waiting for the upgrade, in its select!, sending to the    *)
(* worker or to the client, sending the last frame to the client, about to *)
(* give the reservation back, or through; and "dropped" when the           *)
(* attachment goes without being detached.                                 *)
(***************************************************************************)
HandlerPc == {"none", "upgrading", "select", "toWorker", "toClient", "closing", "detaching",
              "over", "dropped"}
WorkerPc == {"select", "sendOutput", "sendPong", "writeInput", "sendClosed", "done", "gone"}
\* Reads and answers; connected but no longer reads; disconnected.
ClientState == {"none", "here", "stalled", "gone"}

\* A numbered unit of the stream, or a frame that carries none of it.
Output(n) == [kind |-> "output", n |-> n]
Stdin(n) == [kind |-> "stdin", n |-> n]
Bare(kind) == [kind |-> kind, n |-> 0]
NoFrame == Bare("none")
NoRoute == [to |-> None, frame |-> NoFrame]
\* The TerminalAttachment exists, and with it the receiver of the channel.
Attached(t) == handler[t] \notin {"none", "over", "dropped"}

Init ==
    /\ session = "active"
    /\ terminal = None
    /\ spawned = {}
    /\ handler = [t \in Attachment |-> "none"]
    /\ sending = [t \in Attachment |-> NoFrame]
    /\ backlog = [t \in Attachment |-> <<>>]
    /\ loop = "select"
    /\ routing = NoRoute
    /\ permit = FALSE
    /\ silent = 0
    /\ link = TRUE
    /\ up = <<>>
    /\ down = <<>>
    /\ worker = "select"
    /\ held = NoFrame
    /\ pty = <<>>
    /\ produced = 0
    /\ typed = 0
    /\ consumed = <<>>
    /\ client = [t \in Attachment |-> "none"]
    /\ received = [t \in Attachment |-> <<>>]

-----------------------------------------------------------------------------
(* serve_terminal.                                                         *)

\* Handler t goes to pc, with f to send when it sends.
Go(t, pc, f) ==
    /\ handler' = [handler EXCEPT ![t] = pc]
    /\ sending' = [sending EXCEPT ![t] = f]

\* Mutant of Attach: a second client replaces the first one's reservation.
AttachAnyway(t) ==
    /\ handler[t] = "none"
    /\ session = "active"
    /\ terminal' = t
    /\ Go(t, "upgrading", NoFrame)
    /\ client' = [client EXCEPT ![t] = "here"]
    /\ UNCHANGED <<session, spawned, backlog, loopVars, keepVars, linkVars, workerVars, received,
                   typed>>

\* attach_terminal reserves the terminal (Pool has the guard on stateful
\* commands, which refuses some of the attachments made here).
Attach(t) ==
    /\ handler[t] = "none"
    /\ session = "active"
    /\ terminal = None
    /\ terminal' = t
    /\ Go(t, "upgrading", NoFrame)
    /\ client' = [client EXCEPT ![t] = "here"]
    /\ UNCHANGED <<session, spawned, backlog, loopVars, keepVars, linkVars, workerVars, received,
                   typed>>

\* on_upgrade starts serve_terminal; its callback is dropped if the client left.
Upgrade(t) ==
    /\ handler[t] = "upgrading"
    /\ Go(t, IF client[t] = "gone" THEN "dropped" ELSE "select", NoFrame)
    /\ backlog' = IF client[t] = "gone" THEN [backlog EXCEPT ![t] = <<>>] ELSE backlog
    /\ UNCHANGED <<recordVars, loopVars, keepVars, linkVars, workerVars, clientVars>>

\* A frame for the client: its socket accepts it at once, or the handler waits.
ToClient(t, f) ==
    \/ /\ client[t] \in {"here", "stalled"}
       /\ Go(t, "select", NoFrame)
       /\ received' = IF f.kind = "output" THEN [received EXCEPT ![t] = Append(@, f.n)]
                                           ELSE received
    \/ /\ client[t] \in {"stalled", "gone"}
       /\ Go(t, "toClient", f)
       /\ UNCHANGED received

\* The frame for which the handler waits is accepted after all.
SendClient(t) ==
    /\ handler[t] = "toClient"
    /\ client[t] = "stalled"
    /\ Go(t, "select", NoFrame)
    /\ received' = IF sending[t].kind = "output"
                   THEN [received EXCEPT ![t] = Append(@, sending[t].n)]
                   ELSE received
    /\ UNCHANGED <<recordVars, backlog, loopVars, keepVars, linkVars, workerVars, client, typed>>

\* Mutant of GivesUp: the sends to the client are not bounded.
NeverGivesUp(t) == client[t] = "gone"

\* An error, or nothing accepted for max_silence.
GivesUp(t) == client[t] \in {"stalled", "gone"}

SendClientFails(t) ==
    /\ handler[t] = "toClient"
    /\ GivesUp(t)
    /\ Go(t, "detaching", NoFrame)
    /\ UNCHANGED <<recordVars, backlog, loopVars, keepVars, linkVars, workerVars, clientVars>>

\* The last frame, a Close: whether it is accepted makes no difference.
SendClose(t) ==
    /\ handler[t] = "closing"
    /\ client[t] = "here" \/ GivesUp(t)
    /\ Go(t, "detaching", NoFrame)
    /\ UNCHANGED <<recordVars, backlog, loopVars, keepVars, linkVars, workerVars, clientVars>>

\* ping.tick with a client that was silent for less than max_silence.
PingClient(t) ==
    /\ handler[t] = "select"
    /\ ToClient(t, Bare("ping"))
    /\ UNCHANGED <<recordVars, backlog, loopVars, keepVars, linkVars, workerVars, client, typed>>

\* ping.tick with a client that was silent for longer.
ClientSilent(t) ==
    /\ handler[t] = "select"
    /\ client[t] \in {"stalled", "gone"}
    /\ Go(t, "closing", NoFrame)
    /\ UNCHANGED <<recordVars, backlog, loopVars, keepVars, linkVars, workerVars, clientVars>>

\* A binary frame of the client is input for the worker.
ClientInput(t) ==
    /\ handler[t] = "select"
    /\ client[t] \in {"here", "stalled"}
    /\ typed < MaxIn
    /\ typed' = typed + 1
    /\ Go(t, "toWorker", Stdin(typed + 1))
    /\ UNCHANGED <<recordVars, backlog, loopVars, keepVars, linkVars, workerVars, client,
                   received>>

\* A text frame: a resize goes the same way, anything else ends the attachment.
ClientControl(t) ==
    /\ handler[t] = "select"
    /\ client[t] \in {"here", "stalled"}
    /\ Go(t, "toWorker", Bare("resize")) \/ Go(t, "closing", NoFrame)
    /\ UNCHANGED <<recordVars, backlog, loopVars, keepVars, linkVars, workerVars, clientVars>>

\* The client's socket is closed or broken.
ClientLost(t) ==
    /\ handler[t] = "select"
    /\ client[t] = "gone"
    /\ Go(t, "detaching", NoFrame)
    /\ UNCHANGED <<recordVars, backlog, loopVars, keepVars, linkVars, workerVars, clientVars>>

\* attachment.recv: output for the client, or the end of the session.
Recv(t) ==
    /\ handler[t] = "select"
    /\ backlog[t] # <<>>
    /\ LET event == Head(backlog[t]) IN
       \/ event.kind = "closed" /\ Go(t, "closing", NoFrame) /\ UNCHANGED received
       \/ event.kind = "output" /\ ToClient(t, event)
    /\ backlog' = [backlog EXCEPT ![t] = Tail(@)]
    /\ UNCHANGED <<recordVars, loopVars, keepVars, linkVars, workerVars, client, typed>>

\* writer.lock().await.send(..).await has no timeout: it ends when the socket has
\* room, or in an error.
SendWorker(t) ==
    /\ handler[t] = "toWorker"
    /\ \/ link /\ Len(down) < WireCap
          /\ down' = Append(down, sending[t])
          /\ Go(t, "select", NoFrame)
       \/ ~link /\ UNCHANGED down /\ Go(t, "detaching", NoFrame)
    /\ UNCHANGED <<recordVars, backlog, loopVars, keepVars, link, up, workerVars, clientVars>>

\* detach_terminal_if gives back only the reservation of its own channel.
Released(t) == IF terminal = t THEN None ELSE terminal

\* attachment.detach, and the end of the function drops the receiver.
Detach(t) ==
    /\ handler[t] = "detaching"
    /\ terminal' = Released(t)
    /\ Go(t, "over", NoFrame)
    /\ backlog' = [backlog EXCEPT ![t] = <<>>]
    /\ client' = [client EXCEPT ![t] = "gone"]
    /\ UNCHANGED <<session, spawned, loopVars, keepVars, linkVars, workerVars, received, typed>>

\* Drop of an attachment that was not detached spawns the detach.
SpawnedDetach(t) ==
    /\ handler[t] = "dropped"
    /\ terminal' = Released(t)
    /\ Go(t, "over", NoFrame)
    /\ UNCHANGED <<session, spawned, backlog, loopVars, keepVars, linkVars, workerVars,
                   clientVars>>

-----------------------------------------------------------------------------
(* The read loop, route_output and the ends of a session.                  *)

\* session_closed and handle_worker_drop take the reservation and tell its
\* client from a task of their own.
EndSession ==
    /\ session' = "ended"
    /\ terminal' = None
    /\ spawned' = IF terminal = None THEN spawned ELSE spawned \cup {terminal}

\* Mutant of RouteTo: output for a busy client is dropped.
RouteIfRoom(frame) ==
    IF terminal = None \/ Len(backlog[terminal]) = Backlog
    THEN UNCHANGED loopVars
    ELSE loop' = "routing" /\ routing' = [to |-> terminal, frame |-> frame]

\* route_output: the channel is looked up once; without one output is dropped.
RouteTo(frame) ==
    IF terminal = None
    THEN UNCHANGED loopVars
    ELSE loop' = "routing" /\ routing' = [to |-> terminal, frame |-> frame]

\* Every frame counts as a sign of life.
ReadFrame ==
    /\ loop = "select"
    /\ up # <<>>
    /\ up' = Tail(up)
    /\ silent' = 0
    /\ LET frame == Head(up) IN
       \/ frame.kind = "pong" /\ UNCHANGED <<loopVars, recordVars>>
       \/ frame.kind = "closed" /\ EndSession /\ UNCHANGED loopVars
       \/ frame.kind = "output" /\ RouteTo(frame) /\ UNCHANGED recordVars
    /\ UNCHANGED <<handlerVars, backlog, permit, link, down, workerVars, clientVars>>

\* Mutant of Offer: an unbounded channel.
OfferUnbounded(t, event) ==
    \/ ~Attached(t) /\ UNCHANGED backlog
    \/ Attached(t) /\ backlog' = [backlog EXCEPT ![t] = Append(@, event)]

\* A send into the channel of t waits for room, or for the receiver's drop.
Offer(t, event) ==
    \/ ~Attached(t) /\ UNCHANGED backlog
    \/ /\ Attached(t)
       /\ Len(backlog[t]) < Backlog
       /\ backlog' = [backlog EXCEPT ![t] = Append(@, event)]

Route ==
    /\ loop = "routing"
    /\ Offer(routing.to, routing.frame)
    /\ loop' = "select"
    /\ routing' = NoRoute
    /\ UNCHANGED <<recordVars, handlerVars, keepVars, linkVars, workerVars, clientVars>>

\* The task that tells a client of the end, through the same channel.
TellClosed(t) ==
    /\ t \in spawned
    /\ Offer(t, Bare("closed"))
    /\ spawned' = spawned \ {t}
    /\ UNCHANGED <<session, terminal, handlerVars, loopVars, keepVars, linkVars, workerVars,
                   clientVars>>

\* Mutant of LoopEnds: the loop waits for the stream only.
LoopEndsWithStream ==
    /\ loop = "select"
    /\ ~link /\ up = <<>>
    /\ loop' = "ended"
    /\ EndSession
    /\ permit' = FALSE
    /\ silent' = 0
    /\ UNCHANGED <<handlerVars, backlog, routing, linkVars, workerVars, clientVars>>

\* The stream ends or the permit is there: the loop ends in handle_worker_drop.
LoopEnds ==
    /\ loop = "select"
    /\ permit \/ (~link /\ up = <<>>)
    /\ loop' = "ended"
    /\ EndSession
    /\ permit' = FALSE
    /\ silent' = 0
    /\ UNCHANGED <<handlerVars, backlog, routing, linkVars, workerVars, clientVars>>

\* run_keepalive, for the session's worker: evict it after too long a silence or
\* when the ping is not sent within 2 s, for lack of the lock or of room.
Keepalive ==
    /\ session = "active" /\ loop # "ended" /\ ~permit
    /\ \/ /\ silent < KeepTimeout
          /\ link /\ Len(down) < WireCap
          /\ \A t \in Attachment : handler[t] # "toWorker"
          /\ down' = Append(down, Bare("ping"))
          /\ silent' = silent + 1
          /\ UNCHANGED permit
       \/ /\ \/ silent = KeepTimeout
             \/ ~link \/ Len(down) = WireCap
          /\ permit' = TRUE
          /\ UNCHANGED <<down, silent>>
    /\ UNCHANGED <<recordVars, handlerVars, backlog, loopVars, link, up, workerVars, clientVars>>

\* The server's socket is closed when nothing holds one of its halves: the read
\* loop its stream; the attachments and the record, until the sweeper drops the
\* record of the ended session, its sink.
CloseSocket ==
    /\ link
    /\ loop = "ended"
    /\ \A t \in Attachment : ~Attached(t)
    /\ link' = FALSE
    /\ down' = <<>>
    /\ up' = <<>>
    /\ UNCHANGED <<recordVars, handlerVars, backlog, loopVars, keepVars, workerVars, clientVars>>

-----------------------------------------------------------------------------
(* run_session, as far as the terminal goes.                               *)

\* pty.read_output: the shell has written something.
ReadPty ==
    /\ worker = "select"
    /\ produced < MaxOut
    /\ produced' = produced + 1
    /\ held' = Output(produced + 1)
    /\ worker' = "sendOutput"
    /\ UNCHANGED <<recordVars, handlerVars, backlog, loopVars, keepVars, linkVars, pty, consumed,
                   clientVars>>

\* The shell exits, or a SessionClose arrives: SessionClosed, after the reset.
ShellEnds ==
    /\ worker = "select"
    /\ worker' = "sendClosed"
    /\ held' = Bare("closed")
    /\ UNCHANGED <<recordVars, handlerVars, backlog, loopVars, keepVars, linkVars, pty, produced,
                   consumed, clientVars>>

\* sink.send has no timeout either.
SendServer ==
    /\ worker \in {"sendOutput", "sendPong", "sendClosed"}
    /\ \/ /\ link
          /\ Len(up) < WireCap
          /\ up' = Append(up, held)
          /\ worker' = IF worker = "sendClosed" THEN "done" ELSE "select"
       \/ ~link /\ worker' = "gone" /\ UNCHANGED up
    /\ held' = NoFrame
    /\ UNCHANGED <<recordVars, handlerVars, backlog, loopVars, keepVars, link, down, pty,
                   produced, consumed, clientVars>>

\* A frame of the server: input, a ping, or a resize.
ReadServer ==
    /\ worker = "select"
    /\ down # <<>>
    /\ down' = Tail(down)
    /\ LET frame == Head(down) IN
       \/ frame.kind = "ping" /\ worker' = "sendPong" /\ held' = Bare("pong")
       \/ frame.kind = "stdin" /\ worker' = "writeInput" /\ held' = frame
       \/ frame.kind = "resize" /\ UNCHANGED <<worker, held>>
    /\ UNCHANGED <<recordVars, handlerVars, backlog, loopVars, keepVars, link, up, pty, produced,
                   consumed, clientVars>>

\* Mutant of WriteInput: input that the pty does not take at once is lost.
WriteWhatFits ==
    /\ worker = "writeInput"
    /\ pty' = IF Len(pty) < PtyCap THEN Append(pty, held.n) ELSE pty
    /\ worker' = "select"
    /\ held' = NoFrame
    /\ UNCHANGED <<recordVars, handlerVars, backlog, loopVars, keepVars, linkVars, produced,
                   consumed, clientVars>>

\* pty.write_input waits until the pty takes all of it.
WriteInput ==
    /\ worker = "writeInput"
    /\ Len(pty) < PtyCap
    /\ pty' = Append(pty, held.n)
    /\ worker' = "select"
    /\ held' = NoFrame
    /\ UNCHANGED <<recordVars, handlerVars, backlog, loopVars, keepVars, linkVars, produced,
                   consumed, clientVars>>

\* Waiting for its next work, the worker ignores what still comes for this one.
IdleReads ==
    /\ worker = "done"
    /\ down # <<>>
    /\ down' = Tail(down)
    /\ UNCHANGED <<recordVars, handlerVars, backlog, loopVars, keepVars, link, up, workerVars,
                   clientVars>>

\* The connection ended, or nothing was heard for the lease: SessionLost.
WorkerLost ==
    /\ worker \in {"select", "done"}
    /\ ~link \/ (loop = "ended" /\ down = <<>>)
    /\ worker' = "gone"
    /\ link' = FALSE
    /\ down' = <<>>
    /\ UNCHANGED <<recordVars, handlerVars, backlog, loopVars, keepVars, up, held, pty, produced,
                   consumed, clientVars>>

-----------------------------------------------------------------------------
(* The surroundings.                                                       *)

ShellReads ==
    /\ pty # <<>>
    /\ consumed' = Append(consumed, Head(pty))
    /\ pty' = Tail(pty)
    /\ UNCHANGED <<recordVars, handlerVars, backlog, loopVars, keepVars, linkVars, worker, held,
                   produced, clientVars>>

\* A client stops reading, or leaves.
ClientFails(t, how) ==
    /\ client[t] \in {"here", "stalled"}
    /\ client[t] # how
    /\ client' = [client EXCEPT ![t] = how]
    /\ UNCHANGED <<recordVars, handlerVars, backlog, loopVars, keepVars, linkVars, workerVars,
                   received, typed>>

\* The dispatch socket breaks; what the server's kernel has may still be read.
LinkFails ==
    /\ link
    /\ link' = FALSE
    /\ down' = <<>>
    /\ UNCHANGED <<recordVars, handlerVars, backlog, loopVars, keepVars, up, workerVars,
                   clientVars>>

HandlerStep(t) ==
    \/ Upgrade(t) \/ PingClient(t) \/ ClientSilent(t) \/ ClientInput(t) \/ ClientControl(t)
    \/ ClientLost(t) \/ Recv(t) \/ SendClient(t) \/ SendClientFails(t) \/ SendClose(t)
    \/ SendWorker(t) \/ Detach(t) \/ SpawnedDetach(t)

WorkerStep ==
    \/ ReadPty \/ ShellEnds \/ SendServer \/ ReadServer \/ WriteInput \/ IdleReads
    \/ WorkerLost

Next ==
    \/ \E t \in Attachment :
          \/ Attach(t) \/ HandlerStep(t) \/ TellClosed(t)
          \/ \E how \in {"stalled", "gone"} : ClientFails(t, how)
    \/ ReadFrame \/ Route \/ LoopEnds \/ Keepalive \/ CloseSocket
    \/ WorkerStep \/ ShellReads \/ LinkFails

Spec == Init /\ [][Next]_vars

(***************************************************************************)
(* The server's tasks and the worker's loop go on when they can: a select! *)
(* takes each of its branches in turn (tokio polls them in random order),  *)
(* a channel with room again and again takes a waiting send (its waiters   *)
(* are FIFO), timers fire.  Nothing is assumed of the client, of the shell *)
(* or of the network.                                                      *)
(***************************************************************************)
Fairness ==
    /\ \A t \in Attachment :
          /\ SF_vars(ClientSilent(t) \/ ClientLost(t) \/ SendClientFails(t))
          /\ SF_vars(Recv(t))
          /\ WF_vars(Upgrade(t) \/ SendWorker(t) \/ SendClose(t) \/ Detach(t)
                       \/ SpawnedDetach(t))
          /\ SF_vars(TellClosed(t))
    /\ WF_vars(ReadFrame) /\ SF_vars(LoopEnds) /\ SF_vars(Route)
    /\ WF_vars(Keepalive) /\ WF_vars(CloseSocket)
    /\ WF_vars(SendServer \/ WriteInput \/ IdleReads \/ WorkerLost) /\ SF_vars(ReadServer)

FairSpec == Spec /\ Fairness

-----------------------------------------------------------------------------
(* Properties.                                                             *)

Outputs == {Output(n) : n \in 1..MaxOut}
Inputs == {Stdin(n) : n \in 1..MaxIn}
Event == Outputs \cup {Bare("closed")}

\* The shape of the state, with every queue within its capacity.
TypeOK ==
    /\ session \in {"active", "ended"}
    /\ terminal \in Attachment \cup {None}
    /\ spawned \subseteq Attachment
    /\ handler \in [Attachment -> HandlerPc]
    /\ sending \in [Attachment -> Outputs \cup Inputs
                                    \cup {NoFrame, Bare("ping"), Bare("resize")}]
    /\ backlog \in [Attachment -> Seq(Event)]
    /\ \A t \in Attachment : Len(backlog[t]) <= Backlog
    /\ loop \in {"select", "routing", "ended"}
    /\ routing \in [to : Attachment \cup {None}, frame : Outputs \cup {NoFrame}]
    /\ permit \in BOOLEAN /\ link \in BOOLEAN
    /\ silent \in 0..KeepTimeout
    /\ up \in Seq(Event \cup {Bare("pong")}) /\ Len(up) <= WireCap
    /\ down \in Seq(Inputs \cup {Bare("ping"), Bare("resize")}) /\ Len(down) <= WireCap
    /\ worker \in WorkerPc
    /\ held \in Event \cup Inputs \cup {NoFrame, Bare("pong")}
    /\ pty \in Seq(1..MaxIn) /\ Len(pty) <= PtyCap
    /\ produced \in 0..MaxOut /\ typed \in 0..MaxIn
    /\ consumed \in Seq(1..MaxIn)
    /\ client \in [Attachment -> ClientState]
    /\ received \in [Attachment -> Seq(1..MaxOut)]

Contiguous(s) == \A i \in 1..Len(s) - 1 : s[i + 1] = s[i] + 1

\* The units of one kind among frames, and that they come in order.
Units(frames, kind) == {frames[i].n : i \in {j \in DOMAIN frames : frames[j].kind = kind}}
InOrder(frames, kind) ==
    \A i, j \in DOMAIN frames :
       i < j /\ frames[i].kind = kind /\ frames[j].kind = kind => frames[i].n < frames[j].n

\* Of that kind, frames carry exactly the units first..last, each once and in order.
Carries(frames, kind, first, last) ==
    InOrder(frames, kind) /\ Units(frames, kind) = first..last

\* Units that have left the wire, as the frames they came in.
Frames(units, kind) == [i \in DOMAIN units |-> [kind |-> kind, n |-> units[i]]]

\* The output from client t back to the shell: delivered, then every hop.
Routed(t) == IF routing.to = t THEN <<routing.frame>> ELSE <<>>
OutputOf(t) ==
    Frames(received[t], "output") \o <<sending[t]>> \o backlog[t] \o Routed(t) \o up \o <<held>>

\* The input of client t from the shell back to the client.
InputOf(t) ==
    Frames(consumed, "stdin") \o Frames(pty, "stdin") \o <<held>> \o down \o <<sending[t]>>

\* The handler of t takes output for its client.
Serving(t) == handler[t] \in {"upgrading", "select", "toWorker", "toClient"}

\* Back-pressure pauses the terminal's output and never drops from it: what a
\* client got is without a gap, and while it is served and the connection
\* holds, what it got and what is under way on each hop is everything up to the
\* newest unit (route_output, PTY_OUTPUT_BACKLOG, serve_terminal, run_session).
OutputInOrder ==
    \A t \in Attachment :
       /\ Contiguous(received[t])
       /\ terminal = t /\ Serving(t) /\ link =>
             \E first \in 1..(produced + 1) : Carries(OutputOf(t), "output", first, produced)

\* Input reaches the shell complete and in order however slow the shell is: what
\* it read, and what is under way, is everything the clients typed so far
\* (serve_terminal, write_input).
InputInOrder ==
    /\ Contiguous(consumed)
    /\ \A t \in Attachment :
          terminal = t /\ link /\ worker \notin {"sendClosed", "done", "gone"} =>
             Carries(InputOf(t), "stdin", 1, typed)

(***************************************************************************)
(* The handler waits to send to a worker that reads nothing, because it    *)
(* waits itself, for the server or for the shell.                          *)
(***************************************************************************)
StuckOnWorker(t) ==
    /\ handler[t] = "toWorker"
    /\ link
    /\ Len(down) = WireCap
    /\ worker \in {"sendOutput", "sendPong", "sendClosed", "writeInput"}

Dismissed(t) == Attached(t) /\ (client[t] \in {"stalled", "gone"} \/ session # "active")

\* The server gives up an attachment whose client stopped reading or left, or
\* whose session ended, unless the handler is stuck on the worker: every send to
\* the client is bounded, and so is every other wait (serve_terminal).
AttachmentEnds ==
    \A t \in Attachment : Dismissed(t) ~> (~Attached(t) \/ StuckOnWorker(t))

\* An eviction takes effect although the read loop may be waiting for a
\* terminal client when the permit is left, unless that client's handler is
\* stuck on the worker (run_keepalive, register_and_run, route_output).
EvictionTaken ==
    permit ~> (loop = "ended" \/ \E t \in Attachment : StuckOnWorker(t))

\* While the session is active the terminal is reserved for the one client whose
\* handler runs, until that handler gives it back, and a reservation never
\* outlives its attachment (attach_terminal, detach_terminal_if and its Drop).
ReservationOwned ==
    /\ \A t \in Attachment : terminal = t => handler[t] \notin {"none", "over"}
    /\ session = "active" =>
          \A t \in Attachment : Attached(t) => terminal = t

\* "The server pings attached clients and detaches a connection that stops
\* responding" (docs/docs.html:262).
SilentClientDetached ==
    \A t \in Attachment : (Attached(t) /\ client[t] \in {"stalled", "gone"}) ~> ~Attached(t)
=============================================================================
