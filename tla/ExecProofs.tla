----------------------------- MODULE ExecProofs -----------------------------
(***************************************************************************)
(* Theorems about Exec, for every set of workers, connections, commands    *)
(* and PTY clients, with and without sessions.                             *)
(***************************************************************************)
EXTENDS Exec, SequenceTheorems, TLAPS

-----------------------------------------------------------------------------
(* Types, handles and the sweeper.                                         *)

\* What a dispatch has done to its handle before it registers it.
DispatchInv ==
    \A h \in Handle :
        /\ dispatch[h] = "none" => inflight[h] = None
        /\ dispatch[h] # "none" => taken[h] \in Conn
        /\ dispatch[h] \in {"none", "setup"} => handles[h] = "Absent"
        /\ inflight[h] # None => inflight[h] = taken[h] /\ dispatch[h] \notin {"none", "setup"}

\* A pty handler at work has a worker.
PinInv == \A p \in Pty : serve[p] # "none" => pinned[p] \in Conn

\* The sweeper's snapshot is old, but what it found finished stays so.
SweepInv ==
    /\ sweep = NoSweep \/ sweep.handle \in Handle
    /\ sweep.status \in Terminal => handles[sweep.handle] \in Terminal \cup {"Purged"}

\* A worker that is not idle has work.
JobInv == \A w \in Worker : far[w].pc \in {"running", "resetting"} => far[w].job \in WorkFrame

BaseInv == TypeOK /\ DispatchInv /\ PinInv /\ SweepInv /\ JobInv

-----------------------------------------------------------------------------
(* Who holds a connection.                                                 *)

\* The two ways a command, and the way a pty handler holds connection c.
Has(h, c) == (dispatch[h] = "setup" /\ taken[h] = c) \/ inflight[h] = c

\* An entry of the queue, or one holder.
OneHolder(c) ==
    /\ idle[c] <= 1
    /\ \A h, k \in Handle : Has(h, c) /\ Has(k, c) => h = k
    /\ \A p, q \in Pty : HoldsByPty(p, c) /\ HoldsByPty(q, c) => p = q
    /\ \A h \in Handle, p \in Pty : ~(Has(h, c) /\ HoldsByPty(p, c))
    /\ c \in leased => /\ \A h \in Handle : ~Has(h, c)
                       /\ \A p \in Pty : ~HoldsByPty(p, c)
    /\ idle[c] > 0 => /\ \A h \in Handle : ~Has(h, c)
                      /\ \A p \in Pty : ~HoldsByPty(p, c)
                      /\ c \notin leased

\* A connection that was never registered is nowhere.
NewInv ==
    \A c \in Conn : loop[c] = "new" =>
        /\ idle[c] = 0 /\ c \notin leased /\ c \notin evict /\ c \notin up
        /\ toWorker[c] = <<>> /\ toServer[c] = <<>>
        /\ \A h \in Handle : taken[h] # c
        /\ \A p \in Pty : pinned[p] # c

\* A connection is in liveness from its registration to the second section of
\* its drop.
Registered(c) == loop[c] \in {"reading", "drop1", "drop2"}
LiveInv ==
    /\ \A w \in Worker : liveness[w] # None =>
          WorkerOf[liveness[w]] = w /\ Registered(liveness[w])
    /\ \A c \in Conn : Registered(c) => liveness[WorkerOf[c]] = c

HolderInv == NewInv /\ LiveInv /\ \A c \in Conn : OneHolder(c)

\* A connection that is read is in the queue or held, or somebody saw it fail.
Accounted(c) ==
    \/ idle[c] > 0 \/ c \in leased \/ c \in evict
    \/ \E h \in Handle : Has(h, c) \/ (taken[h] = c /\ dispatch[h] = "abandoned")
    \/ \E p \in Pty : HoldsByPty(p, c)
LeakInv == \A c \in Conn : loop[c] = "reading" => Accounted(c)

-----------------------------------------------------------------------------
(* The work under way.                                                     *)

\* Every worker connects once.
OneConnection == \A c, d \in Conn : WorkerOf[c] = WorkerOf[d] => c = d

(***************************************************************************)
(* No worker registers while its previous connection is handled, the reset *)
(* after a PTY takes no longer than its handler waits, and an entry that a *)
(* failed dispatch puts back is not of a connection replaced meanwhile.    *)
(***************************************************************************)
Orderly ==
    /\ "overlap" \notin Env /\ "hasty" \notin Env
    /\ "disk" \notin Env \/ OneConnection

\* The worker at the far end has one connection, which the server reads.
UpInv ==
    /\ \A c \in Conn : c \in up =>
          loop[c] = "reading" /\ c \notin evict /\ far[WorkerOf[c]].pc # "off"
    /\ \A c \in Conn : c \notin up => toWorker[c] = <<>>
    /\ \A w \in Worker : far[w].pc \in {"off", "idle"} => far[w].job = NoFrame

\* Somebody may still use connection c, or hand it on.
Busy(c) ==
    \/ idle[c] > 0 \/ c \in leased
    \/ \E h \in Handle : taken[h] = c /\ dispatch[h] \in {"setup", "sending"}
    \/ \E p \in Pty : HoldsByPty(p, c)

\* Of the connections of a registered worker, only the registered one is in use.
Current(c) ==
    /\ Busy(c) /\ liveness[WorkerOf[c]] # None => liveness[WorkerOf[c]] = c
    /\ idle[c] > 0 /\ "disk" \notin Env => liveness[WorkerOf[c]] = c
CurrentInv == \A c \in Conn : Current(c)

\* Frame f is on its way in queue s.
On(s, f) == \E i \in DOMAIN s : s[i] = f

\* The Execute of h, or the Result it leads to, is on connection c.
Placed(c, h) ==
    \/ On(toWorker[c], Frame("Execute", h)) \/ On(toServer[c], Frame("Execute", h))
    \/ c \in up /\ far[WorkerOf[c]].job = Frame("Execute", h)

\* It is the connection that the dispatch took.
FrameInv ==
    \A c \in Conn, h \in Handle : Placed(c, h) => dispatch[h] = "done" /\ taken[h] = c

\* A dispatch that is about to send is still in flight, if its worker is there.
SendingInv ==
    \A h \in Handle : dispatch[h] = "sending" /\ taken[h] \in up => inflight[h] = taken[h]

\* The handler of a PTY whose worker is there has its channel, and goes on only
\* when it has seen the end of its shell.
PtyInv ==
    /\ \A w \in Worker : pty_sessions[w] # None =>
          serve[pty_sessions[w]] # "none" /\ WorkerOf[pinned[pty_sessions[w]]] = w
    /\ \A p \in Pty : serve[p] = "none" => event[p] = "none"
    /\ \A p \in Pty : serve[p] \notin {"none", "over"} /\ pinned[p] \in up =>
          /\ pty_sessions[WorkerOf[pinned[p]]] = p
          /\ serve[p] = "opening" => event[p] = "none"
          /\ serve[p] = "releasing" => event[p] # "none"

\* The work that the holder of c has sent and not seen the end of.
Runs(h, c) == inflight[h] = c /\ dispatch[h] = "done"
Shell(p, c) ==
    pinned[p] = c /\ event[p] = "none" /\ serve[p] \in {"splicing", "hangup", "closing"}
Owes(c, f) ==
    \/ \E h \in Handle : f = Frame("Execute", h) /\ Runs(h, c)
    \/ \E p \in Pty : f = Frame("PtyOpen", p) /\ Shell(p, c)
    \/ f = Frame("SessionOpen", None) /\ c \in leased

\* Work is on its way to the worker of c.
Sent(c) == \E i \in DOMAIN toWorker[c] : toWorker[c][i] \in WorkFrame

\* Owed work, and nothing else, is on its way to the worker, at the worker or on
\* its way back, in one place only: a worker that is sent work is idle.
WorkAt(c) ==
    /\ \A f \in WorkFrame :
          On(toWorker[c], f) \/ far[WorkerOf[c]].job = f \/ On(toServer[c], f) <=> Owes(c, f)
    /\ \A i, k \in DOMAIN toWorker[c] :
          toWorker[c][i] \in WorkFrame /\ toWorker[c][k] \in WorkFrame => i = k
    /\ Sent(c) => far[WorkerOf[c]].pc = "idle" /\ toServer[c] = <<>>
    /\ far[WorkerOf[c]].pc \in {"running", "resetting"} => toServer[c] = <<>>
    /\ Len(toServer[c]) <= 1
WorkInv == \A c \in up : WorkAt(c)

\* A worker that has nothing to do.
Quiet(c) ==
    ~Sent(c) /\ toServer[c] = <<>> /\ far[WorkerOf[c]].pc = "idle" /\ far[WorkerOf[c]].job = NoFrame

OrderInv == UpInv /\ CurrentInv /\ FrameInv /\ SendingInv /\ PtyInv /\ WorkInv

-----------------------------------------------------------------------------
(* Facts about frames and their queues.                                    *)

\* The frames that are sent.
LEMMA FramesSent ==
    /\ \A h \in Handle : Frame("Execute", h) \in WorkFrame /\ Frame("Cancel", h) \in ControlFrame
    /\ \A p \in Pty : Frame("PtyOpen", p) \in WorkFrame /\ Frame("PtyClose", p) \in ControlFrame
    /\ Frame("SessionOpen", None) \in WorkFrame
    /\ NoFrame \notin WorkFrame
  BY DEF WorkFrame, ControlFrame, NoFrame, Frame

\* Work is told by its kind.
LEMMA FrameKinds ==
    ASSUME NEW f \in WorkFrame \cup ControlFrame
    PROVE  /\ f \in WorkFrame <=> f.kind \in {"Execute", "PtyOpen", "SessionOpen"}
           /\ f.kind = "Execute" => f.id \in Handle /\ f = Frame("Execute", f.id)
           /\ f.kind = "PtyOpen" => f.id \in Pty /\ f = Frame("PtyOpen", f.id)
           /\ f.kind = "SessionOpen" => f = Frame("SessionOpen", None)
           /\ f.kind # "none"
  BY DEF WorkFrame, ControlFrame, Frame

\* What a queue is after an element was added, and after its head was taken.
LEMMA QueueFacts ==
    ASSUME NEW S, NEW s \in Seq(S)
    PROVE  /\ Len(s) \in Nat /\ DOMAIN s = 1..Len(s) /\ \A i \in DOMAIN s : s[i] \in S
           /\ s = <<>> <=> Len(s) = 0
           /\ \A e \in S : /\ Append(s, e) \in Seq(S) /\ Len(Append(s, e)) = Len(s) + 1
                           /\ Append(s, e)[Len(s) + 1] = e
                           /\ \A i \in DOMAIN s : Append(s, e)[i] = s[i]
           /\ s # <<>> => /\ Tail(s) \in Seq(S) /\ Len(Tail(s)) = Len(s) - 1
                          /\ Head(s) = s[1] /\ s[1] \in S
                          /\ \A i \in 1..(Len(s) - 1) : Tail(s)[i] = s[i + 1]
  OBVIOUS

\* The queue to the workers after a send.
LEMMA SendTyped ==
    ASSUME TypeOK, NEW c \in Conn, NEW f \in WorkFrame \cup ControlFrame, Send(c, f)
    PROVE  toWorker' \in [Conn -> Seq(WorkFrame \cup ControlFrame)]
  <1>1. toWorker \in [Conn -> Seq(WorkFrame \cup ControlFrame)]
    BY DEF TypeOK
  <1>2. Append(toWorker[c], f) \in Seq(WorkFrame \cup ControlFrame)
    BY <1>1, QueueFacts
  <1> QED
    BY <1>1, <1>2 DEF Send

\* A cancel sends at most one frame, to the worker of its command.
LEMMA CancelTyped ==
    ASSUME TypeOK, NEW h \in Handle, Cancel(h)
    PROVE  /\ toWorker' \in [Conn -> Seq(WorkFrame \cup ControlFrame)]
           /\ cancel_requested' \subseteq cancel_requested \cup {h}
  <1>1. inflight[h] # None => inflight[h] \in Conn
    BY DEF TypeOK
  <1>2. \/ toWorker' = toWorker
        \/ inflight[h] # None /\ Send(inflight[h], Frame("Cancel", h))
    BY DEF Cancel
  <1>3. toWorker' \in [Conn -> Seq(WorkFrame \cup ControlFrame)]
    BY <1>1, <1>2, SendTyped, FramesSent DEF TypeOK
  <1> QED
    BY <1>3 DEF Cancel

-----------------------------------------------------------------------------
(* Types.                                                                  *)

\* The server starts well-typed.
LEMMA BaseInit == ASSUME Init PROVE BaseInv
  <1> USE ExecAssumption DEF Init
  <1>1. TypeOK
    <2>1. /\ toWorker \in [Conn -> Seq(WorkFrame \cup ControlFrame)]
          /\ toServer \in [Conn -> Seq(WorkFrame)]
      OBVIOUS
    <2>2. far \in [Worker -> [pc : {"off", "idle", "running", "resetting"},
                              job : WorkFrame \cup {NoFrame}]]
      BY DEF Off
    <2>3. sweep \in [handle : Handle \cup {None}, status : HandleState,
                     stage : {"none", "look", "act"}]
      BY DEF NoSweep, HandleState
    <2> QED
      BY <2>1, <2>2, <2>3 DEF TypeOK, HandleState, DispatchPc, ServePc, LoopPc
  <1>2. DispatchInv /\ PinInv /\ SweepInv /\ JobInv
    BY DEF DispatchInv, PinInv, SweepInv, JobInv, NoSweep, Terminal, Off
  <1> QED
    BY <1>1, <1>2 DEF BaseInv

\* Steps of a connection: its read loop, its drop, and the worker at its far end.
LEMMA BaseConn == ASSUME BaseInv, NEW c \in Conn, ConnStep(c) PROVE BaseInv'
  <1> USE ExecAssumption DEF poolVars, handlerVars, loopVars, farVars
  <1>t. /\ toWorker \in [Conn -> Seq(WorkFrame \cup ControlFrame)]
        /\ toServer \in [Conn -> Seq(WorkFrame)]
        /\ far \in [Worker -> [pc : {"off", "idle", "running", "resetting"},
                               job : WorkFrame \cup {NoFrame}]]
        /\ WorkerOf[c] \in Worker /\ idle \in [Conn -> Nat]
    BY DEF BaseInv, TypeOK
  <1>1. CASE Register(c)
    <2>1. far' = [far EXCEPT ![WorkerOf[c]] = Idle] /\ idle' = Pushed(c)
      BY <1>1 DEF Register
    <2>2. /\ far' \in [Worker -> [pc : {"off", "idle", "running", "resetting"},
                                  job : WorkFrame \cup {NoFrame}]]
          /\ idle' \in [Conn -> Nat]
      BY <1>t, <2>1 DEF Idle, Pushed
    <2>3. TypeOK'
      BY <1>1, <1>t, <2>2 DEF BaseInv, TypeOK, Register, LoopPc
    <2>4. JobInv'
      BY <1>t, <2>1 DEF BaseInv, JobInv, Idle
    <2> QED
      BY <1>1, <2>3, <2>4 DEF BaseInv, DispatchInv, PinInv, SweepInv, Register
  <1>2. CASE KeepaliveEvicts(c)
    BY <1>2 DEF BaseInv, TypeOK, DispatchInv, PinInv, SweepInv, JobInv, KeepaliveEvicts
  <1>9. CASE LoopEnds(c)
    BY <1>9 DEF BaseInv, TypeOK, DispatchInv, PinInv, SweepInv, JobInv, LoopEnds, LoopPc
  <1>3. CASE Drop1(c)
    BY <1>3 DEF BaseInv, TypeOK, DispatchInv, PinInv, SweepInv, JobInv, Drop1, LoopPc
  <1>4. CASE Drop2(c)
    <2>0. /\ idle' = [d \in Conn |-> IF WorkerOf[d] = WorkerOf[c] THEN 0 ELSE idle[d]]
          /\ \/ event' = event
             \/ \E e \in {"exit", "closed"} :
                    event' = [event EXCEPT ![pty_sessions[WorkerOf[c]]] = e]
      BY <1>4 DEF Drop2
    <2>1. event' \in [Pty -> {"none", "exit", "closed"}]
      <3>1. event \in [Pty -> {"none", "exit", "closed"}]
        BY DEF BaseInv, TypeOK
      <3>2. ASSUME NEW e \in {"exit", "closed"}, NEW p
            PROVE  [event EXCEPT ![p] = e] \in [Pty -> {"none", "exit", "closed"}]
        BY <3>1
      <3> QED
        BY <2>0, <3>1, <3>2
    <2>2. idle' \in [Conn -> Nat]
      BY <1>t, <2>0
    <2>3. TypeOK'
      BY <1>4, <1>t, <2>1, <2>2 DEF BaseInv, TypeOK, Drop2, LoopPc
    <2> QED
      BY <1>4, <2>3 DEF BaseInv, DispatchInv, PinInv, SweepInv, JobInv, Drop2
  <1>5. CASE Fill(c)
    <2>1. /\ handles' = [h \in Handle |-> IF h \in pending[c] /\ handles[h] = "Running"
                                          THEN "WorkerDied" ELSE handles[h]]
          /\ loop' = [loop EXCEPT ![c] = "ended"] /\ pending' = [pending EXCEPT ![c] = {}]
          /\ UNCHANGED <<idle, liveness, inflight, cancel_requested, polled, pty_sessions,
                         leased, handlerVars, evict, farVars>>
      BY <1>5 DEF Fill
    <2>2. TypeOK'
      BY <2>1 DEF BaseInv, TypeOK, HandleState, Terminal, LoopPc
    <2>3. SweepInv'
      <3>1. sweep.status \in Terminal => sweep.handle \in Handle
        BY DEF BaseInv, SweepInv, NoSweep, Terminal
      <3> QED
        BY <2>1, <3>1 DEF BaseInv, SweepInv, Terminal
    <2> QED
      BY <2>1, <2>2, <2>3 DEF BaseInv, DispatchInv, PinInv, JobInv
  <1>6. CASE ReadFrame(c)
    <2>1. /\ toServer' = [toServer EXCEPT ![c] = Tail(@)] /\ toServer[c] # <<>>
          /\ UNCHANGED <<liveness, cancel_requested, polled, pty_sessions, dispatch, taken,
                         serve, pinned, sweep, loopVars, up, toWorker, far>>
      BY <1>6 DEF ReadFrame
    <2>2. toServer' \in [Conn -> Seq(WorkFrame)] /\ Head(toServer[c]) \in WorkFrame
      BY <1>t, <2>1, QueueFacts
    <2>3. /\ idle' \in [Conn -> Nat] /\ inflight' \in [Handle -> Conn \cup {None}]
          /\ \A h \in Handle : inflight'[h] \in {inflight[h], None}
          /\ handles' \in [Handle -> HandleState]
          /\ \A h \in Handle : \/ handles'[h] = handles[h]
                               \/ handles[h] = "Running" /\ handles'[h] = "Finished"
          /\ leased' \subseteq Conn /\ event' \in [Pty -> {"none", "exit", "closed"}]
      <3> DEFINE f == Head(toServer[c])
      <3>0. /\ idle \in [Conn -> Nat] /\ inflight \in [Handle -> Conn \cup {None}]
            /\ handles \in [Handle -> HandleState] /\ leased \subseteq Conn
            /\ event \in [Pty -> {"none", "exit", "closed"}]
            /\ pty_sessions \in [Worker -> Pty \cup {None}]
        BY DEF BaseInv, TypeOK
      <3>1. CASE f.kind = "Execute" /\ ReadResult(c, f.id)
        <4>1. f.id \in Handle
          BY <2>2, <3>1, FrameKinds
        <4> HIDE DEF f
        <4> QED
          BY <3>0, <3>1, <4>1 DEF ReadResult, Pushed, HandleState, Terminal
      <3>2. CASE f.kind = "PtyOpen" /\ ReadPtyExit(c)
        BY <1>t, <3>0, <3>2 DEF ReadPtyExit
      <3>3. CASE f.kind = "SessionOpen" /\ ReadSessionClosed(c)
        BY <3>0, <3>3 DEF ReadSessionClosed, Pushed
      <3> QED
        BY <1>6, <3>1, <3>2, <3>3 DEF ReadFrame
    <2>4. TypeOK'
      BY <2>1, <2>2, <2>3 DEF BaseInv, TypeOK
    <2>5. DispatchInv' /\ PinInv' /\ JobInv'
      BY <2>1, <2>3 DEF BaseInv, DispatchInv, PinInv, JobInv
    <2>6. SweepInv'
      <3>1. sweep.status \in Terminal => sweep.handle \in Handle
        BY DEF BaseInv, SweepInv, NoSweep, Terminal
      <3> QED
        BY <2>1, <2>3, <3>1 DEF BaseInv, SweepInv, Terminal
    <2> QED
      BY <2>4, <2>5, <2>6 DEF BaseInv
  <1>7. CASE FarReads(c) \/ FarReports(c) \/ FarLost(c)
    <2>1. UNCHANGED <<poolVars, handlerVars, loopVars>> /\ up' \subseteq up
      BY <1>7 DEF FarReads, FarReports, FarLost
    <2>2. /\ toWorker' \in [Conn -> Seq(WorkFrame \cup ControlFrame)]
          /\ toServer' \in [Conn -> Seq(WorkFrame)]
          /\ far' \in [Worker -> [pc : {"off", "idle", "running", "resetting"},
                                  job : WorkFrame \cup {NoFrame}]]
          /\ JobInv'
      <3>1. CASE FarReads(c)
        <4> DEFINE w == WorkerOf[c]
                   f == Head(toWorker[c])
        <4>1. /\ toWorker[c] # <<>> /\ toWorker' = [toWorker EXCEPT ![c] = Tail(@)]
              /\ toServer' = toServer
              /\ far' = [far EXCEPT ![w] = far'[w]]
              /\ \/ f.kind \in {"Execute", "PtyOpen", "SessionOpen"}
                    /\ far'[w] = [pc |-> "running", job |-> f]
                 \/ far[w].pc = "running" /\ far'[w] = [far[w] EXCEPT !.pc = "resetting"]
                 \/ far'[w] = far[w]
          BY <1>t, <3>1 DEF FarReads
        <4>2. /\ toWorker' \in [Conn -> Seq(WorkFrame \cup ControlFrame)]
              /\ f \in WorkFrame \cup ControlFrame
          BY <1>t, <4>1, QueueFacts
        <4>3. f.kind \in {"Execute", "PtyOpen", "SessionOpen"} => f \in WorkFrame
          BY <4>2, FrameKinds
        <4>4. PICK m : m = far'[w]
          OBVIOUS
        <4>w. w \in Worker /\ far[w] \in [pc : {"off", "idle", "running", "resetting"},
                                          job : WorkFrame \cup {NoFrame}]
          BY <1>t
        <4> HIDE DEF f, w
        <4>5. /\ m \in [pc : {"off", "idle", "running", "resetting"},
                        job : WorkFrame \cup {NoFrame}]
              /\ m.pc \in {"running", "resetting"} => m.job \in WorkFrame
          BY <4>w, <4>1, <4>3, <4>4 DEF BaseInv, JobInv
        <4>6. far' = [far EXCEPT ![w] = m]
          BY <4>1, <4>4
        <4>7. /\ far' \in [Worker -> [pc : {"off", "idle", "running", "resetting"},
                                      job : WorkFrame \cup {NoFrame}]]
              /\ JobInv'
          BY <1>t, <4>5, <4>6, <4>w DEF BaseInv, JobInv
        <4> QED
          BY <1>t, <4>1, <4>2, <4>7
      <3>2. CASE FarReports(c)
        <4>1. /\ far[WorkerOf[c]].pc = "resetting" /\ toWorker' = toWorker
              /\ toServer' = [toServer EXCEPT ![c] = Append(@, far[WorkerOf[c]].job)]
              /\ far' = [far EXCEPT ![WorkerOf[c]] = Idle]
          BY <3>2 DEF FarReports
        <4>2. far' \in [Worker -> [pc : {"off", "idle", "running", "resetting"},
                                   job : WorkFrame \cup {NoFrame}]]
          BY <1>t, <4>1 DEF Idle
        <4>3. far[WorkerOf[c]].job \in WorkFrame
          BY <1>t, <4>1 DEF BaseInv, JobInv
        <4> QED
          BY <1>t, <4>1, <4>2, <4>3, QueueFacts DEF BaseInv, JobInv, Idle
      <3>3. CASE FarLost(c)
        <4>1. /\ far' = [far EXCEPT ![WorkerOf[c]] = Off]
              /\ toWorker' = [toWorker EXCEPT ![c] = <<>>]
              /\ \E kept \in {toServer[c], <<>>} : toServer' = [toServer EXCEPT ![c] = kept]
          BY <3>3 DEF FarLost
        <4>2. <<>> \in Seq(WorkFrame \cup ControlFrame) /\ <<>> \in Seq(WorkFrame)
          OBVIOUS
        <4>3. JobInv'
          BY <1>t, <4>1 DEF BaseInv, JobInv, Off
        <4>4. far' \in [Worker -> [pc : {"off", "idle", "running", "resetting"},
                                   job : WorkFrame \cup {NoFrame}]]
          BY <1>t, <4>1 DEF Off
        <4>5. toServer' \in [Conn -> Seq(WorkFrame)]
          BY <1>t, <4>1, <4>2
        <4> QED
          BY <1>t, <4>1, <4>2, <4>3, <4>4, <4>5
      <3> QED
        BY <1>7, <3>1, <3>2, <3>3
    <2>3. TypeOK'
      BY <2>1, <2>2 DEF BaseInv, TypeOK
    <2> QED
      BY <2>1, <2>2, <2>3 DEF BaseInv, DispatchInv, PinInv, SweepInv
  <1>8. CASE SessionTakes(c)
    <2>1. /\ Send(c, Frame("SessionOpen", None)) /\ idle' = Popped(c) /\ idle[c] > 0
          /\ leased' = leased \cup {c}
          /\ UNCHANGED <<liveness, inflight, handles, cancel_requested, polled,
                         pty_sessions, handlerVars, loopVars, up, toServer, far>>
      BY <1>8 DEF SessionTakes
    <2>2. toWorker' \in [Conn -> Seq(WorkFrame \cup ControlFrame)]
      BY <2>1, SendTyped, FramesSent DEF BaseInv
    <2>3. idle' \in [Conn -> Nat]
      BY <1>t, <2>1 DEF Popped
    <2>4. TypeOK'
      BY <2>1, <2>2, <2>3 DEF BaseInv, TypeOK
    <2> QED
      BY <2>1, <2>4 DEF BaseInv, DispatchInv, PinInv, SweepInv, JobInv
  <1> QED
    BY <1>1, <1>2, <1>3, <1>4, <1>5, <1>6, <1>7, <1>8, <1>9 DEF ConnStep

\* Steps about a command: its dispatch, its polls and cancels, a snapshot.
LEMMA BaseHandle == ASSUME BaseInv, NEW h \in Handle, HandleStep(h) PROVE BaseInv'
  <1> USE ExecAssumption DEF poolVars, handlerVars, loopVars, farVars
  <1>t. /\ idle \in [Conn -> Nat] /\ taken \in [Handle -> Conn \cup {None}]
        /\ inflight \in [Handle -> Conn \cup {None}]
        /\ dispatch[h] # "none" => taken[h] \in Conn
    BY DEF BaseInv, TypeOK, DispatchInv
  <1>1. ASSUME NEW c \in Conn, DispatchTake(h, c)
        PROVE  BaseInv'
    <2>1. idle' = Popped(c) /\ idle[c] > 0
      BY <1>1 DEF DispatchTake
    <2>2. idle' \in [Conn -> Nat]
      BY <1>t, <2>1 DEF Popped
    <2>3. TypeOK'
      BY <1>1, <2>2 DEF BaseInv, TypeOK, DispatchTake, DispatchPc
    <2> QED
      BY <1>1, <2>3 DEF BaseInv, TypeOK, DispatchInv, PinInv, SweepInv, JobInv, DispatchTake
  <1>2. CASE SetupFails(h)
    <2>1. idle' = Pushed(taken[h]) /\ dispatch[h] = "setup"
      BY <1>2 DEF SetupFails
    <2>2. idle' \in [Conn -> Nat]
      BY <1>t, <2>1 DEF Pushed
    <2>3. TypeOK'
      BY <1>2, <2>2 DEF BaseInv, TypeOK, SetupFails, DispatchPc
    <2> QED
      BY <1>2, <2>3 DEF BaseInv, TypeOK, DispatchInv, PinInv, SweepInv, JobInv, SetupFails
  <1>3. CASE DispatchRegister(h)
    <2>1. TypeOK'
      BY <1>3, <1>t DEF BaseInv, TypeOK, DispatchRegister, DispatchPc, HandleState
    <2>2. DispatchInv'
      BY <1>3, <1>t DEF BaseInv, TypeOK, DispatchInv, DispatchRegister
    <2>3. SweepInv'
      BY <1>3 DEF BaseInv, TypeOK, SweepInv, DispatchInv, DispatchRegister, NoSweep, Terminal
    <2> QED
      BY <1>3, <2>1, <2>2, <2>3 DEF BaseInv, PinInv, JobInv, DispatchRegister
  <1>4. CASE DispatchSend(h)
    <2>1. Send(taken[h], Frame("Execute", h)) /\ dispatch[h] = "sending"
      BY <1>4 DEF DispatchSend
    <2>2. toWorker' \in [Conn -> Seq(WorkFrame \cup ControlFrame)]
      BY <1>t, <2>1, SendTyped, FramesSent DEF BaseInv
    <2>3. TypeOK'
      BY <1>4, <2>2 DEF BaseInv, TypeOK, DispatchSend, DispatchPc
    <2> QED
      BY <1>4, <2>3 DEF BaseInv, TypeOK, DispatchInv, PinInv, SweepInv, JobInv, DispatchSend
  <1>5. CASE DispatchSendFails(h)
    <2>1. TypeOK'
      BY <1>5, <1>t DEF BaseInv, TypeOK, DispatchSendFails, DispatchPc, HandleState
    <2>2. DispatchInv'
      BY <1>5, <1>t DEF BaseInv, TypeOK, DispatchInv, DispatchSendFails
    <2>3. SweepInv'
      BY <1>5 DEF BaseInv, TypeOK, SweepInv, DispatchSendFails, NoSweep, Terminal
    <2> QED
      BY <1>5, <2>1, <2>2, <2>3 DEF BaseInv, PinInv, JobInv, DispatchSendFails
  <1>6. CASE Abandon(h) \/ Poll(h) \/ TtlPasses(h)
    <2>1. /\ UNCHANGED <<idle, liveness, inflight, handles, cancel_requested, pty_sessions,
                         leased, taken, serve, pinned, event, sweep, loopVars, farVars>>
          /\ polled' \subseteq polled \cup {h}
          /\ \/ dispatch' = dispatch
             \/ /\ dispatch[h] \in {"setup", "sending"}
                /\ dispatch' = [dispatch EXCEPT ![h] = "abandoned"]
      BY <1>6 DEF Abandon, Poll, TtlPasses
    <2>2. TypeOK'
      BY <2>1 DEF BaseInv, TypeOK, DispatchPc
    <2> QED
      BY <2>1, <2>2 DEF BaseInv, TypeOK, DispatchInv, PinInv, SweepInv, JobInv
  <1>7. CASE Kill(h)
    <2>1. /\ Cancel(h)
          /\ UNCHANGED <<idle, liveness, inflight, handles, polled, pty_sessions, leased,
                         handlerVars, loopVars, up, toServer, far>>
      BY <1>7 DEF Kill
    <2>2. /\ toWorker' \in [Conn -> Seq(WorkFrame \cup ControlFrame)]
          /\ cancel_requested' \subseteq cancel_requested \cup {h}
      BY <2>1, CancelTyped DEF BaseInv
    <2>3. TypeOK'
      BY <2>1, <2>2 DEF BaseInv, TypeOK
    <2> QED
      BY <2>1, <2>3 DEF BaseInv, DispatchInv, PinInv, SweepInv, JobInv
  <1>8. CASE SweepSnapshot(h)
    <2>1. TypeOK'
      BY <1>8 DEF BaseInv, TypeOK, SweepSnapshot
    <2> QED
      BY <1>8, <2>1 DEF BaseInv, DispatchInv, PinInv, SweepInv, JobInv, SweepSnapshot
  <1> QED
    BY <1>1, <1>2, <1>3, <1>4, <1>5, <1>6, <1>7, <1>8 DEF HandleStep

\* Steps of a pty handler.
LEMMA BasePty == ASSUME BaseInv, NEW p \in Pty, PtyStep(p) PROVE BaseInv'
  <1> USE ExecAssumption DEF poolVars, handlerVars, loopVars, farVars
  <1>t. /\ idle \in [Conn -> Nat] /\ pinned \in [Pty -> Conn \cup {None}]
        /\ event \in [Pty -> {"none", "exit", "closed"}] /\ serve \in [Pty -> ServePc]
        /\ serve[p] # "none" => pinned[p] \in Conn
    BY DEF BaseInv, TypeOK, PinInv
  <1>1. ASSUME NEW c \in Conn, PtyPin(p, c)
        PROVE  BaseInv'
    <2>1. idle' = Popped(c) /\ idle[c] > 0
      BY <1>1 DEF PtyPin
    <2>2. idle' \in [Conn -> Nat]
      BY <1>t, <2>1 DEF Popped
    <2>3. TypeOK'
      BY <1>1, <2>2 DEF BaseInv, TypeOK, PtyPin, Serving, ServePc
    <2> QED
      BY <1>1, <1>t, <2>3 DEF BaseInv, DispatchInv, PinInv, SweepInv, JobInv, PtyPin, Serving
  <1>2. CASE PtyOpens(p) \/ PtyLeft(p) \/ PtyHangsUp(p) \/ PtySeesEnd(p) \/ PtyTimeout(p)
    <2>1. /\ UNCHANGED <<poolVars, dispatch, taken, pinned, event, sweep, loopVars, up,
                         toServer, far>>
          /\ serve[p] # "none"
          /\ \/ toWorker' = toWorker \/ Send(pinned[p], Frame("PtyOpen", p))
             \/ Send(pinned[p], Frame("PtyClose", p))
          /\ \E pc \in ServePc : serve' = [serve EXCEPT ![p] = pc]
      BY <1>2 DEF PtyOpens, PtyLeft, PtyHangsUp, PtySeesEnd, PtyTimeout, Serving, ServePc
    <2>2. toWorker' \in [Conn -> Seq(WorkFrame \cup ControlFrame)]
      BY <1>t, <2>1, SendTyped, FramesSent DEF BaseInv, TypeOK
    <2>3. TypeOK'
      BY <1>t, <2>1, <2>2 DEF BaseInv, TypeOK
    <2> QED
      BY <1>t, <2>1, <2>3 DEF BaseInv, DispatchInv, PinInv, SweepInv, JobInv
  <1>3. CASE PtyRelease(p)
    <2>1. /\ serve[p] = "releasing" /\ ChannelCloses(WorkerOf[pinned[p]])
          /\ idle' = idle \/ idle' = Pushed(pinned[p])
          /\ serve' = [serve EXCEPT ![p] = "over"]
          /\ UNCHANGED <<liveness, inflight, handles, cancel_requested, polled, leased,
                         dispatch, taken, pinned, sweep, loopVars, farVars>>
      BY <1>3 DEF PtyRelease, Serving
    <2>2. idle' \in [Conn -> Nat]
      BY <1>t, <2>1 DEF Pushed
    <2>3. /\ event' \in [Pty -> {"none", "exit", "closed"}]
          /\ pty_sessions' \in [Worker -> Pty \cup {None}]
      BY <1>t, <2>1 DEF ChannelCloses, BaseInv, TypeOK
    <2>4. TypeOK'
      BY <1>t, <2>1, <2>2, <2>3 DEF BaseInv, TypeOK, ServePc
    <2> QED
      BY <1>t, <2>1, <2>4 DEF BaseInv, DispatchInv, PinInv, SweepInv, JobInv
  <1> QED
    BY <1>1, <1>2, <1>3 DEF PtyStep

\* The far end's own steps and the sweeper's.
LEMMA BaseRest ==
    ASSUME BaseInv, (\E w \in Worker : FarEnds(w)) \/ SweepLooks \/ SweepActs
    PROVE  BaseInv'
  <1> USE ExecAssumption DEF poolVars, handlerVars, loopVars, farVars
  <1>1. ASSUME NEW w \in Worker, FarEnds(w)
        PROVE  BaseInv'
    <2>1. /\ far[w].pc = "running" /\ far' = [far EXCEPT ![w].pc = "resetting"]
          /\ UNCHANGED <<poolVars, handlerVars, loopVars, up, toWorker, toServer>>
      BY <1>1 DEF FarEnds
    <2>2. /\ far' \in [Worker -> [pc : {"off", "idle", "running", "resetting"},
                                  job : WorkFrame \cup {NoFrame}]]
          /\ JobInv'
      <3>1. far \in [Worker -> [pc : {"off", "idle", "running", "resetting"},
                                job : WorkFrame \cup {NoFrame}]]
        BY DEF BaseInv, TypeOK
      <3>2. PICK me : me = [far[w] EXCEPT !.pc = "resetting"] /\ far' = [far EXCEPT ![w] = me]
        BY <2>1
      <3>3. far[w].job \in WorkFrame
        BY <2>1 DEF BaseInv, JobInv
      <3>4. /\ me \in [pc : {"off", "idle", "running", "resetting"},
                       job : WorkFrame \cup {NoFrame}]
            /\ me.job \in WorkFrame
        BY <3>1, <3>2, <3>3
      <3> QED
        BY <3>1, <3>2, <3>4 DEF BaseInv, JobInv
    <2>3. TypeOK'
      BY <2>1, <2>2 DEF BaseInv, TypeOK
    <2> QED
      BY <2>1, <2>2, <2>3 DEF BaseInv, DispatchInv, PinInv, SweepInv
  <1>2. CASE SweepLooks
    <2>1. TypeOK'
      BY <1>2 DEF BaseInv, TypeOK, SweepLooks, NoSweep, HandleState
    <2>2. SweepInv'
      BY <1>2 DEF BaseInv, TypeOK, SweepInv, SweepLooks, NoSweep, Terminal
    <2> QED
      BY <1>2, <2>1, <2>2 DEF BaseInv, DispatchInv, PinInv, JobInv, SweepLooks
  <1>3. CASE SweepActs
    <2>1. /\ sweep' = NoSweep /\ sweep.handle \in Handle
          /\ UNCHANGED <<idle, liveness, inflight, polled, pty_sessions, leased, dispatch, taken,
                         serve, pinned, event, loopVars, up, toServer, far>>
      BY <1>3 DEF SweepActs, BaseInv, SweepInv, NoSweep
    <2>2. /\ toWorker' \in [Conn -> Seq(WorkFrame \cup ControlFrame)]
          /\ cancel_requested' \subseteq Handle
          /\ \/ handles' = handles
             \/ /\ handles' = [handles EXCEPT ![sweep.handle] = "Purged"]
                /\ handles[sweep.handle] \in Terminal \cup {"Purged"}
      <3>1. CASE sweep.status = "Running" /\ Cancel(sweep.handle) /\ UNCHANGED handles
        BY <2>1, <3>1, CancelTyped DEF BaseInv, TypeOK
      <3>2. CASE /\ sweep.status \in Terminal
                 /\ handles' = [handles EXCEPT ![sweep.handle] = "Purged"]
                 /\ UNCHANGED <<cancel_requested, toWorker>>
        BY <3>2 DEF BaseInv, TypeOK, SweepInv
      <3> QED
        BY <1>3, <3>1, <3>2 DEF SweepActs
    <2>3. TypeOK'
      BY <2>1, <2>2 DEF BaseInv, TypeOK, NoSweep, HandleState
    <2>4. DispatchInv'
      BY <2>1, <2>2 DEF BaseInv, TypeOK, DispatchInv, Terminal
    <2> QED
      BY <2>1, <2>3, <2>4 DEF BaseInv, PinInv, SweepInv, JobInv, NoSweep, Terminal
  <1> QED
    BY <1>1, <1>2, <1>3

\* Types, handles and the sweeper's snapshot, through every step.
LEMMA BaseStep == ASSUME BaseInv, [Next]_vars PROVE BaseInv'
  <1>1. CASE UNCHANGED vars
    BY <1>1 DEF vars, poolVars, handlerVars, loopVars, farVars, BaseInv, TypeOK, DispatchInv,
                PinInv, SweepInv, JobInv
  <1> QED
    BY <1>1, BaseConn, BaseHandle, BasePty, BaseRest DEF Next

-----------------------------------------------------------------------------
(* Holders.                                                                *)

\* What reading a frame does, by the kind of work the frame reports.
LEMMA ReadCases ==
    ASSUME BaseInv, NEW c \in Conn, ReadFrame(c)
    PROVE  /\ loop[c] = "reading" /\ toServer[c] # <<>> /\ toServer[c][1] \in WorkFrame
           /\ toServer' = [toServer EXCEPT ![c] = Tail(@)]
           /\ UNCHANGED <<liveness, cancel_requested, polled, pty_sessions, dispatch, taken,
                          serve, pinned, sweep, loopVars, up, toWorker, far>>
           /\ \/ \E h \in Handle : toServer[c][1] = Frame("Execute", h) /\ ReadResult(c, h)
              \/ \E p \in Pty : toServer[c][1] = Frame("PtyOpen", p) /\ ReadPtyExit(c)
              \/ toServer[c][1] = Frame("SessionOpen", None) /\ ReadSessionClosed(c)
  <1> DEFINE f == Head(toServer[c])
  <1>1. /\ loop[c] = "reading" /\ toServer[c] # <<>>
        /\ toServer' = [toServer EXCEPT ![c] = Tail(@)]
        /\ \/ f.kind = "Execute" /\ ReadResult(c, f.id)
           \/ f.kind = "PtyOpen" /\ ReadPtyExit(c)
           \/ f.kind = "SessionOpen" /\ ReadSessionClosed(c)
        /\ UNCHANGED <<liveness, cancel_requested, polled, pty_sessions, dispatch, taken,
                       serve, pinned, sweep, loopVars, up, toWorker, far>>
    BY DEF ReadFrame
  <1>2. toServer[c] \in Seq(WorkFrame)
    BY DEF BaseInv, TypeOK
  <1>3. f = toServer[c][1] /\ f \in WorkFrame
    BY <1>1, <1>2, QueueFacts
  <1> HIDE DEF f
  <1> QED
    BY <1>1, <1>3, FrameKinds

\* Nothing is known of a connection before it is registered.
LEMMA NewStep == ASSUME BaseInv, NewInv, LiveInv, [Next]_vars PROVE NewInv'
  <1>l. \A w \in Worker : liveness[w] # None => loop[liveness[w]] # "new"
    BY DEF LiveInv, Registered
  <1>w. \A d \in Conn : WorkerOf[d] \in Worker /\ d # None
    BY ExecAssumption
  <1> USE ExecAssumption DEF poolVars, handlerVars, loopVars, farVars, BaseInv, TypeOK,
     NewInv
  <1>1. ASSUME NEW c \in Conn, Register(c) PROVE NewInv'
    BY <1>1 DEF Register, Pushed, Idle
  <1>2. ASSUME NEW c \in Conn, KeepaliveEvicts(c) PROVE NewInv'
    <2>1. loop[c] # "new" /\ evict' = evict \cup {c}
      BY <1>l, <1>w, <1>2 DEF KeepaliveEvicts
    <2> QED
      BY <1>2, <2>1 DEF KeepaliveEvicts
  <1>3. ASSUME NEW c \in Conn, LoopEnds(c) PROVE NewInv'
    BY <1>3 DEF LoopEnds
  <1>4. ASSUME NEW c \in Conn, Drop1(c) PROVE NewInv'
    BY <1>4 DEF Drop1
  <1>5. ASSUME NEW c \in Conn, Drop2(c) PROVE NewInv'
    BY <1>5 DEF Drop2
  <1>6. ASSUME NEW c \in Conn, Fill(c) PROVE NewInv'
    BY <1>6 DEF Fill
  <1>7. ASSUME NEW c \in Conn, ReadFrame(c) PROVE NewInv'
    <2>1. /\ loop[c] = "reading" /\ UNCHANGED <<loop, up, evict, toWorker>>
          /\ taken' = taken /\ pinned' = pinned /\ leased' \subseteq leased
          /\ toServer' = [toServer EXCEPT ![c] = Tail(@)]
          /\ \A d \in Conn : loop[d] = "new" => idle'[d] = idle[d]
      <3>1. ASSUME NEW h \in Handle, ReadResult(c, h)
            PROVE  leased' = leased /\ \A d \in Conn : loop[d] = "new" => idle'[d] = idle[d]
        BY <3>1 DEF ReadResult, Pushed, DispatchInv
      <3>2. ASSUME ReadPtyExit(c) \/ ReadSessionClosed(c), loop[c] = "reading"
            PROVE  /\ leased' \subseteq leased
                   /\ \A d \in Conn : loop[d] = "new" => idle'[d] = idle[d]
        BY <3>2 DEF ReadPtyExit, ReadSessionClosed, Pushed
      <3>3. BaseInv
        OBVIOUS
      <3> HIDE DEF BaseInv, TypeOK, NewInv
      <3>4. /\ loop[c] = "reading" /\ UNCHANGED <<loop, up, evict, toWorker>>
            /\ taken' = taken /\ pinned' = pinned
            /\ toServer' = [toServer EXCEPT ![c] = Tail(@)]
        BY <3>3, <1>7, ReadCases
      <3>5. (\E h \in Handle : ReadResult(c, h)) \/ ReadPtyExit(c) \/ ReadSessionClosed(c)
        BY <3>3, <1>7, ReadCases
      <3> QED
        BY <3>1, <3>2, <3>4, <3>5
    <2> QED
      BY <2>1
  <1>8. ASSUME NEW c \in Conn, FarReads(c) PROVE NewInv'
    BY <1>8 DEF FarReads
  <1>9. ASSUME NEW c \in Conn, FarReports(c) PROVE NewInv'
    BY <1>9 DEF FarReports, Idle
  <1>10. ASSUME NEW c \in Conn, FarLost(c) PROVE NewInv'
    BY <1>10 DEF FarLost, Off
  <1>11. ASSUME NEW c \in Conn, SessionTakes(c) PROVE NewInv'
    BY <1>11 DEF SessionTakes, Popped, Send
  <1>12. ASSUME NEW h \in Handle, NEW c \in Conn, DispatchTake(h, c) PROVE NewInv'
    BY <1>12 DEF DispatchTake, Popped
  <1>13. ASSUME NEW h \in Handle, SetupFails(h) PROVE NewInv'
    BY <1>13 DEF SetupFails, Pushed
  <1>14. ASSUME NEW h \in Handle, DispatchRegister(h) PROVE NewInv'
    BY <1>14 DEF DispatchRegister
  <1>15. ASSUME NEW h \in Handle, DispatchSend(h) PROVE NewInv'
    BY <1>15 DEF DispatchSend, Send
  <1>16. ASSUME NEW h \in Handle, DispatchSendFails(h) PROVE NewInv'
    <2>1. liveness[WorkerOf[taken[h]]] # None => loop[liveness[WorkerOf[taken[h]]]] # "new"
      BY <1>l, <1>w, <1>16 DEF DispatchSendFails, DispatchInv
    <2> QED
      BY <1>16, <2>1 DEF DispatchSendFails
  <1>17. ASSUME NEW h \in Handle, Abandon(h) PROVE NewInv'
    BY <1>17 DEF Abandon
  <1>18. ASSUME NEW h \in Handle, Poll(h) PROVE NewInv'
    BY <1>18 DEF Poll
  <1>19. ASSUME NEW h \in Handle, TtlPasses(h) PROVE NewInv'
    BY <1>19 DEF TtlPasses
  <1>20. ASSUME NEW h \in Handle, Kill(h) PROVE NewInv'
    BY <1>20 DEF Kill, Cancel, Send
  <1>21. ASSUME NEW h \in Handle, SweepSnapshot(h) PROVE NewInv'
    BY <1>21 DEF SweepSnapshot
  <1>22. ASSUME NEW p \in Pty, NEW c \in Conn, PtyPin(p, c) PROVE NewInv'
    BY <1>22 DEF PtyPin, Popped, Serving
  <1>23. ASSUME NEW p \in Pty, PtyOpens(p) PROVE NewInv'
    BY <1>23 DEF PtyOpens, Send, Serving
  <1>24. ASSUME NEW p \in Pty, PtyLeft(p) PROVE NewInv'
    BY <1>24 DEF PtyLeft, Serving
  <1>25. ASSUME NEW p \in Pty, PtyHangsUp(p) PROVE NewInv'
    BY <1>25 DEF PtyHangsUp, Send, Serving
  <1>26. ASSUME NEW p \in Pty, PtySeesEnd(p) PROVE NewInv'
    BY <1>26 DEF PtySeesEnd, Serving
  <1>27. ASSUME NEW p \in Pty, PtyTimeout(p) PROVE NewInv'
    BY <1>27 DEF PtyTimeout, Serving
  <1>28. ASSUME NEW p \in Pty, PtyRelease(p) PROVE NewInv'
    BY <1>28 DEF PtyRelease, Serving, ChannelCloses, Pushed
  <1>29. ASSUME NEW w \in Worker, FarEnds(w) PROVE NewInv'
    BY <1>29 DEF FarEnds
  <1>30. CASE SweepLooks
    BY <1>30 DEF SweepLooks
  <1>31. CASE SweepActs
    BY <1>31 DEF SweepActs, Cancel, Send
  <1>32. CASE UNCHANGED vars
    BY <1>32 DEF vars
  <1> QED
    BY <1>1, <1>2, <1>3, <1>4, <1>5, <1>6, <1>7, <1>8, <1>9, <1>10, <1>11, <1>12, <1>13,
       <1>14, <1>15, <1>16, <1>17, <1>18, <1>19, <1>20, <1>21, <1>22, <1>23, <1>24, <1>25,
       <1>26, <1>27, <1>28, <1>29, <1>30, <1>31, <1>32 DEF Next, ConnStep, HandleStep,
       PtyStep

\* The map of workers through every step.
LEMMA LiveStep == ASSUME BaseInv, LiveInv, [Next]_vars PROVE LiveInv'
  <1> USE ExecAssumption DEF poolVars, handlerVars, loopVars, farVars, BaseInv, TypeOK,
     LiveInv, Registered
  <1>1. ASSUME NEW c \in Conn, Register(c) PROVE LiveInv'
    <2>1. /\ liveness[WorkerOf[c]] = None
          /\ liveness' = [liveness EXCEPT ![WorkerOf[c]] = c]
          /\ loop' = [loop EXCEPT ![c] = "reading"]
      BY <1>1 DEF Register
    <2>2. \A d \in Conn : Registered(d) => WorkerOf[d] # WorkerOf[c]
      BY <2>1
    <2> QED
      BY <2>1, <2>2
  <1>2. ASSUME NEW c \in Conn, KeepaliveEvicts(c) PROVE LiveInv'
    BY <1>2 DEF KeepaliveEvicts
  <1>3. ASSUME NEW c \in Conn, LoopEnds(c) PROVE LiveInv'
    BY <1>3 DEF LoopEnds
  <1>4. ASSUME NEW c \in Conn, Drop1(c) PROVE LiveInv'
    BY <1>4 DEF Drop1
  <1>5. ASSUME NEW c \in Conn, Drop2(c) PROVE LiveInv'
    BY <1>5 DEF Drop2
  <1>6. ASSUME NEW c \in Conn, Fill(c) PROVE LiveInv'
    BY <1>6 DEF Fill
  <1>7. ASSUME NEW c \in Conn, ReadFrame(c) PROVE LiveInv'
    BY <1>7 DEF ReadFrame
  <1>8. ASSUME NEW c \in Conn, FarReads(c) PROVE LiveInv'
    BY <1>8 DEF FarReads
  <1>9. ASSUME NEW c \in Conn, FarReports(c) PROVE LiveInv'
    BY <1>9 DEF FarReports, Idle
  <1>10. ASSUME NEW c \in Conn, FarLost(c) PROVE LiveInv'
    BY <1>10 DEF FarLost, Off
  <1>11. ASSUME NEW c \in Conn, SessionTakes(c) PROVE LiveInv'
    BY <1>11 DEF SessionTakes, Popped, Send
  <1>12. ASSUME NEW h \in Handle, NEW c \in Conn, DispatchTake(h, c) PROVE LiveInv'
    BY <1>12 DEF DispatchTake, Popped
  <1>13. ASSUME NEW h \in Handle, SetupFails(h) PROVE LiveInv'
    BY <1>13 DEF SetupFails, Pushed
  <1>14. ASSUME NEW h \in Handle, DispatchRegister(h) PROVE LiveInv'
    BY <1>14 DEF DispatchRegister
  <1>15. ASSUME NEW h \in Handle, DispatchSend(h) PROVE LiveInv'
    BY <1>15 DEF DispatchSend, Send
  <1>16. ASSUME NEW h \in Handle, DispatchSendFails(h) PROVE LiveInv'
    BY <1>16 DEF DispatchSendFails
  <1>17. ASSUME NEW h \in Handle, Abandon(h) PROVE LiveInv'
    BY <1>17 DEF Abandon
  <1>18. ASSUME NEW h \in Handle, Poll(h) PROVE LiveInv'
    BY <1>18 DEF Poll
  <1>19. ASSUME NEW h \in Handle, TtlPasses(h) PROVE LiveInv'
    BY <1>19 DEF TtlPasses
  <1>20. ASSUME NEW h \in Handle, Kill(h) PROVE LiveInv'
    BY <1>20 DEF Kill, Cancel, Send
  <1>21. ASSUME NEW h \in Handle, SweepSnapshot(h) PROVE LiveInv'
    BY <1>21 DEF SweepSnapshot
  <1>22. ASSUME NEW p \in Pty, NEW c \in Conn, PtyPin(p, c) PROVE LiveInv'
    BY <1>22 DEF PtyPin, Popped, Serving
  <1>23. ASSUME NEW p \in Pty, PtyOpens(p) PROVE LiveInv'
    BY <1>23 DEF PtyOpens, Send, Serving
  <1>24. ASSUME NEW p \in Pty, PtyLeft(p) PROVE LiveInv'
    BY <1>24 DEF PtyLeft, Serving
  <1>25. ASSUME NEW p \in Pty, PtyHangsUp(p) PROVE LiveInv'
    BY <1>25 DEF PtyHangsUp, Send, Serving
  <1>26. ASSUME NEW p \in Pty, PtySeesEnd(p) PROVE LiveInv'
    BY <1>26 DEF PtySeesEnd, Serving
  <1>27. ASSUME NEW p \in Pty, PtyTimeout(p) PROVE LiveInv'
    BY <1>27 DEF PtyTimeout, Serving
  <1>28. ASSUME NEW p \in Pty, PtyRelease(p) PROVE LiveInv'
    BY <1>28 DEF PtyRelease, Serving, ChannelCloses, Pushed
  <1>29. ASSUME NEW w \in Worker, FarEnds(w) PROVE LiveInv'
    BY <1>29 DEF FarEnds
  <1>30. CASE SweepLooks
    BY <1>30 DEF SweepLooks
  <1>31. CASE SweepActs
    BY <1>31 DEF SweepActs, Cancel, Send
  <1>32. CASE UNCHANGED vars
    BY <1>32 DEF vars
  <1> QED
    BY <1>1, <1>2, <1>3, <1>4, <1>5, <1>6, <1>7, <1>8, <1>9, <1>10, <1>11, <1>12, <1>13,
       <1>14, <1>15, <1>16, <1>17, <1>18, <1>19, <1>20, <1>21, <1>22, <1>23, <1>24, <1>25,
       <1>26, <1>27, <1>28, <1>29, <1>30, <1>31, <1>32 DEF Next, ConnStep, HandleStep,
       PtyStep

\* No step gives a connection a second holder, or queues one that is held.
LEMMA OneHolderStep ==
    ASSUME BaseInv, NewInv, \A c \in Conn : OneHolder(c), NEW x \in Conn, [Next]_vars
    PROVE  OneHolder(x)'
  <1> USE ExecAssumption DEF poolVars, handlerVars, loopVars, farVars, OneHolder, Has,
     HoldsByPty
  <1>t. /\ idle \in [Conn -> Nat] /\ inflight \in [Handle -> Conn \cup {None}]
        /\ dispatch \in [Handle -> DispatchPc] /\ taken \in [Handle -> Conn \cup {None}]
        /\ serve \in [Pty -> ServePc] /\ pinned \in [Pty -> Conn \cup {None}]
        /\ leased \subseteq Conn /\ DispatchInv /\ OneHolder(x)
    BY DEF BaseInv, TypeOK
  <1> USE DEF DispatchInv
  <1>1. ASSUME NEW c \in Conn, Register(c) PROVE OneHolder(x)'
    BY <1>1, <1>t DEF Register, Pushed, NewInv
  <1>2. ASSUME NEW c \in Conn, KeepaliveEvicts(c) PROVE OneHolder(x)'
    BY <1>2, <1>t DEF KeepaliveEvicts
  <1>3. ASSUME NEW c \in Conn, LoopEnds(c) PROVE OneHolder(x)'
    BY <1>3, <1>t DEF LoopEnds
  <1>4. ASSUME NEW c \in Conn, Drop1(c) PROVE OneHolder(x)'
    BY <1>4, <1>t DEF Drop1
  <1>5. ASSUME NEW c \in Conn, Drop2(c) PROVE OneHolder(x)'
    BY <1>5, <1>t DEF Drop2
  <1>6. ASSUME NEW c \in Conn, Fill(c) PROVE OneHolder(x)'
    BY <1>6, <1>t DEF Fill
  <1>7. ASSUME NEW c \in Conn, ReadFrame(c) PROVE OneHolder(x)'
    <2>1. /\ UNCHANGED <<dispatch, taken, serve, pinned>>
          /\ \/ \E h \in Handle : ReadResult(c, h)
             \/ ReadPtyExit(c) \/ ReadSessionClosed(c)
      BY <1>7, ReadCases
    <2>2. ASSUME NEW h \in Handle, ReadResult(c, h)
          PROVE  OneHolder(x)'
      <3>1. leased' = leased
        BY <2>2 DEF ReadResult
      <3>2. CASE idle' = idle /\ inflight' = inflight
        BY <2>1, <3>1, <3>2, <1>t
      <3>3. CASE /\ inflight[h] # None /\ inflight' = [inflight EXCEPT ![h] = None]
                 /\ idle' = [idle EXCEPT ![inflight[h]] = @ + 1]
        <4>1. inflight[h] = x => idle[x] = 0
          BY <1>t
        <4> QED
          BY <2>1, <3>1, <3>3, <4>1, <1>t
      <3> QED
        BY <2>2, <3>2, <3>3 DEF ReadResult, Pushed
    <2>3. CASE ReadPtyExit(c) \/ ReadSessionClosed(c)
      BY <2>1, <2>3, <1>t DEF ReadPtyExit, ReadSessionClosed, Pushed
    <2> QED
      BY <2>1, <2>2, <2>3
  <1>8. ASSUME NEW c \in Conn, FarReads(c) PROVE OneHolder(x)'
    BY <1>8, <1>t DEF FarReads
  <1>9. ASSUME NEW c \in Conn, FarReports(c) PROVE OneHolder(x)'
    BY <1>9, <1>t DEF FarReports, Idle
  <1>10. ASSUME NEW c \in Conn, FarLost(c) PROVE OneHolder(x)'
    BY <1>10, <1>t DEF FarLost, Off
  <1>11. ASSUME NEW c \in Conn, SessionTakes(c) PROVE OneHolder(x)'
    BY <1>11, <1>t DEF SessionTakes, Popped, Send
  <1>12. ASSUME NEW h \in Handle, NEW c \in Conn, DispatchTake(h, c) PROVE OneHolder(x)'
    BY <1>12, <1>t DEF DispatchTake, Popped
  <1>13. ASSUME NEW h \in Handle, SetupFails(h) PROVE OneHolder(x)'
    BY <1>13, <1>t DEF SetupFails, Pushed
  <1>14. ASSUME NEW h \in Handle, DispatchRegister(h) PROVE OneHolder(x)'
    BY <1>14, <1>t DEF DispatchRegister
  <1>15. ASSUME NEW h \in Handle, DispatchSend(h) PROVE OneHolder(x)'
    BY <1>15, <1>t DEF DispatchSend, Send
  <1>16. ASSUME NEW h \in Handle, DispatchSendFails(h) PROVE OneHolder(x)'
    BY <1>16, <1>t DEF DispatchSendFails
  <1>17. ASSUME NEW h \in Handle, Abandon(h) PROVE OneHolder(x)'
    BY <1>17, <1>t DEF Abandon
  <1>18. ASSUME NEW h \in Handle, Poll(h) PROVE OneHolder(x)'
    BY <1>18, <1>t DEF Poll
  <1>19. ASSUME NEW h \in Handle, TtlPasses(h) PROVE OneHolder(x)'
    BY <1>19, <1>t DEF TtlPasses
  <1>20. ASSUME NEW h \in Handle, Kill(h) PROVE OneHolder(x)'
    BY <1>20, <1>t DEF Kill, Cancel, Send
  <1>21. ASSUME NEW h \in Handle, SweepSnapshot(h) PROVE OneHolder(x)'
    BY <1>21, <1>t DEF SweepSnapshot
  <1>22. ASSUME NEW p \in Pty, NEW c \in Conn, PtyPin(p, c) PROVE OneHolder(x)'
    BY <1>22, <1>t DEF PtyPin, Popped, Serving
  <1>23. ASSUME NEW p \in Pty, PtyOpens(p) PROVE OneHolder(x)'
    <2>1. /\ serve[p] = "opening" /\ UNCHANGED <<idle, leased, dispatch, taken, inflight, pinned>>
          /\ \E pc \in {"splicing", "releasing"} : serve' = [serve EXCEPT ![p] = pc]
      BY <1>23 DEF PtyOpens, Serving
    <2> QED
      BY <2>1, <1>t
  <1>24. ASSUME NEW p \in Pty, PtyLeft(p) PROVE OneHolder(x)'
    BY <1>24, <1>t DEF PtyLeft, Serving
  <1>25. ASSUME NEW p \in Pty, PtyHangsUp(p) PROVE OneHolder(x)'
    BY <1>25, <1>t DEF PtyHangsUp, Send, Serving
  <1>26. ASSUME NEW p \in Pty, PtySeesEnd(p) PROVE OneHolder(x)'
    BY <1>26, <1>t DEF PtySeesEnd, Serving
  <1>27. ASSUME NEW p \in Pty, PtyTimeout(p) PROVE OneHolder(x)'
    BY <1>27, <1>t DEF PtyTimeout, Serving
  <1>28. ASSUME NEW p \in Pty, PtyRelease(p) PROVE OneHolder(x)'
    <2>1. /\ serve[p] = "releasing" /\ serve' = [serve EXCEPT ![p] = "over"]
          /\ UNCHANGED <<leased, dispatch, taken, inflight, pinned>>
          /\ idle' = idle \/ idle' = [idle EXCEPT ![pinned[p]] = @ + 1]
      BY <1>28 DEF PtyRelease, Serving, Pushed
    <2>2. pinned[p] = x => idle[x] = 0
      BY <2>1, <1>t
    <2> QED
      BY <2>1, <2>2, <1>t
  <1>29. ASSUME NEW w \in Worker, FarEnds(w) PROVE OneHolder(x)'
    BY <1>29, <1>t DEF FarEnds
  <1>30. CASE SweepLooks
    BY <1>30, <1>t DEF SweepLooks
  <1>31. CASE SweepActs
    BY <1>31, <1>t DEF SweepActs, Cancel, Send
  <1>32. CASE UNCHANGED vars
    BY <1>32, <1>t DEF vars
  <1> QED
    BY <1>1, <1>2, <1>3, <1>4, <1>5, <1>6, <1>7, <1>8, <1>9, <1>10, <1>11, <1>12, <1>13,
       <1>14, <1>15, <1>16, <1>17, <1>18, <1>19, <1>20, <1>21, <1>22, <1>23, <1>24, <1>25,
       <1>26, <1>27, <1>28, <1>29, <1>30, <1>31, <1>32 DEF Next, ConnStep, HandleStep,
       PtyStep

\* Holders, through every step.
LEMMA HolderStep == ASSUME BaseInv, HolderInv, [Next]_vars PROVE HolderInv'
  <1>1. \A x \in Conn : OneHolder(x)'
    BY OneHolderStep DEF HolderInv
  <1> QED
    BY <1>1, NewStep, LiveStep DEF HolderInv

\* A connection that is read on is not forgotten.
LEMMA AccountedStep ==
    ASSUME BaseInv, HolderInv, NEW x \in Conn, loop'[x] = "reading",
           loop[x] = "reading" => Accounted(x), [Next]_vars
    PROVE  Accounted(x)'
  <1> USE ExecAssumption DEF poolVars, handlerVars, loopVars, farVars, Accounted, Has,
     HoldsByPty
  <1>t. /\ idle \in [Conn -> Nat] /\ inflight \in [Handle -> Conn \cup {None}]
        /\ dispatch \in [Handle -> DispatchPc] /\ taken \in [Handle -> Conn \cup {None}]
        /\ serve \in [Pty -> ServePc] /\ pinned \in [Pty -> Conn \cup {None}]
        /\ leased \subseteq Conn /\ loop \in [Conn -> LoopPc] /\ DispatchInv
        /\ liveness \in [Worker -> Conn \cup {None}]
        /\ \A d \in Conn : loop[d] \in {"reading", "drop1", "drop2"} => liveness[WorkerOf[d]] = d
    BY DEF BaseInv, TypeOK, HolderInv, LiveInv, Registered
  <1> USE DEF DispatchInv
  <1>1. ASSUME NEW c \in Conn, Register(c) PROVE Accounted(x)'
    BY <1>1, <1>t DEF Register, Pushed, Idle
  <1>2. ASSUME NEW c \in Conn, KeepaliveEvicts(c) PROVE Accounted(x)'
    BY <1>2, <1>t DEF KeepaliveEvicts
  <1>3. ASSUME NEW c \in Conn, LoopEnds(c) PROVE Accounted(x)'
    BY <1>3, <1>t DEF LoopEnds
  <1>4. ASSUME NEW c \in Conn, Drop1(c) PROVE Accounted(x)'
    BY <1>4, <1>t DEF Drop1
  <1>5. ASSUME NEW c \in Conn, Drop2(c) PROVE Accounted(x)'
    BY <1>5, <1>t DEF Drop2
  <1>6. ASSUME NEW c \in Conn, Fill(c) PROVE Accounted(x)'
    BY <1>6, <1>t DEF Fill
  <1>7. ASSUME NEW c \in Conn, ReadFrame(c) PROVE Accounted(x)'
    <2>1. /\ UNCHANGED <<liveness, evict, loop, dispatch, taken, serve, pinned>>
          /\ \/ \E h \in Handle : ReadResult(c, h)
             \/ ReadPtyExit(c) \/ ReadSessionClosed(c)
      BY <1>7, ReadCases
    <2>2. ASSUME NEW h \in Handle, ReadResult(c, h)
          PROVE  Accounted(x)'
      BY <2>1, <2>2, <1>t DEF ReadResult, Pushed
    <2>3. CASE ReadPtyExit(c)
      BY <2>1, <2>3, <1>t DEF ReadPtyExit
    <2>4. CASE ReadSessionClosed(c)
      BY <2>1, <2>4, <1>t DEF ReadSessionClosed, Pushed
    <2> QED
      BY <2>1, <2>2, <2>3, <2>4
  <1>8. ASSUME NEW c \in Conn, FarReads(c) PROVE Accounted(x)'
    BY <1>8, <1>t DEF FarReads
  <1>9. ASSUME NEW c \in Conn, FarReports(c) PROVE Accounted(x)'
    BY <1>9, <1>t DEF FarReports, Idle
  <1>10. ASSUME NEW c \in Conn, FarLost(c) PROVE Accounted(x)'
    BY <1>10, <1>t DEF FarLost, Off
  <1>11. ASSUME NEW c \in Conn, SessionTakes(c) PROVE Accounted(x)'
    BY <1>11, <1>t DEF SessionTakes, Popped, Send
  <1>12. ASSUME NEW h \in Handle, NEW c \in Conn, DispatchTake(h, c) PROVE Accounted(x)'
    BY <1>12, <1>t DEF DispatchTake, Popped
  <1>13. ASSUME NEW h \in Handle, SetupFails(h) PROVE Accounted(x)'
    BY <1>13, <1>t DEF SetupFails, Pushed
  <1>14. ASSUME NEW h \in Handle, DispatchRegister(h) PROVE Accounted(x)'
    BY <1>14, <1>t DEF DispatchRegister
  <1>15. ASSUME NEW h \in Handle, DispatchSend(h) PROVE Accounted(x)'
    BY <1>15, <1>t DEF DispatchSend, Send
  <1>16. ASSUME NEW h \in Handle, DispatchSendFails(h) PROVE Accounted(x)'
    BY <1>16, <1>t DEF DispatchSendFails
  <1>17. ASSUME NEW h \in Handle, Abandon(h) PROVE Accounted(x)'
    BY <1>17, <1>t DEF Abandon
  <1>18. ASSUME NEW h \in Handle, Poll(h) PROVE Accounted(x)'
    BY <1>18, <1>t DEF Poll
  <1>19. ASSUME NEW h \in Handle, TtlPasses(h) PROVE Accounted(x)'
    BY <1>19, <1>t DEF TtlPasses
  <1>20. ASSUME NEW h \in Handle, Kill(h) PROVE Accounted(x)'
    BY <1>20, <1>t DEF Kill, Cancel, Send
  <1>21. ASSUME NEW h \in Handle, SweepSnapshot(h) PROVE Accounted(x)'
    BY <1>21, <1>t DEF SweepSnapshot
  <1>22. ASSUME NEW p \in Pty, NEW c \in Conn, PtyPin(p, c) PROVE Accounted(x)'
    BY <1>22, <1>t DEF PtyPin, Popped, Serving
  <1>23. ASSUME NEW p \in Pty, PtyOpens(p) PROVE Accounted(x)'
    BY <1>23, <1>t DEF PtyOpens, Send, Serving
  <1>24. ASSUME NEW p \in Pty, PtyLeft(p) PROVE Accounted(x)'
    BY <1>24, <1>t DEF PtyLeft, Serving
  <1>25. ASSUME NEW p \in Pty, PtyHangsUp(p) PROVE Accounted(x)'
    BY <1>25, <1>t DEF PtyHangsUp, Send, Serving
  <1>26. ASSUME NEW p \in Pty, PtySeesEnd(p) PROVE Accounted(x)'
    BY <1>26, <1>t DEF PtySeesEnd, Serving
  <1>27. ASSUME NEW p \in Pty, PtyTimeout(p) PROVE Accounted(x)'
    BY <1>27, <1>t DEF PtyTimeout, Serving
  <1>28. ASSUME NEW p \in Pty, PtyRelease(p) PROVE Accounted(x)'
    BY <1>28, <1>t DEF PtyRelease, Serving, ChannelCloses, Pushed
  <1>29. ASSUME NEW w \in Worker, FarEnds(w) PROVE Accounted(x)'
    BY <1>29, <1>t DEF FarEnds
  <1>30. CASE SweepLooks
    BY <1>30, <1>t DEF SweepLooks
  <1>31. CASE SweepActs
    BY <1>31, <1>t DEF SweepActs, Cancel, Send
  <1>32. CASE UNCHANGED vars
    BY <1>32, <1>t DEF vars
  <1> QED
    BY <1>1, <1>2, <1>3, <1>4, <1>5, <1>6, <1>7, <1>8, <1>9, <1>10, <1>11, <1>12, <1>13,
       <1>14, <1>15, <1>16, <1>17, <1>18, <1>19, <1>20, <1>21, <1>22, <1>23, <1>24, <1>25,
       <1>26, <1>27, <1>28, <1>29, <1>30, <1>31, <1>32 DEF Next, ConnStep, HandleStep,
       PtyStep

\* No connection leaks, through every step.
LEMMA LeakStep == ASSUME BaseInv, HolderInv, LeakInv, [Next]_vars PROVE LeakInv'
  BY AccountedStep DEF LeakInv

-----------------------------------------------------------------------------
(* Theorems for every environment.                                         *)

\* A handle's outcome is final, and a handle that runs is purged only by the
\* dispatch that could not send it.
Fate(k) ==
    /\ handles'[k] = "Purged" /\ handles[k] # "Purged" =>
          handles[k] \in Terminal \/ dispatch[k] = "sending"
    /\ handles[k] \in Terminal => handles'[k] \in {handles[k], "Purged"}

\* What a step does to a handle.
LEMMA HandleFate == ASSUME BaseInv, NEW k \in Handle, [Next]_vars PROVE Fate(k)
  <1> USE ExecAssumption DEF poolVars, handlerVars, loopVars, farVars, Fate, Terminal
  <1>t. handles \in [Handle -> HandleState] /\ DispatchInv
    BY DEF BaseInv, TypeOK
  <1> USE DEF DispatchInv
  <1>1. ASSUME NEW c \in Conn, Register(c) PROVE Fate(k)
    BY <1>1, <1>t DEF Register, Pushed, Idle
  <1>2. ASSUME NEW c \in Conn, KeepaliveEvicts(c) PROVE Fate(k)
    BY <1>2, <1>t DEF KeepaliveEvicts
  <1>3. ASSUME NEW c \in Conn, LoopEnds(c) PROVE Fate(k)
    BY <1>3, <1>t DEF LoopEnds
  <1>4. ASSUME NEW c \in Conn, Drop1(c) PROVE Fate(k)
    BY <1>4, <1>t DEF Drop1
  <1>5. ASSUME NEW c \in Conn, Drop2(c) PROVE Fate(k)
    BY <1>5, <1>t DEF Drop2
  <1>6. ASSUME NEW c \in Conn, Fill(c) PROVE Fate(k)
    BY <1>6, <1>t DEF Fill
  <1>7. ASSUME NEW c \in Conn, ReadFrame(c) PROVE Fate(k)
    <2>1. \/ \E h \in Handle : ReadResult(c, h)
          \/ ReadPtyExit(c) \/ ReadSessionClosed(c)
      BY <1>7, ReadCases
    <2> QED
      BY <2>1, <1>t DEF ReadResult, ReadPtyExit, ReadSessionClosed
  <1>8. ASSUME NEW c \in Conn, FarReads(c) PROVE Fate(k)
    BY <1>8, <1>t DEF FarReads
  <1>9. ASSUME NEW c \in Conn, FarReports(c) PROVE Fate(k)
    BY <1>9, <1>t DEF FarReports, Idle
  <1>10. ASSUME NEW c \in Conn, FarLost(c) PROVE Fate(k)
    BY <1>10, <1>t DEF FarLost, Off
  <1>11. ASSUME NEW c \in Conn, SessionTakes(c) PROVE Fate(k)
    BY <1>11, <1>t DEF SessionTakes, Popped, Send
  <1>12. ASSUME NEW h \in Handle, NEW c \in Conn, DispatchTake(h, c) PROVE Fate(k)
    BY <1>12, <1>t DEF DispatchTake, Popped
  <1>13. ASSUME NEW h \in Handle, SetupFails(h) PROVE Fate(k)
    BY <1>13, <1>t DEF SetupFails, Pushed
  <1>14. ASSUME NEW h \in Handle, DispatchRegister(h) PROVE Fate(k)
    BY <1>14, <1>t DEF DispatchRegister
  <1>15. ASSUME NEW h \in Handle, DispatchSend(h) PROVE Fate(k)
    BY <1>15, <1>t DEF DispatchSend, Send
  <1>16. ASSUME NEW h \in Handle, DispatchSendFails(h) PROVE Fate(k)
    BY <1>16, <1>t DEF DispatchSendFails
  <1>17. ASSUME NEW h \in Handle, Abandon(h) PROVE Fate(k)
    BY <1>17, <1>t DEF Abandon
  <1>18. ASSUME NEW h \in Handle, Poll(h) PROVE Fate(k)
    BY <1>18, <1>t DEF Poll
  <1>19. ASSUME NEW h \in Handle, TtlPasses(h) PROVE Fate(k)
    BY <1>19, <1>t DEF TtlPasses
  <1>20. ASSUME NEW h \in Handle, Kill(h) PROVE Fate(k)
    BY <1>20, <1>t DEF Kill, Cancel, Send
  <1>21. ASSUME NEW h \in Handle, SweepSnapshot(h) PROVE Fate(k)
    BY <1>21, <1>t DEF SweepSnapshot
  <1>22. ASSUME NEW p \in Pty, NEW c \in Conn, PtyPin(p, c) PROVE Fate(k)
    BY <1>22, <1>t DEF PtyPin, Popped, Serving
  <1>23. ASSUME NEW p \in Pty, PtyOpens(p) PROVE Fate(k)
    BY <1>23, <1>t DEF PtyOpens, Send, Serving
  <1>24. ASSUME NEW p \in Pty, PtyLeft(p) PROVE Fate(k)
    BY <1>24, <1>t DEF PtyLeft, Serving
  <1>25. ASSUME NEW p \in Pty, PtyHangsUp(p) PROVE Fate(k)
    BY <1>25, <1>t DEF PtyHangsUp, Send, Serving
  <1>26. ASSUME NEW p \in Pty, PtySeesEnd(p) PROVE Fate(k)
    BY <1>26, <1>t DEF PtySeesEnd, Serving
  <1>27. ASSUME NEW p \in Pty, PtyTimeout(p) PROVE Fate(k)
    BY <1>27, <1>t DEF PtyTimeout, Serving
  <1>28. ASSUME NEW p \in Pty, PtyRelease(p) PROVE Fate(k)
    BY <1>28, <1>t DEF PtyRelease, Serving, ChannelCloses, Pushed
  <1>29. ASSUME NEW w \in Worker, FarEnds(w) PROVE Fate(k)
    BY <1>29, <1>t DEF FarEnds
  <1>30. CASE SweepLooks
    BY <1>30, <1>t DEF SweepLooks
  <1>31. CASE SweepActs
    <2>1. sweep.status \in Terminal =>
            sweep.handle \in Handle /\ handles[sweep.handle] \in Terminal \cup {"Purged"}
      BY DEF BaseInv, SweepInv, NoSweep
    <2>2. \/ handles' = handles
          \/ /\ sweep.status \in Terminal
             /\ handles' = [handles EXCEPT ![sweep.handle] = "Purged"]
      BY <1>31 DEF SweepActs
    <2> QED
      BY <2>1, <2>2, <1>t
  <1>32. CASE UNCHANGED vars
    BY <1>32, <1>t DEF vars
  <1> QED
    BY <1>1, <1>2, <1>3, <1>4, <1>5, <1>6, <1>7, <1>8, <1>9, <1>10, <1>11, <1>12, <1>13,
       <1>14, <1>15, <1>16, <1>17, <1>18, <1>19, <1>20, <1>21, <1>22, <1>23, <1>24, <1>25,
       <1>26, <1>27, <1>28, <1>29, <1>30, <1>31, <1>32 DEF Next, ConnStep, HandleStep,
       PtyStep

\* A server that starts has no connection.
LEMMA HolderInit == ASSUME Init PROVE HolderInv /\ LeakInv
  <1> USE ExecAssumption DEF Init
  <1>1. NewInv /\ LiveInv /\ LeakInv
    BY DEF NewInv, LiveInv, Registered, LeakInv
  <1>2. \A c \in Conn : OneHolder(c)
    BY DEF OneHolder, Has, HoldsByPty
  <1> QED
    BY <1>1, <1>2 DEF HolderInv

\* The inductive invariant that needs no assumption on the environment.
THEOREM ExecInvariant == Spec => [](BaseInv /\ HolderInv /\ LeakInv)
  <1>1. Init => BaseInv /\ HolderInv /\ LeakInv
    BY BaseInit, HolderInit
  <1>2. BaseInv /\ HolderInv /\ LeakInv /\ [Next]_vars => (BaseInv /\ HolderInv /\ LeakInv)'
    BY BaseStep, HolderStep, LeakStep
  <1> QED
    BY <1>1, <1>2, PTL DEF Spec

\* Every variable keeps its type; in particular an eviction of a worker that is
\* not connected any more leaves no permit behind (dispatch).
THEOREM ExecTyped == Spec => []TypeOK
  <1>1. BaseInv => TypeOK
    BY DEF BaseInv
  <1> QED
    BY <1>1, ExecInvariant, PTL

\* However commands, PTY clients, sessions and worker drops interleave, and even
\* if workers reconnect under their old handlers, a connection is queued at most
\* once, has at most one holder, and is never both queued and held (dispatch,
\* acquire_pinned, release_pinned, complete_request, session_closed).
THEOREM ExecHeldOnce == Spec => []HeldOnce
  <1>1. BaseInv /\ HolderInv => HeldOnce
    <2> SUFFICES ASSUME BaseInv, HolderInv, NEW c \in Conn
                 PROVE  /\ idle[c] <= 1
                        /\ \A x, y \in Holders(c) : x = y
                        /\ idle[c] > 0 => Holders(c) = {}
      BY DEF HeldOnce
    <2>1. OneHolder(c)
      BY DEF HolderInv
    <2>2. \A h \in Handle : HoldsByDispatch(h, c) \/ inflight[h] = c <=> Has(h, c)
      BY DEF HoldsByDispatch, Has
    <2>3. ASSUME NEW x \in Holders(c)
          PROVE  \/ x \in Handle /\ Has(x, c)
                 \/ x \in Pty /\ HoldsByPty(x, c)
                 \/ x = c /\ c \in leased
      BY <2>2 DEF Holders
    <2> QED
      BY <2>1, <2>3 DEF OneHolder
  <1> QED
    BY <1>1, ExecInvariant, PTL

\* A connected worker is in the queue, or has a holder that will give it back,
\* or is being evicted; only a dispatch whose client hung up loses one
\* (dispatch, release_pinned, complete_request, handle_worker_drop).
THEOREM ExecNoLeak == Spec => []NoLeak
  <1>1. BaseInv /\ LeakInv => NoLeak
    <2> HAVE BaseInv /\ LeakInv
    <2> SUFFICES ASSUME NEW w \in Worker, NEW c \in Conn,
                        c = liveness[w], loop[c] = "reading"
                 PROVE  \/ idle[c] > 0 \/ Holders(c) # {} \/ c \in evict
                        \/ \E h \in Handle : taken[h] = c /\ dispatch[h] = "abandoned"
      <3>1. \A w \in Worker : liveness[w] # None => liveness[w] \in Conn
        BY DEF BaseInv, TypeOK
      <3> QED
        BY <3>1, Zenon DEF NoLeak
    <2>1. Accounted(c)
      BY DEF LeakInv
    <2>2. \A h \in Handle : Has(h, c) => h \in Holders(c)
      BY DEF Has, Holders, HoldsByDispatch
    <2>3. \A p \in Pty : HoldsByPty(p, c) => p \in Holders(c)
      BY DEF Holders
    <2>4. c \in leased => c \in Holders(c)
      BY DEF Holders
    <2> QED
      BY <2>1, <2>2, <2>3, <2>4 DEF Accounted
  <1> QED
    BY <1>1, ExecInvariant, PTL

\* The sweeper acts on an old snapshot without a lock, and yet purges only what
\* is terminal; an outcome, once reported, never changes (run_sweeper, cancel,
\* complete_request, handle_worker_drop).
THEOREM ExecPurges == Spec => PurgesFinished
  <1>1. BaseInv /\ [Next]_vars =>
           [\A h \in Handle :
               /\ handles'[h] = "Purged" /\ handles[h] # "Purged" =>
                     handles[h] \in Terminal \/ dispatch[h] = "sending"
               /\ handles[h] \in Terminal => handles'[h] \in {handles[h], "Purged"}]_vars
    BY HandleFate DEF Fate
  <1> QED
    BY <1>1, ExecInvariant, PTL DEF Spec, PurgesFinished

-----------------------------------------------------------------------------
(* The work under way, in an orderly environment.                          *)

\* What is on its way after a frame was added.
LEMMA OnAppend ==
    ASSUME NEW S, NEW s \in Seq(S), NEW e \in S, NEW f
    PROVE  On(Append(s, e), f) <=> On(s, f) \/ f = e
  <1>1. DOMAIN Append(s, e) = 1..(Len(s) + 1) /\ DOMAIN s = 1..Len(s) /\ Len(s) \in Nat
    OBVIOUS
  <1>2. Append(s, e)[Len(s) + 1] = e /\ \A i \in DOMAIN s : Append(s, e)[i] = s[i]
    OBVIOUS
  <1> QED
    BY <1>1, <1>2 DEF On

\* A frame is on its way if it is the next one or behind it.
LEMMA OnTail ==
    ASSUME NEW S, NEW s \in Seq(S), s # <<>>, NEW f
    PROVE  On(s, f) <=> f = s[1] \/ On(Tail(s), f)
  <1>1. /\ DOMAIN s = 1..Len(s) /\ Len(s) \in Nat /\ Len(s) > 0
        /\ DOMAIN Tail(s) = 1..(Len(s) - 1)
    OBVIOUS
  <1>2. \A i \in 1..(Len(s) - 1) : Tail(s)[i] = s[i + 1]
    OBVIOUS
  <1>3. ASSUME NEW i \in DOMAIN s, s[i] = f, i # 1
        PROVE  On(Tail(s), f)
    <2>1. i - 1 \in DOMAIN Tail(s) /\ Tail(s)[i - 1] = f
      BY <1>1, <1>2, <1>3
    <2> QED
      BY <2>1 DEF On
  <1> QED
    BY <1>1, <1>2, <1>3 DEF On

\* A worker that holds its socket has no other registered connection.
LEMMA UpOne ==
    ASSUME BaseInv, HolderInv, UpInv, NEW c \in Conn, c \in up, NEW d \in Conn,
           Registered(d), WorkerOf[d] = WorkerOf[c]
    PROVE  c = d
  BY DEF UpInv, HolderInv, LiveInv, Registered

\* A worker that holds its socket is read, through every step.
LEMMA UpStep == ASSUME BaseInv, HolderInv, UpInv, CurrentInv, [Next]_vars PROVE UpInv'
  <1> USE ExecAssumption DEF poolVars, handlerVars, loopVars, farVars, UpInv
  <1>t. /\ loop \in [Conn -> LoopPc] /\ evict \subseteq Conn /\ up \subseteq Conn
        /\ liveness \in [Worker -> Conn \cup {None}] /\ DispatchInv /\ PinInv /\ JobInv
        /\ toWorker \in [Conn -> Seq(WorkFrame \cup ControlFrame)]
        /\ far \in [Worker -> [pc : {"off", "idle", "running", "resetting"},
                               job : WorkFrame \cup {NoFrame}]]
    BY DEF BaseInv, TypeOK
  <1>1. ASSUME NEW c \in Conn, Register(c) PROVE UpInv'
    <2>1. c \notin evict /\ \A d \in up : WorkerOf[d] # WorkerOf[c]
      BY <1>1, <1>t DEF Register, HolderInv, NewInv
    <2> QED
      BY <1>1, <1>t, <2>1 DEF Register, Idle
  <1>2. ASSUME NEW c \in Conn, KeepaliveEvicts(c) PROVE UpInv'
    BY <1>2, <1>t DEF KeepaliveEvicts
  <1>3. ASSUME NEW c \in Conn, LoopEnds(c) PROVE UpInv'
    BY <1>3, <1>t DEF LoopEnds
  <1>4. ASSUME NEW c \in Conn, Drop1(c) PROVE UpInv'
    BY <1>4, <1>t DEF Drop1
  <1>5. ASSUME NEW c \in Conn, Drop2(c) PROVE UpInv'
    BY <1>5, <1>t DEF Drop2
  <1>6. ASSUME NEW c \in Conn, Fill(c) PROVE UpInv'
    BY <1>6, <1>t DEF Fill
  <1>7. ASSUME NEW c \in Conn, ReadFrame(c) PROVE UpInv'
    <2>1. UNCHANGED <<loop, evict, up, toWorker, far>>
      BY <1>7, ReadCases
    <2> QED
      BY <2>1
  <1>8. ASSUME NEW c \in Conn, FarReads(c) PROVE UpInv'
    <2>1. /\ UNCHANGED <<loop, evict, up>> /\ c \in up
          /\ toWorker' = [toWorker EXCEPT ![c] = Tail(@)]
          /\ far' = [far EXCEPT ![WorkerOf[c]] = far'[WorkerOf[c]]]
          /\ \/ far'[WorkerOf[c]].pc \in {"running", "resetting"}
             \/ far'[WorkerOf[c]] = far[WorkerOf[c]]
      BY <1>8, <1>t DEF FarReads
    <2>2. /\ \A v \in Worker : v # WorkerOf[c] => far'[v] = far[v]
          /\ \A d \in Conn : d # c => toWorker'[d] = toWorker[d]
      BY <2>1, <1>t
    <2>3. /\ far'[WorkerOf[c]].pc # "off"
          /\ far'[WorkerOf[c]].pc = "idle" => far'[WorkerOf[c]].job = NoFrame
      BY <2>1, <1>t
    <2> QED
      BY <2>1, <2>2, <2>3, <1>t
  <1>9. ASSUME NEW c \in Conn, FarReports(c) PROVE UpInv'
    BY <1>9, <1>t DEF FarReports, Idle
  <1>10. ASSUME NEW c \in Conn, FarLost(c) PROVE UpInv'
    <2>1. \A d \in up : WorkerOf[d] = WorkerOf[c] => d = c
      BY <1>10, <1>t, UpOne DEF Registered, FarLost
    <2> QED
      BY <1>10, <1>t, <2>1 DEF FarLost, Off
  <1>11. ASSUME NEW c \in Conn, SessionTakes(c) PROVE UpInv'
    BY <1>11, <1>t DEF SessionTakes, Popped, Send
  <1>12. ASSUME NEW h \in Handle, NEW c \in Conn, DispatchTake(h, c) PROVE UpInv'
    BY <1>12, <1>t DEF DispatchTake, Popped
  <1>13. ASSUME NEW h \in Handle, SetupFails(h) PROVE UpInv'
    BY <1>13, <1>t DEF SetupFails, Pushed
  <1>14. ASSUME NEW h \in Handle, DispatchRegister(h) PROVE UpInv'
    BY <1>14, <1>t DEF DispatchRegister
  <1>15. ASSUME NEW h \in Handle, DispatchSend(h) PROVE UpInv'
    BY <1>15, <1>t DEF DispatchSend, Send
  <1>16. ASSUME NEW h \in Handle, DispatchSendFails(h) PROVE UpInv'
    <2>1. liveness[WorkerOf[taken[h]]] \notin up
      BY <1>16, <1>t DEF DispatchSendFails, CurrentInv, Current, Busy, DispatchInv
    <2> QED
      BY <1>16, <1>t, <2>1 DEF DispatchSendFails
  <1>17. ASSUME NEW h \in Handle, Abandon(h) PROVE UpInv'
    BY <1>17, <1>t DEF Abandon
  <1>18. ASSUME NEW h \in Handle, Poll(h) PROVE UpInv'
    BY <1>18, <1>t DEF Poll
  <1>19. ASSUME NEW h \in Handle, TtlPasses(h) PROVE UpInv'
    BY <1>19, <1>t DEF TtlPasses
  <1>20. ASSUME NEW h \in Handle, Kill(h) PROVE UpInv'
    BY <1>20, <1>t DEF Kill, Cancel, Send
  <1>21. ASSUME NEW h \in Handle, SweepSnapshot(h) PROVE UpInv'
    BY <1>21, <1>t DEF SweepSnapshot
  <1>22. ASSUME NEW p \in Pty, NEW c \in Conn, PtyPin(p, c) PROVE UpInv'
    BY <1>22, <1>t DEF PtyPin, Popped, Serving
  <1>23. ASSUME NEW p \in Pty, PtyOpens(p) PROVE UpInv'
    BY <1>23, <1>t DEF PtyOpens, Send, Serving
  <1>24. ASSUME NEW p \in Pty, PtyLeft(p) PROVE UpInv'
    BY <1>24, <1>t DEF PtyLeft, Serving
  <1>25. ASSUME NEW p \in Pty, PtyHangsUp(p) PROVE UpInv'
    BY <1>25, <1>t DEF PtyHangsUp, Send, Serving
  <1>26. ASSUME NEW p \in Pty, PtySeesEnd(p) PROVE UpInv'
    BY <1>26, <1>t DEF PtySeesEnd, Serving
  <1>27. ASSUME NEW p \in Pty, PtyTimeout(p) PROVE UpInv'
    BY <1>27, <1>t DEF PtyTimeout, Serving
  <1>28. ASSUME NEW p \in Pty, PtyRelease(p) PROVE UpInv'
    BY <1>28, <1>t DEF PtyRelease, Serving, ChannelCloses, Pushed
  <1>29. ASSUME NEW w \in Worker, FarEnds(w) PROVE UpInv'
    <2>1. far'[w].pc = "resetting" /\ \A v \in Worker : v # w => far'[v] = far[v]
      BY <1>29, <1>t DEF FarEnds
    <2> QED
      BY <1>29, <1>t, <2>1 DEF FarEnds
  <1>30. CASE SweepLooks
    BY <1>30, <1>t DEF SweepLooks
  <1>31. CASE SweepActs
    BY <1>31, <1>t DEF SweepActs, Cancel, Send
  <1>32. CASE UNCHANGED vars
    BY <1>32, <1>t DEF vars
  <1> QED
    BY <1>1, <1>2, <1>3, <1>4, <1>5, <1>6, <1>7, <1>8, <1>9, <1>10, <1>11, <1>12, <1>13,
       <1>14, <1>15, <1>16, <1>17, <1>18, <1>19, <1>20, <1>21, <1>22, <1>23, <1>24, <1>25,
       <1>26, <1>27, <1>28, <1>29, <1>30, <1>31, <1>32 DEF Next, ConnStep, HandleStep,
       PtyStep

\* The Result that is read next is of a command on this connection.
LEMMA ReadOwn ==
    ASSUME BaseInv, FrameInv, NEW c \in Conn, ReadFrame(c), NEW h \in Handle,
           toServer[c][1] = Frame("Execute", h)
    PROVE  dispatch[h] = "done" /\ taken[h] = c
  <1>1. toServer[c] \in Seq(WorkFrame) /\ toServer[c] # <<>>
    BY ReadCases DEF BaseInv, TypeOK
  <1>2. On(toServer[c], Frame("Execute", h))
    BY <1>1, OnTail
  <1> QED
    BY <1>2 DEF FrameInv, Placed

\* Only the registered connection of a worker is in use, through every step.
LEMMA CurrentStep ==
    ASSUME BaseInv, HolderInv, CurrentInv, FrameInv, Orderly, NEW x \in Conn, [Next]_vars
    PROVE  Current(x)'
  <1> USE ExecAssumption DEF poolVars, handlerVars, loopVars, farVars, Current, Busy,
     HoldsByPty
  <1>t. /\ idle \in [Conn -> Nat] /\ inflight \in [Handle -> Conn \cup {None}]
        /\ dispatch \in [Handle -> DispatchPc] /\ taken \in [Handle -> Conn \cup {None}]
        /\ serve \in [Pty -> ServePc] /\ pinned \in [Pty -> Conn \cup {None}]
        /\ leased \subseteq Conn /\ liveness \in [Worker -> Conn \cup {None}]
        /\ DispatchInv /\ PinInv /\ Current(x)
    BY DEF BaseInv, TypeOK, CurrentInv
  <1> USE DEF DispatchInv, PinInv
  <1>1. ASSUME NEW c \in Conn, Register(c) PROVE Current(x)'
    <2>1. /\ liveness[WorkerOf[c]] = None /\ liveness' = [liveness EXCEPT ![WorkerOf[c]] = c]
          /\ idle' = [idle EXCEPT ![c] = @ + 1] /\ UNCHANGED <<leased, handlerVars>>
          /\ \A d \in Conn : WorkerOf[d] = WorkerOf[c] => ~Handled(d)
      BY <1>1 DEF Register, Pushed, Orderly
    <2>2. CASE WorkerOf[x] = WorkerOf[c] /\ x # c
      <3>1. /\ x \notin leased
            /\ \A h \in Handle : ~(taken[h] = x /\ dispatch[h] \in {"setup", "sending"})
            /\ \A p \in Pty : ~HoldsByPty(p, x)
        BY <2>1, <2>2 DEF Handled
      <3>2. idle[x] = 0
        BY <2>1, <2>2, <1>t DEF Orderly, OneConnection
      <3> QED
        BY <2>1, <2>2, <3>1, <3>2, <1>t
    <2>3. CASE WorkerOf[x] # WorkerOf[c] \/ x = c
      BY <2>1, <2>3, <1>t
    <2> QED
      BY <2>2, <2>3
  <1>2. ASSUME NEW c \in Conn, KeepaliveEvicts(c) PROVE Current(x)'
    BY <1>2, <1>t DEF KeepaliveEvicts
  <1>3. ASSUME NEW c \in Conn, LoopEnds(c) PROVE Current(x)'
    BY <1>3, <1>t DEF LoopEnds
  <1>4. ASSUME NEW c \in Conn, Drop1(c) PROVE Current(x)'
    BY <1>4, <1>t DEF Drop1
  <1>5. ASSUME NEW c \in Conn, Drop2(c) PROVE Current(x)'
    BY <1>5, <1>t DEF Drop2
  <1>6. ASSUME NEW c \in Conn, Fill(c) PROVE Current(x)'
    BY <1>6, <1>t DEF Fill
  <1>7. ASSUME NEW c \in Conn, ReadFrame(c) PROVE Current(x)'
    <2>1. /\ UNCHANGED <<dispatch, taken, serve, pinned, liveness>> /\ loop[c] = "reading"
          /\ \/ \E h \in Handle : toServer[c][1] = Frame("Execute", h) /\ ReadResult(c, h)
             \/ ReadPtyExit(c) \/ ReadSessionClosed(c)
      BY <1>7, ReadCases
    <2>2. liveness[WorkerOf[c]] = c
      BY <2>1 DEF HolderInv, LiveInv, Registered
    <2>3. ASSUME NEW h \in Handle, toServer[c][1] = Frame("Execute", h), ReadResult(c, h)
          PROVE  Current(x)'
      <3>1. inflight[h] # None => inflight[h] = c
        BY <1>7, <2>3, <1>t, ReadOwn
      <3> QED
        BY <2>1, <2>2, <2>3, <3>1, <1>t DEF ReadResult, Pushed
    <2>4. CASE ReadPtyExit(c) \/ ReadSessionClosed(c)
      BY <2>1, <2>2, <2>4, <1>t DEF ReadPtyExit, ReadSessionClosed, Pushed
    <2> QED
      BY <2>1, <2>3, <2>4
  <1>8. ASSUME NEW c \in Conn, FarReads(c) PROVE Current(x)'
    BY <1>8, <1>t DEF FarReads
  <1>9. ASSUME NEW c \in Conn, FarReports(c) PROVE Current(x)'
    BY <1>9, <1>t DEF FarReports, Idle
  <1>10. ASSUME NEW c \in Conn, FarLost(c) PROVE Current(x)'
    BY <1>10, <1>t DEF FarLost, Off
  <1>11. ASSUME NEW c \in Conn, SessionTakes(c) PROVE Current(x)'
    BY <1>11, <1>t DEF SessionTakes, Popped, Send
  <1>12. ASSUME NEW h \in Handle, NEW c \in Conn, DispatchTake(h, c) PROVE Current(x)'
    BY <1>12, <1>t DEF DispatchTake, Popped
  <1>13. ASSUME NEW h \in Handle, SetupFails(h) PROVE Current(x)'
    BY <1>13, <1>t DEF SetupFails, Pushed
  <1>14. ASSUME NEW h \in Handle, DispatchRegister(h) PROVE Current(x)'
    BY <1>14, <1>t DEF DispatchRegister
  <1>15. ASSUME NEW h \in Handle, DispatchSend(h) PROVE Current(x)'
    BY <1>15, <1>t DEF DispatchSend, Send
  <1>16. ASSUME NEW h \in Handle, DispatchSendFails(h) PROVE Current(x)'
    BY <1>16, <1>t DEF DispatchSendFails
  <1>17. ASSUME NEW h \in Handle, Abandon(h) PROVE Current(x)'
    BY <1>17, <1>t DEF Abandon
  <1>18. ASSUME NEW h \in Handle, Poll(h) PROVE Current(x)'
    BY <1>18, <1>t DEF Poll
  <1>19. ASSUME NEW h \in Handle, TtlPasses(h) PROVE Current(x)'
    BY <1>19, <1>t DEF TtlPasses
  <1>20. ASSUME NEW h \in Handle, Kill(h) PROVE Current(x)'
    BY <1>20, <1>t DEF Kill, Cancel, Send
  <1>21. ASSUME NEW h \in Handle, SweepSnapshot(h) PROVE Current(x)'
    BY <1>21, <1>t DEF SweepSnapshot
  <1>22. ASSUME NEW p \in Pty, NEW c \in Conn, PtyPin(p, c) PROVE Current(x)'
    BY <1>22, <1>t DEF PtyPin, Popped, Serving
  <1>23. ASSUME NEW p \in Pty, PtyOpens(p) PROVE Current(x)'
    BY <1>23, <1>t DEF PtyOpens, Send, Serving
  <1>24. ASSUME NEW p \in Pty, PtyLeft(p) PROVE Current(x)'
    BY <1>24, <1>t DEF PtyLeft, Serving
  <1>25. ASSUME NEW p \in Pty, PtyHangsUp(p) PROVE Current(x)'
    BY <1>25, <1>t DEF PtyHangsUp, Send, Serving
  <1>26. ASSUME NEW p \in Pty, PtySeesEnd(p) PROVE Current(x)'
    BY <1>26, <1>t DEF PtySeesEnd, Serving
  <1>27. ASSUME NEW p \in Pty, PtyTimeout(p) PROVE Current(x)'
    BY <1>27, <1>t DEF PtyTimeout, Serving
  <1>28. ASSUME NEW p \in Pty, PtyRelease(p) PROVE Current(x)'
    BY <1>28, <1>t DEF PtyRelease, Serving, ChannelCloses, Pushed
  <1>29. ASSUME NEW w \in Worker, FarEnds(w) PROVE Current(x)'
    BY <1>29, <1>t DEF FarEnds
  <1>30. CASE SweepLooks
    BY <1>30, <1>t DEF SweepLooks
  <1>31. CASE SweepActs
    BY <1>31, <1>t DEF SweepActs, Cancel, Send
  <1>32. CASE UNCHANGED vars
    BY <1>32, <1>t DEF vars
  <1> QED
    BY <1>1, <1>2, <1>3, <1>4, <1>5, <1>6, <1>7, <1>8, <1>9, <1>10, <1>11, <1>12, <1>13,
       <1>14, <1>15, <1>16, <1>17, <1>18, <1>19, <1>20, <1>21, <1>22, <1>23, <1>24, <1>25,
       <1>26, <1>27, <1>28, <1>29, <1>30, <1>31, <1>32 DEF Next, ConnStep, HandleStep,
       PtyStep

\* What a send puts on its way.
LEMMA SendOn ==
    ASSUME BaseInv, NEW c \in Conn, NEW g \in WorkFrame \cup ControlFrame, Send(c, g),
           NEW x \in Conn, NEW f
    PROVE  On(toWorker[x], f)' <=> On(toWorker[x], f) \/ (x = c /\ c \in up /\ f = g)
  <1>1. toWorker \in [Conn -> Seq(WorkFrame \cup ControlFrame)]
    BY DEF BaseInv, TypeOK
  <1>2. CASE x = c /\ c \in up
    <2>1. PICK s : s = Append(toWorker[c], g)
      OBVIOUS
    <2>2. toWorker'[x] = s
      BY <1>1, <1>2, <2>1 DEF Send
    <2>3. On(s, f) <=> On(toWorker[c], f) \/ f = g
      BY <1>1, <2>1, OnAppend
    <2> QED
      BY <1>2, <2>2, <2>3 DEF On
  <1>3. CASE x # c \/ c \notin up
    <2>1. toWorker'[x] = toWorker[x]
      BY <1>1, <1>3 DEF Send
    <2> QED
      BY <1>3, <2>1 DEF On
  <1> QED
    BY <1>2, <1>3

\* A cancel puts nothing but a Cancel on its way.
LEMMA CancelOn ==
    ASSUME BaseInv, NEW h \in Handle, Cancel(h), NEW x \in Conn, NEW f \in WorkFrame
    PROVE  On(toWorker[x], f)' <=> On(toWorker[x], f)
  <1>1. CASE toWorker' = toWorker
    BY <1>1 DEF On
  <1>2. CASE inflight[h] # None /\ Send(inflight[h], Frame("Cancel", h))
    <2>1. PICK c \in Conn : c = inflight[h]
      BY <1>2 DEF BaseInv, TypeOK
    <2>2. f # Frame("Cancel", h)
      BY DEF WorkFrame, Frame
    <2> QED
      BY <1>2, <2>1, <2>2, SendOn, FramesSent
  <1> QED
    BY <1>1, <1>2 DEF Cancel

\* What reading the first frame leaves on its way to the server.
LEMMA ReadOn ==
    ASSUME BaseInv, NEW c \in Conn, toServer[c] # <<>>,
           toServer' = [toServer EXCEPT ![c] = Tail(@)], NEW x \in Conn, NEW f
    PROVE  /\ x # c => toServer'[x] = toServer[x]
           /\ On(toServer[c], f) <=> f = toServer[c][1] \/ On(toServer[c], f)'
  <1>1. toServer \in [Conn -> Seq(WorkFrame)]
    BY DEF BaseInv, TypeOK
  <1>2. PICK s : s = Tail(toServer[c])
    OBVIOUS
  <1>3. toServer'[c] = s
    BY <1>1, <1>2
  <1>4. On(toServer[c], f) <=> f = toServer[c][1] \/ On(s, f)
    BY <1>1, <1>2, OnTail
  <1> QED
    BY <1>1, <1>3, <1>4 DEF On

\* The same for the frames to the worker.
LEMMA FarReadOn ==
    ASSUME BaseInv, NEW c \in Conn, FarReads(c), NEW x \in Conn, NEW f
    PROVE  /\ x # c => toWorker'[x] = toWorker[x]
           /\ On(toWorker[c], f) <=> f = toWorker[c][1] \/ On(toWorker[c], f)'
  <1>1. /\ toWorker \in [Conn -> Seq(WorkFrame \cup ControlFrame)] /\ toWorker[c] # <<>>
        /\ toWorker' = [toWorker EXCEPT ![c] = Tail(@)]
    BY DEF BaseInv, TypeOK, FarReads
  <1>2. PICK s : s = Tail(toWorker[c])
    OBVIOUS
  <1>3. toWorker'[c] = s
    BY <1>1, <1>2
  <1>4. On(toWorker[c], f) <=> f = toWorker[c][1] \/ On(s, f)
    BY <1>1, <1>2, OnTail
  <1> QED
    BY <1>1, <1>3, <1>4 DEF On

\* What the worker does with the frame it reads.
LEMMA FarReadCases ==
    ASSUME BaseInv, NEW c \in Conn, FarReads(c)
    PROVE  /\ c \in up /\ toWorker[c] # <<>>
           /\ toWorker[c][1] \in WorkFrame \cup ControlFrame
           /\ UNCHANGED <<poolVars, handlerVars, loopVars, up, toServer>>
           /\ \A v \in Worker : v # WorkerOf[c] => far'[v] = far[v]
           /\ \/ /\ toWorker[c][1] \in WorkFrame /\ far[WorkerOf[c]].pc = "idle"
                 /\ far'[WorkerOf[c]].pc = "running" /\ far'[WorkerOf[c]].job = toWorker[c][1]
              \/ /\ ~(toWorker[c][1] \in WorkFrame /\ far[WorkerOf[c]].pc = "idle")
                 /\ far'[WorkerOf[c]].job = far[WorkerOf[c]].job
                 /\ \/ far'[WorkerOf[c]].pc = far[WorkerOf[c]].pc
                    \/ far[WorkerOf[c]].pc = "running" /\ far'[WorkerOf[c]].pc = "resetting"
  <1> DEFINE f == Head(toWorker[c])
             w == WorkerOf[c]
  <1>1. /\ toWorker[c] \in Seq(WorkFrame \cup ControlFrame) /\ w \in Worker
        /\ far \in [Worker -> [pc : {"off", "idle", "running", "resetting"},
                               job : WorkFrame \cup {NoFrame}]]
    BY ExecAssumption DEF BaseInv, TypeOK
  <1>2. /\ c \in up /\ toWorker[c] # <<>>
        /\ UNCHANGED <<poolVars, handlerVars, loopVars, up, toServer>>
    BY DEF FarReads
  <1>3. f = toWorker[c][1] /\ f \in WorkFrame \cup ControlFrame
    BY <1>1, <1>2, QueueFacts
  <1>4. f \in WorkFrame <=> f.kind \in {"Execute", "PtyOpen", "SessionOpen"}
    BY <1>3, FrameKinds
  <1>5. /\ \A v \in Worker : v # w => far'[v] = far[v]
        /\ far[w].pc = "idle" /\ f.kind \in {"Execute", "PtyOpen", "SessionOpen"} =>
              far'[w].pc = "running" /\ far'[w].job = f
        /\ ~(far[w].pc = "idle" /\ f.kind \in {"Execute", "PtyOpen", "SessionOpen"}) =>
              /\ far'[w].job = far[w].job
              /\ \/ far'[w].pc = far[w].pc
                 \/ far[w].pc = "running" /\ far'[w].pc = "resetting"
    BY <1>1 DEF FarReads
  <1> HIDE DEF f
  <1> QED
    BY <1>2, <1>3, <1>4, <1>5

\* A dispatch that has sent its command is over.
LEMMA DoneStep ==
    ASSUME BaseInv, NEW k \in Handle, dispatch[k] = "done", [Next]_vars
    PROVE  dispatch'[k] = "done" /\ taken'[k] = taken[k]
  <1> USE DEF poolVars, handlerVars, loopVars, farVars
  <1>t. dispatch \in [Handle -> DispatchPc] /\ taken \in [Handle -> Conn \cup {None}]
    BY DEF BaseInv, TypeOK
  <1>1. ASSUME NEW c \in Conn, ConnStep(c) PROVE UNCHANGED <<dispatch, taken>>
    BY <1>1 DEF ConnStep, Register, KeepaliveEvicts, LoopEnds, Drop1, Drop2, Fill, ReadFrame,
                FarReads, FarReports, FarLost, SessionTakes
  <1>2. ASSUME NEW p \in Pty, PtyStep(p) PROVE UNCHANGED <<dispatch, taken>>
    BY <1>2 DEF PtyStep, PtyPin, PtyOpens, PtyLeft, PtyHangsUp, PtySeesEnd, PtyTimeout, PtyRelease
  <1>3. CASE (\E w \in Worker : FarEnds(w)) \/ SweepLooks \/ SweepActs
    BY <1>3 DEF FarEnds, SweepLooks, SweepActs
  <1>4. ASSUME NEW h \in Handle, HandleStep(h)
        PROVE  \/ UNCHANGED <<dispatch, taken>>
               \/ /\ dispatch[h] # "done"
                  /\ \E pc \in DispatchPc : dispatch' = [dispatch EXCEPT ![h] = pc]
                  /\ taken' = taken \/ \E c \in Conn : taken' = [taken EXCEPT ![h] = c]
    BY <1>4 DEF HandleStep, DispatchTake, SetupFails, DispatchRegister, DispatchSend,
                DispatchSendFails, Abandon, Poll, TtlPasses, Kill, SweepSnapshot, DispatchPc
  <1>5. CASE UNCHANGED vars
    BY <1>5 DEF vars
  <1> QED
    BY <1>t, <1>1, <1>2, <1>3, <1>4, <1>5 DEF Next

\* A command's frames stay on the connection that its dispatch sent it to.
LEMMA PlacedStep ==
    ASSUME BaseInv, HolderInv, UpInv, NEW x \in Conn, NEW k \in Handle, [Next]_vars
    PROVE  Placed(x, k)' => Placed(x, k) \/ (dispatch'[k] = "done" /\ taken'[k] = x)
  <1> USE ExecAssumption DEF poolVars, handlerVars, loopVars, farVars
  <1> DEFINE Follows == Placed(x, k)' => Placed(x, k) \/ (dispatch'[k] = "done" /\ taken'[k] = x)
  <1>t. /\ far \in [Worker -> [pc : {"off", "idle", "running", "resetting"},
                               job : WorkFrame \cup {NoFrame}]]
        /\ DispatchInv /\ PinInv /\ JobInv /\ WorkerOf[x] \in Worker /\ up \subseteq Conn
        /\ dispatch \in [Handle -> DispatchPc] /\ taken \in [Handle -> Conn \cup {None}]
    BY ExecAssumption DEF BaseInv, TypeOK
  <1>f. /\ Frame("Execute", k) \in WorkFrame /\ NoFrame # Frame("Execute", k)
        /\ Frame("SessionOpen", None) # Frame("Execute", k)
        /\ \A p \in Pty : /\ Frame("PtyOpen", p) # Frame("Execute", k)
                          /\ Frame("PtyClose", p) # Frame("Execute", k)
        /\ \A h \in Handle : Frame("Execute", h) = Frame("Execute", k) => h = k
    BY DEF WorkFrame, NoFrame, Frame
  <1>1. ASSUME NEW c \in Conn, Register(c) PROVE Follows
    <2>1. /\ UNCHANGED <<toWorker, toServer>> /\ up' = up \cup {c}
          /\ far'[WorkerOf[c]].job = NoFrame
          /\ \A v \in Worker : v # WorkerOf[c] => far'[v] = far[v]
      BY <1>1, <1>t DEF Register, Idle
    <2> QED
      BY <2>1, <1>t, <1>f DEF Placed, On
  <1>2. ASSUME NEW c \in Conn, KeepaliveEvicts(c) PROVE Follows
    BY <1>2 DEF KeepaliveEvicts, Placed, On
  <1>3. ASSUME NEW c \in Conn, LoopEnds(c) PROVE Follows
    BY <1>3 DEF LoopEnds, Placed, On
  <1>4. ASSUME NEW c \in Conn, Drop1(c) PROVE Follows
    BY <1>4 DEF Drop1, Placed, On
  <1>5. ASSUME NEW c \in Conn, Drop2(c) PROVE Follows
    BY <1>5 DEF Drop2, Placed, On
  <1>6. ASSUME NEW c \in Conn, Fill(c) PROVE Follows
    BY <1>6 DEF Fill, Placed, On
  <1>7. ASSUME NEW c \in Conn, ReadFrame(c) PROVE Follows
    <2>1. /\ toServer[c] # <<>> /\ toServer' = [toServer EXCEPT ![c] = Tail(@)]
          /\ UNCHANGED <<toWorker, up, far>>
      BY <1>7, ReadCases
    <2>2. On(toServer[x], Frame("Execute", k))' => On(toServer[x], Frame("Execute", k))
      <3>1. x # c => toServer'[x] = toServer[x]
        BY <2>1, ReadOn
      <3>2. x = c => (On(toServer[x], Frame("Execute", k))' => On(toServer[x], Frame("Execute", k)))
        BY <2>1, ReadOn
      <3> QED
        BY <3>1, <3>2 DEF On
    <2> QED
      BY <2>1, <2>2 DEF Placed, On
  <1>8. ASSUME NEW c \in Conn, FarReads(c) PROVE Follows
    <2>1. On(toWorker[x], Frame("Execute", k))' => On(toWorker[x], Frame("Execute", k))
      BY <1>8, FarReadOn DEF On
    <2>2. /\ UNCHANGED <<toServer, up>> /\ c \in up
          /\ \A v \in Worker : v # WorkerOf[c] => far'[v] = far[v]
          /\ far'[WorkerOf[c]].job \in {toWorker[c][1], far[WorkerOf[c]].job}
      BY <1>8, FarReadCases
    <2>3. On(toWorker[c], toWorker[c][1])
      BY <1>8, FarReadOn
    <2>4. x \in up /\ WorkerOf[x] = WorkerOf[c] => x = c
      BY <2>2, UpOne DEF UpInv, Registered
    <2>5. On(toServer[x], Frame("Execute", k))' => On(toServer[x], Frame("Execute", k))
      BY <2>2 DEF On
    <2> QED
      BY <2>1, <2>2, <2>3, <2>4, <2>5, <1>t DEF Placed
  <1>9. ASSUME NEW c \in Conn, FarReports(c) PROVE Follows
    <2>1. /\ UNCHANGED <<toWorker, up>> /\ c \in up
          /\ toServer' = [toServer EXCEPT ![c] = Append(@, far[WorkerOf[c]].job)]
          /\ far[WorkerOf[c]].pc = "resetting" /\ far' = [far EXCEPT ![WorkerOf[c]] = Idle]
      BY <1>9 DEF FarReports
    <2>2. PICK s : s = Append(toServer[c], far[WorkerOf[c]].job)
      OBVIOUS
    <2>3. toServer[c] \in Seq(WorkFrame) /\ far[WorkerOf[c]].job \in WorkFrame
      BY <2>1, <1>t DEF JobInv, BaseInv, TypeOK
    <2>4. On(s, Frame("Execute", k)) => \/ On(toServer[c], Frame("Execute", k))
                                       \/ far[WorkerOf[c]].job = Frame("Execute", k)
      BY <2>2, <2>3, OnAppend
    <2>5. /\ x = c => toServer'[x] = s
          /\ x # c => toServer'[x] = toServer[x]
      BY <2>1, <2>2 DEF BaseInv, TypeOK
    <2>6. On(toServer[x], Frame("Execute", k))' => Placed(x, k)
      BY <2>1, <2>4, <2>5 DEF On, Placed
    <2>7. far'[WorkerOf[x]].job = Frame("Execute", k) =>
              far[WorkerOf[x]].job = Frame("Execute", k)
      BY <2>1, <1>t, <1>f DEF Idle
    <2>8. On(toWorker[x], Frame("Execute", k))' => On(toWorker[x], Frame("Execute", k))
      BY <2>1 DEF On
    <2> QED
      BY <2>1, <2>6, <2>7, <2>8 DEF Placed
  <1>10. ASSUME NEW c \in Conn, FarLost(c) PROVE Follows
    <2>1. /\ up' = up \ {c} /\ far' = [far EXCEPT ![WorkerOf[c]] = Off]
          /\ toWorker' = [toWorker EXCEPT ![c] = <<>>]
          /\ \E kept \in {toServer[c], <<>>} : toServer' = [toServer EXCEPT ![c] = kept]
      BY <1>10 DEF FarLost
    <2>2. /\ toWorker'[x] \in {toWorker[x], <<>>} /\ toServer'[x] \in {toServer[x], <<>>}
      BY <2>1 DEF BaseInv, TypeOK
    <2>3. far'[WorkerOf[x]].job = Frame("Execute", k) =>
              far[WorkerOf[x]].job = Frame("Execute", k)
      BY <2>1, <1>t, <1>f DEF Off
    <2> QED
      BY <2>1, <2>2, <2>3 DEF Placed, On
  <1>11. ASSUME NEW c \in Conn, SessionTakes(c) PROVE Follows
    <2>1. Send(c, Frame("SessionOpen", None)) /\ UNCHANGED <<toServer, up, far>>
      BY <1>11 DEF SessionTakes
    <2>2. On(toWorker[x], Frame("Execute", k))' <=> On(toWorker[x], Frame("Execute", k))
      BY <2>1, SendOn, FramesSent, <1>f
    <2> QED
      BY <2>1, <2>2 DEF Placed, On
  <1>12. ASSUME NEW h \in Handle, NEW c \in Conn, DispatchTake(h, c) PROVE Follows
    BY <1>12 DEF DispatchTake, Placed, On
  <1>13. ASSUME NEW h \in Handle, SetupFails(h) PROVE Follows
    BY <1>13 DEF SetupFails, Placed, On
  <1>14. ASSUME NEW h \in Handle, DispatchRegister(h) PROVE Follows
    BY <1>14 DEF DispatchRegister, Placed, On
  <1>15. ASSUME NEW h \in Handle, DispatchSend(h) PROVE Follows
    <2>0. PICK c \in Conn : c = taken[h]
      BY <1>15, <1>t DEF DispatchSend, DispatchInv
    <2>1. /\ Send(c, Frame("Execute", h)) /\ UNCHANGED <<toServer, up, far, taken>>
          /\ dispatch' = [dispatch EXCEPT ![h] = "done"]
      BY <1>15, <2>0 DEF DispatchSend
    <2>2. On(toWorker[x], Frame("Execute", k))' =>
              On(toWorker[x], Frame("Execute", k)) \/ (x = c /\ k = h)
      BY <2>1, SendOn, FramesSent, <1>f
    <2>3. On(toServer[x], Frame("Execute", k))' => On(toServer[x], Frame("Execute", k))
      BY <2>1 DEF On
    <2> QED
      BY <2>0, <2>1, <2>2, <2>3, <1>t DEF Placed
  <1>16. ASSUME NEW h \in Handle, DispatchSendFails(h) PROVE Follows
    BY <1>16 DEF DispatchSendFails, Placed, On
  <1>17. ASSUME NEW h \in Handle, Abandon(h) PROVE Follows
    BY <1>17 DEF Abandon, Placed, On
  <1>18. ASSUME NEW h \in Handle, Poll(h) PROVE Follows
    BY <1>18 DEF Poll, Placed, On
  <1>19. ASSUME NEW h \in Handle, TtlPasses(h) PROVE Follows
    BY <1>19 DEF TtlPasses, Placed, On
  <1>20. ASSUME NEW h \in Handle, Kill(h) PROVE Follows
    <2>1. Cancel(h) /\ UNCHANGED <<toServer, up, far>>
      BY <1>20 DEF Kill
    <2>2. On(toWorker[x], Frame("Execute", k))' <=> On(toWorker[x], Frame("Execute", k))
      BY <2>1, CancelOn, <1>f
    <2> QED
      BY <2>1, <2>2 DEF Placed, On
  <1>21. ASSUME NEW h \in Handle, SweepSnapshot(h) PROVE Follows
    BY <1>21 DEF SweepSnapshot, Placed, On
  <1>22. ASSUME NEW p \in Pty, NEW c \in Conn, PtyPin(p, c) PROVE Follows
    BY <1>22 DEF PtyPin, Placed, On
  <1>23. ASSUME NEW p \in Pty, PtyOpens(p) PROVE Follows
    <2>0. PICK c \in Conn : c = pinned[p]
      BY <1>23, <1>t DEF PtyOpens, PinInv
    <2>1. /\ Send(c, Frame("PtyOpen", p)) \/ toWorker' = toWorker
          /\ UNCHANGED <<toServer, up, far>>
      BY <1>23, <2>0 DEF PtyOpens
    <2>2. On(toWorker[x], Frame("Execute", k))' <=> On(toWorker[x], Frame("Execute", k))
      <3>1. CASE Send(c, Frame("PtyOpen", p))
        BY <3>1, SendOn, FramesSent, <1>f
      <3> QED
        BY <2>1, <3>1 DEF On
    <2> QED
      BY <2>1, <2>2 DEF Placed, On
  <1>24. ASSUME NEW p \in Pty, PtyLeft(p) PROVE Follows
    BY <1>24 DEF PtyLeft, Placed, On
  <1>25. ASSUME NEW p \in Pty, PtyHangsUp(p) PROVE Follows
    <2>0. PICK c \in Conn : c = pinned[p]
      BY <1>25, <1>t DEF PtyHangsUp, PinInv
    <2>1. Send(pinned[p], Frame("PtyClose", p)) /\ UNCHANGED <<toServer, up, far>>
      BY <1>25 DEF PtyHangsUp
    <2>2. On(toWorker[x], Frame("Execute", k))' <=> On(toWorker[x], Frame("Execute", k))
      BY <2>0, <2>1, SendOn, FramesSent, <1>f
    <2> QED
      BY <2>1, <2>2 DEF Placed, On
  <1>26. ASSUME NEW p \in Pty, PtySeesEnd(p) PROVE Follows
    BY <1>26 DEF PtySeesEnd, Placed, On
  <1>27. ASSUME NEW p \in Pty, PtyTimeout(p) PROVE Follows
    BY <1>27 DEF PtyTimeout, Placed, On
  <1>28. ASSUME NEW p \in Pty, PtyRelease(p) PROVE Follows
    BY <1>28 DEF PtyRelease, Placed, On
  <1>29. ASSUME NEW w \in Worker, FarEnds(w) PROVE Follows
    <2>1. /\ UNCHANGED <<toWorker, toServer, up>>
          /\ \A v \in Worker : far'[v].job = far[v].job
      BY <1>29, <1>t DEF FarEnds
    <2> QED
      BY <2>1, <1>t DEF Placed, On
  <1>30. CASE SweepLooks
    BY <1>30 DEF SweepLooks, Placed, On
  <1>31. CASE SweepActs
    <2>1. /\ UNCHANGED <<toServer, up, far>>
          /\ toWorker' = toWorker \/ \E h \in Handle : Cancel(h)
      BY <1>31 DEF SweepActs, BaseInv, SweepInv, NoSweep
    <2>2. On(toWorker[x], Frame("Execute", k))' <=> On(toWorker[x], Frame("Execute", k))
      <3>1. CASE toWorker' = toWorker
        BY <3>1 DEF On
      <3> QED
        BY <2>1, <3>1, CancelOn, <1>f
    <2> QED
      BY <2>1, <2>2 DEF Placed, On
  <1>32. CASE UNCHANGED vars
    BY <1>32 DEF vars, Placed, On
  <1> QED
    BY <1>1, <1>2, <1>3, <1>4, <1>5, <1>6, <1>7, <1>8, <1>9, <1>10, <1>11, <1>12, <1>13,
       <1>14, <1>15, <1>16, <1>17, <1>18, <1>19, <1>20, <1>21, <1>22, <1>23, <1>24, <1>25,
       <1>26, <1>27, <1>28, <1>29, <1>30, <1>31, <1>32 DEF Next, ConnStep, HandleStep,
       PtyStep

\* Frames about commands, through every step.
LEMMA FrameStep == ASSUME BaseInv, HolderInv, UpInv, FrameInv, [Next]_vars PROVE FrameInv'
  <1> SUFFICES ASSUME NEW x \in Conn, NEW k \in Handle, Placed(x, k)'
               PROVE  dispatch'[k] = "done" /\ taken'[k] = x
    BY DEF FrameInv
  <1>1. CASE Placed(x, k)
    BY <1>1, DoneStep DEF FrameInv
  <1> QED
    BY <1>1, PlacedStep

\* What a dispatch is about to send stays in flight while its worker is there.
LEMMA SendingStep ==
    ASSUME BaseInv, HolderInv, UpInv, FrameInv, SendingInv, [Next]_vars
    PROVE  SendingInv'
  <1> USE ExecAssumption DEF poolVars, handlerVars, loopVars, farVars, SendingInv
  <1>t. /\ dispatch \in [Handle -> DispatchPc] /\ taken \in [Handle -> Conn \cup {None}]
        /\ inflight \in [Handle -> Conn \cup {None}] /\ up \subseteq Conn
    BY DEF BaseInv, TypeOK
  <1>1. ASSUME NEW c \in Conn, Register(c) PROVE SendingInv'
    BY <1>1, <1>t DEF Register, HolderInv, NewInv
  <1>2. ASSUME NEW c \in Conn, KeepaliveEvicts(c) PROVE SendingInv'
    BY <1>2, <1>t DEF KeepaliveEvicts
  <1>3. ASSUME NEW c \in Conn, LoopEnds(c) PROVE SendingInv'
    BY <1>3, <1>t DEF LoopEnds
  <1>4. ASSUME NEW c \in Conn, Drop1(c) PROVE SendingInv'
    <2>1. \A d \in up : WorkerOf[d] # WorkerOf[c]
      BY <1>4, <1>t, UpOne DEF Drop1, Registered, UpInv
    <2> QED
      BY <1>4, <1>t, <2>1 DEF Drop1
  <1>5. ASSUME NEW c \in Conn, Drop2(c) PROVE SendingInv'
    BY <1>5, <1>t DEF Drop2
  <1>6. ASSUME NEW c \in Conn, Fill(c) PROVE SendingInv'
    BY <1>6, <1>t DEF Fill
  <1>7. ASSUME NEW c \in Conn, ReadFrame(c) PROVE SendingInv'
    <2>1. /\ UNCHANGED <<dispatch, taken, up>>
          /\ \/ \E h \in Handle : toServer[c][1] = Frame("Execute", h) /\ ReadResult(c, h)
             \/ inflight' = inflight
      BY <1>7, ReadCases DEF ReadPtyExit, ReadSessionClosed
    <2>2. ASSUME NEW h \in Handle, toServer[c][1] = Frame("Execute", h), ReadResult(c, h)
          PROVE  SendingInv'
      <3>1. dispatch[h] = "done"
        BY <1>7, <2>2, ReadOwn
      <3> QED
        BY <2>1, <2>2, <3>1, <1>t DEF ReadResult
    <2> QED
      BY <2>1, <2>2
  <1>8. ASSUME NEW c \in Conn, FarReads(c) PROVE SendingInv'
    BY <1>8, <1>t DEF FarReads
  <1>9. ASSUME NEW c \in Conn, FarReports(c) PROVE SendingInv'
    BY <1>9, <1>t DEF FarReports, Idle
  <1>10. ASSUME NEW c \in Conn, FarLost(c) PROVE SendingInv'
    BY <1>10, <1>t DEF FarLost, Off
  <1>11. ASSUME NEW c \in Conn, SessionTakes(c) PROVE SendingInv'
    BY <1>11, <1>t DEF SessionTakes, Popped, Send
  <1>12. ASSUME NEW h \in Handle, NEW c \in Conn, DispatchTake(h, c) PROVE SendingInv'
    BY <1>12, <1>t DEF DispatchTake, Popped
  <1>13. ASSUME NEW h \in Handle, SetupFails(h) PROVE SendingInv'
    BY <1>13, <1>t DEF SetupFails, Pushed
  <1>14. ASSUME NEW h \in Handle, DispatchRegister(h) PROVE SendingInv'
    BY <1>14, <1>t DEF DispatchRegister
  <1>15. ASSUME NEW h \in Handle, DispatchSend(h) PROVE SendingInv'
    BY <1>15, <1>t DEF DispatchSend, Send
  <1>16. ASSUME NEW h \in Handle, DispatchSendFails(h) PROVE SendingInv'
    BY <1>16, <1>t DEF DispatchSendFails
  <1>17. ASSUME NEW h \in Handle, Abandon(h) PROVE SendingInv'
    BY <1>17, <1>t DEF Abandon
  <1>18. ASSUME NEW h \in Handle, Poll(h) PROVE SendingInv'
    BY <1>18, <1>t DEF Poll
  <1>19. ASSUME NEW h \in Handle, TtlPasses(h) PROVE SendingInv'
    BY <1>19, <1>t DEF TtlPasses
  <1>20. ASSUME NEW h \in Handle, Kill(h) PROVE SendingInv'
    BY <1>20, <1>t DEF Kill, Cancel, Send
  <1>21. ASSUME NEW h \in Handle, SweepSnapshot(h) PROVE SendingInv'
    BY <1>21, <1>t DEF SweepSnapshot
  <1>22. ASSUME NEW p \in Pty, NEW c \in Conn, PtyPin(p, c) PROVE SendingInv'
    BY <1>22, <1>t DEF PtyPin, Popped, Serving
  <1>23. ASSUME NEW p \in Pty, PtyOpens(p) PROVE SendingInv'
    BY <1>23, <1>t DEF PtyOpens, Send, Serving
  <1>24. ASSUME NEW p \in Pty, PtyLeft(p) PROVE SendingInv'
    BY <1>24, <1>t DEF PtyLeft, Serving
  <1>25. ASSUME NEW p \in Pty, PtyHangsUp(p) PROVE SendingInv'
    BY <1>25, <1>t DEF PtyHangsUp, Send, Serving
  <1>26. ASSUME NEW p \in Pty, PtySeesEnd(p) PROVE SendingInv'
    BY <1>26, <1>t DEF PtySeesEnd, Serving
  <1>27. ASSUME NEW p \in Pty, PtyTimeout(p) PROVE SendingInv'
    BY <1>27, <1>t DEF PtyTimeout, Serving
  <1>28. ASSUME NEW p \in Pty, PtyRelease(p) PROVE SendingInv'
    BY <1>28, <1>t DEF PtyRelease, Serving, ChannelCloses, Pushed
  <1>29. ASSUME NEW w \in Worker, FarEnds(w) PROVE SendingInv'
    BY <1>29, <1>t DEF FarEnds
  <1>30. CASE SweepLooks
    BY <1>30, <1>t DEF SweepLooks
  <1>31. CASE SweepActs
    BY <1>31, <1>t DEF SweepActs, Cancel, Send
  <1>32. CASE UNCHANGED vars
    BY <1>32, <1>t DEF vars
  <1> QED
    BY <1>1, <1>2, <1>3, <1>4, <1>5, <1>6, <1>7, <1>8, <1>9, <1>10, <1>11, <1>12, <1>13,
       <1>14, <1>15, <1>16, <1>17, <1>18, <1>19, <1>20, <1>21, <1>22, <1>23, <1>24, <1>25,
       <1>26, <1>27, <1>28, <1>29, <1>30, <1>31, <1>32 DEF Next, ConnStep, HandleStep,
       PtyStep

\* The end that is read next is of work that the connection's holder waits for.
LEMMA ReadOwed ==
    ASSUME BaseInv, WorkInv, NEW c \in Conn, c \in up, ReadFrame(c)
    PROVE  Owes(c, toServer[c][1])
  <1>1. /\ toServer[c] \in Seq(WorkFrame) /\ toServer[c] # <<>> /\ toServer[c][1] \in WorkFrame
    BY ReadCases DEF BaseInv, TypeOK
  <1>2. On(toServer[c], toServer[c][1])
    BY <1>1, OnTail
  <1> QED
    BY <1>1, <1>2 DEF WorkInv, WorkAt

\* Two connections of a worker are not in use at once.
LEMMA BusyOne ==
    ASSUME BaseInv, HolderInv, UpInv, CurrentInv, NEW c \in Conn, c \in up, NEW d \in Conn,
           Busy(d), WorkerOf[d] = WorkerOf[c]
    PROVE  c = d
  <1>1. liveness[WorkerOf[c]] = c /\ c # None
    BY ExecAssumption DEF HolderInv, LiveInv, UpInv, Registered
  <1> QED
    BY <1>1 DEF CurrentInv, Current

\* A PTY's channel and its handler, through every step.
LEMMA PtyInvStep ==
    ASSUME BaseInv, HolderInv, UpInv, CurrentInv, PtyInv, WorkInv, Orderly, [Next]_vars
    PROVE  PtyInv'
  <1> USE ExecAssumption DEF poolVars, handlerVars, loopVars, farVars, PtyInv
  <1>t. /\ serve \in [Pty -> ServePc] /\ pinned \in [Pty -> Conn \cup {None}]
        /\ event \in [Pty -> {"none", "exit", "closed"}]
        /\ pty_sessions \in [Worker -> Pty \cup {None}] /\ up \subseteq Conn /\ PinInv
    BY DEF BaseInv, TypeOK
  <1> USE DEF PinInv
  <1>1. ASSUME NEW c \in Conn, Register(c) PROVE PtyInv'
    BY <1>1, <1>t DEF Register, HolderInv, NewInv
  <1>2. ASSUME NEW c \in Conn, KeepaliveEvicts(c) PROVE PtyInv'
    BY <1>2, <1>t DEF KeepaliveEvicts
  <1>3. ASSUME NEW c \in Conn, LoopEnds(c) PROVE PtyInv'
    BY <1>3, <1>t DEF LoopEnds
  <1>4. ASSUME NEW c \in Conn, Drop1(c) PROVE PtyInv'
    BY <1>4, <1>t DEF Drop1
  <1>5. ASSUME NEW c \in Conn, Drop2(c) PROVE PtyInv'
    <2>1. /\ pty_sessions' = [pty_sessions EXCEPT ![WorkerOf[c]] = None]
          /\ \/ event' = event
             \/ /\ pty_sessions[WorkerOf[c]] # None
                /\ \E e \in {"exit", "closed"} :
                      event' = [event EXCEPT ![pty_sessions[WorkerOf[c]]] = e]
          /\ UNCHANGED <<serve, pinned, up>> /\ loop[c] = "drop2"
      BY <1>5 DEF Drop2
    <2>2. \A d \in up : WorkerOf[d] # WorkerOf[c]
      BY <2>1, <1>t, UpOne DEF Registered, UpInv
    <2> QED
      BY <2>1, <2>2, <1>t
  <1>6. ASSUME NEW c \in Conn, Fill(c) PROVE PtyInv'
    BY <1>6, <1>t DEF Fill
  <1>7. ASSUME NEW c \in Conn, ReadFrame(c) PROVE PtyInv'
    <2>1. /\ UNCHANGED <<pty_sessions, serve, pinned, up>> /\ loop[c] = "reading"
          /\ \/ event' = event
             \/ /\ \E p \in Pty : toServer[c][1] = Frame("PtyOpen", p)
                /\ pty_sessions[WorkerOf[c]] # None
                /\ event' = [event EXCEPT ![pty_sessions[WorkerOf[c]]] = "exit"]
      BY <1>7, ReadCases DEF ReadPtyExit, ReadResult, ReadSessionClosed
    <2>2. ASSUME NEW p \in Pty, toServer[c][1] = Frame("PtyOpen", p), NEW q \in Pty,
                 q = pty_sessions[WorkerOf[c]], pinned[q] \in up,
                 serve[q] \notin {"none", "over"}
          PROVE  serve[q] # "opening"
      <3>1. pinned[q] = c
        BY <2>1, <2>2, <1>t, UpOne DEF Registered
      <3>2. Owes(c, Frame("PtyOpen", p))
        BY <1>7, <2>2, <3>1, ReadOwed
      <3>3. pinned[p] = c /\ serve[p] \in {"splicing", "hangup", "closing"}
        BY <3>2 DEF Owes, Shell, Frame
      <3>4. p = q
        BY <2>2, <3>1, <3>3 DEF HolderInv, OneHolder, HoldsByPty
      <3> QED
        BY <3>3, <3>4
    <2>3. \A q \in Pty : /\ q = pty_sessions[WorkerOf[c]] /\ event' # event
                         /\ pinned[q] \in up /\ serve[q] \notin {"none", "over"}
                         => serve[q] # "opening"
      BY <2>1, <2>2
    <2> QED
      BY <2>1, <2>3, <1>t
  <1>8. ASSUME NEW c \in Conn, FarReads(c) PROVE PtyInv'
    BY <1>8, <1>t DEF FarReads
  <1>9. ASSUME NEW c \in Conn, FarReports(c) PROVE PtyInv'
    BY <1>9, <1>t DEF FarReports, Idle
  <1>10. ASSUME NEW c \in Conn, FarLost(c) PROVE PtyInv'
    BY <1>10, <1>t DEF FarLost, Off
  <1>11. ASSUME NEW c \in Conn, SessionTakes(c) PROVE PtyInv'
    BY <1>11, <1>t DEF SessionTakes, Popped, Send
  <1>12. ASSUME NEW h \in Handle, NEW c \in Conn, DispatchTake(h, c) PROVE PtyInv'
    BY <1>12, <1>t DEF DispatchTake, Popped
  <1>13. ASSUME NEW h \in Handle, SetupFails(h) PROVE PtyInv'
    BY <1>13, <1>t DEF SetupFails, Pushed
  <1>14. ASSUME NEW h \in Handle, DispatchRegister(h) PROVE PtyInv'
    BY <1>14, <1>t DEF DispatchRegister
  <1>15. ASSUME NEW h \in Handle, DispatchSend(h) PROVE PtyInv'
    BY <1>15, <1>t DEF DispatchSend, Send
  <1>16. ASSUME NEW h \in Handle, DispatchSendFails(h) PROVE PtyInv'
    BY <1>16, <1>t DEF DispatchSendFails
  <1>17. ASSUME NEW h \in Handle, Abandon(h) PROVE PtyInv'
    BY <1>17, <1>t DEF Abandon
  <1>18. ASSUME NEW h \in Handle, Poll(h) PROVE PtyInv'
    BY <1>18, <1>t DEF Poll
  <1>19. ASSUME NEW h \in Handle, TtlPasses(h) PROVE PtyInv'
    BY <1>19, <1>t DEF TtlPasses
  <1>20. ASSUME NEW h \in Handle, Kill(h) PROVE PtyInv'
    BY <1>20, <1>t DEF Kill, Cancel, Send
  <1>21. ASSUME NEW h \in Handle, SweepSnapshot(h) PROVE PtyInv'
    BY <1>21, <1>t DEF SweepSnapshot
  <1>22. ASSUME NEW p \in Pty, NEW c \in Conn, PtyPin(p, c) PROVE PtyInv'
    <2>1. /\ serve[p] = "none" /\ idle[c] > 0 /\ UNCHANGED <<event, up>>
          /\ pinned' = [pinned EXCEPT ![p] = c] /\ serve' = [serve EXCEPT ![p] = "opening"]
          /\ pty_sessions' = [pty_sessions EXCEPT ![WorkerOf[c]] = p]
      BY <1>22 DEF PtyPin, Serving
    <2>2. ASSUME NEW q \in Pty, q # p, serve[q] \notin {"none", "over"}, pinned[q] \in up
          PROVE  WorkerOf[pinned[q]] # WorkerOf[c]
      <3>1. Busy(c)
        BY <2>1 DEF Busy
      <3>2. WorkerOf[pinned[q]] = WorkerOf[c] => pinned[q] = c
        BY <2>2, <3>1, <1>t, BusyOne
      <3>3. pinned[q] # c
        BY <2>1, <2>2 DEF HolderInv, OneHolder, HoldsByPty
      <3> QED
        BY <3>2, <3>3
    <2> QED
      BY <2>1, <2>2, <1>t
  <1>23. ASSUME NEW p \in Pty, PtyOpens(p) PROVE PtyInv'
    <2>1. /\ serve[p] = "opening" /\ UNCHANGED <<pty_sessions, pinned, event, up>>
          /\ \/ serve' = [serve EXCEPT ![p] = "splicing"]
             \/ pinned[p] \notin up /\ serve' = [serve EXCEPT ![p] = "releasing"]
      BY <1>23 DEF PtyOpens, Serving
    <2> QED
      BY <2>1, <1>t
  <1>24. ASSUME NEW p \in Pty, PtyLeft(p) PROVE PtyInv'
    BY <1>24, <1>t DEF PtyLeft, Serving
  <1>25. ASSUME NEW p \in Pty, PtyHangsUp(p) PROVE PtyInv'
    BY <1>25, <1>t DEF PtyHangsUp, Send, Serving
  <1>26. ASSUME NEW p \in Pty, PtySeesEnd(p) PROVE PtyInv'
    BY <1>26, <1>t DEF PtySeesEnd, Serving
  <1>27. ASSUME NEW p \in Pty, PtyTimeout(p) PROVE PtyInv'
    BY <1>27, <1>t DEF PtyTimeout, Serving, Orderly
  <1>28. ASSUME NEW p \in Pty, PtyRelease(p) PROVE PtyInv'
    <2>1. /\ serve[p] = "releasing" /\ UNCHANGED <<pinned, up>>
          /\ serve' = [serve EXCEPT ![p] = "over"]
          /\ ChannelCloses(WorkerOf[pinned[p]])
      BY <1>28 DEF PtyRelease, Serving
    <2>2. ASSUME NEW q \in Pty, q # p, serve[q] \notin {"none", "over"}, pinned[q] \in up
          PROVE  WorkerOf[pinned[q]] # WorkerOf[pinned[p]]
      <3>1. Busy(pinned[p]) /\ HoldsByPty(p, pinned[p]) /\ HoldsByPty(q, pinned[q])
        BY <2>1, <2>2 DEF Busy, HoldsByPty
      <3>2. WorkerOf[pinned[q]] = WorkerOf[pinned[p]] => pinned[q] = pinned[p]
        BY <2>1, <2>2, <3>1, <1>t, BusyOne
      <3> QED
        BY <2>1, <2>2, <3>1, <3>2, <1>t DEF HolderInv, OneHolder
    <2>3. /\ pty_sessions' = [pty_sessions EXCEPT ![WorkerOf[pinned[p]]] = None]
          /\ \A q \in Pty : \/ event'[q] = event[q]
                            \/ /\ q = pty_sessions[WorkerOf[pinned[p]]] /\ event'[q] = "closed"
      BY <2>1, <1>t DEF ChannelCloses
    <2> QED
      BY <2>1, <2>2, <2>3, <1>t
  <1>29. ASSUME NEW w \in Worker, FarEnds(w) PROVE PtyInv'
    BY <1>29, <1>t DEF FarEnds
  <1>30. CASE SweepLooks
    BY <1>30, <1>t DEF SweepLooks
  <1>31. CASE SweepActs
    BY <1>31, <1>t DEF SweepActs, Cancel, Send
  <1>32. CASE UNCHANGED vars
    BY <1>32, <1>t DEF vars
  <1> QED
    BY <1>1, <1>2, <1>3, <1>4, <1>5, <1>6, <1>7, <1>8, <1>9, <1>10, <1>11, <1>12, <1>13,
       <1>14, <1>15, <1>16, <1>17, <1>18, <1>19, <1>20, <1>21, <1>22, <1>23, <1>24, <1>25,
       <1>26, <1>27, <1>28, <1>29, <1>30, <1>31, <1>32 DEF Next, ConnStep, HandleStep,
       PtyStep

-----------------------------------------------------------------------------
(* Work that is owed is in one place.                                      *)

\* Work that is owed is told from its frame.
LEMMA OwesFrames ==
    ASSUME NEW c \in Conn
    PROVE  /\ \A h \in Handle : Owes(c, Frame("Execute", h)) <=> Runs(h, c)
           /\ \A p \in Pty : Owes(c, Frame("PtyOpen", p)) <=> Shell(p, c)
           /\ Owes(c, Frame("SessionOpen", None)) <=> c \in leased
  <1>1. /\ \A h, k \in Handle : Frame("Execute", h) = Frame("Execute", k) => h = k
        /\ \A p, q \in Pty : Frame("PtyOpen", p) = Frame("PtyOpen", q) => p = q
        /\ \A h \in Handle, p \in Pty : Frame("Execute", h) # Frame("PtyOpen", p)
        /\ \A h \in Handle : Frame("Execute", h) # Frame("SessionOpen", None)
        /\ \A p \in Pty : Frame("PtyOpen", p) # Frame("SessionOpen", None)
    BY DEF Frame
  <1> QED
    BY <1>1 DEF Owes

\* A connection has one holder, which waits for one thing.
LEMMA OwesOne ==
    ASSUME HolderInv, NEW c \in Conn
    PROVE  /\ \A h \in Handle : Owes(c, Frame("Execute", h)) =>
                 /\ \A k \in Handle : Runs(k, c) => k = h
                 /\ (\A p \in Pty : ~Shell(p, c)) /\ c \notin leased
           /\ \A p \in Pty : Owes(c, Frame("PtyOpen", p)) =>
                 /\ Shell(p, c) /\ \A q \in Pty : Shell(q, c) => q = p
                 /\ (\A h \in Handle : ~Runs(h, c)) /\ c \notin leased
           /\ Owes(c, Frame("SessionOpen", None)) =>
                 (\A h \in Handle : ~Runs(h, c)) /\ (\A p \in Pty : ~Shell(p, c))
  <1>1. OneHolder(c)
    BY DEF HolderInv
  <1>2. /\ \A h \in Handle : Runs(h, c) => Has(h, c)
        /\ \A p \in Pty : Shell(p, c) => HoldsByPty(p, c)
    BY DEF Runs, Shell, Has, HoldsByPty
  <1> QED
    BY <1>1, <1>2, OwesFrames DEF OneHolder

\* Nobody waits for a connection that was just taken.
LEMMA OwesNothing ==
    ASSUME HolderInv, NEW c \in Conn,
           \/ idle[c] > 0
           \/ \E h \in Handle : Has(h, c) /\ dispatch[h] # "done"
           \/ \E p \in Pty : HoldsByPty(p, c) /\ serve[p] = "opening"
    PROVE  \A f : ~Owes(c, f)
  <1>1. OneHolder(c)
    BY DEF HolderInv
  <1>2. /\ \A h \in Handle : Runs(h, c) => Has(h, c) /\ dispatch[h] = "done"
        /\ \A p \in Pty : Shell(p, c) => HoldsByPty(p, c) /\ serve[p] # "opening"
    BY DEF Runs, Shell, Has, HoldsByPty
  <1>3. (\A h \in Handle : ~Runs(h, c)) /\ (\A p \in Pty : ~Shell(p, c)) /\ c \notin leased
    BY <1>1, <1>2 DEF OneHolder
  <1> QED
    BY <1>3 DEF Owes

\* A worker from which nobody waits for anything has nothing to do.
LEMMA QuietWorker ==
    ASSUME BaseInv, UpInv, WorkInv, NEW c \in Conn, c \in up, \A f \in WorkFrame : ~Owes(c, f)
    PROVE  Quiet(c)
  <1>1. /\ toServer[c] \in Seq(WorkFrame) /\ WorkerOf[c] \in Worker /\ WorkAt(c)
        /\ far[WorkerOf[c]].pc \in {"off", "idle", "running", "resetting"}
        /\ far[WorkerOf[c]].pc # "off"
    BY ExecAssumption DEF BaseInv, TypeOK, UpInv, WorkInv
  <1>2. \A f \in WorkFrame : /\ ~On(toWorker[c], f) /\ far[WorkerOf[c]].job # f
                             /\ ~On(toServer[c], f)
    BY <1>1 DEF WorkAt
  <1>3. far[WorkerOf[c]].pc = "idle" /\ far[WorkerOf[c]].job = NoFrame
    BY <1>1, <1>2 DEF BaseInv, JobInv, UpInv
  <1>4. ~Sent(c)
    BY <1>2 DEF Sent, On
  <1>5. toServer[c] = <<>>
    <2>1. toServer[c] # <<>> => toServer[c][1] \in WorkFrame /\ On(toServer[c], toServer[c][1])
      BY <1>1, OnTail, QueueFacts
    <2> QED
      BY <1>2, <2>1
  <1> QED
    BY <1>3, <1>4, <1>5 DEF Quiet

\* The holder of x waits for the same as before.
LEMMA OwesSame ==
    ASSUME NEW x \in Conn,
           \A h \in Handle : Runs(h, x)' <=> Runs(h, x),
           \A p \in Pty : Shell(p, x)' <=> Shell(p, x),
           x \in leased' <=> x \in leased
    PROVE  \A f \in WorkFrame : Owes(x, f)' <=> Owes(x, f)
  BY DEF Owes

\* A step that leaves the connection and what is owed on it alone.
LEMMA WorkSame ==
    ASSUME NEW x \in Conn, WorkAt(x), toWorker'[x] = toWorker[x], toServer'[x] = toServer[x],
           far'[WorkerOf[x]] = far[WorkerOf[x]],
           \A f \in WorkFrame : Owes(x, f)' <=> Owes(x, f)
    PROVE  WorkAt(x)'
  BY DEF WorkAt, On, Sent

\* A step that leaves the worker with nothing to do.
LEMMA WorkNone ==
    ASSUME NEW x \in Conn, Quiet(x)', \A f \in WorkFrame : ~Owes(x, f)'
    PROVE  WorkAt(x)'
  <1>1. NoFrame \notin WorkFrame
    BY FramesSent
  <1>2. \A f \in WorkFrame : ~On(toWorker[x], f)'
    BY DEF Quiet, Sent, On
  <1>3. \A f \in WorkFrame : ~On(toServer[x], f)'
    BY DEF Quiet, On
  <1>4. Len(toServer'[x]) = 0
    BY DEF Quiet
  <1> QED
    BY <1>1, <1>2, <1>3, <1>4 DEF WorkAt, Quiet, Sent

\* Work is sent to a worker that has nothing to do.
LEMMA WorkSent ==
    ASSUME BaseInv, NEW c \in Conn, c \in up, Quiet(c), NEW g \in WorkFrame, Send(c, g),
           toServer' = toServer, far' = far, \A f \in WorkFrame : Owes(c, f)' <=> f = g
    PROVE  WorkAt(c)'
  <1>1. toWorker \in [Conn -> Seq(WorkFrame \cup ControlFrame)] /\ NoFrame \notin WorkFrame
    BY FramesSent DEF BaseInv, TypeOK
  <1>2. PICK s : s = toWorker[c]
    OBVIOUS
  <1>3. toWorker'[c] = Append(s, g) /\ s \in Seq(WorkFrame \cup ControlFrame)
    BY <1>1, <1>2 DEF Send
  <1>4. /\ DOMAIN Append(s, g) = 1..(Len(s) + 1) /\ DOMAIN s = 1..Len(s) /\ Len(s) \in Nat
        /\ Append(s, g)[Len(s) + 1] = g /\ \A i \in DOMAIN s : Append(s, g)[i] = s[i]
    BY <1>3
  <1>5. \A i \in DOMAIN s : s[i] \notin WorkFrame
    BY <1>2 DEF Quiet, Sent
  <1>6. \A i \in DOMAIN Append(s, g) : Append(s, g)[i] \in WorkFrame => i = Len(s) + 1
    BY <1>4, <1>5
  <1>7. \A f \in WorkFrame : On(toWorker[c], f)' <=> f = g
    BY <1>3, <1>4, <1>6 DEF On
  <1>8. \A f \in WorkFrame : ~On(toServer[c], f)'
    BY DEF Quiet, On
  <1>9. Len(toServer'[c]) = 0 /\ toServer'[c] = <<>>
    BY DEF Quiet
  <1>10. far'[WorkerOf[c]].pc = "idle" /\ far'[WorkerOf[c]].job = NoFrame
    BY DEF Quiet
  <1>11. \A i, k \in DOMAIN toWorker'[c] :
            toWorker'[c][i] \in WorkFrame /\ toWorker'[c][k] \in WorkFrame => i = k
    BY <1>3, <1>6
  <1> QED
    BY <1>1, <1>7, <1>8, <1>9, <1>10, <1>11 DEF WorkAt

\* A Cancel or a PtyClose is sent.
LEMMA WorkControl ==
    ASSUME BaseInv, NEW x \in Conn, WorkAt(x), NEW c \in Conn, NEW g \in ControlFrame, Send(c, g),
           toServer' = toServer, far' = far, \A f \in WorkFrame : Owes(x, f)' <=> Owes(x, f)
    PROVE  WorkAt(x)'
  <1>1. toWorker \in [Conn -> Seq(WorkFrame \cup ControlFrame)] /\ g \notin WorkFrame
    BY DEF BaseInv, TypeOK, WorkFrame, ControlFrame, Frame
  <1>2. CASE x # c \/ c \notin up
    <2>1. toWorker'[x] = toWorker[x]
      BY <1>1, <1>2 DEF Send
    <2> QED
      BY <2>1, WorkSame
  <1>3. CASE x = c /\ c \in up
    <2>1. PICK s : s = toWorker[x]
      OBVIOUS
    <2>2. toWorker'[x] = Append(s, g) /\ s \in Seq(WorkFrame \cup ControlFrame)
      BY <1>1, <1>3, <2>1 DEF Send
    <2>3. /\ DOMAIN Append(s, g) = 1..(Len(s) + 1) /\ DOMAIN s = 1..Len(s) /\ Len(s) \in Nat
          /\ Append(s, g)[Len(s) + 1] = g /\ \A i \in DOMAIN s : Append(s, g)[i] = s[i]
      BY <2>2
    <2>4. \A i \in DOMAIN Append(s, g) : Append(s, g)[i] \in WorkFrame =>
             i \in DOMAIN s /\ s[i] = Append(s, g)[i]
      BY <2>3, <1>1
    <2>5. \A f \in WorkFrame : On(toWorker[x], f)' <=> On(toWorker[x], f)
      BY <2>1, <2>2, <2>3, <2>4 DEF On
    <2>6. Sent(x)' => Sent(x)
      BY <2>1, <2>2, <2>4 DEF Sent
    <2>7. \A i, k \in DOMAIN toWorker'[x] :
              toWorker'[x][i] \in WorkFrame /\ toWorker'[x][k] \in WorkFrame => i = k
      BY <2>1, <2>2, <2>4 DEF WorkAt
    <2>8. \A f \in WorkFrame : On(toServer[x], f)' <=> On(toServer[x], f)
      BY DEF On
    <2> QED
      BY <2>5, <2>6, <2>7, <2>8 DEF WorkAt
  <1> QED
    BY <1>2, <1>3

\* A queue of one, after its frame is read.
LEMMA LastTaken == ASSUME NEW S, NEW s \in Seq(S), s # <<>>, Len(s) <= 1 PROVE Tail(s) = <<>>
  <1>1. Len(s) = 1
    <2>1. Len(s) \in Nat
      BY LenProperties
    <2>2. Len(s) # 0
      BY EmptySeq
    <2> QED
      BY <2>1, <2>2
  <1>2. Tail(s) \in Seq(S) /\ Len(Tail(s)) = 0
    BY <1>1, QueueFacts
  <1> QED
    BY <1>2, EmptySeq

\* The worker takes the next frame.
LEMMA WorkTaken ==
    ASSUME BaseInv, UpInv, NEW c \in Conn, WorkAt(c), FarReads(c),
           \A f \in WorkFrame : Owes(c, f)' <=> Owes(c, f)
    PROVE  WorkAt(c)'
  <1>1. PICK s : s = toWorker[c]
    OBVIOUS
  <1>2. /\ s \in Seq(WorkFrame \cup ControlFrame) /\ s # <<>> /\ toWorker'[c] = Tail(s)
        /\ NoFrame \notin WorkFrame
    BY <1>1, FramesSent DEF BaseInv, TypeOK, FarReads
  <1>3. /\ DOMAIN s = 1..Len(s) /\ Len(s) \in Nat /\ Len(s) > 0
        /\ DOMAIN Tail(s) = 1..(Len(s) - 1)
        /\ \A i \in 1..(Len(s) - 1) : Tail(s)[i] = s[i + 1]
    BY <1>2
  <1>4. \A i, k \in DOMAIN s : s[i] \in WorkFrame /\ s[k] \in WorkFrame => i = k
    BY <1>1 DEF WorkAt
  <1>5. \A i, k \in DOMAIN Tail(s) : Tail(s)[i] \in WorkFrame /\ Tail(s)[k] \in WorkFrame => i = k
    BY <1>3, <1>4
  <1>6. \A i \in DOMAIN Tail(s) : Tail(s)[i] \in WorkFrame => s[1] \notin WorkFrame /\ Sent(c)
    BY <1>1, <1>3, <1>4 DEF Sent
  <1>7. Sent(c)' => s[1] \notin WorkFrame /\ Sent(c)
    BY <1>2, <1>6 DEF Sent
  <1>8. \A f : On(toWorker[c], f) <=> f = s[1] \/ On(toWorker[c], f)'
    BY <1>1, FarReadOn
  <1>9. toServer' = toServer
    BY FarReadCases
  <1>10. \A f : On(toServer[c], f)' <=> On(toServer[c], f)
    BY <1>9 DEF On
  <1>11. CASE /\ s[1] \in WorkFrame /\ far[WorkerOf[c]].pc = "idle"
              /\ far'[WorkerOf[c]].pc = "running" /\ far'[WorkerOf[c]].job = s[1]
    <2>1. Sent(c)
      BY <1>1, <1>3, <1>11 DEF Sent
    <2>2. far[WorkerOf[c]].job = NoFrame /\ toServer[c] = <<>> /\ ~Sent(c)'
      BY ExecAssumption, <1>7, <1>11, <2>1 DEF UpInv, WorkAt
    <2>3. \A f \in WorkFrame : \/ On(toWorker[c], f)' \/ far'[WorkerOf[c]].job = f
                               \/ On(toServer[c], f)'
                               <=> Owes(c, f)'
      BY <1>2, <1>8, <1>10, <1>11, <2>2 DEF WorkAt
    <2> QED
      BY <1>2, <1>5, <1>9, <1>11, <2>2, <2>3 DEF WorkAt
  <1>12. CASE /\ ~(s[1] \in WorkFrame /\ far[WorkerOf[c]].pc = "idle")
              /\ far'[WorkerOf[c]].job = far[WorkerOf[c]].job
              /\ \/ far'[WorkerOf[c]].pc = far[WorkerOf[c]].pc
                 \/ far[WorkerOf[c]].pc = "running" /\ far'[WorkerOf[c]].pc = "resetting"
    <2>1. s[1] \notin WorkFrame
      <3>1. s[1] \in WorkFrame => Sent(c)
        BY <1>1, <1>3 DEF Sent
      <3> QED
        BY <1>12, <3>1 DEF WorkAt
    <2>2. \A f \in WorkFrame : \/ On(toWorker[c], f)' \/ far'[WorkerOf[c]].job = f
                               \/ On(toServer[c], f)'
                               <=> Owes(c, f)'
      BY <1>8, <1>10, <1>12, <2>1 DEF WorkAt
    <2>3. Sent(c)' => far'[WorkerOf[c]].pc = "idle" /\ toServer[c] = <<>>
      BY <1>7, <1>12 DEF WorkAt
    <2>4. far'[WorkerOf[c]].pc \in {"running", "resetting"} => toServer[c] = <<>>
      BY <1>12 DEF WorkAt
    <2> QED
      BY <1>2, <1>5, <1>9, <2>2, <2>3, <2>4 DEF WorkAt
  <1> QED
    BY <1>1, <1>11, <1>12, FarReadCases

\* The worker reports the end of its work.
LEMMA WorkReported ==
    ASSUME BaseInv, NEW c \in Conn, WorkAt(c), FarReports(c),
           \A f \in WorkFrame : Owes(c, f)' <=> Owes(c, f)
    PROVE  WorkAt(c)'
  <1>1. /\ far[WorkerOf[c]].pc = "resetting" /\ toWorker' = toWorker
        /\ toServer' = [toServer EXCEPT ![c] = Append(@, far[WorkerOf[c]].job)]
        /\ far'[WorkerOf[c]].pc = "idle" /\ far'[WorkerOf[c]].job = NoFrame
    BY ExecAssumption DEF BaseInv, TypeOK, FarReports, Idle
  <1>2. toServer[c] = <<>> /\ ~Sent(c)
    BY <1>1 DEF WorkAt
  <1>3. far[WorkerOf[c]].job \in WorkFrame /\ NoFrame \notin WorkFrame
    BY ExecAssumption, <1>1, FramesSent DEF BaseInv, JobInv
  <1>4. toServer'[c] = <<far[WorkerOf[c]].job>>
    BY <1>1, <1>2, <1>3 DEF BaseInv, TypeOK
  <1>5. \A f : On(toServer[c], f)' <=> f = far[WorkerOf[c]].job
    BY <1>4 DEF On
  <1>6. \A f : ~On(toServer[c], f)
    BY <1>2 DEF On
  <1>7. \A f : On(toWorker[c], f)' <=> On(toWorker[c], f)
    BY <1>1 DEF On
  <1>8. ~Sent(c)'
    BY <1>1, <1>2 DEF Sent
  <1>9. \A f \in WorkFrame : \/ On(toWorker[c], f)' \/ far'[WorkerOf[c]].job = f
                             \/ On(toServer[c], f)'
                             <=> Owes(c, f)'
    BY <1>1, <1>3, <1>5, <1>6, <1>7 DEF WorkAt
  <1>10. Len(toServer'[c]) <= 1
    BY <1>4
  <1>11. \A i, k \in DOMAIN toWorker'[c] :
            toWorker'[c][i] \in WorkFrame /\ toWorker'[c][k] \in WorkFrame => i = k
    BY <1>1 DEF WorkAt
  <1> QED
    BY <1>1, <1>8, <1>9, <1>10, <1>11 DEF WorkAt

\* A cancel is sent, or not.
LEMMA WorkCancel ==
    ASSUME BaseInv, NEW x \in Conn, WorkAt(x), NEW h \in Handle, Cancel(h),
           UNCHANGED <<inflight, leased, dispatch, serve, pinned, event, toServer, far>>
    PROVE  WorkAt(x)'
  <1>1. \A f \in WorkFrame : Owes(x, f)' <=> Owes(x, f)
    BY OwesSame DEF Runs, Shell
  <1>2. CASE toWorker' = toWorker
    BY <1>1, <1>2, WorkSame
  <1>3. CASE inflight[h] # None /\ Send(inflight[h], Frame("Cancel", h))
    <2>1. PICK c \in Conn : c = inflight[h]
      BY <1>3 DEF BaseInv, TypeOK
    <2> QED
      BY <1>1, <1>3, <2>1, WorkControl, FramesSent
  <1> QED
    BY <1>2, <1>3 DEF Cancel

\* The work of a worker that holds its socket, through every step.
LEMMA WorkStep ==
    ASSUME BaseInv, HolderInv, OrderInv, Orderly, NEW x \in Conn, x \in up', [Next]_vars
    PROVE  WorkAt(x)'
  <1> USE ExecAssumption DEF poolVars, handlerVars, loopVars, farVars, OrderInv
  <1>t. /\ inflight \in [Handle -> Conn \cup {None}] /\ dispatch \in [Handle -> DispatchPc]
        /\ taken \in [Handle -> Conn \cup {None}] /\ pinned \in [Pty -> Conn \cup {None}]
        /\ serve \in [Pty -> ServePc] /\ event \in [Pty -> {"none", "exit", "closed"}]
        /\ leased \subseteq Conn /\ up \subseteq Conn /\ DispatchInv /\ PinInv
        /\ pty_sessions \in [Worker -> Pty \cup {None}] /\ WorkerOf[x] \in Worker
    BY ExecAssumption DEF BaseInv, TypeOK
  <1>w. x \in up => WorkAt(x)
    BY DEF WorkInv
  <1>1. ASSUME NEW c \in Conn, Register(c) PROVE WorkAt(x)'
    <2>1. /\ far'[WorkerOf[c]].pc = "idle" /\ far'[WorkerOf[c]].job = NoFrame
          /\ \A v \in Worker : v # WorkerOf[c] => far'[v] = far[v]
          /\ loop[c] = "new" /\ up' = up \cup {c} /\ far[WorkerOf[c]].pc = "off"
          /\ UNCHANGED <<inflight, leased, handlerVars, toWorker, toServer>>
      BY <1>1, ExecAssumption DEF Register, Idle, BaseInv, TypeOK
    <2>2. CASE x = c
      <3>1. /\ toWorker[c] = <<>> /\ toServer[c] = <<>> /\ c \notin leased
            /\ \A h \in Handle : taken[h] # c
            /\ \A p \in Pty : pinned[p] # c
        BY <2>1 DEF HolderInv, NewInv
      <3>2. \A f \in WorkFrame : ~Owes(x, f)'
        BY <2>1, <2>2, <3>1, <1>t DEF Owes, Runs, Shell, DispatchInv
      <3>3. Quiet(x)'
        BY <2>1, <2>2, <3>1 DEF Quiet, Sent
      <3> QED
        BY <3>2, <3>3, WorkNone
    <2>3. CASE x # c
      <3>1. x \in up /\ WorkerOf[x] # WorkerOf[c]
        BY <2>1, <2>3 DEF UpInv
      <3>2. \A f \in WorkFrame : Owes(x, f)' <=> Owes(x, f)
        BY <2>1, OwesSame DEF Runs, Shell
      <3> QED
        BY <2>1, <3>1, <3>2, <1>t, <1>w, WorkSame
    <2> QED
      BY <2>2, <2>3
  <1>2. ASSUME NEW c \in Conn, KeepaliveEvicts(c) PROVE WorkAt(x)'
    <2>1. /\ \A h \in Handle : Runs(h, x)' <=> Runs(h, x)
          /\ \A p \in Pty : Shell(p, x)' <=> Shell(p, x)
          /\ x \in leased' <=> x \in leased
      BY <1>2, <1>t DEF KeepaliveEvicts, Runs, Shell
    <2>2. UNCHANGED farVars
      BY <1>2 DEF KeepaliveEvicts
    <2> QED
      BY <1>w, <2>1, <2>2, OwesSame, WorkSame
  <1>3. ASSUME NEW c \in Conn, LoopEnds(c) PROVE WorkAt(x)'
    <2>1. /\ \A h \in Handle : Runs(h, x)' <=> Runs(h, x)
          /\ \A p \in Pty : Shell(p, x)' <=> Shell(p, x)
          /\ x \in leased' <=> x \in leased
      BY <1>3, <1>t DEF LoopEnds, Runs, Shell
    <2>2. UNCHANGED farVars
      BY <1>3 DEF LoopEnds
    <2> QED
      BY <1>w, <2>1, <2>2, OwesSame, WorkSame
  <1>4. ASSUME NEW c \in Conn, Drop1(c) PROVE WorkAt(x)'
    <2>0. WorkerOf[x] # WorkerOf[c]
      BY <1>4, <1>t, UpOne DEF Drop1, Registered, UpInv
    <2>1. /\ \A h \in Handle : Runs(h, x)' <=> Runs(h, x)
          /\ \A p \in Pty : Shell(p, x)' <=> Shell(p, x)
          /\ x \in leased' <=> x \in leased
      BY <1>4, <1>t, <2>0 DEF Drop1, Runs, Shell
    <2>2. UNCHANGED farVars
      BY <1>4 DEF Drop1
    <2> QED
      BY <1>w, <2>1, <2>2, OwesSame, WorkSame
  <1>5. ASSUME NEW c \in Conn, Drop2(c) PROVE WorkAt(x)'
    <2>0. WorkerOf[x] # WorkerOf[c]
      BY <1>5, <1>t, UpOne DEF Drop2, Registered, UpInv
    <2>3. \A p \in Pty : pinned[p] = x => event'[p] = event[p]
      BY <1>5, <2>0, <1>t DEF Drop2, PtyInv
    <2>1. /\ \A h \in Handle : Runs(h, x)' <=> Runs(h, x)
          /\ \A p \in Pty : Shell(p, x)' <=> Shell(p, x)
          /\ x \in leased' <=> x \in leased
      BY <1>5, <1>t, <2>0, <2>3 DEF Drop2, Runs, Shell
    <2>2. UNCHANGED farVars
      BY <1>5 DEF Drop2
    <2> QED
      BY <1>w, <2>1, <2>2, OwesSame, WorkSame
  <1>6. ASSUME NEW c \in Conn, Fill(c) PROVE WorkAt(x)'
    <2>1. /\ \A h \in Handle : Runs(h, x)' <=> Runs(h, x)
          /\ \A p \in Pty : Shell(p, x)' <=> Shell(p, x)
          /\ x \in leased' <=> x \in leased
      BY <1>6, <1>t DEF Fill, Runs, Shell
    <2>2. UNCHANGED farVars
      BY <1>6 DEF Fill
    <2> QED
      BY <1>w, <2>1, <2>2, OwesSame, WorkSame
  <1>7. ASSUME NEW c \in Conn, ReadFrame(c) PROVE WorkAt(x)'
    <2>1. /\ loop[c] = "reading" /\ toServer[c] # <<>> /\ toServer[c][1] \in WorkFrame
          /\ toServer' = [toServer EXCEPT ![c] = Tail(@)]
          /\ UNCHANGED <<pty_sessions, dispatch, taken, serve, pinned, up, toWorker, far>>
          /\ \/ \E h \in Handle : toServer[c][1] = Frame("Execute", h) /\ ReadResult(c, h)
             \/ \E p \in Pty : toServer[c][1] = Frame("PtyOpen", p) /\ ReadPtyExit(c)
             \/ toServer[c][1] = Frame("SessionOpen", None) /\ ReadSessionClosed(c)
      BY <1>7, ReadCases
    <2>2. CASE x # c
      <3>0. WorkerOf[x] # WorkerOf[c]
        BY <2>1, <2>2, <1>t, UpOne DEF Registered
      <3>1. /\ \A h \in Handle : Runs(h, x)' <=> Runs(h, x)
            /\ \A p \in Pty : Shell(p, x)' <=> Shell(p, x)
            /\ x \in leased' <=> x \in leased
        <4>1. ASSUME NEW h \in Handle, toServer[c][1] = Frame("Execute", h), ReadResult(c, h)
              PROVE  /\ \A k \in Handle : Runs(k, x)' <=> Runs(k, x)
                     /\ \A p \in Pty : Shell(p, x)' <=> Shell(p, x)
                     /\ x \in leased' <=> x \in leased
          <5>1. inflight[h] # x
            BY <1>7, <4>1, <2>2, <1>t, ReadOwn DEF DispatchInv
          <5> QED
            BY <2>1, <4>1, <5>1, <1>t DEF Runs, Shell, ReadResult
        <4>2. CASE ReadPtyExit(c)
          <5>1. \A p \in Pty : pinned[p] = x => event'[p] = event[p]
            BY <4>2, <3>0, <1>t DEF ReadPtyExit, PtyInv
          <5> QED
            BY <2>1, <4>2, <5>1 DEF Runs, Shell, ReadPtyExit
        <4>3. CASE ReadSessionClosed(c)
          BY <2>1, <2>2, <4>3 DEF Runs, Shell, ReadSessionClosed
        <4> QED
          BY <2>1, <4>1, <4>2, <4>3
      <3>2. toServer'[x] = toServer[x]
        BY <2>1, <2>2 DEF BaseInv, TypeOK
      <3> QED
        BY <2>1, <3>1, <3>2, <1>w, OwesSame, WorkSame
    <2>3. CASE x = c
      <3>1. x \in up /\ WorkAt(x) /\ Owes(x, toServer[x][1])
        BY <1>7, <2>1, <2>3, <1>w, ReadOwed
      <3>3. \A f \in WorkFrame : ~Owes(x, f)'
        <4>1. ASSUME NEW h \in Handle, toServer[x][1] = Frame("Execute", h), ReadResult(c, h)
              PROVE  \A f \in WorkFrame : ~Owes(x, f)'
          <5>1. /\ \A k \in Handle : Runs(k, x) => k = h
                /\ (\A p \in Pty : ~Shell(p, x)) /\ x \notin leased
            BY <3>1, <4>1, OwesOne
          <5>2. /\ \A k \in Handle : ~Runs(k, x)'
                /\ (\A p \in Pty : ~Shell(p, x)') /\ x \notin leased'
            BY <2>1, <4>1, <5>1, <1>t DEF Runs, Shell, ReadResult
          <5> QED
            BY <5>2 DEF Owes
        <4>2. ASSUME NEW p \in Pty, toServer[x][1] = Frame("PtyOpen", p), ReadPtyExit(c)
              PROVE  \A f \in WorkFrame : ~Owes(x, f)'
          <5>1. /\ \A q \in Pty : Shell(q, x) => q = p
                /\ (\A h \in Handle : ~Runs(h, x)) /\ x \notin leased /\ Shell(p, x)
            BY <3>1, <4>2, OwesOne
          <5>2. pty_sessions[WorkerOf[c]] = p
            BY <5>1, <2>3, <3>1 DEF Shell, PtyInv
          <5>3. event' = [event EXCEPT ![p] = "exit"] /\ UNCHANGED <<inflight, leased>>
            BY <4>2, <5>2, ExecAssumption DEF ReadPtyExit
          <5>4. /\ \A h \in Handle : ~Runs(h, x)'
                /\ (\A q \in Pty : ~Shell(q, x)') /\ x \notin leased'
            BY <2>1, <5>1, <5>3, <1>t DEF Runs, Shell
          <5> QED
            BY <5>4 DEF Owes
        <4>3. CASE toServer[x][1] = Frame("SessionOpen", None) /\ ReadSessionClosed(c)
          <5>1. (\A h \in Handle : ~Runs(h, x)) /\ (\A p \in Pty : ~Shell(p, x))
            BY <3>1, <4>3, OwesOne
          <5>2. /\ (\A h \in Handle : ~Runs(h, x)') /\ (\A p \in Pty : ~Shell(p, x)')
                /\ x \notin leased'
            BY <2>1, <2>3, <4>3, <5>1 DEF Runs, Shell, ReadSessionClosed
          <5> QED
            BY <5>2 DEF Owes
        <4> QED
          BY <2>1, <2>3, <4>1, <4>2, <4>3
      <3>4. Quiet(x)'
        <4>1. ~Sent(x) /\ far[WorkerOf[x]].pc \notin {"running", "resetting"}
          BY <2>1, <2>3, <3>1 DEF WorkAt
        <4>2. far[WorkerOf[x]].pc = "idle" /\ far[WorkerOf[x]].job = NoFrame
          BY <3>1, <4>1, <1>t DEF UpInv, BaseInv, TypeOK
        <4>3. toServer'[x] = <<>>
          <5>1. PICK s : s = toServer[x]
            OBVIOUS
          <5>2. s \in Seq(WorkFrame) /\ s # <<>> /\ Len(s) <= 1 /\ toServer'[x] = Tail(s)
            BY <5>1, <2>1, <2>3, <3>1 DEF BaseInv, TypeOK, WorkAt
          <5> QED
            BY <5>2, LastTaken
        <4> QED
          BY <2>1, <4>1, <4>2, <4>3 DEF Quiet, Sent
      <3> QED
        BY <3>3, <3>4, WorkNone
    <2> QED
      BY <2>2, <2>3
  <1>8. ASSUME NEW c \in Conn, FarReads(c) PROVE WorkAt(x)'
    <2>1. /\ c \in up /\ up' = up /\ UNCHANGED <<poolVars, handlerVars>>
          /\ \A v \in Worker : v # WorkerOf[c] => far'[v] = far[v]
          /\ x # c => toWorker'[x] = toWorker[x] /\ toServer'[x] = toServer[x]
      BY <1>8 DEF FarReads, BaseInv, TypeOK
    <2>2. \A f \in WorkFrame : Owes(x, f)' <=> Owes(x, f)
      BY <2>1, OwesSame DEF Runs, Shell
    <2>3. CASE x = c
      BY <1>8, <2>1, <2>2, <2>3, <1>w, WorkTaken
    <2>4. CASE x # c
      <3>1. WorkerOf[x] # WorkerOf[c]
        BY <2>1, <2>4, <1>t, UpOne DEF UpInv, Registered
      <3> QED
        BY <2>1, <2>2, <2>4, <3>1, <1>t, <1>w, WorkSame
    <2> QED
      BY <2>3, <2>4
  <1>9. ASSUME NEW c \in Conn, FarReports(c) PROVE WorkAt(x)'
    <2>1. /\ c \in up /\ up' = up /\ UNCHANGED <<poolVars, handlerVars>>
          /\ \A v \in Worker : v # WorkerOf[c] => far'[v] = far[v]
          /\ x # c => toWorker'[x] = toWorker[x] /\ toServer'[x] = toServer[x]
      BY <1>9 DEF FarReports, BaseInv, TypeOK
    <2>2. \A f \in WorkFrame : Owes(x, f)' <=> Owes(x, f)
      BY <2>1, OwesSame DEF Runs, Shell
    <2>3. CASE x = c
      BY <1>9, <2>1, <2>2, <2>3, <1>w, WorkReported
    <2>4. CASE x # c
      <3>1. WorkerOf[x] # WorkerOf[c]
        BY <2>1, <2>4, <1>t, UpOne DEF UpInv, Registered
      <3> QED
        BY <2>1, <2>2, <2>4, <3>1, <1>t, <1>w, WorkSame
    <2> QED
      BY <2>3, <2>4
  <1>10. ASSUME NEW c \in Conn, FarLost(c) PROVE WorkAt(x)'
    <2>1. /\ c \in up /\ up' = up \ {c} /\ UNCHANGED <<poolVars, handlerVars>>
          /\ \A v \in Worker : v # WorkerOf[c] => far'[v] = far[v]
          /\ x # c => toWorker'[x] = toWorker[x] /\ toServer'[x] = toServer[x]
      BY <1>10 DEF FarLost, BaseInv, TypeOK
    <2>2. \A f \in WorkFrame : Owes(x, f)' <=> Owes(x, f)
      BY <2>1, OwesSame DEF Runs, Shell
    <2>3. x # c /\ x \in up /\ WorkerOf[x] # WorkerOf[c]
      BY <2>1, <1>t, UpOne DEF UpInv, Registered
    <2> QED
      BY <2>1, <2>2, <2>3, <1>t, <1>w, WorkSame
  <1>11. ASSUME NEW c \in Conn, SessionTakes(c) PROVE WorkAt(x)'
    <2>1. /\ Send(c, Frame("SessionOpen", None)) /\ idle[c] > 0 /\ leased' = leased \cup {c}
          /\ UNCHANGED <<inflight, handlerVars, up, toServer, far>>
      BY <1>11 DEF SessionTakes
    <2>2. CASE x = c
      <3>1. \A f : ~Owes(x, f)
        BY <2>1, <2>2, OwesNothing
      <3>2. Quiet(x)
        BY <2>1, <2>2, <3>1, QuietWorker
      <3>3. \A f \in WorkFrame : Owes(x, f)' <=> f = Frame("SessionOpen", None)
        BY <2>1, <2>2, <3>1 DEF Owes, Runs, Shell
      <3> QED
        BY <2>1, <2>2, <3>2, <3>3, WorkSent, FramesSent
    <2>3. CASE x # c
      <3>1. \A f \in WorkFrame : Owes(x, f)' <=> Owes(x, f)
        BY <2>1, <2>3, OwesSame DEF Runs, Shell
      <3>2. toWorker'[x] = toWorker[x]
        BY <2>1, <2>3 DEF Send, BaseInv, TypeOK
      <3> QED
        BY <2>1, <3>1, <3>2, <1>w, WorkSame
    <2> QED
      BY <2>2, <2>3
  <1>12. ASSUME NEW h \in Handle, NEW c \in Conn, DispatchTake(h, c) PROVE WorkAt(x)'
    <2>1. /\ \A k \in Handle : Runs(k, x)' <=> Runs(k, x)
          /\ \A q \in Pty : Shell(q, x)' <=> Shell(q, x)
          /\ x \in leased' <=> x \in leased
      BY <1>12, <1>t DEF DispatchTake, DispatchInv, Runs, Shell
    <2>2. UNCHANGED farVars
      BY <1>12 DEF DispatchTake
    <2> QED
      BY <1>w, <2>1, <2>2, OwesSame, WorkSame
  <1>13. ASSUME NEW h \in Handle, SetupFails(h) PROVE WorkAt(x)'
    <2>1. /\ \A k \in Handle : Runs(k, x)' <=> Runs(k, x)
          /\ \A q \in Pty : Shell(q, x)' <=> Shell(q, x)
          /\ x \in leased' <=> x \in leased
      BY <1>13, <1>t DEF SetupFails, DispatchInv, Runs, Shell
    <2>2. UNCHANGED farVars
      BY <1>13 DEF SetupFails
    <2> QED
      BY <1>w, <2>1, <2>2, OwesSame, WorkSame
  <1>14. ASSUME NEW h \in Handle, DispatchRegister(h) PROVE WorkAt(x)'
    <2>1. /\ \A k \in Handle : Runs(k, x)' <=> Runs(k, x)
          /\ \A q \in Pty : Shell(q, x)' <=> Shell(q, x)
          /\ x \in leased' <=> x \in leased
      BY <1>14, <1>t DEF DispatchRegister, DispatchInv, Runs, Shell
    <2>2. UNCHANGED farVars
      BY <1>14 DEF DispatchRegister
    <2> QED
      BY <1>w, <2>1, <2>2, OwesSame, WorkSame
  <1>15. ASSUME NEW h \in Handle, DispatchSend(h) PROVE WorkAt(x)'
    <2>0. PICK c \in Conn : c = taken[h]
      BY <1>15, <1>t DEF DispatchSend, DispatchInv
    <2>1. /\ Send(c, Frame("Execute", h)) /\ dispatch[h] = "sending"
          /\ dispatch' = [dispatch EXCEPT ![h] = "done"]
          /\ UNCHANGED <<inflight, leased, taken, serve, pinned, event, up, toServer, far>>
      BY <1>15, <2>0 DEF DispatchSend
    <2>2. CASE x = c
      <3>0. inflight[h] = x
        BY <2>0, <2>1, <2>2 DEF SendingInv
      <3>1. \A f : ~Owes(x, f)
        BY <2>1, <3>0, OwesNothing DEF Has
      <3>2. Quiet(x)
        BY <2>1, <2>2, <3>1, QuietWorker
      <3>3. /\ \A k \in Handle : Runs(k, x)' <=> k = h
            /\ (\A p \in Pty : ~Shell(p, x)') /\ x \notin leased'
        BY <2>1, <3>0, <3>1, <1>t DEF Owes, Runs, Shell
      <3>4. \A f \in WorkFrame : Owes(x, f)' <=> f = Frame("Execute", h)
        BY <3>3 DEF Owes
      <3> QED
        BY <2>1, <2>2, <3>2, <3>4, WorkSent, FramesSent
    <2>3. CASE x # c
      <3>0. inflight[h] # x
        BY <2>0, <2>3, <1>t, ExecAssumption DEF DispatchInv
      <3>1. \A f \in WorkFrame : Owes(x, f)' <=> Owes(x, f)
        BY <2>1, <3>0, <1>t, OwesSame DEF Runs, Shell
      <3>2. toWorker'[x] = toWorker[x]
        BY <2>1, <2>3 DEF Send, BaseInv, TypeOK
      <3> QED
        BY <2>1, <3>1, <3>2, <1>w, WorkSame
    <2> QED
      BY <2>2, <2>3
  <1>16. ASSUME NEW h \in Handle, DispatchSendFails(h) PROVE WorkAt(x)'
    <2>1. /\ \A k \in Handle : Runs(k, x)' <=> Runs(k, x)
          /\ \A q \in Pty : Shell(q, x)' <=> Shell(q, x)
          /\ x \in leased' <=> x \in leased
      BY <1>16, <1>t DEF DispatchSendFails, DispatchInv, Runs, Shell
    <2>2. UNCHANGED farVars
      BY <1>16 DEF DispatchSendFails
    <2> QED
      BY <1>w, <2>1, <2>2, OwesSame, WorkSame
  <1>17. ASSUME NEW h \in Handle, Abandon(h) PROVE WorkAt(x)'
    <2>1. /\ \A k \in Handle : Runs(k, x)' <=> Runs(k, x)
          /\ \A q \in Pty : Shell(q, x)' <=> Shell(q, x)
          /\ x \in leased' <=> x \in leased
      BY <1>17, <1>t DEF Abandon, DispatchInv, Runs, Shell
    <2>2. UNCHANGED farVars
      BY <1>17 DEF Abandon
    <2> QED
      BY <1>w, <2>1, <2>2, OwesSame, WorkSame
  <1>18. ASSUME NEW h \in Handle, Poll(h) PROVE WorkAt(x)'
    <2>1. /\ \A k \in Handle : Runs(k, x)' <=> Runs(k, x)
          /\ \A q \in Pty : Shell(q, x)' <=> Shell(q, x)
          /\ x \in leased' <=> x \in leased
      BY <1>18, <1>t DEF Poll, Runs, Shell
    <2>2. UNCHANGED farVars
      BY <1>18 DEF Poll
    <2> QED
      BY <1>w, <2>1, <2>2, OwesSame, WorkSame
  <1>19. ASSUME NEW h \in Handle, TtlPasses(h) PROVE WorkAt(x)'
    <2>1. /\ \A k \in Handle : Runs(k, x)' <=> Runs(k, x)
          /\ \A q \in Pty : Shell(q, x)' <=> Shell(q, x)
          /\ x \in leased' <=> x \in leased
      BY <1>19, <1>t DEF TtlPasses, Runs, Shell
    <2>2. UNCHANGED farVars
      BY <1>19 DEF TtlPasses
    <2> QED
      BY <1>w, <2>1, <2>2, OwesSame, WorkSame
  <1>20. ASSUME NEW h \in Handle, Kill(h) PROVE WorkAt(x)'
    <2>1. /\ Cancel(h)
          /\ UNCHANGED <<inflight, leased, handlerVars, up, toServer, far>>
      BY <1>20 DEF Kill
    <2> QED
      BY <2>1, <1>w, WorkCancel
  <1>21. ASSUME NEW h \in Handle, SweepSnapshot(h) PROVE WorkAt(x)'
    <2>1. /\ \A k \in Handle : Runs(k, x)' <=> Runs(k, x)
          /\ \A q \in Pty : Shell(q, x)' <=> Shell(q, x)
          /\ x \in leased' <=> x \in leased
      BY <1>21, <1>t DEF SweepSnapshot, Runs, Shell
    <2>2. UNCHANGED farVars
      BY <1>21 DEF SweepSnapshot
    <2> QED
      BY <1>w, <2>1, <2>2, OwesSame, WorkSame
  <1>22. ASSUME NEW p \in Pty, NEW c \in Conn, PtyPin(p, c) PROVE WorkAt(x)'
    <2>1. /\ \A k \in Handle : Runs(k, x)' <=> Runs(k, x)
          /\ \A q \in Pty : Shell(q, x)' <=> Shell(q, x)
          /\ x \in leased' <=> x \in leased
      BY <1>22, <1>t DEF PtyPin, Serving, Runs, Shell
    <2>2. UNCHANGED farVars
      BY <1>22 DEF PtyPin
    <2> QED
      BY <1>w, <2>1, <2>2, OwesSame, WorkSame
  <1>23. ASSUME NEW p \in Pty, PtyOpens(p) PROVE WorkAt(x)'
    <2>0. PICK c \in Conn : c = pinned[p]
      BY <1>23, <1>t DEF PtyOpens, PinInv
    <2>1. /\ serve[p] = "opening"
          /\ \/ Send(c, Frame("PtyOpen", p)) /\ serve' = [serve EXCEPT ![p] = "splicing"]
             \/ /\ c \notin up /\ toWorker' = toWorker
                /\ serve' = [serve EXCEPT ![p] = "releasing"]
          /\ UNCHANGED <<inflight, leased, dispatch, taken, pinned, event, up, toServer, far>>
      BY <1>23, <2>0 DEF PtyOpens, Serving
    <2>2. CASE x = c
      <3>0. Send(c, Frame("PtyOpen", p)) /\ serve' = [serve EXCEPT ![p] = "splicing"]
        BY <2>1, <2>2
      <3>1. \A f : ~Owes(x, f)
        BY <2>0, <2>1, <2>2, OwesNothing DEF HoldsByPty
      <3>2. Quiet(x)
        BY <2>1, <2>2, <3>1, QuietWorker
      <3>e. event[p] = "none"
        BY <2>0, <2>1, <2>2 DEF PtyInv
      <3>3. /\ \A q \in Pty : Shell(q, x)' <=> q = p
            /\ (\A h \in Handle : ~Runs(h, x)') /\ x \notin leased'
        BY <2>0, <2>1, <2>2, <3>0, <3>1, <3>e, <1>t DEF Owes, Runs, Shell
      <3>4. \A f \in WorkFrame : Owes(x, f)' <=> f = Frame("PtyOpen", p)
        BY <3>3 DEF Owes
      <3> QED
        BY <2>1, <2>2, <3>0, <3>2, <3>4, WorkSent, FramesSent
    <2>3. CASE x # c
      <3>1. \A f \in WorkFrame : Owes(x, f)' <=> Owes(x, f)
        BY <2>0, <2>1, <2>3, <1>t, OwesSame DEF Runs, Shell
      <3>2. toWorker'[x] = toWorker[x]
        BY <2>1, <2>3 DEF Send, BaseInv, TypeOK
      <3> QED
        BY <2>1, <3>1, <3>2, <1>w, WorkSame
    <2> QED
      BY <2>2, <2>3
  <1>24. ASSUME NEW p \in Pty, PtyLeft(p) PROVE WorkAt(x)'
    <2>1. /\ \A k \in Handle : Runs(k, x)' <=> Runs(k, x)
          /\ \A q \in Pty : Shell(q, x)' <=> Shell(q, x)
          /\ x \in leased' <=> x \in leased
      BY <1>24, <1>t DEF PtyLeft, Serving, Runs, Shell
    <2>2. UNCHANGED farVars
      BY <1>24 DEF PtyLeft
    <2> QED
      BY <1>w, <2>1, <2>2, OwesSame, WorkSame
  <1>25. ASSUME NEW p \in Pty, PtyHangsUp(p) PROVE WorkAt(x)'
    <2>0. PICK c \in Conn : c = pinned[p]
      BY <1>25, <1>t DEF PtyHangsUp, PinInv
    <2>1. /\ Send(c, Frame("PtyClose", p)) /\ serve[p] = "hangup"
          /\ serve' = [serve EXCEPT ![p] = "closing"]
          /\ UNCHANGED <<inflight, leased, dispatch, taken, pinned, event, up, toServer, far>>
      BY <1>25, <2>0 DEF PtyHangsUp, Serving
    <2>2. \A f \in WorkFrame : Owes(x, f)' <=> Owes(x, f)
      BY <2>1, <1>t, OwesSame DEF Runs, Shell
    <2> QED
      BY <2>1, <2>2, <1>w, WorkControl, FramesSent
  <1>26. ASSUME NEW p \in Pty, PtySeesEnd(p) PROVE WorkAt(x)'
    <2>1. /\ \A k \in Handle : Runs(k, x)' <=> Runs(k, x)
          /\ \A q \in Pty : Shell(q, x)' <=> Shell(q, x)
          /\ x \in leased' <=> x \in leased
      BY <1>26, <1>t DEF PtySeesEnd, Serving, Runs, Shell
    <2>2. UNCHANGED farVars
      BY <1>26 DEF PtySeesEnd
    <2> QED
      BY <1>w, <2>1, <2>2, OwesSame, WorkSame
  <1>27. ASSUME NEW p \in Pty, PtyTimeout(p) PROVE WorkAt(x)'
    <2>0. pinned[p] # x
      BY <1>27 DEF PtyTimeout, Orderly
    <2>1. /\ \A k \in Handle : Runs(k, x)' <=> Runs(k, x)
          /\ \A q \in Pty : Shell(q, x)' <=> Shell(q, x)
          /\ x \in leased' <=> x \in leased
      BY <1>27, <1>t, <2>0 DEF PtyTimeout, Serving, Runs, Shell
    <2>2. UNCHANGED farVars
      BY <1>27 DEF PtyTimeout
    <2> QED
      BY <1>w, <2>1, <2>2, OwesSame, WorkSame
  <1>28. ASSUME NEW p \in Pty, PtyRelease(p) PROVE WorkAt(x)'
    <2>1. /\ serve[p] = "releasing" /\ ChannelCloses(WorkerOf[pinned[p]])
          /\ serve' = [serve EXCEPT ![p] = "over"]
          /\ UNCHANGED <<inflight, leased, dispatch, taken, pinned, farVars>>
      BY <1>28 DEF PtyRelease, Serving
    <2>2. \A q \in Pty : \/ event'[q] = event[q]
                        \/ q = pty_sessions[WorkerOf[pinned[p]]]
      BY <2>1, <1>t DEF ChannelCloses
    <2>3. ASSUME NEW q \in Pty, Shell(q, x)
          PROVE  q # p /\ event'[q] = event[q]
      <3>1. q # p
        BY <2>1, <2>3 DEF Shell
      <3>2. WorkerOf[pinned[p]] # WorkerOf[x]
        <4>1. Busy(pinned[p]) /\ HoldsByPty(p, pinned[p]) /\ HoldsByPty(q, x)
          BY <2>1, <2>3 DEF Busy, HoldsByPty, Shell
        <4>2. WorkerOf[pinned[p]] = WorkerOf[x] => pinned[p] = x
          BY <2>1, <4>1, <1>t, BusyOne DEF PinInv
        <4> QED
          BY <2>1, <3>1, <4>1, <4>2 DEF HolderInv, OneHolder
      <3> QED
        BY <2>1, <2>2, <2>3, <3>1, <3>2, <1>t DEF Shell, PtyInv, PinInv
    <2>4. \A q \in Pty : Shell(q, x)' => Shell(q, x)
      BY <2>1, <1>t DEF Shell, ChannelCloses
    <2>5. /\ \A q \in Pty : Shell(q, x)' <=> Shell(q, x)
          /\ \A k \in Handle : Runs(k, x)' <=> Runs(k, x)
      BY <2>1, <2>3, <2>4, <1>t DEF Shell, Runs
    <2> QED
      BY <2>1, <2>5, <1>w, OwesSame, WorkSame
  <1>29. ASSUME NEW w \in Worker, FarEnds(w) PROVE WorkAt(x)'
    <2>1. /\ UNCHANGED <<poolVars, handlerVars, up, toWorker, toServer>>
          /\ far[w].pc = "running" /\ far'[w].pc = "resetting"
          /\ \A v \in Worker : far'[v].job = far[v].job /\ (v # w => far'[v] = far[v])
      BY <1>29 DEF FarEnds, BaseInv, TypeOK
    <2>2. \A f \in WorkFrame : Owes(x, f)' <=> Owes(x, f)
      BY <2>1, OwesSame DEF Runs, Shell
    <2>3. CASE WorkerOf[x] # w
      BY <2>1, <2>2, <2>3, <1>t, <1>w, WorkSame
    <2>4. CASE WorkerOf[x] = w
      BY <2>1, <2>2, <2>4, <1>w DEF WorkAt, On, Sent
    <2> QED
      BY <2>3, <2>4
  <1>30. CASE SweepLooks
    <2>1. /\ \A k \in Handle : Runs(k, x)' <=> Runs(k, x)
          /\ \A q \in Pty : Shell(q, x)' <=> Shell(q, x)
          /\ x \in leased' <=> x \in leased
      BY <1>30, <1>t DEF SweepLooks, Runs, Shell
    <2>2. UNCHANGED farVars
      BY <1>30 DEF SweepLooks
    <2> QED
      BY <1>w, <2>1, <2>2, OwesSame, WorkSame
  <1>31. CASE SweepActs
    <2>1. /\ UNCHANGED <<inflight, leased, dispatch, serve, pinned, event, up, toServer, far>>
          /\ toWorker' = toWorker \/ \E h \in Handle : Cancel(h)
      BY <1>31 DEF SweepActs, BaseInv, SweepInv, NoSweep
    <2>2. CASE toWorker' = toWorker
      <3>1. \A f \in WorkFrame : Owes(x, f)' <=> Owes(x, f)
        BY <2>1, OwesSame DEF Runs, Shell
      <3> QED
        BY <2>1, <2>2, <3>1, <1>w, WorkSame
    <2> QED
      BY <2>1, <2>2, <1>w, WorkCancel
  <1>32. CASE UNCHANGED vars
    BY <1>32, <1>w, OwesSame, WorkSame DEF vars, Runs, Shell
  <1> QED
    BY <1>1, <1>2, <1>3, <1>4, <1>5, <1>6, <1>7, <1>8, <1>9, <1>10, <1>11, <1>12, <1>13,
       <1>14, <1>15, <1>16, <1>17, <1>18, <1>19, <1>20, <1>21, <1>22, <1>23, <1>24, <1>25,
       <1>26, <1>27, <1>28, <1>29, <1>30, <1>31, <1>32 DEF Next, ConnStep, HandleStep,
       PtyStep

-----------------------------------------------------------------------------
(* Theorems for an orderly environment.                                    *)

\* Nothing is under way when the server starts.
LEMMA OrderInit == ASSUME Init PROVE OrderInv
  <1> USE ExecAssumption DEF Init
  <1>1. UpInv /\ SendingInv /\ PtyInv /\ WorkInv
    BY DEF UpInv, SendingInv, PtyInv, WorkInv, Off
  <1>2. CurrentInv
    BY DEF CurrentInv, Current, Busy, HoldsByPty
  <1>3. FrameInv
    BY DEF FrameInv, Placed, On
  <1> QED
    BY <1>1, <1>2, <1>3 DEF OrderInv

\* What is under way, through every step.
LEMMA OrderStep == ASSUME BaseInv, HolderInv, OrderInv, Orderly, [Next]_vars PROVE OrderInv'
  <1>1. UpInv'
    BY UpStep DEF OrderInv
  <1>2. CurrentInv'
    <2>1. \A x \in Conn : Current(x)'
      BY CurrentStep DEF OrderInv
    <2> QED
      BY <2>1 DEF CurrentInv
  <1>3. FrameInv'
    BY FrameStep DEF OrderInv
  <1>4. SendingInv'
    BY SendingStep DEF OrderInv
  <1>5. PtyInv'
    BY PtyInvStep DEF OrderInv
  <1>6. WorkInv'
    <2>1. BaseInv'
      BY BaseStep
    <2>2. ASSUME NEW x \in up'
          PROVE  WorkAt(x)'
      <3>1. x \in Conn
        BY <2>1 DEF BaseInv, TypeOK
      <3> QED
        BY <3>1, WorkStep
    <2> QED
      BY <2>2 DEF WorkInv
  <1> QED
    BY <1>1, <1>2, <1>3, <1>4, <1>5, <1>6 DEF OrderInv

\* The inductive invariant of the work under way.
THEOREM ExecOrder == ASSUME Orderly PROVE Spec => [](BaseInv /\ HolderInv /\ OrderInv)
  <1>1. Init => BaseInv /\ HolderInv /\ OrderInv
    BY BaseInit, HolderInit, OrderInit
  <1>2. BaseInv /\ HolderInv /\ OrderInv /\ [Next]_vars => (BaseInv /\ HolderInv /\ OrderInv)'
    BY BaseStep, HolderStep, OrderStep
  <1> QED
    BY <1>1, <1>2, PTL DEF Spec

\* However many commands, PTYs, sessions and reconnects there are, the command of
\* a handle in flight on a connected worker is on its way to the worker, at the
\* worker, or its Result is on its way back: no frame reaches a worker that is
\* not ready for it (dispatch, run_worker_session, complete_request).
THEOREM ExecNoLostWork == ASSUME Orderly PROVE Spec => []NoLostWork
  <1>1. BaseInv /\ OrderInv => NoLostWork
    <2> HAVE BaseInv /\ OrderInv
    <2> SUFFICES ASSUME NEW h \in Handle, NEW c \in Conn, c = inflight[h], c \in up,
                        dispatch[h] = "done"
                 PROVE  \/ \E i \in DOMAIN toWorker[c] : toWorker[c][i] = Frame("Execute", h)
                        \/ far[WorkerOf[c]].job = Frame("Execute", h)
                        \/ \E i \in DOMAIN toServer[c] : toServer[c][i] = Frame("Execute", h)
      <3>1. \A h \in Handle : inflight[h] # None => inflight[h] \in Conn
        BY DEF BaseInv, TypeOK
      <3> QED
        BY <3>1, Zenon DEF NoLostWork
    <2>1. Frame("Execute", h) \in WorkFrame
      BY FramesSent
    <2>2. Owes(c, Frame("Execute", h))
      BY DEF Owes, Runs
    <2> QED
      BY <2>1, <2>2 DEF OrderInv, WorkInv, WorkAt, On
  <1> QED
    BY <1>1, ExecOrder, PTL

\* The client of a PTY is connected to the shell it opened, and everything its
\* worker still has to report is the end of that shell: nobody is handed a worker
\* that runs or resets for somebody else (serve, release_pinned, run_pty).
THEOREM ExecOwnShell == ASSUME Orderly PROVE Spec => []OwnShell
  <1>1. BaseInv /\ HolderInv /\ OrderInv => OwnShell
    <2> HAVE BaseInv /\ HolderInv /\ OrderInv
    <2> SUFFICES ASSUME NEW p \in Pty, NEW c \in Conn, c = pinned[p], c \in up,
                        serve[p] \in {"splicing", "hangup", "closing"}
                 PROVE  /\ \A i \in DOMAIN toServer[c] : toServer[c][i] = Frame("PtyOpen", p)
                        /\ far[WorkerOf[c]].job \in {NoFrame, Frame("PtyOpen", p)}
      <3>1. \A p \in Pty : serve[p] # "none" => pinned[p] \in Conn
        BY DEF BaseInv, PinInv
      <3> QED
        BY <3>1 DEF OwnShell
    <2>1. /\ toServer[c] \in Seq(WorkFrame)
          /\ far[WorkerOf[c]].job \in WorkFrame \cup {NoFrame} /\ WorkAt(c)
      BY ExecAssumption DEF BaseInv, TypeOK, OrderInv, WorkInv
    <2>2. ASSUME NEW f \in WorkFrame, Owes(c, f)
          PROVE  f = Frame("PtyOpen", p)
      <3>1. OneHolder(c) /\ HoldsByPty(p, c)
        BY DEF HolderInv, HoldsByPty
      <3>2. /\ \A h \in Handle : Runs(h, c) => Has(h, c)
            /\ \A q \in Pty : Shell(q, c) => HoldsByPty(q, c)
        BY DEF Runs, Shell, Has, HoldsByPty
      <3>3. /\ \A h \in Handle : ~Runs(h, c)
            /\ (\A q \in Pty : Shell(q, c) => q = p) /\ c \notin leased
        BY <3>1, <3>2 DEF OneHolder
      <3> QED
        BY <2>2, <3>3 DEF Owes
    <2>3. \A i \in DOMAIN toServer[c] :
             toServer[c][i] \in WorkFrame /\ On(toServer[c], toServer[c][i])
      BY <2>1, QueueFacts DEF On
    <2> QED
      BY <2>1, <2>2, <2>3 DEF WorkAt
  <1> QED
    BY <1>1, ExecOrder, PTL
=============================================================================
