---------------------------- MODULE PoolEnvProofs ---------------------------
(***************************************************************************)
(* The theorems about Pool that hold under a condition on what the clients *)
(* and the workers do, for any number of workers, connections, sessions    *)
(* and commands.                                                           *)
(*                                                                         *)
(* A worker is leased to one session at a time, and a lost connection      *)
(* leads to the session it carries, if no worker registers again while the *)
(* server still reads from its previous connection.                        *)
(*                                                                         *)
(* Command handles are never lost track of if no client hangs up in the    *)
(* middle of a request, and a cancel that was sent is known to the worker  *)
(* if no client cancels a command whose submission has not returned.       *)
(***************************************************************************)
EXTENDS ServiceProofs

-----------------------------------------------------------------------------
(* Leases.                                                                 *)

\* Who is registered: a worker's registered connection is one of its own, and the
\* connection it reads from is registered or was dropped.
RegisteredInv ==
    /\ \A w \in Worker : liveness[w] # None =>
          WorkerOf[liveness[w]] = w /\ loop[liveness[w]] # "new"
    /\ \A c \in Conn : loop[c] = "reading" => liveness[WorkerOf[c]] \in {c, None}
    /\ \A c \in Conn : idle[c] > 0 => liveness[WorkerOf[c]] = c /\ idle[c] = 1
    /\ \A s \in Session : sink[s] # None => loop[sink[s]] # "new"

\* Who holds the worker: a worker with a session is registered and not idle, an
\* unfinished session is its worker's, and so is every session that its registered
\* connection carries until the worker has closed it.
HolderInv ==
    /\ \A w \in Worker : worker_sessions[w] # None =>
          IdleEntries(w) = {} /\ liveness[w] # None
    /\ \A s \in Session : state[s] \in Unfinished =>
          worker_sessions[SessionWorker(s)] = s /\ liveness[SessionWorker(s)] = sink[s]
    /\ \A s \in Session :
          /\ sink[s] # None
          /\ remote[s] # "closed"
          /\ liveness[SessionWorker(s)] = sink[s]
          => worker_sessions[SessionWorker(s)] = s
    /\ \A s \in Session : creator[s] \in {"none", "sending"} => remote[s] = "none"

LeaseInv == RegisteredInv /\ HolderInv

\* What the invariant is about.
Lease == <<idle, liveness, worker_sessions, state, sink, loop>>

\* Nothing is leased at first.
LEMMA LeaseInit == ASSUME Init PROVE LeaseInv
  BY DEF Init, LeaseInv, RegisteredInv, HolderInv, Unfinished, IdleEntries

\* A step that leaves the leases alone, and moves no handler back to sending.
LEMMA LeaseKept ==
    ASSUME LeaseInv, UNCHANGED <<Lease, remote>>,
           \A s \in Session : creator'[s] \in {"none", "sending"} => creator'[s] = creator[s]
    PROVE  LeaseInv'
  BY DEF LeaseInv, RegisteredInv, HolderInv, Lease, IdleEntries, SessionWorker

\* A SessionOpen that may reach the worker.
LEMMA OpenSent ==
    ASSUME LeaseInv, TypeOK, NEW s \in Session,
           UNCHANGED Lease,
           \/ UNCHANGED remote
           \/ creator[s] = "sending" /\ remote' = [remote EXCEPT ![s] = "open"],
           \A z \in Session : creator'[z] \in {"none", "sending"} =>
               z # s /\ creator'[z] = creator[z]
    PROVE  LeaseInv'
  BY DEF LeaseInv, RegisteredInv, HolderInv, Lease, IdleEntries, SessionWorker, TypeOK

\* A step that moves one session without making it unfinished.
LEMMA StateMoved ==
    ASSUME LeaseInv, TypeOK, NEW s \in Session, NEW to,
           state' = [state EXCEPT ![s] = to],
           to \in Unfinished => state[s] \in Unfinished,
           UNCHANGED <<idle, liveness, worker_sessions, sink, loop, creator>>,
           \A z \in Session : /\ remote'[z] = "closed" <=> remote[z] = "closed"
                              /\ remote[z] = "none" => remote'[z] = "none"
    PROVE  LeaseInv'
  BY DEF LeaseInv, RegisteredInv, HolderInv, IdleEntries, SessionWorker, TypeOK

\* A new connection of a worker that has none.
LEMMA RegisterKeeps ==
    ASSUME LeaseInv, TypeOK, LinkInv, "overlap" \notin Env, NEW c \in Conn, Register(c)
    PROVE  LeaseInv'
  <1> DEFINE w == WorkerOf[c]
  <1>0. w \in Worker /\ None \notin Conn /\ \A d \in Conn : WorkerOf[d] \in Worker
    BY PoolAssumption
  <1>1. /\ liveness[w] = None /\ loop[c] = "new"
        /\ liveness' = [liveness EXCEPT ![w] = c]
        /\ idle' = [idle EXCEPT ![c] = @ + 1]
        /\ loop' = [loop EXCEPT ![c] = "reading"]
        /\ UNCHANGED <<worker_sessions, state, sink, remote, creator>>
    BY DEF Register, recVars
  <1>2. \A d \in Conn : WorkerOf[d] = w => loop[d] # "reading" /\ idle[d] = 0
    BY <1>0, <1>1 DEF Register, NoOverlap, LeaseInv, RegisteredInv, TypeOK
  <1>3. \A s \in Session : sink[s] # None => sink[s] # c
    BY <1>1 DEF LeaseInv, RegisteredInv
  <1>4. RegisteredInv'
    BY <1>0, <1>1, <1>2, <1>3 DEF LeaseInv, RegisteredInv, TypeOK
  <1>5. \A s \in Session : state[s] \in Unfinished => SessionWorker(s) # w /\ sink[s] \in Conn
    BY <1>0, <1>1 DEF LeaseInv, HolderInv, LinkInv, Unfinished
  <1>6. worker_sessions[w] = None
    BY <1>0, <1>1 DEF LeaseInv, HolderInv
  <1>7. \A v \in Worker : worker_sessions[v] # None => IdleEntries(v)' = {} /\ liveness'[v] # None
    BY <1>0, <1>1, <1>6 DEF LeaseInv, HolderInv, IdleEntries, TypeOK
  <1>8. \A s \in Session : sink[s] # None => SessionWorker(s)' = SessionWorker(s)
    BY <1>1 DEF SessionWorker
  <1>9. \A s \in Session : state[s] \in Unfinished =>
           worker_sessions'[SessionWorker(s)'] = s /\ liveness'[SessionWorker(s)'] = sink'[s]
    BY <1>0, <1>1, <1>5 DEF LeaseInv, HolderInv, SessionWorker, TypeOK
  <1>10. \A s \in Session :
            /\ sink[s] # None
            /\ remote[s] # "closed"
            /\ liveness'[SessionWorker(s)'] = sink[s]
            => worker_sessions[SessionWorker(s)'] = s
    <2>1. SUFFICES ASSUME NEW s \in Session, sink[s] # None, remote[s] # "closed",
                          liveness'[SessionWorker(s)] = sink[s]
                   PROVE  worker_sessions[SessionWorker(s)] = s
      BY <1>8
    <2>2. sink[s] \in Conn /\ SessionWorker(s) \in Worker
      BY <1>0, <2>1 DEF TypeOK, SessionWorker
    <2>3. liveness[SessionWorker(s)] = sink[s]
      BY <1>0, <1>1, <1>3, <2>1, <2>2 DEF TypeOK
    <2> QED
      BY <2>1, <2>3 DEF LeaseInv, HolderInv
  <1>11. HolderInv'
    BY <1>1, <1>7, <1>9, <1>10 DEF LeaseInv, HolderInv
  <1> QED
    BY <1>4, <1>11 DEF LeaseInv

\* The read loop of a connection ends; the worker stays registered until the drop.
LEMMA LoopEndKeeps ==
    ASSUME LeaseInv, TypeOK, NEW c \in Conn, LoopEnds(c)
    PROVE  LeaseInv'
  <1>1. /\ loop' = [loop EXCEPT ![c] = "ended"]
        /\ UNCHANGED <<idle, liveness, worker_sessions, state, sink, remote, creator>>
    BY DEF LoopEnds, poolVars, recVars
  <1>2. RegisteredInv'
    BY <1>1 DEF LeaseInv, RegisteredInv, TypeOK
  <1>3. HolderInv'
    BY <1>1 DEF LeaseInv, HolderInv, IdleEntries, SessionWorker
  <1> QED
    BY <1>2, <1>3 DEF LeaseInv

\* A worker drop forgets the worker's entries and its session together.
LEMMA DropKeeps ==
    ASSUME LeaseInv, TypeOK, TaskInv, LinkInv, NEW k \in Task, DropForgetsWorker(k)
    PROVE  LeaseInv'
  <1> DEFINE w == task[k].worker
             id == worker_sessions[w]
  <1>0. w \in Worker /\ None \notin Conn /\ \A d \in Conn : WorkerOf[d] \in Worker
    BY PoolAssumption DEF TaskInv, DropForgetsWorker
  <1>1. /\ idle' = [c \in Conn |-> IF WorkerOf[c] = w THEN 0 ELSE idle[c]]
        /\ worker_sessions' = [worker_sessions EXCEPT ![w] = None]
        /\ liveness' = [liveness EXCEPT ![w] = None]
        /\ UNCHANGED <<sink, loop, remote, creator>>
    BY DEF DropForgetsWorker, farVars
  <1>2. \A s \in Session : state'[s] \in Unfinished =>
           state[s] \in Unfinished /\ s # id
    <2>1. None \notin Session /\ id \in Session \cup {None}
      BY <1>0, PoolAssumption DEF TypeOK
    <2>2. CASE id # None /\ state[id] # "Swept" /\ state' = [state EXCEPT ![id] = "Failed"]
      BY <2>1, <2>2 DEF TypeOK, Unfinished
    <2>3. CASE ~(id # None /\ state[id] # "Swept") /\ state' = state
      BY <2>1, <2>3 DEF Unfinished
    <2> QED
      BY <2>2, <2>3 DEF DropForgetsWorker, FailSession
  <1>3. RegisteredInv'
    <2>1. \A v \in Worker : liveness'[v] # None => v # w /\ liveness'[v] = liveness[v]
      BY <1>0, <1>1 DEF TypeOK
    <2>2. \A c \in Conn : liveness'[WorkerOf[c]] \in {liveness[WorkerOf[c]], None}
      BY <1>0, <1>1 DEF TypeOK
    <2>3. \A c \in Conn : idle'[c] > 0 =>
             /\ WorkerOf[c] # w /\ idle'[c] = idle[c]
             /\ liveness'[WorkerOf[c]] = liveness[WorkerOf[c]]
      BY <1>0, <1>1 DEF TypeOK
    <2> QED
      BY <1>1, <2>1, <2>2, <2>3 DEF LeaseInv, RegisteredInv
  <1>4. \A v \in Worker : worker_sessions'[v] # None => IdleEntries(v)' = {} /\ liveness'[v] # None
    BY <1>0, <1>1 DEF LeaseInv, HolderInv, IdleEntries, TypeOK
  <1>5. \A s \in Session : SessionWorker(s)' = SessionWorker(s)
    BY <1>1 DEF SessionWorker
  <1>6. \A s \in Session : state'[s] \in Unfinished =>
           /\ worker_sessions'[SessionWorker(s)] = s
           /\ liveness'[SessionWorker(s)] = sink'[s]
    <2>1. SUFFICES ASSUME NEW s \in Session, state'[s] \in Unfinished
                   PROVE  /\ worker_sessions'[SessionWorker(s)] = s
                          /\ liveness'[SessionWorker(s)] = sink'[s]
      OBVIOUS
    <2>2. worker_sessions[SessionWorker(s)] = s /\ liveness[SessionWorker(s)] = sink[s]
      BY <1>2, <2>1 DEF LeaseInv, HolderInv
    <2>3. SessionWorker(s) # w
      BY <1>2, <2>1, <2>2
    <2> QED
      BY <1>1, <2>2, <2>3 DEF TypeOK
  <1>7. \A s \in Session :
           /\ sink[s] # None
           /\ remote[s] # "closed"
           /\ liveness'[SessionWorker(s)] = sink[s]
           => worker_sessions'[SessionWorker(s)] = s
    BY <1>0, <1>1 DEF LeaseInv, HolderInv, TypeOK
  <1>8. HolderInv'
    BY <1>1, <1>4, <1>5, <1>6, <1>7 DEF LeaseInv, HolderInv
  <1> QED
    BY <1>3, <1>8 DEF LeaseInv

\* create_session takes the only entry of an idle worker.
LEMMA CreateKeeps ==
    ASSUME LeaseInv, TypeOK, LinkInv, SinkInv, NEW s \in Session, NEW p \in Profile,
           CreateSession(s, p)
    PROVE  LeaseInv'
  <1>0. None \notin Conn /\ None \notin Session /\ \A d \in Conn : WorkerOf[d] \in Worker
    BY PoolAssumption
  <1>1. PICK c \in Conn :
           /\ idle[c] > 0
           /\ idle' = [idle EXCEPT ![c] = @ - 1]
           /\ worker_sessions' = [worker_sessions EXCEPT ![WorkerOf[c]] = s]
           /\ sink' = [sink EXCEPT ![s] = c]
    BY DEF CreateSession, Available
  <1> DEFINE w == WorkerOf[c]
  <1>2. /\ state[s] = "Absent"
        /\ state' = [state EXCEPT ![s] = "Opening"]
        /\ creator' = [creator EXCEPT ![s] = "sending"]
        /\ UNCHANGED <<liveness, loop, remote>>
    BY DEF CreateSession, farVars
  <1>3. liveness[w] = c /\ idle[c] = 1 /\ w \in Worker /\ loop[c] # "new"
    BY <1>0, <1>1 DEF LeaseInv, RegisteredInv
  <1>4. worker_sessions[w] = None
    BY <1>1, <1>3 DEF LeaseInv, HolderInv, IdleEntries
  <1>5. sink[s] = None /\ creator[s] = "none" /\ remote[s] = "none"
    BY <1>2 DEF SinkInv, LinkInv, LeaseInv, HolderInv
  <1>6. idle'[c] = 0 /\ \A d \in Conn : d # c => idle'[d] = idle[d]
    BY <1>1, <1>3 DEF TypeOK
  <1>7. RegisteredInv'
    BY <1>0, <1>1, <1>2, <1>3, <1>6 DEF LeaseInv, RegisteredInv, TypeOK
  <1>8. \A v \in Worker : worker_sessions'[v] # None => IdleEntries(v)' = {} /\ liveness'[v] # None
    <2>1. IdleEntries(w)' = {}
      BY <1>2, <1>3, <1>6 DEF IdleEntries, LeaseInv, RegisteredInv
    <2>2. \A v \in Worker : v # w => IdleEntries(v)' = IdleEntries(v)
      BY <1>6 DEF IdleEntries
    <2> QED
      BY <1>0, <1>1, <1>2, <1>3, <2>1, <2>2 DEF LeaseInv, HolderInv, TypeOK
  <1>9. SessionWorker(s)' = w /\ sink'[s] = c
        /\ \A z \in Session : z # s => SessionWorker(z)' = SessionWorker(z) /\ sink'[z] = sink[z]
    BY <1>1 DEF SessionWorker, TypeOK
  <1>10. \A z \in Session : z # s /\ state[z] \in Unfinished => SessionWorker(z) # w
    BY <1>0, <1>4 DEF LeaseInv, HolderInv
  <1>11. \A z \in Session : state'[z] \in Unfinished =>
            /\ worker_sessions'[SessionWorker(z)'] = z
            /\ liveness'[SessionWorker(z)'] = sink'[z]
    <2>1. worker_sessions'[w] = s
      BY <1>1, <1>3 DEF TypeOK
    <2>2. \A z \in Session : z # s => state'[z] = state[z]
      BY <1>2 DEF TypeOK
    <2>3. \A v : v # w => worker_sessions'[v] = worker_sessions[v]
      BY <1>1 DEF TypeOK
    <2> QED
      BY <1>2, <1>3, <1>9, <1>10, <2>1, <2>2, <2>3 DEF LeaseInv, HolderInv
  <1>12. \A z \in Session :
            /\ sink'[z] # None
            /\ remote'[z] # "closed"
            /\ liveness'[SessionWorker(z)'] = sink'[z]
            => worker_sessions'[SessionWorker(z)'] = z
    <2>1. worker_sessions'[w] = s
      BY <1>1, <1>3 DEF TypeOK
    <2>2. SUFFICES ASSUME NEW z \in Session, z # s, sink[z] # None, remote[z] # "closed",
                          liveness[SessionWorker(z)] = sink[z]
                   PROVE  worker_sessions'[SessionWorker(z)] = z
      BY <1>2, <1>9, <2>1
    <2>3. worker_sessions[SessionWorker(z)] = z
      BY <2>2 DEF LeaseInv, HolderInv
    <2>4. SessionWorker(z) # w
      BY <1>0, <1>4, <2>3
    <2> QED
      BY <1>1, <2>3, <2>4 DEF TypeOK
  <1>13. \A z \in Session : creator'[z] \in {"none", "sending"} => remote'[z] = "none"
    BY <1>2, <1>5 DEF LeaseInv, HolderInv, TypeOK
  <1> QED
    BY <1>7, <1>8, <1>11, <1>12, <1>13 DEF LeaseInv, HolderInv

\* session_closed gives the worker back, at most once and only while it is registered.
LEMMA ClosedKeeps ==
    ASSUME LeaseInv, TypeOK, NEW c \in Conn, NEW s \in Session, NEW error \in BOOLEAN,
           NEW reusable \in BOOLEAN, SessionClosed(c, s, error, reusable)
    PROVE  LeaseInv'
  <1> DEFINE w == WorkerOf[c]
  <1>0. None \notin Conn /\ None \notin Session /\ \A d \in Conn : WorkerOf[d] \in Worker
    BY PoolAssumption
  <1>1. /\ sink[s] = c /\ remote[s] \in {"ready", "failed"}
        /\ remote' = [remote EXCEPT ![s] = "closed"]
        /\ liveness[w] \in {c, None} /\ loop[c] # "new"
        /\ UNCHANGED <<sink, loop, creator>>
    BY DEF SessionClosed, Selecting, LeaseInv, RegisteredInv
  <1>2. \A z \in Session : creator'[z] \in {"none", "sending"} => remote'[z] = "none"
    BY <1>1 DEF LeaseInv, HolderInv, TypeOK
  <1>3. SessionWorker(s) = w /\ \A z \in Session : SessionWorker(z)' = SessionWorker(z)
    BY <1>1 DEF SessionWorker
  <1>4. \A z \in Session : remote'[z] # "closed" => z # s /\ remote'[z] = remote[z]
    BY <1>1 DEF TypeOK
  <1>5. CASE state[s] = "Swept"
    <2>1. UNCHANGED <<idle, liveness, worker_sessions, state>>
      BY <1>5 DEF SessionClosed, poolVars
    <2> QED
      BY <1>1, <1>2, <1>3, <1>4, <2>1 DEF LeaseInv, RegisteredInv, HolderInv, IdleEntries
  <1>6. CASE state[s] # "Swept"
    <2>1. /\ state' = [state EXCEPT ![s] = IF error THEN "Failed" ELSE "Closed"]
          /\ worker_sessions' = [worker_sessions EXCEPT ![w] = None]
          /\ idle' = IF reusable /\ liveness[w] # None THEN [idle EXCEPT ![c] = @ + 1] ELSE idle
          /\ liveness' = liveness
      BY <1>6 DEF SessionClosed, Readvertises
    <2>2. liveness[w] = c => worker_sessions[w] = s /\ idle[c] = 0
      <3>1. liveness[w] = c => worker_sessions[w] = s
        BY <1>0, <1>1, <1>3 DEF LeaseInv, HolderInv
      <3>2. liveness[w] = c => IdleEntries(w) = {}
        BY <1>0, <3>1 DEF LeaseInv, HolderInv
      <3> QED
        BY <3>1, <3>2 DEF IdleEntries, TypeOK
    <2>3. \A d \in Conn : \/ idle'[d] = idle[d]
                          \/ d = c /\ liveness[w] = c /\ idle'[d] = 1
      BY <1>0, <1>1, <2>1, <2>2 DEF TypeOK
    <2>4. RegisteredInv'
      BY <1>1, <2>1, <2>3 DEF LeaseInv, RegisteredInv
    <2>5. \A v \in Worker : worker_sessions'[v] # None =>
             v # w /\ worker_sessions'[v] = worker_sessions[v]
      BY <1>0, <2>1 DEF TypeOK
    <2>6. \A v \in Worker : v # w => IdleEntries(v)' = IdleEntries(v)
      BY <2>3 DEF IdleEntries
    <2>7. \A z \in Session : state'[z] \in Unfinished => z # s /\ state[z] \in Unfinished
      BY <2>1 DEF TypeOK, Unfinished
    <2>8. \A z \in Session : state[z] \in Unfinished /\ z # s => SessionWorker(z) # w
      BY <1>0, <1>1, <2>2 DEF LeaseInv, HolderInv, SinkInv, TypeOK
    <2>9. \A v : v # w => worker_sessions'[v] = worker_sessions[v]
      BY <2>1 DEF TypeOK
    <2>10. \A z \in Session : state'[z] \in Unfinished =>
              /\ worker_sessions'[SessionWorker(z)] = z
              /\ liveness'[SessionWorker(z)] = sink'[z]
      BY <1>1, <2>1, <2>7, <2>8, <2>9 DEF LeaseInv, HolderInv
    <2>11. \A z \in Session :
              /\ sink'[z] # None
              /\ remote'[z] # "closed"
              /\ liveness'[SessionWorker(z)] = sink'[z]
              => worker_sessions'[SessionWorker(z)] = z
      <3>1. SUFFICES ASSUME NEW z \in Session, z # s, sink[z] # None, remote[z] # "closed",
                            liveness[SessionWorker(z)] = sink[z]
                     PROVE  worker_sessions'[SessionWorker(z)] = z
        BY <1>1, <1>4, <2>1
      <3>2. worker_sessions[SessionWorker(z)] = z
        BY <3>1 DEF LeaseInv, HolderInv
      <3>3. SessionWorker(z) # w
        <4>1. SUFFICES ASSUME SessionWorker(z) = w PROVE FALSE
          OBVIOUS
        <4>2. liveness[w] = c
          BY <1>1, <3>1, <4>1
        <4> QED
          BY <2>2, <3>1, <3>2, <4>1, <4>2
      <3> QED
        BY <2>9, <3>2, <3>3
    <2>12. HolderInv'
      BY <1>2, <1>3, <2>1, <2>5, <2>6, <2>10, <2>11 DEF LeaseInv, HolderInv
    <2> QED
      BY <2>4, <2>12 DEF LeaseInv
  <1> QED
    BY <1>5, <1>6

\* Every step of the pool keeps the leases.
LEMMA LeaseNext ==
    ASSUME SafeInv, SinkInv, LeaseInv, "overlap" \notin Env, [Next]_vars
    PROVE  LeaseInv'
  <1>0. TypeOK /\ LinkInv /\ TaskInv
    BY DEF SafeInv, BaseInv
  <1> USE DEF poolVars, recVars, runtimeVars, taskVars, farVars, Lease
  <1>1. ASSUME NEW c \in Conn, ConnStep(c) PROVE LeaseInv'
    <2>1. CASE Register(c)
      BY <1>0, <2>1, RegisterKeeps
    <2>2. CASE Disconnect(c)
      BY <2>2, LeaseKept DEF Disconnect
    <2>3. CASE LoopEnds(c)
      BY <1>0, <2>3, LoopEndKeeps
    <2>4. ASSUME NEW s \in Session, NEW error \in BOOLEAN, SessionReady(c, s, error)
          PROVE  LeaseInv'
      <3> DEFINE to == IF state[s] # "Opening" THEN state[s]
                       ELSE IF error THEN "Failed" ELSE "Active"
      <3>1. state' = [state EXCEPT ![s] = to] /\ (to \in Unfinished => state[s] \in Unfinished)
        BY <1>0, <2>4 DEF SessionReady, Unfinished, TypeOK
      <3>2. \A z \in Session : /\ remote'[z] = "closed" <=> remote[z] = "closed"
                               /\ remote[z] = "none" => remote'[z] = "none"
        BY <1>0, <2>4 DEF SessionReady, TypeOK
      <3>3. UNCHANGED <<idle, liveness, worker_sessions, sink, loop, creator>>
        BY <2>4 DEF SessionReady
      <3> HIDE DEF to
      <3> QED
        BY <1>0, <3>1, <3>2, <3>3, StateMoved
    <2>5. ASSUME NEW s \in Session, NEW error \in BOOLEAN, NEW reusable \in BOOLEAN,
                 SessionClosed(c, s, error, reusable)
          PROVE  LeaseInv'
      BY <1>0, <2>5, ClosedKeeps
    <2>6. ASSUME NEW r \in Command, NEW cause \in Reports, Result(c, r, cause)
          PROVE  LeaseInv'
      BY <2>6, LeaseKept DEF Result
    <2>7. ASSUME NEW r \in Command, SpoolFails(c, r) PROVE LeaseInv'
      BY <2>7, LeaseKept DEF SpoolFails
    <2>8. CASE RouteWaits(c) \/ RouteReturns(c)
      BY <2>8, LeaseKept, RouteChanges
    <2> QED
      BY <1>1, <2>1, <2>2, <2>3, <2>4, <2>5, <2>6, <2>7, <2>8 DEF ConnStep
  <1>2. ASSUME NEW w \in Worker, Keepalive(w) PROVE LeaseInv'
    BY <1>2, LeaseKept DEF Keepalive
  <1>3. ASSUME NEW k \in Task, TaskStep(k) PROVE LeaseInv'
    <2>1. CASE DropTakesInflight(k)
      BY <2>1, LeaseKept DEF DropTakesInflight
    <2>2. CASE DropForgetsWorker(k)
      BY <1>0, <2>2, DropKeeps
    <2>3. CASE TaskEnds(k)
      <3>1. \A z \in Session : creator'[z] \in {creator[z], "failed"}
        BY <1>0, <2>3 DEF TaskEnds, HandlerReturns, TypeOK
      <3> QED
        BY <2>3, <3>1, LeaseKept DEF TaskEnds, HandlerReturns
    <2>4. ASSUME NEW r \in Command, FinishHandle(k, r) PROVE LeaseInv'
      BY <2>4, LeaseKept DEF FinishHandle
    <2> QED
      BY <1>3, <2>1, <2>2, <2>3, <2>4 DEF TaskStep
  <1>4. ASSUME NEW s \in Session, SessionStep(s) PROVE LeaseInv'
    <2>1. ASSUME NEW p \in Profile, CreateSession(s, p) PROVE LeaseInv'
      BY <1>0, <2>1, CreateKeeps
    <2>2. CASE SendOpen(s) \/ SendOpenFails(s) \/ AbandonCreate(s)
      <3>1. \A z \in Session : creator'[z] \in {"none", "sending"} =>
               z # s /\ creator'[z] = creator[z]
        BY <1>0, <2>2 DEF SendOpen, SendOpenFails, AbandonCreate, TypeOK
      <3>2. \/ UNCHANGED remote
            \/ creator[s] = "sending" /\ remote' = [remote EXCEPT ![s] = "open"]
        BY <2>2 DEF SendOpen, SendOpenFails, AbandonCreate, DeliverOpen
      <3>3. UNCHANGED Lease
        BY <2>2 DEF SendOpen, SendOpenFails, AbandonCreate
      <3> QED
        BY <1>0, <3>1, <3>2, <3>3, OpenSent
    <2>3. CASE CreateReturns(s) \/ CreateTimesOut(s) \/ CreateGivesUp(s)
      <3>1. \A z \in Session : creator'[z] \in {"none", "sending"} => creator'[z] = creator[z]
        BY <1>0, <2>3 DEF CreateReturns, CreateTimesOut, CreateGivesUp, TypeOK
      <3>2. UNCHANGED <<Lease, remote>>
        BY <2>3 DEF CreateReturns, CreateTimesOut, CreateGivesUp
      <3> QED
        BY <3>1, <3>2, LeaseKept
    <2>4. CASE RetireSession(s)
      <3>1. "Swept" \notin Unfinished
        BY DEF Unfinished
      <3> QED
        BY <1>0, <2>4, <3>1, StateMoved DEF RetireSession
    <2>5. ASSUME NEW t \in Terminal, AttachTerminal(t, s) PROVE LeaseInv'
      BY <2>5, LeaseKept DEF AttachTerminal
    <2> QED
      BY <1>4, <2>1, <2>2, <2>3, <2>4, <2>5 DEF SessionStep
  <1>5. ASSUME NEW r \in Command, CommandStep(r) PROVE LeaseInv'
    <2>1. UNCHANGED <<Lease, remote, creator>>
      BY <1>5 DEF CommandStep, Submit, SubmitLocks, SubmitSetupFails, SubmitRegisters, SendRun,
                  SendRunFails, Cancel, CancelSends, PurgeHandle, AbandonSubmit
    <2> QED
      BY <2>1, LeaseKept
  <1>6. ASSUME NEW k \in Closer, CloserStep(k) PROVE LeaseInv'
    <2>1. CASE CloseLocks(k) /\ UNCHANGED state
      BY <2>1, LeaseKept DEF CloseLocks
    <2>2. CASE CloseLocks(k) /\ state' # state
      <3> DEFINE s == target[k]
      <3>1. /\ closer[k] = "locking" /\ state[s] \in Unfinished
            /\ state' = [state EXCEPT ![s] = "Closing"]
            /\ UNCHANGED <<idle, liveness, worker_sessions, sink, loop, creator, remote>>
        BY <2>2 DEF CloseLocks, Unfinished
      <3>2. s \in Session
        BY <1>0, <3>1 DEF LinkInv, TypeOK
      <3> QED
        BY <1>0, <3>1, <3>2, StateMoved
    <2>3. CASE ~CloseLocks(k)
      <3>1. UNCHANGED <<Lease, remote, creator>>
        BY <1>6, <2>3 DEF CloserStep, Close, SendClose, SendCloseFails, CloseReturns,
                          CloseTimesOut, AbandonClose
      <3> QED
        BY <3>1, LeaseKept
    <2> QED
      BY <2>1, <2>2, <2>3
  <1>7. ASSUME NEW t \in Terminal, DetachTerminal(t) PROVE LeaseInv'
    BY <1>7, LeaseKept DEF DetachTerminal
  <1>8. CASE UNCHANGED vars
    BY <1>8, LeaseKept DEF vars
  <1> QED
    BY <1>1, <1>2, <1>3, <1>4, <1>5, <1>6, <1>7, <1>8 DEF Next, Quiescent

\* The leases of a pool whose workers never register over a connection still being handled.
LEMMA LeaseCorrect == ASSUME "overlap" \notin Env PROVE Spec => [](TypeOK /\ LinkInv /\ LeaseInv)
  <1>1. Init => SinkInv /\ LeaseInv
    BY LeaseInit DEF Init, SinkInv
  <1>2. SafeInv /\ SinkInv /\ LeaseInv /\ [Next]_vars => SinkInv' /\ LeaseInv'
    BY SinkNext, LeaseNext
  <1>3. SafeInv => TypeOK /\ LinkInv
    BY DEF SafeInv, BaseInv
  <1> QED
    BY <1>1, <1>2, <1>3, SafeCorrect, PTL DEF Spec

\* A worker is leased to one session at a time and is idle at most once, for any number of
\* workers, sessions and clients that hang up (create_session, session_closed,
\* handle_worker_drop), if a worker registers only after its previous connection was
\* dealt with.
THEOREM LeasesAreExclusive == ASSUME "overlap" \notin Env PROVE Spec => []ExclusiveLease
  <1>1. TypeOK /\ LinkInv /\ LeaseInv => ExclusiveLease
    <2>1. SUFFICES ASSUME TypeOK, LinkInv, LeaseInv PROVE ExclusiveLease
      OBVIOUS
    <2>2. None \notin Conn /\ None \notin Session /\ \A c \in Conn : WorkerOf[c] \in Worker
      BY PoolAssumption
    <2>3. OneSessionPerWorker
      BY <2>1 DEF OneSessionPerWorker, LeaseInv, HolderInv
    <2>4. \A s \in Session : state[s] \in Unfinished => SessionWorker(s) \in Worker
      BY <2>1, <2>2 DEF LinkInv, TypeOK, Unfinished, SessionWorker
    <2>5. \A s \in Session : state[s] \in Unfinished => IdleEntries(SessionWorker(s)) = {}
      BY <2>1, <2>2, <2>4 DEF LeaseInv, HolderInv
    <2>6. \A c, d \in Conn : idle[c] > 0 /\ idle[d] > 0 /\ WorkerOf[c] = WorkerOf[d] =>
             c = d /\ idle[c] = 1
      BY <2>1 DEF LeaseInv, RegisteredInv
    <2> QED
      BY <2>3, <2>5, <2>6 DEF ExclusiveLease
  <1> QED
    BY <1>1, LeaseCorrect, PTL

\* The maps that lead from a lost connection to its session agree, under the same
\* assumption: a worker drop finds the unfinished session (register_and_run,
\* handle_worker_drop).
THEOREM SessionsAreReachable == ASSUME "overlap" \notin Env PROVE Spec => []SessionsReachable
  <1>1. LeaseInv => SessionsReachable
    BY DEF LeaseInv, RegisteredInv, HolderInv, SessionsReachable
  <1> QED
    BY <1>1, LeaseCorrect, PTL

-----------------------------------------------------------------------------
(* Handles and cancels.                                                    *)

\* A task holds handles only between the critical section that took them and
\* the last one it fills in.
PendingInv ==
    \A k \in Task : task[k].pc \in {"none", "routing", "drop1"} => task[k].pending = {}

TrackInv == PendingInv /\ RunningTracked

\* The pending commands of a record are those it was built from.
LEMMA PendingField ==
    /\ \A pc, w, pending, cause, wake :
          Reconcile(pc, w, pending, cause, wake).pending = pending
    /\ NoTask.pending = {}
    /\ \A w : DropTask(w).pending = {} /\ RouteTask(w).pending = {}
  BY DEF Reconcile, NoTask, DropTask, RouteTask

\* A step that leaves handles, inflight entries and tasks alone.
LEMMA TrackKept == ASSUME TrackInv, UNCHANGED <<handles, inflight, task>> PROVE TrackInv'
  BY DEF TrackInv, PendingInv, RunningTracked, Task

\* A task without pending handles starts on what it took from the inflight map.
LEMMA TaskTakes ==
    ASSUME TypeOK, TrackInv, NEW k \in Task, NEW rec,
           task[k].pending = {},
           task' = [task EXCEPT ![k] = rec],
           rec.pc \in {"none", "routing", "drop1"} => rec.pending = {},
           \A r \in Command : r \in inflight /\ handles[r] = "Running" =>
               r \in inflight' \cup rec.pending,
           UNCHANGED handles
    PROVE  TrackInv'
  <1>1. task'[k] = rec /\ \A j \in Task : j # k => task'[j] = task[j]
    BY TaskUpdate
  <1>2. PendingInv'
    BY <1>1 DEF TrackInv, PendingInv, Task
  <1>3. RunningTracked'
    BY <1>1 DEF TrackInv, RunningTracked, Task
  <1> QED
    BY <1>2, <1>3 DEF TrackInv

\* One handle is filled in, or was already, and leaves its task.
LEMMA FinishTracks ==
    ASSUME TypeOK, TrackInv, NEW k \in Task, NEW r \in Command, FinishHandle(k, r)
    PROVE  TrackInv'
  <1> DEFINE rec == Reconcile(task[k].pc, task[k].worker, task[k].pending \ {r},
                              task[k].cause, task[k].wake)
  <1>1. task'[k] = rec /\ \A j \in Task : j # k => task'[j] = task[j]
    BY TaskUpdate DEF FinishHandle
  <1>2. rec.pc = task[k].pc /\ rec.pending = task[k].pending \ {r}
    BY ReconcileFields, PendingField
  <1>3. task[k].pc \in {"result", "finish"} /\ inflight' = inflight
    BY DEF FinishHandle
  <1>4. handles'[r] # "Running" /\ \A q \in Command : q # r => handles'[q] = handles[q]
    <2>1. task[k].cause \in ExitCause
      BY TaskFields
    <2>2. Outcome(k, r) # "Running"
      BY <2>1 DEF Outcome, ExitCause, ResultCause, DropCause
    <2> QED
      BY <2>2 DEF FinishHandle, StillRunning, TypeOK
  <1> HIDE DEF rec
  <1>5. PendingInv'
    BY <1>1, <1>2, <1>3 DEF TrackInv, PendingInv, Task
  <1>6. RunningTracked'
    BY <1>1, <1>2, <1>3, <1>4 DEF TrackInv, RunningTracked, Task
  <1> QED
    BY <1>5, <1>6 DEF TrackInv

\* Every step keeps track of the running handles.
LEMMA TrackNext ==
    ASSUME BaseInv, TrackInv, "abandon" \notin Env, [Next]_vars
    PROVE  TrackInv'
  <1>0. TypeOK /\ LinkInv /\ TaskInv
    BY DEF BaseInv
  <1> USE DEF poolVars, recVars, runtimeVars, taskVars, farVars
  <1>1. ASSUME NEW c \in Conn, ConnStep(c) PROVE TrackInv'
    <2>0. c \in Task
      BY TaskKinds
    <2>1. CASE Register(c) \/ Disconnect(c)
      BY <2>1, TrackKept DEF Register, Disconnect
    <2>2. CASE LoopEnds(c)
      BY <1>0, <2>0, <2>2, TaskTakes, PendingField
      DEF LoopEnds, Selecting, TrackInv, PendingInv
    <2>3. ASSUME NEW s \in Session, NEW error \in BOOLEAN, SessionReady(c, s, error)
          PROVE  TrackInv'
      BY <2>3, TrackKept DEF SessionReady
    <2>4. ASSUME NEW s \in Session, NEW error \in BOOLEAN, NEW reusable \in BOOLEAN,
                 SessionClosed(c, s, error, reusable)
          PROVE  TrackInv'
      <3>1. CASE state[s] = "Swept"
        BY <2>4, <3>1, TrackKept DEF SessionClosed
      <3>2. CASE state[s] # "Swept"
        <4> DEFINE rec == Reconcile("finish", WorkerOf[c], InflightOf(s),
                                    IF state[s] = "Closing" /\ ~error
                                    THEN "Cancelled" ELSE "WorkerError",
                                    closed[s])
        <4>1. /\ inflight' = inflight \ InflightOf(s)
              /\ task' = [task EXCEPT ![c] = rec]
              /\ UNCHANGED handles
              /\ task[c].pc = "none"
          BY <2>4, <3>2 DEF SessionClosed, Selecting
        <4>2. rec.pc = "finish" /\ rec.pending = InflightOf(s)
          BY ReconcileFields, PendingField
        <4> HIDE DEF rec
        <4> QED
          BY <1>0, <2>0, <4>1, <4>2, TaskTakes DEF TrackInv, PendingInv
      <3> QED
        BY <3>1, <3>2
    <2>5. ASSUME NEW r \in Command, NEW cause \in Reports, Result(c, r, cause) PROVE TrackInv'
      <3>1. CASE handles[r] = "Purged"
        <4>1. inflight' = inflight \ {r} /\ UNCHANGED <<handles, task>>
          BY <2>5, <3>1 DEF Result
        <4> QED
          BY <3>1, <4>1 DEF TrackInv, PendingInv, RunningTracked, Task
      <3>2. CASE handles[r] # "Purged"
        <4> DEFINE rec == Reconcile("result", WorkerOf[c], {r}, cause, {})
        <4>1. /\ inflight' = inflight \ {r}
              /\ task' = [task EXCEPT ![c] = rec]
              /\ UNCHANGED handles
              /\ task[c].pc = "none"
          BY <2>5, <3>2 DEF Result, Selecting
        <4>2. rec.pc = "result" /\ rec.pending = {r}
          BY ReconcileFields, PendingField
        <4> HIDE DEF rec
        <4> QED
          BY <1>0, <2>0, <4>1, <4>2, TaskTakes DEF TrackInv, PendingInv
      <3> QED
        BY <3>1, <3>2
    <2>6. ASSUME NEW r \in Command, SpoolFails(c, r) PROVE TrackInv'
      BY <2>6, TrackKept DEF SpoolFails
    <2>7. CASE RouteWaits(c) \/ RouteReturns(c)
      <3>1. UNCHANGED <<handles, inflight>> /\ task[c].pending = {}
        BY <2>7, RouteChanges DEF TrackInv, PendingInv
      <3>2. CASE task' = [task EXCEPT ![c] = RouteTask(WorkerOf[c])]
        BY <1>0, <2>0, <3>1, <3>2, TaskTakes, PendingField
      <3>3. CASE task' = [task EXCEPT ![c] = NoTask]
        BY <1>0, <2>0, <3>1, <3>3, TaskTakes, PendingField
      <3> QED
        BY <2>7, <3>2, <3>3, RouteChanges
    <2> QED
      BY <1>1, <2>1, <2>2, <2>3, <2>4, <2>5, <2>6, <2>7 DEF ConnStep
  <1>2. ASSUME NEW w \in Worker, Keepalive(w) PROVE TrackInv'
    BY <1>2, TrackKept DEF Keepalive
  <1>3. ASSUME NEW k \in Task, TaskStep(k) PROVE TrackInv'
    <2>1. CASE DropTakesInflight(k)
      <3> DEFINE pending == {r \in inflight : OnWorker(r, task[k].worker)}
                 rec == Reconcile("drop2", task[k].worker, pending, "Normal", {})
      <3>1. /\ inflight' = inflight \ pending
            /\ task' = [task EXCEPT ![k] = rec]
            /\ task[k].pc = "drop1"
            /\ UNCHANGED handles
        BY <2>1 DEF DropTakesInflight
      <3>2. rec.pc = "drop2" /\ rec.pending = pending
        BY ReconcileFields, PendingField
      <3> HIDE DEF rec, pending
      <3> QED
        BY <1>0, <3>1, <3>2, TaskTakes DEF TrackInv, PendingInv
    <2>2. CASE DropForgetsWorker(k)
      <3> DEFINE rec(cause) == Reconcile("finish", task[k].worker, task[k].pending, cause,
                                         Waiters(worker_sessions[task[k].worker]))
      <3>0. PICK cause \in ProbeSays : task' = [task EXCEPT ![k] = rec(cause)]
        BY <2>2 DEF DropForgetsWorker
      <3>1. rec(cause).pc = "finish" /\ rec(cause).pending = task[k].pending
        BY DEF Reconcile
      <3> HIDE DEF rec
      <3>2. /\ task'[k].pc = "finish" /\ task'[k].pending = task[k].pending
            /\ \A j \in Task : j # k => task'[j] = task[j]
        BY <1>0, <3>0, <3>1, TaskUpdate
      <3>3. UNCHANGED <<handles, inflight>>
        BY <2>2 DEF DropForgetsWorker
      <3>4. PendingInv'
        BY <3>2 DEF TrackInv, PendingInv, Task
      <3>5. RunningTracked'
        BY <3>2, <3>3 DEF TrackInv, RunningTracked, Task
      <3> QED
        BY <3>4, <3>5 DEF TrackInv
    <2>3. CASE TaskEnds(k)
      <3>1. task' = [task EXCEPT ![k] = NoTask] /\ task[k].pending = {}
            /\ UNCHANGED <<handles, inflight>>
        BY <2>3 DEF TaskEnds, AllFilled
      <3> QED
        BY <1>0, <3>1, TaskTakes, PendingField
    <2>4. ASSUME NEW r \in Command, FinishHandle(k, r) PROVE TrackInv'
      BY <1>0, <2>4, FinishTracks
    <2> QED
      BY <1>3, <2>1, <2>2, <2>3, <2>4 DEF TaskStep
  <1>4. ASSUME NEW s \in Session, SessionStep(s) PROVE TrackInv'
    <2>1. CASE SendOpenFails(s)
      <3>1. s \in Task /\ task[s].pc = "none"
        BY <1>0, <2>1, TaskKinds DEF TaskInv, SendOpenFails
      <3>2. /\ task' = [task EXCEPT ![s] = DropTask(SessionWorker(s))]
            /\ UNCHANGED <<handles, inflight>>
        BY <2>1 DEF SendOpenFails
      <3>3. task[s].pending = {}
        BY <3>1 DEF TrackInv, PendingInv
      <3> QED
        BY <1>0, <3>1, <3>2, <3>3, TaskTakes, PendingField
    <2>2. CASE ~SendOpenFails(s)
      <3>1. UNCHANGED <<handles, inflight, task>>
        BY <1>4, <2>2 DEF SessionStep, CreateSession, SendOpen, CreateReturns, CreateTimesOut,
                          CreateGivesUp, RetireSession, AbandonCreate, AttachTerminal
      <3> QED
        BY <3>1, TrackKept
    <2> QED
      BY <2>1, <2>2
  <1>5. ASSUME NEW r \in Command, CommandStep(r) PROVE TrackInv'
    <2>1. CASE SendRunFails(r)
      <3>1. r \in Task /\ task[r].pc = "none"
        BY <1>0, <2>1, TaskKinds DEF TaskInv, SendRunFails
      <3>2. /\ task' = [task EXCEPT ![r] = DropTask(SessionWorker(cmd[r].session))]
            /\ UNCHANGED <<handles, inflight>>
        BY <2>1 DEF SendRunFails
      <3>3. task[r].pending = {}
        BY <3>1 DEF TrackInv, PendingInv
      <3> QED
        BY <1>0, <3>1, <3>2, <3>3, TaskTakes, PendingField
    <2>2. CASE SubmitRegisters(r)
      <3>1. /\ \A q \in Command : handles'[q] = "Running" =>
                  q \in inflight' \/ handles[q] = "Running"
            /\ inflight \subseteq inflight' /\ task' = task
        <4>1. task' = task
          BY <2>2 DEF SubmitRegisters
        <4>2. CASE inflight' = inflight \cup {r} /\ handles' = [handles EXCEPT ![r] = "Running"]
          BY <1>0, <4>1, <4>2 DEF TypeOK
        <4>3. CASE UNCHANGED <<inflight, handles>>
          BY <1>0, <2>2, <4>1, <4>3 DEF SubmitRegisters, TypeOK
        <4> QED
          BY <2>2, <4>2, <4>3 DEF SubmitRegisters
      <3> QED
        BY <3>1 DEF TrackInv, PendingInv, RunningTracked, Task
    <2>3. CASE PurgeHandle(r)
      <3>1. /\ \A q \in Command : handles'[q] = "Running" => handles[q] = "Running"
            /\ UNCHANGED <<inflight, task>>
        BY <1>0, <2>3 DEF PurgeHandle, TypeOK
      <3> QED
        BY <3>1 DEF TrackInv, PendingInv, RunningTracked, Task
    <2>4. CASE ~(SendRunFails(r) \/ SubmitRegisters(r) \/ PurgeHandle(r))
      <3>1. UNCHANGED <<handles, inflight, task>>
        BY <1>5, <2>4 DEF CommandStep, Submit, SubmitLocks, SubmitSetupFails, SendRun, Cancel,
                          CancelSends, AbandonSubmit
      <3> QED
        BY <3>1, TrackKept
    <2> QED
      BY <2>1, <2>2, <2>3, <2>4
  <1>6. ASSUME NEW k \in Closer, CloserStep(k) PROVE TrackInv'
    <2>1. UNCHANGED <<handles, inflight, task>>
      BY <1>6 DEF CloserStep, Close, CloseLocks, SendClose, SendCloseFails, CloseReturns,
                  CloseTimesOut, AbandonClose
    <2> QED
      BY <2>1, TrackKept
  <1>7. ASSUME NEW t \in Terminal, DetachTerminal(t) PROVE TrackInv'
    BY <1>7, TrackKept DEF DetachTerminal
  <1>8. CASE UNCHANGED vars
    BY <1>8, TrackKept DEF vars
  <1> QED
    BY <1>1, <1>2, <1>3, <1>4, <1>5, <1>6, <1>7, <1>8 DEF Next, Quiescent

\* A running handle has an inflight entry or a task about to fill it in, if no client hangs
\* up in the middle of a request (handle_worker_drop, complete_request, session_closed).
THEOREM RunningIsTracked == ASSUME "abandon" \notin Env PROVE Spec => []RunningTracked
  <1>1. Init => TrackInv
    BY PendingField DEF Init, TrackInv, PendingInv, RunningTracked
  <1>2. BaseInv /\ TrackInv /\ [Next]_vars => TrackInv'
    BY TrackNext
  <1>3. TrackInv => RunningTracked
    BY DEF TrackInv
  <1> QED
    BY <1>1, <1>2, <1>3, BaseCorrect, PTL DEF Spec

-----------------------------------------------------------------------------
\* A cancel is sent for a command whose SessionRun was sent before, and no connection
\* that carries a session is opened again.
CancelInv ==
    /\ \A r \in Command : canceller[r] # "none" => submit[r] = "done"
    /\ \A c \in Conn : idle[c] > 0 => loop[c] # "new"
    /\ \A s \in Session : sink[s] # None => loop[sink[s]] # "new"
    /\ \A r \in inflight \cup running : sink[cmd[r].session] # None
    /\ CancelReaches

\* What the invariant is about, commands and connections apart.
Cancels == <<canceller, inflight, running, told, submit, cmd>>
Sockets == <<idle, loop, sink, up>>

\* A step that brings no command to the worker and no connection back.
LEMMA CancelKept ==
    ASSUME TypeOK, LinkInv, CancelInv,
           UNCHANGED <<canceller, told, cmd, loop, sink>>,
           inflight' \subseteq inflight, running' \subseteq running,
           \A r \in Command : submit[r] = "done" => submit'[r] = "done",
           \A c \in Conn : idle'[c] > 0 => idle[c] > 0 \/ loop[c] # "new",
           \A c \in Conn : up'[c] => up[c]
    PROVE  CancelInv'
  <1>1. \A r \in inflight \cup running : cmd[r].session \in Session /\ sink[cmd[r].session] \in Conn
    BY DEF LinkInv, TypeOK, CancelInv
  <1>2. CancelReaches'
    BY <1>1 DEF CancelInv, CancelReaches, TypeOK
  <1> QED
    BY <1>2 DEF CancelInv

\* A connection's own steps: a new one carries nothing yet.
LEMMA CancelSockets ==
    ASSUME TypeOK, LinkInv, CancelInv, NEW c \in Conn, Register(c) \/ Disconnect(c) \/ LoopEnds(c)
    PROVE  CancelInv'
  <1>1. CASE Register(c)
    <2>1. /\ loop[c] = "new"
          /\ idle' = [idle EXCEPT ![c] = @ + 1]
          /\ loop' = [loop EXCEPT ![c] = "reading"]
          /\ up' = [up EXCEPT ![c] = TRUE]
          /\ UNCHANGED <<Cancels, sink>>
      BY <1>1 DEF Register, Cancels, recVars
    <2>2. \A r \in inflight \cup running :
             cmd[r].session \in Session /\ sink[cmd[r].session] \in Conn /\ sink[cmd[r].session] # c
      BY <2>1 DEF CancelInv, LinkInv, TypeOK
    <2>3. CancelReaches'
      BY <2>1, <2>2 DEF CancelInv, CancelReaches, Cancels, TypeOK
    <2> QED
      BY <2>1, <2>3 DEF CancelInv, Cancels, TypeOK
  <1>2. CASE Disconnect(c)
    BY <1>2, CancelKept DEF Disconnect, TypeOK, poolVars, recVars, taskVars
  <1>3. CASE LoopEnds(c)
    <2>1. loop' = [loop EXCEPT ![c] = "ended"] /\ UNCHANGED <<Cancels, idle, sink, up>>
      BY <1>3 DEF LoopEnds, Cancels, poolVars, recVars
    <2> QED
      BY <2>1 DEF CancelInv, CancelReaches, Cancels, TypeOK
  <1> QED
    BY <1>1, <1>2, <1>3

\* A SessionRun reaches the worker before anyone may cancel the command.
LEMMA RunDelivered ==
    ASSUME TypeOK, LinkInv, CancelInv, NEW r \in Command, NEW to,
           submit[r] = "sending",
           submit' = [submit EXCEPT ![r] = to],
           UNCHANGED running \/ DeliverRun(r),
           UNCHANGED <<canceller, inflight, told, cmd, Sockets>>
    PROVE  CancelInv'
  <1>1. canceller[r] = "none"
    BY DEF CancelInv
  <1>2. \A q \in Command : canceller[q] # "none" => submit'[q] = "done"
    BY <1>1 DEF CancelInv, TypeOK
  <1>3. cmd[r].session \in Session /\ sink[cmd[r].session] # None
    BY PoolAssumption DEF LinkInv
  <1>4. running' \subseteq running \cup {r}
    BY DEF DeliverRun
  <1>5. CancelReaches'
    BY <1>1, <1>4 DEF CancelInv, CancelReaches, Sockets
  <1> QED
    BY <1>2, <1>3, <1>4, <1>5 DEF CancelInv, Sockets

\* Every step keeps the cancels that were sent known to their workers.
LEMMA CancelNext ==
    ASSUME SafeInv, CancelInv, "early_cancel" \notin Env, [Next]_vars
    PROVE  CancelInv'
  <1>0. TypeOK /\ LinkInv /\ TaskInv /\ SubmitInv
    BY DEF SafeInv, BaseInv
  <1> USE DEF poolVars, recVars, runtimeVars, taskVars, farVars
  <1>1. ASSUME NEW c \in Conn, ConnStep(c) PROVE CancelInv'
    <2>1. CASE Register(c) \/ Disconnect(c) \/ LoopEnds(c)
      BY <1>0, <2>1, CancelSockets
    <2>2. ASSUME NEW s \in Session, NEW error \in BOOLEAN, SessionReady(c, s, error)
          PROVE  CancelInv'
      BY <1>0, <2>2, CancelKept DEF SessionReady
    <2>3. ASSUME NEW s \in Session, NEW error \in BOOLEAN, NEW reusable \in BOOLEAN,
                 SessionClosed(c, s, error, reusable)
          PROVE  CancelInv'
      <3>1. /\ UNCHANGED <<canceller, told, cmd, loop, sink, submit, up>>
            /\ running' \subseteq running /\ inflight' \subseteq inflight
            /\ loop[c] = "reading"
        BY <2>3 DEF SessionClosed, Selecting
      <3>2. \A d \in Conn : d # c => idle'[d] = idle[d]
        BY <1>0, <2>3 DEF SessionClosed, TypeOK
      <3> QED
        BY <1>0, <3>1, <3>2, CancelKept
    <2>4. ASSUME NEW r \in Command, NEW cause \in Reports, Result(c, r, cause) PROVE CancelInv'
      <3>1. /\ UNCHANGED <<canceller, told, cmd, submit, Sockets>>
            /\ running' \subseteq running /\ inflight' \subseteq inflight
        BY <2>4 DEF Result, Sockets
      <3> QED
        BY <1>0, <3>1, CancelKept DEF Sockets
    <2>5. ASSUME NEW r \in Command, SpoolFails(c, r) PROVE CancelInv'
      BY <1>0, <2>5, CancelKept DEF SpoolFails
    <2>6. CASE RouteWaits(c) \/ RouteReturns(c)
      BY <1>0, <2>6, CancelKept, RouteChanges
    <2> QED
      BY <1>1, <2>1, <2>2, <2>3, <2>4, <2>5, <2>6 DEF ConnStep
  <1>2. ASSUME NEW w \in Worker, Keepalive(w) PROVE CancelInv'
    BY <1>0, <1>2, CancelKept DEF Keepalive
  <1>3. ASSUME NEW k \in Task, TaskStep(k) PROVE CancelInv'
    <2>1. CASE DropTakesInflight(k)
      BY <1>0, <2>1, CancelKept DEF DropTakesInflight
    <2>2. CASE DropForgetsWorker(k)
      <3>1. \A c \in Conn : idle'[c] > 0 => idle[c] > 0
        BY <2>2 DEF DropForgetsWorker
      <3>2. UNCHANGED <<Cancels, loop, sink, up>>
        BY <2>2 DEF DropForgetsWorker, Cancels
      <3> QED
        BY <1>0, <3>1, <3>2, CancelKept DEF Cancels
    <2>3. CASE TaskEnds(k)
      <3>1. \A r \in Command : submit[r] = "done" => submit'[r] = "done"
        BY <1>0, <2>3 DEF TaskEnds, HandlerReturns, TaskInv, TypeOK
      <3>2. UNCHANGED <<canceller, told, cmd, inflight, running, Sockets>>
        BY <2>3 DEF TaskEnds, Sockets
      <3> QED
        BY <1>0, <3>1, <3>2, CancelKept DEF Sockets
    <2>4. ASSUME NEW r \in Command, FinishHandle(k, r) PROVE CancelInv'
      BY <1>0, <2>4, CancelKept DEF FinishHandle
    <2> QED
      BY <1>3, <2>1, <2>2, <2>3, <2>4 DEF TaskStep
  <1>4. ASSUME NEW s \in Session, SessionStep(s) PROVE CancelInv'
    <2>1. ASSUME NEW p \in Profile, CreateSession(s, p) PROVE CancelInv'
      <3>1. PICK c \in Conn : /\ idle[c] > 0
                              /\ idle' = [idle EXCEPT ![c] = @ - 1]
                              /\ sink' = [sink EXCEPT ![s] = c]
        BY <2>1 DEF CreateSession, Available
      <3>2. state[s] = "Absent" /\ UNCHANGED <<Cancels, loop, up>>
        BY <2>1 DEF CreateSession, Cancels
      <3>3. \A r \in inflight \cup running : cmd[r].session \in Session /\ cmd[r].session # s
        BY <1>0, <3>2 DEF LinkInv, TypeOK
      <3>4. CancelReaches'
        BY <1>0, <3>1, <3>2, <3>3 DEF CancelInv, CancelReaches, Cancels, TypeOK
      <3>5. \A d \in Conn : idle'[d] > 0 => loop[d] # "new"
        BY <1>0, <3>1 DEF CancelInv, TypeOK
      <3>6. \A z \in Session : sink'[z] # None => loop[sink'[z]] # "new"
        BY <1>0, <3>1 DEF CancelInv, TypeOK
      <3>7. \A r \in inflight \cup running : sink'[cmd[r].session] # None
        BY <1>0, <3>1, <3>3 DEF CancelInv, TypeOK
      <3> QED
        BY <3>2, <3>4, <3>5, <3>6, <3>7 DEF CancelInv, Cancels
    <2>2. CASE ~\E p \in Profile : CreateSession(s, p)
      <3>1. UNCHANGED <<Cancels, Sockets>>
        BY <1>4, <2>2 DEF SessionStep, SendOpen, SendOpenFails, CreateReturns, CreateTimesOut,
                          CreateGivesUp, RetireSession, AbandonCreate, AttachTerminal,
                          Cancels, Sockets
      <3> QED
        BY <1>0, <3>1, CancelKept DEF Cancels, Sockets
    <2> QED
      BY <2>1, <2>2
  <1>5. ASSUME NEW r \in Command, CommandStep(r) PROVE CancelInv'
    <2>1. ASSUME NEW s \in Session, NEW mode \in Mode, Submit(r, s, mode) PROVE CancelInv'
      <3>1. /\ submit[r] = "none" /\ r \notin inflight \cup running
            /\ \A q \in Command : q # r => cmd'[q] = cmd[q]
            /\ \A q \in Command : submit[q] = "done" => submit'[q] = "done"
            /\ UNCHANGED <<canceller, inflight, running, told, Sockets>>
        BY <1>0, <2>1 DEF Submit, SubmitInv, Sockets, TypeOK
      <3> QED
        BY <1>0, <3>1, ZenonT(40) DEF CancelInv, CancelReaches, Sockets, TypeOK
    <2>2. CASE SubmitRegisters(r)
      <3>1. /\ submit[r] = "setup" /\ canceller[r] = "none"
            /\ inflight' \subseteq inflight \cup {r}
            /\ UNCHANGED <<canceller, running, told, cmd, Sockets>>
        BY <2>2 DEF SubmitRegisters, CancelInv, Sockets
      <3>2. \A q \in Command : submit[q] = "done" => submit'[q] = "done"
        BY <1>0, <2>2 DEF SubmitRegisters, TypeOK
      <3>3. sink[cmd[r].session] # None
        BY <1>0, <3>1, PoolAssumption DEF LinkInv
      <3>4. CancelReaches'
        BY <3>1 DEF CancelInv, CancelReaches, Sockets
      <3> QED
        BY <3>1, <3>2, <3>3, <3>4 DEF CancelInv, Sockets
    <2>3. CASE SendRun(r) \/ SendRunFails(r)
      BY <1>0, <2>3, RunDelivered DEF SendRun, SendRunFails, Sockets
    <2>4. CASE AbandonSubmit(r) /\ submit[r] = "sending"
      BY <1>0, <2>4, RunDelivered DEF AbandonSubmit, Sockets
    <2>5. CASE Cancel(r)
      <3>1. /\ submit[r] = "done"
            /\ canceller' = [canceller EXCEPT ![r] = "sending"]
            /\ UNCHANGED <<inflight, running, told, submit, cmd, Sockets>>
        BY <2>5 DEF Cancel, Sockets
      <3>2. CancelReaches'
        BY <1>0, <3>1 DEF CancelInv, CancelReaches, Sockets, TypeOK
      <3> QED
        BY <1>0, <3>1, <3>2 DEF CancelInv, Sockets, TypeOK
    <2>6. CASE CancelSends(r)
      <3>1. /\ canceller[r] = "sending"
            /\ canceller' = [canceller EXCEPT ![r] = "sent"]
            /\ told' = IF r \in inflight \cap running /\ up[sink[cmd[r].session]]
                       THEN told \cup {r} ELSE told
            /\ UNCHANGED <<inflight, running, submit, cmd, Sockets>>
        BY <2>6 DEF CancelSends, CancelArrives, Sockets
      <3>2. CancelReaches'
        BY <1>0, <3>1 DEF CancelInv, CancelReaches, Sockets, TypeOK
      <3>3. \A q \in Command : canceller'[q] # "none" => submit'[q] = "done"
        BY <1>0, <3>1 DEF CancelInv, TypeOK
      <3> QED
        BY <3>1, <3>2, <3>3 DEF CancelInv, Sockets
    <2>7. CASE SubmitLocks(r) \/ SubmitSetupFails(r) \/ PurgeHandle(r)
                 \/ (AbandonSubmit(r) /\ submit[r] # "sending")
      <3>1. UNCHANGED <<canceller, inflight, running, told, cmd, Sockets>>
        BY <2>7 DEF SubmitLocks, SubmitSetupFails, PurgeHandle, AbandonSubmit, Sockets
      <3>2. \A q \in Command : submit[q] = "done" => submit'[q] = "done"
        BY <1>0, <2>7 DEF SubmitLocks, SubmitSetupFails, PurgeHandle, AbandonSubmit, TypeOK
      <3> QED
        BY <1>0, <3>1, <3>2, CancelKept DEF Sockets
    <2> QED
      BY <1>5, <2>1, <2>2, <2>3, <2>4, <2>5, <2>6, <2>7 DEF CommandStep
  <1>6. ASSUME NEW k \in Closer, CloserStep(k) PROVE CancelInv'
    <2>1. UNCHANGED <<Cancels, Sockets>>
      BY <1>6 DEF CloserStep, Close, CloseLocks, SendClose, SendCloseFails, CloseReturns,
                  CloseTimesOut, AbandonClose, Cancels, Sockets
    <2> QED
      BY <1>0, <2>1, CancelKept DEF Cancels, Sockets
  <1>7. ASSUME NEW t \in Terminal, DetachTerminal(t) PROVE CancelInv'
    BY <1>0, <1>7, CancelKept DEF DetachTerminal
  <1>8. CASE UNCHANGED vars
    BY <1>0, <1>8, CancelKept DEF vars
  <1> QED
    BY <1>1, <1>2, <1>3, <1>4, <1>5, <1>6, <1>7, <1>8 DEF Next, Quiescent

\* A cancel that was sent, and is never repeated, is known to the worker that runs the
\* command, if it was requested after the submission returned (cancel).
THEOREM CancelsReach == ASSUME "early_cancel" \notin Env PROVE Spec => []CancelReaches
  <1>1. Init => CancelInv
    BY DEF Init, CancelInv, CancelReaches
  <1>2. SafeInv /\ CancelInv /\ [Next]_vars => CancelInv'
    BY CancelNext
  <1>3. CancelInv => CancelReaches
    BY DEF CancelInv
  <1> QED
    BY <1>1, <1>2, <1>3, SafeCorrect, PTL DEF Spec
=============================================================================
