---------------------------- MODULE SessionProofs ---------------------------
(***************************************************************************)
(* Theorems about WorkerSession, for every number of commands, every limit *)
(* on the running ones, every capacity of the event channel and every      *)
(* bound on the output.                                                    *)
(***************************************************************************)
EXTENDS WorkerSession, FiniteSetTheorems, SequenceTheorems, TLAPS

-----------------------------------------------------------------------------
(* The inductive invariant.                                                *)

\* The loop has not been left.
Runs == pc \notin {"closing", "ended"}
\* Nothing of a command follows these events.
Final(e) == e.kind \in {"Done", "Cancelled", "Abort"}
\* The command's task has something to do.
Live(j) == task[j] \notin {"none", "ended"}

\* What the bound on unread rests on: a command's notice is written once.
NoticeInv ==
    \A j \in Job :
        unread[j] <= chunks + (IF task[j] \in {"none", "watching"} THEN 0 ELSE 1)

\* The queue is in order of arrival, without repetitions, and no command behind
\* or in it has started.
QueueInv ==
    /\ \A i, k \in DOMAIN queued : i < k => queued[i] < queued[k]
    /\ \A i \in DOMAIN queued :
          /\ queued[i] <= received
          /\ \A s \in Started : s < queued[i]

\* Commands that have not arrived have left no trace.
ArrivalInv ==
    /\ \A j \in Job : j > received => results[j] = <<>> /\ j \notin Started
    /\ running \subseteq Started
    /\ current # None => current <= received /\ mode[current] = "Stateful"
    /\ \A j \in Job :
          inherits[j] # None => inherits[j] <= received /\ mode[inherits[j]] = "Stateful"

\* The stateful command among the running ones has the shell, and nothing started
\* behind it.
ShellInv ==
    /\ Runs => \A j \in Job :
                  stateful_running = j <=> j \in running /\ mode[j] = "Stateful"
    /\ stateful_running # None => \A s \in Started : s <= stateful_running
    /\ Runs => \A i \in Job : HasRun(i) => current >= i

\* A command that is cancelled was told to be.
ToldInv ==
    /\ cancelled \subseteq told
    /\ \A j \in Job : task[j] \in {"interrupting", "interrupted", "aborting"} =>
                         j \in told /\ mode[j] = "Stateful"

\* A command is known to the loop as long as it has a task, and its task waits
\* for its tails, unless it has aborted them.
TaskInv ==
    \A j \in Job :
        /\ Runs /\ Live(j) => j \in running
        /\ tail[j] \in {"reading", "eof"} => Live(j) /\ task[j] # "aborting"
        /\ task[j] # "none" => tail[j] # "none"

\* What is known of a command with an event on its way.
Known(e) ==
    /\ e.job \in Started
    /\ Final(e) => /\ task[e.job] = "ended" /\ tail[e.job] = "ended"
                   /\ Runs => e.job \in running
    /\ e.kind \in {"Cancelled", "Abort"} => e.job \in told
    /\ e.kind = "Abort" => mode[e.job] = "Stateful"
    /\ e.kind = "Interrupt" /\ Runs => stateful_running = e.job

EventInv == \A i \in DOMAIN events : Known(events[i])

\* No event of a command follows its last one.
FinalInv ==
    \A i, k \in DOMAIN events :
        i < k /\ Final(events[i]) => events[k].job # events[i].job

\* A command that arrived waits, runs, or has its one Result.
ResultInv ==
    \A j \in Job :
        /\ Len(results[j]) <= 1
        /\ Runs /\ j <= received => (results[j] = <<>> <=> j \in running \cup Queued)
        /\ results[j] = <<"cancelled">> => j \in told

\* A command started with the state of the last stateful command before it, or of
\* a later one.
InheritInv ==
    \A j \in Started : \A i \in 1..(j - 1) : HasRun(i) => inherits[j] >= i

SInv ==
    /\ TypeOK /\ NoticeInv
    /\ QueueInv /\ ArrivalInv /\ ShellInv /\ ToldInv /\ TaskInv
    /\ EventInv /\ FinalInv /\ ResultInv
    /\ InheritInv /\ OutputBeforeResult

-----------------------------------------------------------------------------
(* Facts about the two sequences.                                          *)

\* Taking the head of a sequence.
LEMMA TailFacts ==
    ASSUME NEW S, NEW s \in Seq(S), s # <<>>
    PROVE  /\ Tail(s) \in Seq(S) /\ Len(Tail(s)) = Len(s) - 1
           /\ Len(s) \in Nat \ {0} /\ DOMAIN s = 1..Len(s)
           /\ Head(s) = s[1] /\ Head(s) \in S /\ 1 \in DOMAIN s
           /\ DOMAIN Tail(s) = 1..(Len(s) - 1)
           /\ \A i \in DOMAIN Tail(s) : i + 1 \in DOMAIN s /\ Tail(s)[i] = s[i + 1]
  OBVIOUS

\* Adding to its end.
LEMMA AppendFacts ==
    ASSUME NEW S, NEW s \in Seq(S), NEW e \in S
    PROVE  /\ Append(s, e) \in Seq(S) /\ Len(Append(s, e)) = Len(s) + 1
           /\ Len(s) \in Nat /\ DOMAIN s = 1..Len(s)
           /\ DOMAIN Append(s, e) = 1..(Len(s) + 1)
           /\ \A i \in DOMAIN s : i \in DOMAIN Append(s, e) /\ Append(s, e)[i] = s[i]
           /\ Append(s, e)[Len(s) + 1] = e
  OBVIOUS

\* The channel when the loop takes an event.
LEMMA ReceiveFacts ==
    ASSUME TypeOK, NEW k, NEW j, Receives(k, j)
    PROVE  /\ events \in Seq([kind : EventKind, job : Job]) /\ 1 \in DOMAIN events
           /\ events' \in Seq([kind : EventKind, job : Job])
           /\ Len(events') = Len(events) - 1 /\ Len(events) \in Nat
           /\ DOMAIN events = 1..Len(events) /\ DOMAIN events' = 1..(Len(events) - 1)
           /\ events[1].kind = k /\ events[1].job = j
           /\ \A i \in DOMAIN events' :
                 i + 1 \in DOMAIN events /\ events'[i] = events[i + 1]
  BY TailFacts, SMTT(30) DEF TypeOK, Receives, Event

\* Every event is about a command.
LEMMA EventJob == ASSUME TypeOK, NEW i \in DOMAIN events PROVE events[i].job \in Job
  <1>1. events \in Seq([kind : EventKind, job : Job])
    BY DEF TypeOK
  <1>2. i \in 1..Len(events)
    BY <1>1
  <1>3. events[i] \in [kind : EventKind, job : Job]
    BY <1>1, <1>2, ElementOfSeq
  <1> QED
    BY <1>3

\* The channel when a task posts an event.
LEMMA PostFacts ==
    ASSUME TypeOK, NEW k \in EventKind, NEW j \in Job, Post(k, j)
    PROVE  /\ events \in Seq([kind : EventKind, job : Job]) /\ Len(events) \in Nat
           /\ events' \in Seq([kind : EventKind, job : Job])
           /\ Len(events') = Len(events) + 1 /\ Len(events') <= Capacity
           /\ DOMAIN events = 1..Len(events) /\ DOMAIN events' = 1..(Len(events) + 1)
           /\ events'[Len(events) + 1].kind = k /\ events'[Len(events) + 1].job = j
           /\ \A i \in DOMAIN events : i \in DOMAIN events' /\ events'[i] = events[i]
  <1>1. Event(k, j) \in [kind : EventKind, job : Job]
    BY DEF Event
  <1>2. Len(events) < Capacity /\ events' = Append(events, Event(k, j))
    BY DEF Post
  <1>3. Len(events') <= Capacity
    BY <1>1, <1>2, SessionAssumption, AppendFacts DEF TypeOK
  <1>4. /\ events' \in Seq([kind : EventKind, job : Job])
        /\ Len(events') = Len(events) + 1
        /\ DOMAIN events = 1..Len(events) /\ DOMAIN events' = 1..(Len(events) + 1)
        /\ events'[Len(events) + 1] = Event(k, j)
        /\ \A i \in DOMAIN events : i \in DOMAIN events' /\ events'[i] = events[i]
    <2>1. events \in Seq([kind : EventKind, job : Job])
      BY DEF TypeOK
    <2>2. events' = Append(events, Event(k, j))
      BY <1>2
    <2> HIDE DEF Event
    <2> QED
      BY <1>1, <2>1, <2>2, AppendFacts
  <1> QED
    BY <1>3, <1>4 DEF TypeOK, Event

\* The queue when the loop takes its head.
LEMMA DequeueFacts ==
    ASSUME TypeOK, MayStart, queued' = Tail(queued)
    PROVE  /\ queued \in Seq(Job) /\ Head(queued) = queued[1] /\ Head(queued) \in Job
           /\ queued' \in Seq(Job) /\ Len(queued) \in Nat \ {0}
           /\ Len(queued') = Len(queued) - 1 /\ 1 \in DOMAIN queued
           /\ DOMAIN queued = 1..Len(queued) /\ DOMAIN queued' = 1..(Len(queued) - 1)
           /\ \A i \in DOMAIN queued' :
                 i + 1 \in DOMAIN queued /\ queued'[i] = queued[i + 1]
  BY TailFacts DEF TypeOK, MayStart

\* The queue when a waiting command is cancelled: one entry with its handle id
\* goes and the entries behind it move up.
LEMMA UnqueueFacts ==
    ASSUME TypeOK, QueueInv, NEW j \in Queued
    PROVE  \E pos \in DOMAIN queued :
              /\ queued[pos] = j /\ queued \in Seq(Job) /\ Len(queued) \in Nat
              /\ Unqueue(j) \in Seq(Job) /\ Len(Unqueue(j)) = Len(queued) - 1
              /\ DOMAIN queued = 1..Len(queued)
              /\ DOMAIN Unqueue(j) = 1..(Len(queued) - 1)
              /\ \A i \in DOMAIN Unqueue(j) :
                    Unqueue(j)[i] = IF i < pos THEN queued[i] ELSE queued[i + 1]
  <1> DEFINE First(i) == queued[i] = j /\ \A k \in 1..(i - 1) : queued[k] # j
             pos == CHOOSE i \in DOMAIN queued : First(i)
             before == SubSeq(queued, 1, pos - 1)
             after == SubSeq(queued, pos + 1, Len(queued))
  <1>1. queued \in Seq(Job) /\ Len(queued) \in Nat /\ DOMAIN queued = 1..Len(queued)
    BY DEF TypeOK
  <1>2. PICK i \in DOMAIN queued : queued[i] = j
    BY DEF Queued
  <1>3. ASSUME NEW k \in 1..(i - 1) PROVE queued[k] # j
    <2>1. k \in DOMAIN queued /\ k < i /\ i \in Nat
      BY <1>1, <1>2, <1>3
    <2>2. queued[k] < queued[i] /\ queued[k] \in Int
      BY <1>1, <1>2, <2>1, SessionAssumption DEF QueueInv, Job
    <2> QED
      BY <1>2, <2>2, SessionAssumption DEF Job
  <1>4. pos \in DOMAIN queued /\ First(pos)
    BY <1>2, <1>3
  <1> HIDE DEF pos
  <1>5. /\ before \in Seq(Job) /\ Len(before) = pos - 1
        /\ \A m \in 1..(pos - 1) : before[m] = queued[m]
    BY <1>1, <1>4, SubSeqProperties
  <1>6. /\ after \in Seq(Job) /\ Len(after) = Len(queued) - pos
        /\ \A m \in 1..(Len(queued) - pos) : after[m] = queued[pos + m]
    BY <1>1, <1>4, SubSeqProperties, SMTT(30)
  <1>7. Unqueue(j) = before \o after
    BY DEF Unqueue, pos
  <1> HIDE DEF before, after
  <1>8. Unqueue(j) \in Seq(Job) /\ Len(Unqueue(j)) = Len(queued) - 1
    <2>1. before \o after \in Seq(Job) /\ Len(before \o after) = Len(before) + Len(after)
      BY <1>5, <1>6, ConcatProperties
    <2> QED
      BY <1>1, <1>4, <1>5, <1>6, <1>7, <2>1
  <1>9. ASSUME NEW m \in 1..(Len(queued) - 1)
        PROVE  Unqueue(j)[m] = IF m < pos THEN queued[m] ELSE queued[m + 1]
    <2>1. CASE m < pos
      BY <1>1, <1>4, <1>5, <1>6, <1>7, <2>1, ConcatProperties
    <2>2. CASE ~(m < pos)
      <3>1. m - (pos - 1) \in 1..(Len(queued) - pos)
        BY <1>1, <1>4, <2>2
      <3>4. m \in 1..(Len(before) + Len(after)) /\ ~(m <= Len(before))
        BY <1>1, <1>4, <1>5, <1>6, <2>2
      <3>5. (before \o after)[m] = after[m - Len(before)]
        BY <1>5, <1>6, <3>4, ConcatProperties
      <3>2. Unqueue(j)[m] = after[m - (pos - 1)]
        BY <1>5, <1>7, <3>5
      <3>3. pos + (m - (pos - 1)) = m + 1
        BY <1>1, <1>4
      <3> QED
        BY <1>6, <2>2, <3>1, <3>2, <3>3
    <2> QED
      BY <2>1, <2>2
  <1>10. DOMAIN Unqueue(j) = 1..(Len(queued) - 1)
    BY <1>1, <1>8
  <1> QED
    BY <1>1, <1>4, <1>8, <1>9, <1>10

-----------------------------------------------------------------------------
(* Frames: what rests on which variables.                                  *)

\* What a turn of the loop that reports, starts and takes nothing leaves as it is.
LEMMA TurnFrame ==
    ASSUME SInv, TypeOK', NoticeInv', Runs' => Runs,
           UNCHANGED <<running, queued, stateful_running, current, events, task,
                       cancelled, tail, received, mode, told, results, inherits>>
    PROVE  SInv'
  <1>1. Started' = Started /\ Queued' = Queued /\ \A j \in Job : HasRun(j)' = HasRun(j)
    BY DEF Started, HasRun, Queued
  <1>2. QueueInv' /\ ArrivalInv' /\ ShellInv' /\ ToldInv'
    BY <1>1 DEF SInv, QueueInv, ArrivalInv, ShellInv, ToldInv
  <1>3. TaskInv' /\ EventInv' /\ FinalInv'
    BY <1>1 DEF SInv, TaskInv, EventInv, Known, FinalInv, Live, Final
  <1>4. ResultInv' /\ InheritInv' /\ OutputBeforeResult'
    <2>1. ResultInv' /\ OutputBeforeResult'
      BY <1>1 DEF SInv, ResultInv, OutputBeforeResult
    <2>2. \A i \in Started : \A k \in 1..(i - 1) : k \in Job
      BY SessionAssumption DEF Started, Job
    <2>3. InheritInv'
      BY <1>1, <2>2 DEF SInv, InheritInv
    <2> QED
      BY <2>1, <2>3
  <1> QED
    BY <1>2, <1>3, <1>4 DEF SInv

\* What the steps of a command's tasks leave as it is.
LEMMA TaskFrame ==
    ASSUME SInv, UNCHANGED <<loopVars, wireVars, inherits>>,
           \A j \in Job : task[j] = "none" <=> task'[j] = "none"
    PROVE  QueueInv' /\ ArrivalInv' /\ ShellInv' /\ ResultInv' /\ InheritInv'
  <1>1. /\ Started' = Started /\ Runs' = Runs /\ Queued' = Queued
        /\ \A j \in Job : HasRun(j)' = HasRun(j)
    BY DEF Started, HasRun, Runs, Queued, loopVars, wireVars
  <1>2. QueueInv' /\ ArrivalInv' /\ ShellInv'
    BY <1>1 DEF SInv, QueueInv, ArrivalInv, ShellInv, loopVars, wireVars
  <1>3. ResultInv' /\ InheritInv'
    <2>1. ResultInv'
      BY <1>1 DEF SInv, ResultInv, loopVars, wireVars
    <2>2. \A i \in Started : \A k \in 1..(i - 1) : k \in Job
      BY SessionAssumption DEF Started, Job
    <2>3. InheritInv'
      BY <1>1, <2>2 DEF SInv, InheritInv, loopVars, wireVars
    <2> QED
      BY <2>1, <2>3
  <1> QED
    BY <1>2, <1>3

-----------------------------------------------------------------------------
(* The first state, and the turns without effect.                          *)

\* The session starts in the invariant.
LEMMA SessionInit == ASSUME Init PROVE SInv
  <1> USE SessionAssumption DEF Init, Job, None
  <1>1. TypeOK
    <2>1. Cardinality(running) + Len(queued) = 0
      BY FS_EmptySet
    <2>2. queued \in Seq(Job) /\ events \in Seq([kind : EventKind, job : Job])
      OBVIOUS
    <2>3. Len(events) <= Capacity /\ results \in [Job -> Seq(ResultKind)]
      OBVIOUS
    <2>4. /\ unread \in [Job -> 0..(MaxChunks + 1)] /\ chunks \in 0..MaxChunks
          /\ received \in 0..Commands /\ 0 <= MaxJobs
      OBVIOUS
    <2>5. Cardinality(running) + Len(queued) <= MaxJobs
      BY <2>1, <2>4
    <2>6. /\ task \in [Job -> TaskPc] /\ tail \in [Job -> TailPc] /\ files \in [Job -> Files]
          /\ mode \in [Job -> Mode] /\ inherits \in [Job -> Job \cup {None}]
          /\ pc \in LoopPc
      BY DEF LoopPc, TaskPc, TailPc, Files, Mode
    <2> QED
      BY <2>2, <2>3, <2>4, <2>5, <2>6 DEF TypeOK
  <1>2. NoticeInv /\ QueueInv /\ ArrivalInv /\ ShellInv /\ ToldInv
    BY DEF NoticeInv, QueueInv, ArrivalInv, ShellInv, ToldInv, Started, HasRun
  <1>3. TaskInv /\ EventInv /\ FinalInv
    BY DEF TaskInv, EventInv, FinalInv, Live
  <1>4. ResultInv /\ InheritInv /\ OutputBeforeResult
    BY DEF ResultInv, InheritInv, OutputBeforeResult, Started, Queued
  <1> QED
    BY <1>1, <1>2, <1>3, <1>4 DEF SInv

\* Turns of the loop that only move it, and the stuttering step.
LEMMA TurnStep ==
    ASSUME SInv,
           \/ OpenSession \/ NothingToStart \/ ReadMarker \/ OtherTurn
           \/ LeaveLoop \/ UNCHANGED vars
    PROVE  SInv'
  <1> USE DEF loopVars, taskVars, procVars, wireVars, vars, OpenSession, NothingToStart,
              ReadMarker, OtherTurn, LeaveLoop, Loops, Breaks
  <1>1. TypeOK'
    BY DEF SInv, TypeOK, LoopPc, None
  <1>2. NoticeInv' /\ (Runs' => Runs)
    BY DEF SInv, NoticeInv, Runs
  <1> QED
    BY <1>1, <1>2, TurnFrame

\* The processes write, exit, and leave their files and the marker.
LEMMA ProcessLemma == ASSUME SInv, NEW j \in Job, ProcessStep(j) PROVE SInv'
  <1> USE DEF loopVars, taskVars, procVars, wireVars
  <1>1. CASE Writes(j)
    <2>1. /\ unread' = [unread EXCEPT ![j] = @ + 1] /\ chunks' = chunks + 1
          /\ chunks < MaxChunks /\ UNCHANGED task
      BY <1>1 DEF Writes
    <2>2. unread \in [Job -> Nat] /\ chunks \in Nat
      BY SessionAssumption DEF SInv, TypeOK
    <2>3. NoticeInv'
      BY <2>1, <2>2 DEF SInv, NoticeInv
    <2>4. unread' \in [Job -> 0..(MaxChunks + 1)] /\ chunks' \in 0..MaxChunks
      <3>1. chunks' \in 0..MaxChunks
        BY <2>1, <2>2, SessionAssumption
      <3>2. ASSUME NEW i \in Job PROVE unread'[i] \in 0..(MaxChunks + 1)
        BY <2>1, <2>2, <2>3, <3>1, SessionAssumption DEF NoticeInv
      <3>3. unread' = [i \in Job |-> unread'[i]]
        BY <2>1, <2>2
      <3> QED
        BY <3>1, <3>2, <3>3
    <2>5. TypeOK'
      BY <1>1, <2>4 DEF SInv, TypeOK, Writes
    <2> QED
      BY <1>1, <2>3, <2>5, TurnFrame DEF Writes, Runs
  <1>2. CASE ProcessExits(j) \/ \E f \in Files \ {"none"} : ScriptEnds(j, f)
    <2>1. NoticeInv'
      BY <1>2 DEF SInv, NoticeInv, ProcessExits, ScriptEnds
    <2>2. /\ alive' \subseteq alive /\ marker' \in Job \cup {marker}
          /\ files' = files \/ \E f \in Files : files' = [files EXCEPT ![j] = f]
          /\ UNCHANGED <<loopVars, events, taskVars, unread, chunks, wireVars, inherits>>
      BY <1>2 DEF ProcessExits, ScriptEnds
    <2>3. files' \in [Job -> Files] /\ marker' \in Job \cup {None} /\ alive' \subseteq Job
      BY <2>2 DEF SInv, TypeOK
    <2>4. TypeOK'
      BY <2>2, <2>3 DEF SInv, TypeOK
    <2> QED
      BY <2>1, <2>2, <2>4, TurnFrame DEF Runs
  <1> QED
    BY <1>1, <1>2 DEF ProcessStep

-----------------------------------------------------------------------------
(* The tasks of a command.                                                 *)

\* What a step of the tasks of command j changes.
OfTask(j) ==
    /\ Live(j) /\ Runs
    /\ UNCHANGED <<loopVars, wireVars, inherits>>
    /\ task'[j] # "none"
    /\ \A i \in Job \ {j} : task'[i] = task[i] /\ tail'[i] = tail[i]

\* A live command has no Result yet.
LEMMA LiveUnanswered ==
    ASSUME SInv, Runs, NEW j \in Job, Live(j)
    PROVE  results[j] = <<>> /\ j \in running /\ j <= received
  <1>1. j \in running /\ j \in Started
    BY DEF SInv, TaskInv, Live, Started
  <1>2. j <= received
    BY <1>1, SessionAssumption DEF SInv, ArrivalInv, TypeOK, Job
  <1> QED
    BY <1>1, <1>2 DEF SInv, ResultInv

\* The events on their way are not about what a task has yet to do.
LEMMA KnownStays ==
    ASSUME SInv, NEW j \in Job, OfTask(j), NEW e, e.job \in Job, Known(e)
    PROVE  Known(e)'
  <1>1. Final(e) => e.job # j
    BY DEF Known, OfTask, Live
  <1>2. task'[e.job] # "none" /\ (Final(e) => task'[e.job] = "ended" /\ tail'[e.job] = "ended")
    BY <1>1 DEF OfTask, Known, Started
  <1> QED
    BY <1>2 DEF OfTask, Known, Started, Runs, Final, loopVars, wireVars

\* A step of the tasks that sends nothing.
LEMMA QuietTask ==
    ASSUME SInv, NEW j \in Job, OfTask(j), UNCHANGED events
    PROVE  EventInv' /\ FinalInv' /\ OutputBeforeResult'
  <1>1. ASSUME NEW i \in DOMAIN events PROVE Known(events[i])'
    <2>1. PICK e : e = events[i]
      OBVIOUS
    <2>2. e.job \in Job /\ Known(e)
      BY <2>1, EventJob DEF SInv, EventInv, Known, Final
    <2>3. Known(e)' /\ e = events'[i]
      BY <2>1, <2>2, KnownStays
    <2> QED
      BY <2>3 DEF Known, Final
  <1>2. EventInv'
    BY <1>1 DEF EventInv
  <1> QED
    BY <1>2 DEF SInv, FinalInv, Final, OutputBeforeResult, OfTask, wireVars

\* A step of the tasks that sends an event.
LEMMA PostingTask ==
    ASSUME SInv, NEW j \in Job, OfTask(j), NEW k \in EventKind, Post(k, j),
           Known(Event(k, j))'
    PROVE  EventInv' /\ FinalInv' /\ OutputBeforeResult'
  <1> DEFINE n == Len(events)
  <1>1. /\ n \in Nat /\ DOMAIN events = 1..n /\ DOMAIN events' = 1..(n + 1)
        /\ events'[n + 1].kind = k /\ events'[n + 1].job = j
        /\ \A i \in DOMAIN events : events'[i] = events[i]
    BY PostFacts DEF SInv
  <1> HIDE DEF n
  <1>2. ASSUME NEW i \in DOMAIN events' PROVE Known(events[i])'
    <2>1. PICK e : e = events'[i]
      OBVIOUS
    <2>2. CASE i = n + 1
      <3>1. e.kind = k /\ e.job = j
        BY <1>1, <2>1, <2>2
      <3>2. Known(e)'
        BY <3>1 DEF Known, Final, Event
      <3> QED
        BY <2>1, <3>2 DEF Known, Final
    <2>3. CASE i # n + 1
      <3>1. i \in DOMAIN events /\ e = events[i]
        BY <1>1, <2>1, <2>3
      <3>2. Known(e) /\ e.job \in Job
        BY <3>1, EventJob DEF SInv, EventInv, Known, Final
      <3>3. Known(e)'
        BY <3>2, KnownStays
      <3> QED
        BY <2>1, <3>3 DEF Known, Final
    <2> QED
      BY <2>2, <2>3
  <1>3. ASSUME NEW i \in DOMAIN events', NEW m \in DOMAIN events', i < m,
               Final(events'[i])
        PROVE  events'[m].job # events'[i].job
    <2>1. i \in DOMAIN events /\ events'[i] = events[i]
      BY <1>1, <1>3
    <2>2. CASE m = n + 1
      BY <1>1, <1>3, <2>1, <2>2 DEF SInv, EventInv, Known, OfTask, Live
    <2>3. CASE m # n + 1
      BY <1>1, <1>3, <2>1, <2>3 DEF SInv, FinalInv
    <2> QED
      BY <2>2, <2>3
  <1>4. OutputBeforeResult'
    <2>1. results' = results /\ results[j] = <<>>
      BY LiveUnanswered DEF OfTask, wireVars
    <2> QED
      BY <1>1, <2>1 DEF SInv, OutputBeforeResult
  <1>5. EventInv'
    BY <1>2 DEF EventInv
  <1>6. FinalInv'
    BY <1>3 DEF FinalInv, Final
  <1> QED
    BY <1>4, <1>5, <1>6

\* The event a task sends when it is through with its command.
LEMMA FinalKnown ==
    ASSUME SInv, NEW j \in Job, NEW k \in {"Done", "Cancelled", "Abort"}, OfTask(j),
           task'[j] = "ended", tail'[j] = "ended",
           k \in {"Cancelled", "Abort"} => j \in told,
           k = "Abort" => mode[j] = "Stateful"
    PROVE  Known(Event(k, j))'
  <1>1. j \in running
    BY LiveUnanswered DEF OfTask
  <1> QED
    BY <1>1 DEF Known, Event, Final, OfTask, Started, loopVars, wireVars

\* The task moves from one step to the next.
LEMMA MoveFacts ==
    ASSUME SInv, NEW j \in Job, NEW from \in TaskPc \ {"none", "ended"},
           NEW to \in TaskPc \ {"none", "watching"}, TaskMoves(j, from, to),
           UNCHANGED <<loopVars, wireVars, inherits>>,
           tail' = tail \/ tail' = [tail EXCEPT ![j] = "ended"]
    PROVE  /\ OfTask(j) /\ task'[j] = to /\ task' \in [Job -> TaskPc]
           /\ task[j] = from /\ tail' \in [Job -> TailPc]
           /\ tail' = tail => tail'[j] = tail[j]
           /\ tail' # tail => tail'[j] = "ended"
           /\ \A i \in Job : task[i] = "none" <=> task'[i] = "none"
  <1>1. task \in [Job -> TaskPc] /\ tail \in [Job -> TailPc]
    BY DEF SInv, TypeOK
  <1>2. task' = [task EXCEPT ![j] = to] /\ IsOpen /\ task[j] = from
    BY DEF TaskMoves
  <1>3. OfTask(j)
    BY <1>1, <1>2 DEF OfTask, Live, Runs, IsOpen, TaskPc
  <1> QED
    BY <1>1, <1>2, <1>3 DEF TailPc, TaskPc

\* What a move of the task does to the parts of the invariant it is not about.
LEMMA MoveKeeps ==
    ASSUME SInv, NEW j \in Job, NEW from \in TaskPc \ {"none", "ended"},
           NEW to \in TaskPc \ {"none", "watching"}, TaskMoves(j, from, to),
           UNCHANGED <<loopVars, wireVars, inherits>>,
           tail' = tail \/ tail' = [tail EXCEPT ![j] = "ended"],
           to \in {"aborting", "ended"} => tail'[j] = "ended", cancelled' \subseteq told,
           to \in {"interrupting", "interrupted", "aborting"} =>
               j \in told /\ mode[j] = "Stateful"
    PROVE  /\ QueueInv' /\ ArrivalInv' /\ ShellInv' /\ ResultInv' /\ InheritInv'
           /\ ToldInv' /\ TaskInv'
  <1>1. /\ OfTask(j) /\ task'[j] = to /\ task[j] = from
        /\ tail' = tail => tail'[j] = tail[j]
        /\ tail' # tail => tail'[j] = "ended"
        /\ \A i \in Job : task[i] = "none" <=> task'[i] = "none"
    BY MoveFacts
  <1>2. QueueInv' /\ ArrivalInv' /\ ShellInv' /\ ResultInv' /\ InheritInv'
    BY <1>1, TaskFrame
  <1>3. told' = told /\ mode' = mode /\ running' = running /\ Runs' = Runs
    BY DEF wireVars, loopVars, Runs
  <1>4. ToldInv'
    BY <1>1, <1>3 DEF SInv, ToldInv, OfTask
  <1>5. j \in running
    BY <1>1, LiveUnanswered DEF OfTask
  <1>6. TaskInv'
    BY <1>1, <1>3, <1>5 DEF SInv, TaskInv, OfTask, Live
  <1> QED
    BY <1>2, <1>4, <1>6

\* A move of the task that writes nothing keeps the bound on the output.
LEMMA MoveQuiet ==
    ASSUME SInv, NEW j \in Job, NEW from \in TaskPc \ {"none", "ended"},
           NEW to \in TaskPc \ {"none", "watching"}, TaskMoves(j, from, to),
           UNCHANGED <<unread, chunks>>
    PROVE  NoticeInv'
  <1>1. /\ task \in [Job -> TaskPc] /\ task' = [task EXCEPT ![j] = to]
        /\ unread \in [Job -> Nat] /\ chunks \in Nat
    BY SessionAssumption DEF SInv, TypeOK, TaskMoves
  <1> QED
    BY <1>1 DEF SInv, NoticeInv

\* Every step of the task of a command.
LEMMA TaskLemma == ASSUME SInv, NEW j \in Job, TaskStep(j) PROVE SInv'
  <1> USE DEF TaskOnly, procVars
  <1> DEFINE Kept == /\ QueueInv' /\ ArrivalInv' /\ ShellInv' /\ ResultInv'
                     /\ InheritInv' /\ ToldInv' /\ TaskInv'
             Chan == EventInv' /\ FinalInv' /\ OutputBeforeResult'
  <1>q. ASSUME Kept, Chan, TypeOK', NoticeInv' PROVE SInv'
    BY <1>q DEF SInv
  <1>t. /\ cancelled \subseteq told /\ told \subseteq Job
        /\ task[j] \in {"interrupting", "interrupted", "aborting"} =>
              j \in told /\ mode[j] = "Stateful"
    BY DEF SInv, ToldInv, TypeOK
  <1>1. CASE ParallelEnds(j) \/ StatefulEnds(j) \/ StatefulCancel(j)
    <2>1. PICK from \in {"watching", "interrupted"}, to \in {"draining", "interrupting"} :
              /\ TaskMoves(j, from, to)
              /\ to = "interrupting" => j \in told /\ mode[j] = "Stateful"
      BY <1>1 DEF ParallelEnds, StatefulEnds, StatefulCancel
    <2>2. /\ UNCHANGED <<loopVars, wireVars, inherits>>
          /\ UNCHANGED <<tail, events, alive, unread, chunks, files, marker>>
          /\ cancelled' = cancelled \/ (j \in told /\ cancelled' = cancelled \cup {j})
      BY <1>1 DEF ParallelEnds, StatefulEnds, StatefulCancel
    <2>3. OfTask(j) /\ task' \in [Job -> TaskPc]
      BY <2>1, <2>2, MoveFacts DEF TaskPc
    <2>4. Kept
      BY <1>t, <2>1, <2>2, MoveKeeps DEF TaskPc
    <2>5. Chan
      BY <2>2, <2>3, QuietTask
    <2>6. NoticeInv'
      BY <2>1, <2>2, MoveQuiet DEF TaskPc
    <2>7. TypeOK'
      BY <2>2, <2>3 DEF SInv, TypeOK, loopVars, wireVars
    <2> QED
      BY <1>q, <2>4, <2>5, <2>6, <2>7
  <1>2. CASE ParallelCancel(j)
    <2>1. TaskMoves(j, "watching", "draining") /\ j \in told
      BY <1>2 DEF ParallelCancel
    <2>2. /\ UNCHANGED <<loopVars, wireVars, inherits>>
          /\ UNCHANGED <<tail, events, chunks, files, marker>>
          /\ cancelled' = cancelled \cup {j} /\ alive' = alive \ {j}
          /\ unread' = [unread EXCEPT ![j] = @ + 1]
      BY <1>2 DEF ParallelCancel
    <2>3. OfTask(j) /\ task' \in [Job -> TaskPc]
      BY <2>1, <2>2, MoveFacts DEF TaskPc
    <2>4. Kept
      BY <1>t, <2>1, <2>2, MoveKeeps DEF TaskPc
    <2>5. Chan
      BY <2>2, <2>3, QuietTask
    <2>6. /\ task \in [Job -> TaskPc] /\ task[j] = "watching"
          /\ task' = [task EXCEPT ![j] = "draining"]
          /\ unread \in [Job -> Nat] /\ chunks \in 0..MaxChunks
      BY <2>1, SessionAssumption DEF SInv, TypeOK, TaskMoves
    <2>7. NoticeInv'
      BY <2>2, <2>6, SessionAssumption DEF SInv, NoticeInv
    <2>8. unread' \in [Job -> 0..(MaxChunks + 1)]
      <3>1. ASSUME NEW i \in Job PROVE unread'[i] \in 0..(MaxChunks + 1)
        BY <2>2, <2>6, <2>7, SessionAssumption DEF NoticeInv
      <3>2. unread' = [i \in Job |-> unread'[i]]
        BY <2>2, <2>6
      <3> QED
        BY <3>1, <3>2
    <2>9. TypeOK'
      BY <2>2, <2>3, <2>8 DEF SInv, TypeOK, loopVars, wireVars
    <2> QED
      BY <1>q, <2>4, <2>5, <2>7, <2>9
  <1>3. CASE SendInterrupt(j)
    <2>1. TaskMoves(j, "interrupting", "interrupted") /\ Post("Interrupt", j)
      BY <1>3 DEF SendInterrupt
    <2>2. /\ UNCHANGED <<loopVars, wireVars, inherits>>
          /\ UNCHANGED <<tail, cancelled, alive, unread, chunks, files, marker>>
      BY <1>3 DEF SendInterrupt
    <2>3. OfTask(j) /\ task' \in [Job -> TaskPc] /\ task[j] = "interrupting"
      BY <2>1, <2>2, MoveFacts DEF TaskPc
    <2>4. Kept
      BY <1>t, <2>1, <2>2, <2>3, MoveKeeps DEF TaskPc
    <2>5. stateful_running = j
      BY <1>t, <2>3, LiveUnanswered DEF OfTask, SInv, ShellInv
    <2>6. Known(Event("Interrupt", j))'
      BY <2>3, <2>5 DEF Known, Event, Final, OfTask, Started, loopVars
    <2>7. Chan
      BY <2>1, <2>3, <2>6, PostingTask DEF EventKind
    <2>8. NoticeInv'
      BY <2>1, <2>2, MoveQuiet DEF TaskPc
    <2>9. events' \in Seq([kind : EventKind, job : Job]) /\ Len(events') <= Capacity
      BY <2>1, PostFacts DEF SInv, EventKind
    <2>10. TypeOK'
      BY <2>2, <2>3, <2>9 DEF SInv, TypeOK, loopVars, wireVars
    <2> QED
      BY <1>q, <2>4, <2>7, <2>8, <2>10
  <1>4. CASE StatefulAbandon(j)
    <2>1. TaskMoves(j, "interrupted", "aborting") /\ tail' = [tail EXCEPT ![j] = "ended"]
      BY <1>4 DEF StatefulAbandon
    <2>2. UNCHANGED <<loopVars, wireVars, inherits, events, cancelled, alive, unread,
                      chunks, files, marker>>
      BY <1>4 DEF StatefulAbandon
    <2>3. /\ OfTask(j) /\ task' \in [Job -> TaskPc] /\ tail' \in [Job -> TailPc]
          /\ task[j] = "interrupted"
      BY <2>1, <2>2, MoveFacts DEF TaskPc
    <2>4. Kept
      BY <1>t, <2>1, <2>2, <2>3, MoveKeeps DEF TaskPc
    <2>5. Chan
      BY <2>2, <2>3, QuietTask
    <2>6. NoticeInv'
      BY <2>1, <2>2, MoveQuiet DEF TaskPc
    <2>7. TypeOK'
      BY <2>2, <2>3 DEF SInv, TypeOK, loopVars, wireVars
    <2> QED
      BY <1>q, <2>4, <2>5, <2>6, <2>7
  <1>5. CASE SendAbort(j) \/ SendReport(j)
    <2>1. PICK from \in {"aborting", "draining"}, k \in {"Done", "Cancelled", "Abort"} :
              /\ TaskMoves(j, from, "ended") /\ Post(k, j)
              /\ k = "Abort" <=> from = "aborting"
              /\ k = "Cancelled" => j \in cancelled
              /\ from = "draining" => tail[j] = "ended"
      BY <1>5 DEF SendAbort, SendReport, Drained
    <2>2. /\ UNCHANGED <<loopVars, wireVars, inherits>>
          /\ UNCHANGED <<tail, alive, unread, chunks, files, marker>>
          /\ cancelled' = cancelled \/ cancelled' = cancelled \ {j}
      BY <1>5 DEF SendAbort, SendReport
    <2>3. OfTask(j) /\ task' \in [Job -> TaskPc] /\ task[j] = from /\ task'[j] = "ended"
      BY <2>1, <2>2, MoveFacts DEF TaskPc
    <2>4. tail'[j] = "ended"
      BY <2>1, <2>2, <2>3 DEF SInv, TypeOK, TaskInv, TailPc
    <2>5. Kept
      BY <1>t, <2>1, <2>2, <2>4, MoveKeeps DEF TaskPc
    <2>6. Known(Event(k, j))'
      BY <1>t, <2>1, <2>3, <2>4, FinalKnown
    <2>7. Chan
      BY <2>1, <2>3, <2>6, PostingTask DEF EventKind
    <2>8. NoticeInv'
      BY <2>1, <2>2, MoveQuiet DEF TaskPc
    <2>9. events' \in Seq([kind : EventKind, job : Job]) /\ Len(events') <= Capacity
      BY <2>1, PostFacts DEF SInv, EventKind
    <2>10. TypeOK'
      BY <2>2, <2>3, <2>9 DEF SInv, TypeOK, loopVars, wireVars
    <2> QED
      BY <1>q, <2>5, <2>7, <2>8, <2>10
  <1> QED
    BY <1>1, <1>2, <1>3, <1>4, <1>5 DEF TaskStep, TaskGoesOn

\* Every step of the tail of a command.
LEMMA TailLemma == ASSUME SInv, NEW j \in Job, TailStep(j) PROVE SInv'
  <1> USE DEF TailOnly, procVars
  <1>1. /\ UNCHANGED <<loopVars, wireVars, inherits>>
        /\ UNCHANGED <<task, cancelled, alive, files, marker, chunks>>
        /\ IsOpen /\ tail[j] \in {"reading", "eof"}
    BY DEF TailStep, TailReads, TailNoise, TailAtEnd, TailLooks
  <1>2. PICK to \in {"reading", "eof", "ended"} : tail' = [tail EXCEPT ![j] = to]
    BY DEF TailStep, TailReads, TailNoise, TailAtEnd, TailLooks
  <1>t. /\ tail \in [Job -> TailPc] /\ unread \in [Job -> 0..(MaxChunks + 1)]
        /\ chunks \in 0..MaxChunks
    BY DEF SInv, TypeOK
  <1>3. tail' \in [Job -> TailPc] /\ tail'[j] = to
    BY <1>2, <1>t DEF TailPc
  <1>4. Live(j) /\ task[j] # "aborting" /\ task[j] # "none" /\ Runs
    BY <1>1 DEF SInv, TaskInv, Live, Runs, IsOpen
  <1>5. OfTask(j)
    BY <1>1, <1>2, <1>4, <1>t DEF OfTask, Live
  <1>6. QueueInv' /\ ArrivalInv' /\ ShellInv' /\ ResultInv' /\ InheritInv'
    BY <1>1, TaskFrame
  <1>7. ToldInv'
    BY <1>1 DEF SInv, ToldInv, wireVars
  <1>8. TaskInv'
    BY <1>1, <1>3, <1>4, <1>5 DEF SInv, TaskInv, OfTask, Live, loopVars, Runs
  <1>9. CASE TailReads(j) \/ TailNoise(j)
    <2>1. /\ Post("Output", j)
          /\ \/ unread' = [unread EXCEPT ![j] = @ - 1] /\ unread[j] > 0
             \/ UNCHANGED unread
      BY <1>9 DEF TailReads, TailNoise
    <2>2. Known(Event("Output", j))'
      BY <1>1, <1>4 DEF Known, Event, Final, Started
    <2>3. EventInv' /\ FinalInv' /\ OutputBeforeResult'
      BY <1>5, <2>1, <2>2, PostingTask DEF EventKind
    <2>4. NoticeInv' /\ unread' \in [Job -> 0..(MaxChunks + 1)]
      BY <1>1, <1>t, <2>1, SessionAssumption DEF SInv, NoticeInv
    <2>5. events' \in Seq([kind : EventKind, job : Job]) /\ Len(events') <= Capacity
      BY <2>1, PostFacts DEF SInv, EventKind
    <2>6. TypeOK'
      BY <1>1, <1>3, <2>4, <2>5 DEF SInv, TypeOK, loopVars, wireVars
    <2> QED
      BY <1>6, <1>7, <1>8, <2>3, <2>4, <2>6 DEF SInv
  <1>10. CASE TailAtEnd(j) \/ TailLooks(j)
    <2>1. UNCHANGED <<events, unread>>
      BY <1>10 DEF TailAtEnd, TailLooks
    <2>2. EventInv' /\ FinalInv' /\ OutputBeforeResult'
      BY <1>5, <2>1, QuietTask
    <2>3. NoticeInv'
      BY <1>1, <2>1 DEF SInv, NoticeInv
    <2>4. TypeOK'
      BY <1>1, <1>3, <2>1 DEF SInv, TypeOK, loopVars, wireVars
    <2> QED
      BY <1>6, <1>7, <1>8, <2>2, <2>3, <2>4 DEF SInv
  <1> QED
    BY <1>9, <1>10 DEF TailStep

-----------------------------------------------------------------------------
(* Starting commands.                                                      *)

\* The set of running commands is finite, and how its size changes.
LEMMA RunningCard ==
    ASSUME TypeOK, NEW j \in Job
    PROVE  /\ Cardinality(running) \in Nat
           /\ j \notin running => Cardinality(running \cup {j}) = Cardinality(running) + 1
           /\ Cardinality(running \ {j}) <= Cardinality(running)
           /\ Cardinality(running \ {j}) \in Nat
  <1>1. IsFiniteSet(Job) /\ running \subseteq Job
    BY SessionAssumption, FS_Interval DEF Job, TypeOK
  <1>2. IsFiniteSet(running)
    BY <1>1, FS_Subset
  <1>3. IsFiniteSet(running \ {j}) /\ Cardinality(running \ {j}) <= Cardinality(running)
    BY <1>2, FS_Subset
  <1> QED
    BY <1>2, <1>3, FS_AddElement, FS_CardinalityType

\* What the queue is after its head has gone.
LEMMA DequeueInv ==
    ASSUME SInv, MayStart, queued' = Tail(queued), received' = received,
           \A i \in Job : task'[i] # "none" => task[i] # "none" \/ i = Head(queued)
    PROVE  /\ QueueInv' /\ Queued' = Queued \ {Head(queued)}
           /\ Head(queued) \in Queued /\ Head(queued) \in Job
           /\ Head(queued) <= received /\ task[Head(queued)] = "none"
           /\ Head(queued) \notin running
           /\ \A s \in Started : s < Head(queued)
  <1> DEFINE h == Head(queued)
             n == Len(queued)
  <1>1. /\ queued \in Seq(Job) /\ h = queued[1] /\ h \in Job /\ n \in Nat \ {0}
        /\ 1 \in DOMAIN queued /\ DOMAIN queued = 1..n /\ DOMAIN queued' = 1..(n - 1)
        /\ \A i \in DOMAIN queued' : i + 1 \in DOMAIN queued /\ queued'[i] = queued[i + 1]
    BY DequeueFacts DEF SInv
  <1>2. /\ \A i, k \in DOMAIN queued : i < k => queued[i] < queued[k]
        /\ \A i \in DOMAIN queued : /\ queued[i] <= received
                                    /\ \A s \in Started : s < queued[i]
    BY DEF SInv, QueueInv
  <1>3. \A i \in DOMAIN queued : queued[i] \in Int
    BY <1>1, SessionAssumption DEF Job
  <1> HIDE DEF h, n
  <1>4. h <= received /\ \A s \in Started : s < h
    BY <1>1, <1>2
  <1>5. task[h] = "none"
    <2>1. ~(h < h)
      BY <1>1, <1>3
    <2> QED
      BY <1>1, <1>4, <2>1 DEF Started
  <1>6. h \notin running
    BY <1>5 DEF SInv, ArrivalInv, Started
  <1>7. \A i \in DOMAIN queued' : h < queued'[i]
    BY <1>1, <1>2
  <1>8. Queued' = Queued \ {h}
    <2>1. ASSUME NEW q \in Queued' PROVE q \in Queued \ {h}
      <3>1. PICK i \in DOMAIN queued' : q = queued'[i]
        BY <2>1 DEF Queued
      <3>2. q = queued[i + 1] /\ i + 1 \in DOMAIN queued /\ h < q /\ h \in Int
        BY <1>1, <1>3, <1>7, <3>1
      <3> QED
        BY <1>3, <3>2 DEF Queued
    <2>2. ASSUME NEW q \in Queued, q # h PROVE q \in Queued'
      <3>1. PICK i \in DOMAIN queued : q = queued[i]
        BY DEF Queued
      <3>2. i # 1 /\ i - 1 \in DOMAIN queued' /\ (i - 1) + 1 = i
        BY <1>1, <2>2, <3>1
      <3>3. queued'[i - 1] = q
        BY <1>1, <3>1, <3>2
      <3> QED
        BY <3>2, <3>3 DEF Queued
    <2> QED
      BY <2>1, <2>2
  <1>9. \A s \in Started' : s \in Started \/ s = h
    BY DEF Started, h
  <1>10. QueueInv'
    <2>1. \A i, k \in DOMAIN queued' : i < k => queued'[i] < queued'[k]
      BY <1>1, <1>2
    <2>2. \A i \in DOMAIN queued' : queued'[i] <= received /\ \A s \in Started' : s < queued'[i]
      BY <1>1, <1>2, <1>7, <1>9
    <2> QED
      BY <2>1, <2>2 DEF QueueInv
  <1> QED
    BY <1>1, <1>4, <1>5, <1>6, <1>8, <1>10 DEF h, Queued

\* A command starts, in parallel or in the shell.
LEMMA StartLemma == ASSUME SInv, StartParallel \/ StartStateful PROVE SInv'
  <1> DEFINE h == Head(queued)
  <1> USE DEF Spawn, loopVars, taskVars, procVars, wireVars
  <1>1. /\ MayStart /\ pc = "scheduling" /\ queued' = Tail(queued) /\ Runs /\ Runs'
        /\ pc' \in {"scheduling", "selecting"} /\ stateful_running = None
        /\ running' = running \cup {h} /\ alive' = alive \cup {h}
        /\ task' = [task EXCEPT ![h] = "watching"] /\ tail' = [tail EXCEPT ![h] = "reading"]
        /\ inherits' = [inherits EXCEPT ![h] = current] /\ completed' \in {FALSE, completed}
        /\ UNCHANGED <<current, events, cancelled, files, marker, unread, chunks,
                       received, mode, told, results>>
    BY DEF StartParallel, StartStateful, MayStart, Runs
  <1>2. \/ mode[h] = "Stateful" /\ stateful_running' = h
        \/ mode[h] = "Parallel" /\ stateful_running' = None
    BY <1>1 DEF StartParallel, StartStateful
  <1> HIDE DEF h
  <1>3. /\ task \in [Job -> TaskPc] /\ tail \in [Job -> TailPc] /\ running \subseteq Job
        /\ inherits \in [Job -> Job \cup {None}] /\ current \in Job \cup {None}
        /\ received \in Nat /\ mode \in [Job -> Mode] /\ None \notin Job
        /\ unread \in [Job -> Nat] /\ chunks \in Nat
    BY SessionAssumption, SMTT(30) DEF SInv, TypeOK, Job, None
  <1>4. \A i \in Job : task'[i] # "none" => task[i] # "none" \/ i = h
    BY <1>1, <1>3
  <1>5. /\ QueueInv' /\ Queued' = Queued \ {h} /\ h \in Queued /\ h \in Job
        /\ h <= received /\ task[h] = "none" /\ h \notin running
        /\ \A s \in Started : s < h
    BY <1>1, <1>4, DequeueInv DEF h
  <1>6. /\ task'[h] = "watching" /\ tail'[h] = "reading" /\ inherits'[h] = current
        /\ \A i \in Job \ {h} : /\ task'[i] = task[i] /\ tail'[i] = tail[i]
                                /\ inherits'[i] = inherits[i]
    BY <1>1, <1>3, <1>5
  <1>7. Started' = Started \cup {h} /\ h \notin Started
    BY <1>5, <1>6 DEF Started
  <1>8. results[h] = <<>>
    BY <1>1, <1>5 DEF SInv, ResultInv
  <1>9. \A i \in Job : HasRun(i)' = HasRun(i)
    BY <1>1, <1>7, <1>8 DEF HasRun
  <1>10. TypeOK'
    <2>1. Cardinality(running') + Len(queued') <= MaxJobs /\ queued' \in Seq(Job)
      <3>1. Cardinality(running) \in Nat /\ Cardinality(running') = Cardinality(running) + 1
        BY <1>1, <1>5, RunningCard DEF SInv
      <3>2. Len(queued) \in Nat /\ Len(queued') = Len(queued) - 1 /\ queued' \in Seq(Job)
        BY <1>1, DequeueFacts DEF SInv
      <3>3. Cardinality(running) + Len(queued) <= MaxJobs
        BY DEF SInv, TypeOK
      <3> QED
        BY <3>1, <3>2, <3>3, SessionAssumption
    <2>2. /\ task' \in [Job -> TaskPc] /\ tail' \in [Job -> TailPc]
          /\ inherits' \in [Job -> Job \cup {None}]
      BY <1>1, <1>3 DEF TaskPc, TailPc
    <2> QED
      BY <1>1, <1>2, <1>5, <2>1, <2>2 DEF SInv, TypeOK, LoopPc
  <1>11. NoticeInv'
    BY <1>1, <1>3, <1>5, <1>6 DEF SInv, NoticeInv
  <1>12. ArrivalInv'
    <2>1. \A j \in Job : j > received => results[j] = <<>> /\ j \notin Started'
      BY <1>3, <1>5, <1>7 DEF SInv, ArrivalInv, Job
    <2>2. running' \subseteq Started'
      BY <1>1, <1>7 DEF SInv, ArrivalInv
    <2>3. ASSUME NEW j \in Job, inherits'[j] # None
          PROVE  inherits'[j] <= received /\ mode[inherits'[j]] = "Stateful"
      BY <1>6, <2>3 DEF SInv, ArrivalInv
    <2> QED
      BY <1>1, <2>1, <2>2, <2>3 DEF SInv, ArrivalInv
  <1>13. ShellInv'
    <2>1. \A j \in Job : j \in running => mode[j] # "Stateful"
      BY <1>1, <1>3 DEF SInv, ShellInv
    <2>2. \A j \in Job : stateful_running' = j <=> j \in running' /\ mode[j] = "Stateful"
      BY <1>1, <1>2, <1>3, <1>5, <2>1
    <2>3. stateful_running' # None => \A s \in Started' : s <= stateful_running'
      BY <1>2, <1>5, <1>7, SessionAssumption DEF Job, Started
    <2> QED
      BY <1>1, <1>9, <2>2, <2>3 DEF SInv, ShellInv
  <1>14. ToldInv' /\ TaskInv'
    BY <1>1, <1>6 DEF SInv, ToldInv, TaskInv, Live
  <1>15. EventInv'
    <2>1. ASSUME NEW i \in DOMAIN events PROVE Known(events[i])'
      <3>1. PICK e : e = events[i]
        OBVIOUS
      <3>2. Known(e) /\ e.job \in Job
        BY <3>1, EventJob DEF SInv, EventInv, Known, Final
      <3>3. e.job # h /\ e.kind # "Interrupt"
        BY <1>1, <1>3, <1>7, <3>2 DEF Known
      <3>4. Known(e)'
        BY <1>1, <1>6, <1>7, <3>2, <3>3 DEF Known, Final
      <3> QED
        BY <1>1, <3>1, <3>4 DEF Known, Final
    <2> QED
      BY <1>1, <2>1 DEF EventInv
  <1>16. FinalInv' /\ OutputBeforeResult'
    BY <1>1 DEF SInv, FinalInv, OutputBeforeResult, Final
  <1>17. ResultInv'
    <2>1. running' \cup Queued' = running \cup Queued
      BY <1>1, <1>5
    <2> QED
      BY <1>1, <2>1 DEF SInv, ResultInv
  <1>18. InheritInv'
    <2>1. ASSUME NEW j \in Started', NEW i \in 1..(j - 1), HasRun(i)'
          PROVE  inherits'[j] >= i
      <3>1. j \in Job /\ i \in Job /\ HasRun(i)
        BY <1>9, <2>1, SessionAssumption DEF Started, Job
      <3>2. CASE j = h
        BY <1>1, <1>6, <3>1, <3>2 DEF SInv, ShellInv
      <3>3. CASE j # h
        BY <1>6, <1>7, <3>1, <3>3 DEF SInv, InheritInv
      <3> QED
        BY <3>2, <3>3
    <2> QED
      BY <2>1 DEF InheritInv
  <1> QED
    BY <1>5, <1>10, <1>11, <1>12, <1>13, <1>14, <1>15, <1>16, <1>17, <1>18 DEF SInv

\* A command that cannot be prepared, or that the shell does not take.
LEMMA StartFails == ASSUME SInv, SetupFails \/ WriteFails PROVE SInv'
  <1> DEFINE h == Head(queued)
  <1> USE DEF loopVars, taskVars, procVars, wireVars
  <1>1. /\ MayStart /\ pc = "scheduling" /\ queued' = Tail(queued) /\ Runs
        /\ UNCHANGED <<running, stateful_running, current, completed, events, task,
                       cancelled, tail, alive, files, marker, unread, chunks, received,
                       mode, told, inherits>>
    BY DEF SetupFails, WriteFails, Runs
  <1>2. \/ pc' = "selecting" /\ results' = [results EXCEPT ![h] = Append(@, "error")]
        \/ pc' = "closing" /\ results' = results
    BY DEF SetupFails, WriteFails, SendsResult, Breaks
  <1> HIDE DEF h
  <1>3. results \in [Job -> Seq(ResultKind)] /\ received \in Nat
    BY SessionAssumption DEF SInv, TypeOK
  <1>4. /\ QueueInv' /\ Queued' = Queued \ {h} /\ h \in Queued /\ h \in Job
        /\ h <= received /\ task[h] = "none" /\ h \notin running
        /\ \A s \in Started : s < h
    BY <1>1, DequeueInv DEF h
  <1>5. results[h] = <<>> /\ h \notin Started /\ Started' = Started
    BY <1>1, <1>4 DEF SInv, ResultInv, Started
  <1>6. /\ results' \in [Job -> Seq(ResultKind)]
        /\ \A i \in Job \ {h} : results'[i] = results[i]
        /\ pc' = "closing" => results'[h] = <<>>
        /\ pc' # "closing" => results'[h] = <<"error">>
    <2>1. Append(<<>>, "error") = <<"error">> /\ <<"error">> \in Seq(ResultKind)
      BY DEF ResultKind
    <2> QED
      BY <1>2, <1>3, <1>4, <1>5, <2>1
  <1>7. \A i \in Job : HasRun(i)' = HasRun(i)
    BY <1>1, <1>5, <1>6 DEF HasRun
  <1>8. TypeOK'
    <2>1. Cardinality(running') + Len(queued') <= MaxJobs /\ queued' \in Seq(Job)
      <3>1. Cardinality(running) \in Nat /\ running' = running
        BY <1>1, <1>4, RunningCard DEF SInv
      <3>2. Len(queued) \in Nat /\ Len(queued') = Len(queued) - 1 /\ queued' \in Seq(Job)
        BY <1>1, DequeueFacts DEF SInv
      <3>3. Cardinality(running) + Len(queued) <= MaxJobs
        BY DEF SInv, TypeOK
      <3> QED
        BY <3>1, <3>2, <3>3, SessionAssumption
    <2> QED
      BY <1>1, <1>2, <1>6, <2>1 DEF SInv, TypeOK, LoopPc
  <1>9. NoticeInv' /\ ToldInv' /\ FinalInv'
    BY <1>1 DEF SInv, NoticeInv, ToldInv, FinalInv, Final
  <1>10. ArrivalInv'
    BY <1>1, <1>3, <1>4, <1>5, <1>6 DEF SInv, ArrivalInv, Job
  <1>11. ShellInv' /\ TaskInv'
    BY <1>1, <1>5, <1>7 DEF SInv, ShellInv, TaskInv, Live
  <1>12. EventInv'
    BY <1>1, <1>5 DEF SInv, EventInv, Known, Final
  <1>13. OutputBeforeResult'
    <2>1. \A i \in DOMAIN events : events[i].job \in Job \ {h}
      BY <1>5, EventJob DEF SInv, EventInv, Known
    <2> QED
      BY <1>1, <1>6, <2>1 DEF SInv, OutputBeforeResult
  <1>14. ResultInv'
    <2>1. ASSUME NEW i \in Job, i # h
          PROVE  /\ Len(results'[i]) <= 1 /\ (results'[i] = <<"cancelled">> => i \in told')
                 /\ Runs' /\ i <= received' =>
                      (results'[i] = <<>> <=> i \in running' \cup Queued')
      BY <1>1, <1>4, <1>6, <2>1 DEF SInv, ResultInv
    <2>2. /\ Len(results'[h]) <= 1 /\ results'[h] # <<"cancelled">>
          /\ Runs' => results'[h] # <<>> /\ h \notin running' \cup Queued'
      <3>1. /\ <<"error">> # <<"cancelled">> /\ <<>> # <<"cancelled">>
            /\ Len(<<"error">>) = 1 /\ Len(<<>>) = 0 /\ <<"error">> # <<>>
        OBVIOUS
      <3>2. h \notin running' \cup Queued'
        BY <1>1, <1>4
      <3>3. CASE pc' = "closing"
        <4>1. ~Runs'
          BY <3>3 DEF Runs
        <4>2. results'[h] = <<>>
          BY <1>6, <3>3
        <4>3. Len(results'[h]) <= 1
          BY <4>2, <3>1
        <4>4. results'[h] # <<"cancelled">>
          BY <4>2, <3>1
        <4> QED
          BY <4>1, <4>3, <4>4
      <3>4. CASE pc' # "closing"
        <4>2. results'[h] = <<"error">>
          BY <1>6, <3>4
        <4>3. Len(results'[h]) <= 1
          BY <4>2, <3>1
        <4>4. results'[h] # <<"cancelled">> /\ results'[h] # <<>>
          BY <4>2, <3>1
        <4> QED
          BY <3>2, <4>3, <4>4
      <3> QED
        BY <3>3, <3>4
    <2> QED
      BY <2>1, <2>2 DEF ResultInv
  <1>15. InheritInv'
    <2>1. \A j \in Started : \A i \in 1..(j - 1) : i \in Job
      BY SessionAssumption DEF Started, Job
    <2> QED
      BY <1>1, <1>5, <1>7, <2>1 DEF SInv, InheritInv
  <1> QED
    BY <1>4, <1>8, <1>9, <1>10, <1>11, <1>12, <1>13, <1>14, <1>15 DEF SInv

-----------------------------------------------------------------------------
(* Events of the tasks.                                                    *)

\* The first Result of a command is sent.
LEMMA SentFacts ==
    ASSUME TypeOK, NEW j \in Job, NEW k \in ResultKind, results[j] = <<>>, SendsResult(j, k)
    PROVE  /\ results' \in [Job -> Seq(ResultKind)]
           /\ results'[j] # <<>> /\ Len(results'[j]) <= 1
           /\ results'[j] = <<"cancelled">> => k = "cancelled"
           /\ \A i \in Job \ {j} : results'[i] = results[i]
  <1>1. results \in [Job -> Seq(ResultKind)]
    BY DEF TypeOK
  <1>2. /\ Append(<<>>, k) = <<k>> /\ <<k>> \in Seq(ResultKind) /\ Len(<<k>>) = 1
        /\ <<k>> # <<>> /\ (<<k>> = <<"cancelled">> => k = "cancelled")
    OBVIOUS
  <1>3. results' = [results EXCEPT ![j] = <<k>>]
    BY <1>1, <1>2 DEF SendsResult
  <1>4. results'[j] = <<k>>
    BY <1>1, <1>3
  <1> QED
    BY <1>1, <1>2, <1>3, <1>4

\* What is known of an event that is taken, and what it leaves in the channel.
LEMMA TakeFacts ==
    ASSUME SInv, NEW k \in EventKind, NEW j \in Job, Receives(k, j)
    PROVE  /\ Known(Event(k, j)) /\ FinalInv' /\ Runs
           /\ events' \in Seq([kind : EventKind, job : Job]) /\ Len(events') <= Capacity
           /\ \A i \in DOMAIN events' : i + 1 \in DOMAIN events /\ events'[i] = events[i + 1]
           /\ Final(Event(k, j)) => \A i \in DOMAIN events' : events'[i].job # j
  <1>1. TypeOK
    BY DEF SInv
  <1>2. /\ events \in Seq([kind : EventKind, job : Job]) /\ 1 \in DOMAIN events
        /\ events' \in Seq([kind : EventKind, job : Job])
        /\ Len(events') = Len(events) - 1 /\ Len(events) \in Nat
        /\ DOMAIN events = 1..Len(events) /\ DOMAIN events' = 1..(Len(events) - 1)
        /\ events[1].kind = k /\ events[1].job = j
        /\ \A i \in DOMAIN events' : i + 1 \in DOMAIN events /\ events'[i] = events[i + 1]
    BY <1>1, ReceiveFacts
  <1>3. Known(Event(k, j))
    BY <1>2 DEF SInv, EventInv, Known, Event, Final
  <1>4. Len(events') <= Capacity
    BY <1>1, <1>2, SessionAssumption DEF TypeOK
  <1>5. \A i, m \in DOMAIN events : i < m /\ Final(events[i]) => events[m].job # events[i].job
    BY DEF SInv, FinalInv
  <1>6. FinalInv'
    <2>1. ASSUME NEW i \in DOMAIN events', NEW m \in DOMAIN events', i < m,
                 Final(events'[i])
          PROVE  events'[m].job # events'[i].job
      <3>1. i + 1 < m + 1
        BY <1>2, <2>1
      <3> QED
        BY <1>2, <1>5, <2>1, <3>1, SMTT(30)
    <2> QED
      BY <2>1 DEF FinalInv, Final
  <1>7. Final(Event(k, j)) => \A i \in DOMAIN events' : events'[i].job # j
    <2>1. ASSUME Final(Event(k, j)), NEW i \in DOMAIN events' PROVE events'[i].job # j
      <3>1. 1 < i + 1 /\ Final(events[1])
        BY <1>2, <2>1 DEF Final, Event
      <3> QED
        BY <1>2, <1>5, <3>1
    <2> QED
      BY <2>1
  <1> QED
    BY <1>2, <1>3, <1>4, <1>6, <1>7 DEF Receives, Runs

\* Output is forwarded, or an interrupt written to the shell.
LEMMA ForwardLemma ==
    ASSUME SInv, NEW j \in Job, HandleOutput(j) \/ HandleInterrupt(j)
    PROVE  SInv'
  <1> USE DEF loopVars, taskVars, procVars, wireVars
  <1>1. PICK k \in {"Output", "Interrupt"} : Receives(k, j)
    BY DEF HandleOutput, HandleInterrupt
  <1>2. /\ pc' \in {"scheduling", "closing"} /\ marker' \in {marker, None}
        /\ UNCHANGED <<running, queued, stateful_running, current, completed, task,
                       cancelled, tail, alive, files, unread, chunks, received, mode,
                       told, results, inherits>>
    BY DEF HandleOutput, HandleInterrupt, Loops, Breaks
  <1>3. /\ FinalInv' /\ Runs
        /\ events' \in Seq([kind : EventKind, job : Job]) /\ Len(events') <= Capacity
        /\ \A i \in DOMAIN events' : i + 1 \in DOMAIN events /\ events'[i] = events[i + 1]
    BY <1>1, TakeFacts DEF EventKind
  <1>4. TypeOK'
    BY <1>2, <1>3 DEF SInv, TypeOK, LoopPc
  <1>5. /\ Started' = Started /\ Queued' = Queued
        /\ \A i \in Job : HasRun(i)' = HasRun(i)
    BY <1>2 DEF Started, Queued, HasRun
  <1>6. NoticeInv' /\ QueueInv' /\ ArrivalInv' /\ ToldInv'
    BY <1>2, <1>5 DEF SInv, NoticeInv, QueueInv, ArrivalInv, ToldInv
  <1>7. ShellInv' /\ TaskInv' /\ ResultInv'
    BY <1>2, <1>3, <1>5 DEF SInv, ShellInv, TaskInv, ResultInv, Live
  <1>8. InheritInv'
    <2>1. \A x \in Started : \A i \in 1..(x - 1) : i \in Job
      BY SessionAssumption DEF Started, Job
    <2> QED
      BY <1>2, <1>5, <2>1 DEF SInv, InheritInv
  <1>9. EventInv'
    <2>1. ASSUME NEW i \in DOMAIN events' PROVE Known(events[i])'
      <3>1. Known(events[i + 1]) /\ events'[i] = events[i + 1]
        BY <1>3 DEF SInv, EventInv
      <3> QED
        BY <1>2, <1>3, <1>5, <3>1 DEF Known, Final
    <2> QED
      BY <2>1 DEF EventInv
  <1>10. OutputBeforeResult'
    BY <1>2, <1>3 DEF SInv, OutputBeforeResult
  <1> QED
    BY <1>3, <1>4, <1>6, <1>7, <1>8, <1>9, <1>10 DEF SInv

\* What is known of a command whose last event is taken.
LEMMA LastFacts ==
    ASSUME SInv, NEW k \in {"Done", "Cancelled", "Abort"}, NEW j \in Job, Receives(k, j)
    PROVE  /\ j \in running /\ results[j] = <<>> /\ j <= received /\ j \in Started
           /\ task[j] = "ended" /\ tail[j] = "ended"
           /\ k # "Done" => j \in told
           /\ mode[j] = "Stateful" <=> stateful_running = j
           /\ k = "Abort" => stateful_running = j
           /\ stateful_running = j => \A s \in Started : s <= j
           /\ j \notin Queued
  <1>1. Known(Event(k, j)) /\ Runs
    BY TakeFacts DEF EventKind
  <1>2. /\ j \in running /\ j \in Started /\ task[j] = "ended" /\ tail[j] = "ended"
        /\ k # "Done" => j \in told
        /\ k = "Abort" => mode[j] = "Stateful"
    BY <1>1 DEF Known, Event, Final
  <1>3. j <= received
    BY <1>2, SessionAssumption DEF SInv, ArrivalInv, TypeOK, Job
  <1>4. results[j] = <<>>
    BY <1>1, <1>2, <1>3 DEF SInv, ResultInv
  <1>5. mode[j] = "Stateful" <=> stateful_running = j
    BY <1>1, <1>2 DEF SInv, ShellInv
  <1>6. stateful_running = j => \A s \in Started : s <= j
    BY SessionAssumption DEF SInv, ShellInv, Job, None
  <1>7. j \notin Queued
    <2>1. \A i \in DOMAIN queued : j < queued[i]
      BY <1>2 DEF SInv, QueueInv
    <2>2. ~(j < j)
      BY SessionAssumption DEF Job
    <2> QED
      BY <2>1, <2>2 DEF Queued
  <1> QED
    BY <1>2, <1>3, <1>4, <1>5, <1>6, <1>7

\* The last event of a command is taken, and what the other commands' events say
\* still holds.
LEMMA LastEvents ==
    ASSUME SInv, NEW k \in {"Done", "Cancelled", "Abort"}, NEW j \in Job, Receives(k, j),
           UNCHANGED <<task, tail, told, mode>>,
           Runs' => Runs /\ running' = running \ {j}
                    /\ (stateful_running # j => stateful_running' = stateful_running),
           \A i \in Job \ {j} : results'[i] = results[i]
    PROVE  EventInv' /\ FinalInv' /\ OutputBeforeResult'
  <1>1. /\ FinalInv'
        /\ \A i \in DOMAIN events' : i + 1 \in DOMAIN events /\ events'[i] = events[i + 1]
        /\ \A i \in DOMAIN events' : events'[i].job # j
    BY TakeFacts DEF EventKind, Final, Event
  <1>2. ASSUME NEW i \in DOMAIN events' PROVE Known(events[i])'
    <2>1. Known(events[i + 1]) /\ events'[i] = events[i + 1] /\ events'[i].job # j
      BY <1>1 DEF SInv, EventInv
    <2> QED
      BY <2>1 DEF Known, Final, Started
  <1>3. EventInv'
    BY <1>2 DEF EventInv
  <1>4. ASSUME NEW i \in DOMAIN events', events'[i].kind = "Output"
        PROVE  results'[events'[i].job] = <<>>
    <2>1. i + 1 \in DOMAIN events /\ events'[i] = events[i + 1] /\ events[i + 1].job # j
      BY <1>1
    <2>2. events[i + 1].job \in Job
      BY <2>1, EventJob DEF SInv
    <2> QED
      BY <1>4, <2>1, <2>2 DEF SInv, OutputBeforeResult
  <1> QED
    BY <1>1, <1>3, <1>4 DEF OutputBeforeResult

\* The session ends with a command that did not stop, or whose state is lost.
LEMMA AbortLemma ==
    ASSUME SInv, NEW j \in Job,
           HandleAbort(j) \/ \E k \in {"Done", "Cancelled"} : StateUnreadable(j, k)
    PROVE  SInv'
  <1> USE DEF loopVars, taskVars, procVars, wireVars
  <1>1. PICK k \in {"Done", "Cancelled", "Abort"}, r \in {"cancelled", "error"} :
            /\ Receives(k, j) /\ SendsResult(j, r)
            /\ r = "cancelled" => k = "Abort"
            /\ k # "Abort" => stateful_running = j
    BY DEF HandleAbort, StateUnreadable
  <1>2. /\ pc' = "closing" /\ ~Runs'
        /\ UNCHANGED <<running, queued, stateful_running, current, completed, task,
                       cancelled, tail, alive, files, marker, unread, chunks, received,
                       mode, told, inherits>>
    BY DEF HandleAbort, StateUnreadable, Breaks, Runs
  <1>3. /\ results[j] = <<>> /\ j <= received /\ j \in Started /\ stateful_running = j
        /\ \A s \in Started : s <= j
        /\ r = "cancelled" => j \in told
    BY <1>1, LastFacts
  <1>4. /\ results' \in [Job -> Seq(ResultKind)]
        /\ results'[j] # <<>> /\ Len(results'[j]) <= 1
        /\ results'[j] = <<"cancelled">> => r = "cancelled"
        /\ \A i \in Job \ {j} : results'[i] = results[i]
    BY <1>1, <1>3, SentFacts DEF SInv, ResultKind
  <1>5. EventInv' /\ FinalInv' /\ OutputBeforeResult'
    BY <1>1, <1>2, <1>4, LastEvents
  <1>6. events' \in Seq([kind : EventKind, job : Job]) /\ Len(events') <= Capacity
    BY <1>1, TakeFacts DEF EventKind
  <1>7. TypeOK'
    BY <1>2, <1>4, <1>6 DEF SInv, TypeOK, LoopPc
  <1>8. Started' = Started /\ \A i \in Job \ {j} : HasRun(i)' = HasRun(i)
    BY <1>2, <1>4 DEF Started, HasRun
  <1>9. NoticeInv' /\ QueueInv' /\ ToldInv'
    BY <1>2, <1>8 DEF SInv, NoticeInv, QueueInv, ToldInv
  <1>10. ArrivalInv'
    <2>1. ~(j > received)
      BY <1>3, SessionAssumption DEF SInv, TypeOK, Job
    <2> QED
      BY <1>2, <1>4, <1>8, <2>1 DEF SInv, ArrivalInv
  <1>11. ShellInv' /\ TaskInv'
    BY <1>2, <1>8 DEF SInv, ShellInv, TaskInv, Live
  <1>12. ResultInv'
    BY <1>2, <1>3, <1>4 DEF SInv, ResultInv
  <1>13. InheritInv'
    <2>1. ASSUME NEW x \in Started, NEW i \in 1..(x - 1) PROVE i \in Job \ {j}
      BY <1>3, SessionAssumption DEF Started, Job
    <2> QED
      BY <1>2, <1>8, <2>1 DEF SInv, InheritInv
  <1> QED
    BY <1>5, <1>7, <1>9, <1>10, <1>11, <1>12, <1>13 DEF SInv

\* A command is done: its entry goes, and the shell's state is taken over.
LEMMA ResultLemma ==
    ASSUME SInv, NEW j \in Job, NEW k \in {"Done", "Cancelled"}, HandleResult(j, k)
    PROVE  SInv'
  <1> USE DEF loopVars, taskVars, procVars, wireVars
  <1>1. /\ Receives(k, j) /\ running' = running \ {j}
        /\ files' = [files EXCEPT ![j] = "none"]
        /\ UNCHANGED <<queued, completed, task, cancelled, tail, alive, marker, unread,
                       chunks, received, mode, told, inherits>>
    BY DEF HandleResult
  <1>2. /\ j = stateful_running => current' = j /\ stateful_running' = None
        /\ j # stateful_running => current' = current /\ stateful_running' = stateful_running
    BY DEF HandleResult
  <1>3. \/ /\ pc' = "scheduling"
           /\ SendsResult(j, IF k = "Cancelled" THEN "cancelled" ELSE "done")
        \/ pc' = "closing" /\ results' = results
    BY DEF HandleResult, Loops, Breaks
  <1>4. /\ j \in running /\ results[j] = <<>> /\ j <= received /\ j \in Started
        /\ task[j] = "ended" /\ tail[j] = "ended" /\ (k = "Cancelled" => j \in told)
        /\ mode[j] = "Stateful" <=> stateful_running = j
        /\ stateful_running = j => \A s \in Started : s <= j
        /\ j \notin Queued
    BY <1>1, LastFacts
  <1>5. /\ results' \in [Job -> Seq(ResultKind)] /\ Len(results'[j]) <= 1
        /\ \A i \in Job \ {j} : results'[i] = results[i]
        /\ Runs' => results'[j] # <<>>
        /\ results'[j] = <<"cancelled">> => j \in told
    <2>1. CASE pc' = "scheduling"
      BY <1>3, <1>4, <2>1, SentFacts DEF SInv, ResultKind
    <2>2. CASE pc' = "closing"
      <3>1. results' = results /\ <<>> # <<"cancelled">> /\ Len(<<>>) = 0
        BY <1>3, <2>2
      <3>2. results'[j] = <<>> /\ Len(results'[j]) <= 1 /\ results'[j] # <<"cancelled">>
        BY <1>4, <3>1
      <3> QED
        BY <2>2, <3>1, <3>2 DEF SInv, TypeOK, Runs
    <2> QED
      BY <1>3, <2>1, <2>2
  <1>6. Runs
    BY <1>1, TakeFacts DEF EventKind
  <1>7. EventInv' /\ FinalInv' /\ OutputBeforeResult'
    BY <1>1, <1>2, <1>5, <1>6, LastEvents
  <1>8. events' \in Seq([kind : EventKind, job : Job]) /\ Len(events') <= Capacity
    BY <1>1, TakeFacts DEF EventKind
  <1>9. TypeOK'
    <2>1. Cardinality(running') + Len(queued') <= MaxJobs
      <3>1. /\ Cardinality(running) \in Nat /\ Cardinality(running') <= Cardinality(running)
            /\ Cardinality(running') \in Nat
        BY <1>1, RunningCard DEF SInv
      <3>2. Len(queued') \in Nat /\ Cardinality(running) + Len(queued') <= MaxJobs
        BY <1>1 DEF SInv, TypeOK
      <3> QED
        BY <3>1, <3>2, SessionAssumption
    <2>2. files' \in [Job -> Files] /\ pc' \in LoopPc
      BY <1>1, <1>3 DEF SInv, TypeOK, Files, LoopPc
    <2>3. stateful_running' \in Job \cup {None} /\ current' \in Job \cup {None}
      BY <1>2 DEF SInv, TypeOK
    <2> QED
      BY <1>1, <1>5, <1>8, <2>1, <2>2, <2>3 DEF SInv, TypeOK
  <1>10. /\ Started' = Started /\ Queued' = Queued
         /\ \A i \in Job \ {j} : HasRun(i)' = HasRun(i)
    BY <1>1, <1>5 DEF Started, Queued, HasRun
  <1>11. NoticeInv' /\ QueueInv' /\ ToldInv'
    BY <1>1, <1>10 DEF SInv, NoticeInv, QueueInv, ToldInv
  <1>12. ArrivalInv'
    <2>1. \A i \in Job : i > received => i # j
      BY <1>4, SessionAssumption DEF SInv, TypeOK, Job
    <2>2. \A i \in Job : i > received => results'[i] = <<>> /\ i \notin Started'
      BY <1>5, <1>10, <2>1 DEF SInv, ArrivalInv
    <2>3. current' # None => current' <= received /\ mode[current'] = "Stateful"
      BY <1>2, <1>4 DEF SInv, ArrivalInv
    <2> QED
      BY <1>1, <1>10, <2>2, <2>3 DEF SInv, ArrivalInv
  <1>13. ShellInv'
    <2>1. None \notin Job
      BY SessionAssumption DEF Job, None
    <2>2. \A i \in Job : stateful_running' = i <=> i \in running' /\ mode[i] = "Stateful"
      BY <1>1, <1>2, <1>4, <1>6, <2>1 DEF SInv, ShellInv
    <2>3. stateful_running' # None => \A s \in Started : s <= stateful_running'
      BY <1>2 DEF SInv, ShellInv
    <2>4. ASSUME NEW i \in Job, HasRun(i)' PROVE current' >= i
      <3>1. i \in Started /\ mode[i] = "Stateful"
        BY <1>1, <1>10, <2>4 DEF HasRun
      <3>2. CASE j = stateful_running
        BY <1>2, <1>4, <3>1, <3>2, SessionAssumption DEF Job
      <3>3. CASE j # stateful_running
        BY <1>2, <1>4, <1>6, <1>10, <2>4, <3>1, <3>3 DEF SInv, ShellInv
      <3> QED
        BY <3>2, <3>3
    <2> QED
      BY <1>1, <1>10, <2>2, <2>3, <2>4 DEF ShellInv
  <1>14. TaskInv'
    BY <1>1, <1>4, <1>6 DEF SInv, TaskInv, Live
  <1>15. ResultInv'
    <2>1. ASSUME NEW i \in Job, i # j
          PROVE  /\ Len(results'[i]) <= 1 /\ (results'[i] = <<"cancelled">> => i \in told')
                 /\ Runs' /\ i <= received' =>
                      (results'[i] = <<>> <=> i \in running' \cup Queued')
      BY <1>1, <1>5, <1>6, <1>10, <2>1 DEF SInv, ResultInv
    <2>2. j \notin running' \cup Queued'
      BY <1>1, <1>4, <1>10
    <2> QED
      BY <1>1, <1>5, <2>1, <2>2 DEF ResultInv
  <1>16. InheritInv'
    <2>1. ASSUME NEW x \in Started, NEW i \in 1..(x - 1), HasRun(i)'
          PROVE  HasRun(i) /\ i \in Job
      <3>1. i \in Job /\ x \in Job /\ i < x
        BY SessionAssumption DEF Started, Job
      <3>2. CASE i = j
        <4>1. mode[j] = "Stateful"
          BY <1>1, <2>1, <3>2 DEF HasRun
        <4> QED
          BY <1>4, <3>1, <3>2, <4>1, SessionAssumption DEF Job
      <3> QED
        BY <1>10, <2>1, <3>1, <3>2
    <2> QED
      BY <1>1, <1>10, <2>1 DEF SInv, InheritInv
  <1> QED
    BY <1>7, <1>9, <1>11, <1>12, <1>13, <1>14, <1>15, <1>16 DEF SInv

-----------------------------------------------------------------------------
(* Frames from the server, and the end of the session.                     *)

\* A command arrives: it waits, or is refused.
LEMMA RunLemma == ASSUME SInv, NEW m \in Mode, ReceiveRun(m) PROVE SInv'
  <1> DEFINE j == received + 1
  <1> USE DEF loopVars, taskVars, procVars, wireVars
  <1>1. /\ pc = "selecting" /\ pc' = "scheduling" /\ j \in Job /\ received' = j
        /\ mode' = [mode EXCEPT ![j] = m] /\ Runs /\ Runs'
        /\ UNCHANGED <<running, stateful_running, current, completed, events, task,
                       cancelled, tail, alive, files, marker, unread, chunks, told,
                       inherits>>
    BY DEF ReceiveRun, Loops, Runs
  <1>2. \/ SendsResult(j, "error") /\ queued' = queued /\ Rejects(j)
        \/ queued' = Append(queued, j) /\ results' = results /\ ~Rejects(j)
    BY DEF ReceiveRun
  <1>3. /\ received \in Nat /\ j > received /\ mode \in [Job -> Mode]
        /\ queued \in Seq(Job) /\ results \in [Job -> Seq(ResultKind)]
        /\ running \subseteq Job /\ Job \subseteq Nat
    BY SessionAssumption DEF SInv, TypeOK, Job
  <1>4. received' = j /\ j = received + 1
    BY <1>1
  <1> HIDE DEF j
  <1>5. results[j] = <<>> /\ j \notin Started /\ j \notin running
    BY <1>1, <1>3 DEF SInv, ArrivalInv
  <1>6. \A i \in Job : i \in Started => i <= received
    BY <1>3 DEF SInv, ArrivalInv
  <1>7. \A i \in DOMAIN queued : queued[i] <= received /\ queued[i] \in Job
    BY <1>3 DEF SInv, QueueInv
  <1>8. j \notin Queued
    BY <1>1, <1>3, <1>7 DEF Queued
  <1>9. Started' = Started /\ mode'[j] = m /\ \A i \in Job \ {j} : mode'[i] = mode[i]
    BY <1>1, <1>3 DEF Started
  <1>10. /\ results' \in [Job -> Seq(ResultKind)] /\ Len(results'[j]) <= 1
         /\ \A i \in Job \ {j} : results'[i] = results[i]
         /\ results'[j] # <<"cancelled">>
         /\ queued' \in Seq(Job)
         /\ Queued' = IF results'[j] = <<>> THEN Queued \cup {j} ELSE Queued
    <2>1. CASE SendsResult(j, "error") /\ queued' = queued
      BY <1>1, <1>3, <1>5, <2>1, SentFacts DEF SInv, ResultKind, Queued
    <2>2. CASE queued' = Append(queued, j) /\ results' = results
      <3>1. /\ queued' \in Seq(Job) /\ Len(queued) \in Nat /\ DOMAIN queued = 1..Len(queued)
            /\ DOMAIN queued' = 1..(Len(queued) + 1) /\ queued'[Len(queued) + 1] = j
            /\ \A i \in DOMAIN queued : i \in DOMAIN queued' /\ queued'[i] = queued[i]
        BY <1>1, <1>3, <2>2, AppendFacts
      <3>2. ASSUME NEW q PROVE q \in Queued' <=> q \in Queued \cup {j}
        BY <3>1 DEF Queued
      <3>3. Queued' = Queued \cup {j}
        BY <3>2
      <3>4. <<>> # <<"cancelled">> /\ Len(<<>>) = 0
        OBVIOUS
      <3>5. Len(results'[j]) <= 1 /\ results'[j] # <<"cancelled">>
        BY <1>5, <2>2, <3>4
      <3> QED
        BY <1>3, <1>5, <2>2, <3>1, <3>3, <3>5
    <2> QED
      BY <1>2, <2>1, <2>2
  <1>11. TypeOK'
    <2>1. Cardinality(running) + Len(queued') <= MaxJobs
      <3>1. CASE queued' = queued
        BY <3>1 DEF SInv, TypeOK
      <3>2. CASE queued' = Append(queued, j) /\ ~Rejects(j)
        <4>1. Cardinality(running) \in Nat /\ Len(queued) \in Nat
          <5>1. Cardinality(running) \in Nat
            BY <1>1, RunningCard DEF SInv
          <5> QED
            BY <1>3, <5>1
        <4>2. Len(queued') = Len(queued) + 1
          BY <1>1, <1>3, <3>2, AppendFacts
        <4>3. ~(Cardinality(running) + Len(queued) >= MaxJobs)
          BY <3>2 DEF Rejects
        <4> QED
          BY <4>1, <4>2, <4>3, SessionAssumption
      <3> QED
        BY <1>2, <3>1, <3>2
    <2>2. mode' \in [Job -> Mode] /\ received' \in 0..Commands
      BY <1>1, <1>3, SessionAssumption DEF Job
    <2> QED
      BY <1>1, <1>10, <2>1, <2>2 DEF SInv, TypeOK, LoopPc
  <1>12. NoticeInv'
    BY <1>1 DEF SInv, NoticeInv
  <1>13. QueueInv'
    <2>1. CASE queued' = queued
      BY <1>3, <1>4, <1>7, <1>9, <2>1 DEF SInv, QueueInv
    <2>2. CASE queued' = Append(queued, j)
      <3>1. /\ Len(queued) \in Nat /\ DOMAIN queued = 1..Len(queued)
            /\ DOMAIN queued' = 1..(Len(queued) + 1) /\ queued'[Len(queued) + 1] = j
            /\ \A i \in DOMAIN queued : i \in DOMAIN queued' /\ queued'[i] = queued[i]
        BY <1>1, <1>3, <2>2, AppendFacts
      <3>2. ASSUME NEW i \in DOMAIN queued', NEW k \in DOMAIN queued', i < k
            PROVE  queued'[i] < queued'[k]
        <4>1. i \in DOMAIN queued /\ queued'[i] = queued[i]
          BY <3>1, <3>2
        <4>2. CASE k = Len(queued) + 1
          BY <1>3, <1>4, <1>7, <3>1, <4>1, <4>2
        <4>3. CASE k # Len(queued) + 1
          BY <3>1, <3>2, <4>1, <4>3 DEF SInv, QueueInv
        <4> QED
          BY <4>2, <4>3
      <3>3. ASSUME NEW i \in DOMAIN queued'
            PROVE  queued'[i] <= received' /\ \A s \in Started' : s < queued'[i]
        <4>1. CASE i = Len(queued) + 1
          BY <1>1, <1>3, <1>4, <1>6, <1>9, <3>1, <4>1 DEF Started
        <4>2. CASE i # Len(queued) + 1
          <5>1. i \in DOMAIN queued /\ queued'[i] = queued[i]
            BY <3>1, <4>2
          <5>2. \A s \in Started : s < queued[i]
            BY <5>1 DEF SInv, QueueInv
          <5>3. queued[i] <= received'
            <6>1. queued[i] \in Nat /\ queued[i] <= received
              BY <1>3, <1>7, <5>1
            <6> QED
              BY <1>3, <1>4, <6>1
          <5> QED
            BY <1>9, <5>1, <5>2, <5>3
        <4> QED
          BY <4>1, <4>2
      <3> QED
        BY <3>2, <3>3 DEF QueueInv
    <2> QED
      BY <1>2, <2>1, <2>2
  <1>14. ArrivalInv'
    <2>1. \A i \in Job : i > received' => i > received /\ i # j
      BY <1>3, <1>4
    <2>2. current # None => current \in Job /\ current # j /\ current <= received'
      BY <1>3, <1>4 DEF SInv, ArrivalInv, TypeOK
    <2>3. \A i \in Job : inherits[i] # None =>
              inherits[i] \in Job /\ inherits[i] # j /\ inherits[i] <= received'
      <3>1. ASSUME NEW i \in Job, inherits[i] # None
            PROVE  inherits[i] \in Job /\ inherits[i] <= received
        BY <3>1 DEF SInv, ArrivalInv, TypeOK
      <3>2. ASSUME NEW i \in Job, inherits[i] # None
            PROVE  inherits[i] # j /\ inherits[i] <= received'
        <4>1. inherits[i] \in Nat /\ inherits[i] <= received
          BY <1>3, <3>1, <3>2
        <4> QED
          BY <1>3, <1>4, <4>1
      <3> QED
        BY <3>1, <3>2
    <2> QED
      BY <1>1, <1>9, <1>10, <2>1, <2>2, <2>3 DEF SInv, ArrivalInv
  <1>15. \A i \in Job : HasRun(i)' = HasRun(i)
    BY <1>5, <1>9, <1>10 DEF HasRun
  <1>16. ShellInv'
    <2>1. \A i \in Job : stateful_running = i <=> i \in running /\ mode'[i] = "Stateful"
      BY <1>1, <1>5, <1>9 DEF SInv, ShellInv
    <2> QED
      BY <1>1, <1>9, <1>15, <2>1 DEF SInv, ShellInv
  <1>17. ToldInv' /\ TaskInv'
    BY <1>1, <1>5, <1>9 DEF SInv, ToldInv, TaskInv, Live, Started
  <1>18. EventInv' /\ OutputBeforeResult'
    <2>1. \A i \in DOMAIN events : events[i].job \in Job \ {j}
      BY <1>5, EventJob DEF SInv, EventInv, Known
    <2>2. OutputBeforeResult'
      BY <1>1, <1>10, <2>1 DEF SInv, OutputBeforeResult
    <2>3. ASSUME NEW i \in DOMAIN events PROVE Known(events[i])'
      <3>1. Known(events[i]) /\ events[i].job # j /\ events[i].job \in Job
        BY <2>1 DEF SInv, EventInv
      <3> QED
        BY <1>1, <1>9, <3>1 DEF Known, Final
    <2> QED
      BY <1>1, <2>2, <2>3 DEF EventInv
  <1>19. FinalInv'
    BY <1>1 DEF SInv, FinalInv, Final
  <1>20. ResultInv'
    <2>1. ASSUME NEW i \in Job, i # j
          PROVE  /\ Len(results'[i]) <= 1 /\ (results'[i] = <<"cancelled">> => i \in told')
                 /\ Runs' /\ i <= received' =>
                      (results'[i] = <<>> <=> i \in running' \cup Queued')
      <3>1. i <= received' => i <= received
        BY <1>3, <1>4, <2>1
      <3>2. i \in Queued' <=> i \in Queued
        BY <1>10, <2>1
      <3> QED
        BY <1>1, <1>10, <2>1, <3>1, <3>2 DEF SInv, ResultInv
    <2>2. results'[j] = <<>> <=> j \in running' \cup Queued'
      BY <1>1, <1>5, <1>8, <1>10
    <2> QED
      BY <1>10, <2>1, <2>2 DEF ResultInv
  <1>21. InheritInv'
    <2>1. \A x \in Started : \A i \in 1..(x - 1) : i \in Job
      BY SessionAssumption DEF Started, Job
    <2> QED
      BY <1>1, <1>9, <1>15, <2>1 DEF SInv, InheritInv
  <1> QED
    BY <1>11, <1>12, <1>13, <1>14, <1>16, <1>17, <1>18, <1>19, <1>20, <1>21 DEF SInv

\* A cancel reaches a running command, whose task will see it.
LEMMA CancelRunning ==
    ASSUME SInv, NEW j \in Job, pc = "selecting", pc' = "scheduling",
           told' = told \cup {j},
           UNCHANGED <<queued, results, running, stateful_running, current, completed,
                       events, taskVars, procVars, received, mode, inherits>>
    PROVE  SInv'
  <1> USE DEF taskVars, procVars
  <1>1. /\ Started' = Started /\ Queued' = Queued /\ Runs /\ Runs'
        /\ \A i \in Job : HasRun(i)' = HasRun(i)
    BY DEF Started, Queued, Runs, HasRun
  <1>2. TypeOK'
    BY DEF SInv, TypeOK, LoopPc
  <1>3. NoticeInv' /\ QueueInv' /\ ArrivalInv' /\ ShellInv'
    BY <1>1 DEF SInv, NoticeInv, QueueInv, ArrivalInv, ShellInv
  <1>4. ToldInv' /\ TaskInv' /\ FinalInv' /\ OutputBeforeResult'
    BY <1>1 DEF SInv, ToldInv, TaskInv, FinalInv, OutputBeforeResult, Live, Final
  <1>5. EventInv'
    BY <1>1 DEF SInv, EventInv, Known, Final
  <1>6. ResultInv'
    BY <1>1 DEF SInv, ResultInv
  <1>7. InheritInv'
    <2>1. \A x \in Started : \A i \in 1..(x - 1) : i \in Job
      BY SessionAssumption DEF Started, Job
    <2> QED
      BY <1>1, <2>1 DEF SInv, InheritInv
  <1> QED
    BY <1>2, <1>3, <1>4, <1>5, <1>6, <1>7 DEF SInv

\* A cancel reaches a waiting command, which is taken out of the queue.
LEMMA CancelQueued ==
    ASSUME SInv, NEW j \in Job, j \in Queued, pc = "selecting", pc' = "scheduling",
           queued' = Unqueue(j), SendsResult(j, "cancelled"), told' = told \cup {j},
           UNCHANGED <<running, stateful_running, current, completed, events, taskVars,
                       procVars, received, mode, inherits>>
    PROVE  SInv'
  <1> USE DEF taskVars, procVars
  <1>1. Runs /\ Runs'
    BY DEF Runs
  <1>2. PICK pos \in DOMAIN queued :
           /\ queued[pos] = j /\ queued \in Seq(Job) /\ Len(queued) \in Nat
           /\ queued' \in Seq(Job) /\ Len(queued') = Len(queued) - 1
           /\ DOMAIN queued = 1..Len(queued) /\ DOMAIN queued' = 1..(Len(queued) - 1)
           /\ \A i \in DOMAIN queued' :
                 queued'[i] = IF i < pos THEN queued[i] ELSE queued[i + 1]
    BY UnqueueFacts DEF SInv
  <1>3. /\ \A i, k \in DOMAIN queued : i < k => queued[i] < queued[k]
        /\ \A i \in DOMAIN queued : /\ queued[i] <= received
                                    /\ \A s \in Started : s < queued[i]
    BY DEF SInv, QueueInv
  <1>4. \A i \in DOMAIN queued : queued[i] \in Nat
    BY <1>2, SessionAssumption DEF Job
  <1>5. j <= received /\ j \in Nat /\ \A s \in Started : s < j
    BY <1>2, <1>3, <1>4
  <1>6. j \notin Started /\ j \notin running
    <2>1. ~(j < j)
      BY <1>5
    <2> QED
      BY <1>5, <2>1 DEF SInv, ArrivalInv
  <1>7. results[j] = <<>>
    BY <1>1, <1>5 DEF SInv, ResultInv
  <1>8. /\ results' \in [Job -> Seq(ResultKind)]
        /\ results'[j] # <<>> /\ Len(results'[j]) <= 1
        /\ \A i \in Job \ {j} : results'[i] = results[i]
    BY <1>7, SentFacts DEF SInv, ResultKind
  <1>9. Started' = Started /\ \A i \in Job : HasRun(i)' = HasRun(i)
    BY <1>6, <1>8 DEF Started, HasRun
  \* Where the entries of the queue come from, and where they go.
  <1>10. ASSUME NEW i \in DOMAIN queued'
         PROVE  \E k \in DOMAIN queued : k # pos /\ queued'[i] = queued[k]
    <2>1. CASE i < pos
      BY <1>2, <2>1
    <2>2. CASE ~(i < pos)
      <3>1. i + 1 \in DOMAIN queued /\ i + 1 # pos
        BY <1>2, <2>2
      <3> QED
        BY <1>2, <2>2, <3>1
    <2> QED
      BY <2>1, <2>2
  <1>11. ASSUME NEW k \in DOMAIN queued, k # pos
         PROVE  \E i \in DOMAIN queued' : queued'[i] = queued[k]
    <2>1. CASE k < pos
      BY <1>2, <2>1
    <2>2. CASE ~(k < pos)
      <3>1. k - 1 \in DOMAIN queued' /\ ~(k - 1 < pos) /\ (k - 1) + 1 = k
        BY <1>2, <1>11, <2>2
      <3>2. queued'[k - 1] = queued[k]
        BY <1>2, <3>1
      <3> QED
        BY <3>1, <3>2
    <2> QED
      BY <2>1, <2>2
  <1>12. \A k \in DOMAIN queued : k # pos => queued[k] # j
    <2>1. ASSUME NEW k \in DOMAIN queued, k # pos PROVE queued[k] # j
      <3>1. k < pos \/ pos < k
        BY <1>2, <2>1
      <3>2. queued[k] < queued[pos] \/ queued[pos] < queued[k]
        BY <1>3, <3>1
      <3> QED
        BY <1>2, <1>4, <3>2
    <2> QED
      BY <2>1
  <1>13. Queued' = Queued \ {j}
    <2>1. ASSUME NEW q \in Queued' PROVE q \in Queued \ {j}
      BY <1>10, <1>12 DEF Queued
    <2>2. ASSUME NEW q \in Queued, q # j PROVE q \in Queued'
      <3>1. PICK k \in DOMAIN queued : q = queued[k]
        BY DEF Queued
      <3>2. k # pos
        BY <1>2, <2>2, <3>1
      <3> QED
        BY <1>11, <3>1, <3>2 DEF Queued
    <2> QED
      BY <2>1, <2>2
  <1>14. QueueInv'
    <2>1. ASSUME NEW i \in DOMAIN queued', NEW k \in DOMAIN queued', i < k
          PROVE  queued'[i] < queued'[k]
      <3> DEFINE At(x) == IF x < pos THEN x ELSE x + 1
      <3>1. queued'[i] = queued[At(i)] /\ queued'[k] = queued[At(k)]
        BY <1>2
      <3>2. At(i) \in DOMAIN queued /\ At(k) \in DOMAIN queued /\ At(i) < At(k)
        BY <1>2, <2>1
      <3> QED
        BY <1>3, <3>1, <3>2
    <2>2. ASSUME NEW i \in DOMAIN queued'
          PROVE  queued'[i] <= received /\ \A s \in Started : s < queued'[i]
      BY <1>3, <1>10
    <2> QED
      BY <1>9, <2>1, <2>2 DEF QueueInv
  <1>15. TypeOK'
    <2>1. Cardinality(running) + Len(queued') <= MaxJobs
      <3>1. Cardinality(running) \in Nat
        BY RunningCard DEF SInv
      <3>2. Cardinality(running) + Len(queued) <= MaxJobs
        BY DEF SInv, TypeOK
      <3> QED
        BY <1>2, <3>1, <3>2, SessionAssumption
    <2> QED
      BY <1>2, <1>8, <2>1 DEF SInv, TypeOK, LoopPc
  <1>16. NoticeInv' /\ FinalInv'
    BY DEF SInv, NoticeInv, FinalInv, Final
  <1>17. ArrivalInv'
    <2>1. ~(j > received)
      BY <1>5 DEF SInv, TypeOK
    <2> QED
      BY <1>8, <1>9, <2>1 DEF SInv, ArrivalInv
  <1>18. ShellInv' /\ ToldInv' /\ TaskInv'
    BY <1>1, <1>9 DEF SInv, ShellInv, ToldInv, TaskInv, Live
  <1>19. EventInv'
    BY <1>1, <1>9 DEF SInv, EventInv, Known, Final
  <1>20. OutputBeforeResult'
    <2>1. \A i \in DOMAIN events : events[i].job \in Job \ {j}
      BY <1>6, EventJob DEF SInv, EventInv, Known
    <2> QED
      BY <1>8, <2>1 DEF SInv, OutputBeforeResult
  <1>21. ResultInv'
    <2>1. ASSUME NEW i \in Job, i # j
          PROVE  /\ Len(results'[i]) <= 1 /\ (results'[i] = <<"cancelled">> => i \in told')
                 /\ Runs' /\ i <= received' =>
                      (results'[i] = <<>> <=> i \in running' \cup Queued')
      BY <1>1, <1>8, <1>13, <2>1 DEF SInv, ResultInv
    <2>2. j \notin running' \cup Queued'
      BY <1>6, <1>13
    <2> QED
      BY <1>8, <2>1, <2>2 DEF ResultInv
  <1>22. InheritInv'
    <2>1. \A x \in Started : \A i \in 1..(x - 1) : i \in Job
      BY SessionAssumption DEF Started, Job
    <2> QED
      BY <1>9, <2>1 DEF SInv, InheritInv
  <1> QED
    BY <1>14, <1>15, <1>16, <1>17, <1>18, <1>19, <1>20, <1>21, <1>22 DEF SInv

\* The loop cleans up after itself.
LEMMA CleanupLemma == ASSUME SInv, Cleanup PROVE SInv'
  <1> USE DEF wireVars
  <1>1. /\ ~Runs' /\ events' = <<>> /\ queued' = <<>> /\ running' = {} /\ cancelled' = {}
        /\ alive' = {} /\ marker' = None /\ pc' = "ended"
        /\ task' = [i \in Job |-> IF task[i] = "none" THEN "none" ELSE "ended"]
        /\ tail' = [i \in Job |-> IF tail[i] = "none" THEN "none" ELSE "ended"]
        /\ files' = [i \in Job |-> "none"] /\ unread' = [i \in Job |-> 0]
        /\ UNCHANGED <<stateful_running, current, completed, chunks, received, mode,
                       told, results, inherits>>
    BY DEF Cleanup, Runs
  <1>2. Started' = Started /\ \A i \in Job : HasRun(i)' = HasRun(i)
    BY <1>1 DEF Started, HasRun
  <1>3. TypeOK'
    <2>1. Cardinality(running') + Len(queued') <= MaxJobs
      BY <1>1, FS_EmptySet, SessionAssumption
    <2>2. /\ task' \in [Job -> TaskPc] /\ tail' \in [Job -> TailPc]
          /\ files' \in [Job -> Files] /\ unread' \in [Job -> 0..(MaxChunks + 1)]
      BY <1>1, SessionAssumption DEF TaskPc, TailPc, Files
    <2>3. /\ events' \in Seq([kind : EventKind, job : Job]) /\ Len(events') <= Capacity
          /\ queued' \in Seq(Job)
      BY <1>1, SessionAssumption
    <2> QED
      BY <1>1, <2>1, <2>2, <2>3 DEF SInv, TypeOK, LoopPc
  <1>4. NoticeInv'
    BY <1>1, SessionAssumption DEF SInv, TypeOK, NoticeInv
  <1>5. QueueInv' /\ EventInv' /\ FinalInv' /\ OutputBeforeResult'
    BY <1>1 DEF QueueInv, EventInv, FinalInv, OutputBeforeResult
  <1>6. ArrivalInv' /\ ShellInv' /\ ToldInv'
    BY <1>1, <1>2 DEF SInv, ArrivalInv, ShellInv, ToldInv
  <1>7. TaskInv' /\ ResultInv'
    BY <1>1 DEF SInv, TypeOK, TaskInv, ResultInv, Live, TailPc
  <1>8. InheritInv'
    <2>1. \A x \in Started : \A i \in 1..(x - 1) : i \in Job
      BY SessionAssumption DEF Started, Job
    <2> QED
      BY <1>1, <1>2, <2>1 DEF SInv, InheritInv
  <1> QED
    BY <1>3, <1>4, <1>5, <1>6, <1>7, <1>8 DEF SInv

-----------------------------------------------------------------------------
(* The theorems.                                                           *)

\* Every step keeps the invariant.
LEMMA SessionStep == ASSUME SInv, [Next]_vars PROVE SInv'
  <1>1. CASE OpenSession \/ ReadMarker \/ OtherTurn \/ LeaveLoop
             \/ Ended \/ UNCHANGED vars
    BY <1>1, TurnStep DEF Ended
  <1>2. CASE Schedule
    BY <1>2, TurnStep, StartLemma, StartFails DEF Schedule
  <1>3. CASE \E m \in Mode : ReceiveRun(m)
    BY <1>3, RunLemma
  <1>4. CASE Cleanup
    BY <1>4, CleanupLemma
  <1>5. ASSUME NEW j \in Job, HandleEvent(j) PROVE SInv'
    BY <1>5, ForwardLemma, AbortLemma, ResultLemma DEF HandleEvent
  <1>6. ASSUME NEW j \in Job, ReceiveCancel(j) PROVE SInv'
    BY <1>6, CancelRunning, CancelQueued DEF ReceiveCancel, Loops
  <1>7. ASSUME NEW j \in Job, TaskStep(j) \/ TailStep(j) \/ ProcessStep(j) PROVE SInv'
    BY <1>7, TaskLemma, TailLemma, ProcessLemma
  <1> QED
    BY <1>1, <1>2, <1>3, <1>4, <1>5, <1>6, <1>7 DEF Next

\* The inductive invariant holds in every reachable state of a session.
THEOREM SessionInvariant == Spec => []SInv
  <1>1. Init => SInv
    BY SessionInit
  <1>2. SInv /\ [Next]_vars => SInv'
    BY SessionStep
  <1> QED
    BY <1>1, <1>2, PTL DEF Spec

\* The state of a session keeps its shape: run_session never holds more than
\* MaxJobs commands, running and waiting, and its tasks never more than Capacity
\* events in the channel.
THEOREM SessionTyped == Spec => []TypeOK
  <1>1. SInv => TypeOK
    BY DEF SInv
  <1> QED
    BY <1>1, SessionInvariant, PTL

\* run_session starts commands in the order they arrived, none before the stateful
\* ones ahead of it are done, and each with the directory and the variables the
\* last of them left.
THEOREM SessionOrder == Spec => []StartsInOrder
  <1>1. ASSUME SInv PROVE StartsInOrder
    <2>1. ASSUME NEW j \in Started, NEW i \in 1..(j - 1)
          PROVE  /\ i \notin Queued /\ stateful_running # i
                 /\ HasRun(i) => inherits[j] >= i
                 /\ inherits[j] = i => mode[i] = "Stateful"
      <3>1. j \in Job /\ i \in Job /\ i < j /\ i # None /\ ~(j < i) /\ ~(j <= i)
        BY SessionAssumption DEF Started, Job, None
      <3>2. i \notin Queued
        BY <1>1, <3>1 DEF SInv, QueueInv, Queued
      <3>3. stateful_running # i
        BY <1>1, <3>1 DEF SInv, ShellInv
      <3>4. HasRun(i) => inherits[j] >= i
        BY <1>1 DEF SInv, InheritInv
      <3>5. inherits[j] = i => mode[i] = "Stateful"
        BY <1>1, <3>1 DEF SInv, ArrivalInv
      <3> QED
        BY <3>2, <3>3, <3>4, <3>5
    <2> QED
      BY <2>1 DEF StartsInOrder
  <1> QED
    BY <1>1, SessionInvariant, PTL

\* Every command run_session accepts is answered exactly once while the session is
\* open, and as cancelled only when its Cancel was read.
THEOREM SessionAnswers == Spec => []AnsweredOnce
  <1>1. SInv => AnsweredOnce
    BY DEF SInv, ResultInv, AnsweredOnce, Runs, IsOpen
  <1> QED
    BY <1>1, SessionInvariant, PTL

\* The interrupt watch_stateful_job sends finds its own command in the shell.
THEOREM SessionInterrupts == Spec => []InterruptsOwn
  <1>1. SInv => InterruptsOwn
    BY DEF SInv, EventInv, Known, InterruptsOwn, Runs, IsOpen
  <1> QED
    BY <1>1, SessionInvariant, PTL

\* No output of a command is on its way once its Result was sent.
THEOREM SessionOutput == Spec => []OutputBeforeResult
  <1>1. SInv => OutputBeforeResult
    BY DEF SInv
  <1> QED
    BY <1>1, SessionInvariant, PTL
=============================================================================
