--------------------------- MODULE TerminalProofs ---------------------------
(***************************************************************************)
(* Theorems about Terminal, for any number of clients, every capacity of   *)
(* every buffer and every bound on the two streams.                        *)
(***************************************************************************)
EXTENDS Terminal, SequenceTheorems, WellFoundedInduction, TLAPS

-----------------------------------------------------------------------------
(* What the tasks hold.                                                    *)

\* What run_session is about to send or write.
HeldInv ==
    /\ worker = "sendOutput" => held \in Outputs
    /\ worker = "sendPong" => held = Bare("pong")
    /\ worker = "sendClosed" => held = Bare("closed")
    /\ worker = "writeInput" => held \in Inputs
    /\ worker \in {"select", "done", "gone"} => held = NoFrame

\* What a handler at pc is sending.
Fits(pc, f) ==
    /\ pc = "toWorker" => f \in Inputs \cup {Bare("resize")}
    /\ pc = "toClient" => f \in Outputs \cup {Bare("ping")}
    /\ pc \notin {"toWorker", "toClient"} => f = NoFrame
SendingInv == \A t \in Attachment : Fits(handler[t], sending[t])

\* What the read loop is routing.
RouteInv ==
    /\ loop = "routing" => routing.to \in Attachment /\ routing.frame \in Outputs
    /\ loop # "routing" => routing = NoRoute

ShapeInv == TypeOK /\ HeldInv /\ SendingInv /\ RouteInv

-----------------------------------------------------------------------------
(* Who has the terminal.                                                   *)

\* The reservation ends with the session, and the session with the read loop;
\* there is one attachment at a time, even after the reservation was taken away.
OwnerInv ==
    /\ ReservationOwned
    /\ terminal # None => session = "active"
    /\ loop = "ended" => session = "ended"
    /\ \A t, u \in Attachment : Attached(t) /\ Attached(u) => t = u

\* A client that has not come yet has left no trace.
NewInv ==
    \A t \in Attachment : handler[t] = "none" =>
       backlog[t] = <<>> /\ received[t] = <<>> /\ routing.to # t /\ t \notin spawned

\* A worker that is gone has closed its socket, and a broken socket carries
\* nothing more to the worker.
LinkInv ==
    /\ worker = "gone" => ~link
    /\ ~link => down = <<>>

-----------------------------------------------------------------------------
(* Output.                                                                 *)

Below(A, B) == \A a \in A, b \in B : a < b
\* A set of units without a gap.
Convex(A) == \A a, b \in A : \A m \in Nat : a < m /\ m < b => m \in A

\* The output on each hop: delivered, with the handler, in its channel, with the
\* read loop, on the socket, with run_session.
Got(t) == {received[t][i] : i \in DOMAIN received[t]}
AtHandler(t) == Units(<<sending[t]>>, "output")
InChannel(t) == Units(backlog[t], "output")
AtLoop(t) == Units(Routed(t), "output")
OnWire == Units(up, "output")
AtShell == Units(<<held>>, "output")

\* What is beyond the read loop and what a client has of the output, or will get.
Coming == OnWire \cup AtShell
Mine(t) == Got(t) \cup AtHandler(t) \cup InChannel(t) \cup AtLoop(t)

\* Everything up to the newest unit, or nothing; a worker that is gone may have
\* taken the newest with it.
UpToDate(A) == worker # "gone" /\ A # {} => produced \in A

\* The units beyond the read loop are in order and complete.
WireInv ==
    /\ InOrder(up, "output") /\ Below(OnWire, AtShell)
    /\ Convex(Coming) /\ Coming \subseteq 1..produced /\ UpToDate(Coming)

\* The units of a client that is served are in order, each hop behind the next.
LineOf(t) ==
    /\ InOrder(backlog[t], "output")
    /\ Below(Got(t), AtHandler(t) \cup InChannel(t) \cup AtLoop(t))
    /\ Below(AtHandler(t), InChannel(t) \cup AtLoop(t))
    /\ Below(InChannel(t), AtLoop(t))
    /\ Convex(Mine(t)) /\ Mine(t) \subseteq 1..produced

\* What comes next continues the line of the client that has the reservation.
JoinedTo(t) ==
    Below(Mine(t), Coming) /\ Convex(Mine(t) \cup Coming) /\ UpToDate(Mine(t) \cup Coming)

\* What a client got is a run of consecutive units.
Steady(s) == \A i \in DOMAIN s : s[i] = s[1] + (i - 1)

OutputInv ==
    /\ WireInv
    /\ \A t \in Attachment : Steady(received[t])
    /\ \A t \in Attachment : Serving(t) => LineOf(t)
    /\ \A t \in Attachment : Serving(t) /\ terminal = t => JoinedTo(t)

-----------------------------------------------------------------------------
(* Input.                                                                  *)

\* What the shell has read or may read.
Taken == Len(consumed) + Len(pty)
AtPty == Units(<<held>>, "stdin")
OnWay == Units(down, "stdin")
AtClients == UNION {Units(<<sending[t]>>, "stdin") : t \in Attachment}

\* The socket holds, and run_session reads from it or will.
Flowing == link /\ worker \notin {"sendClosed", "done", "gone"}

\* The shell's input has no gap, run_session writes the next unit, and while the
\* input flows the others are on their way, in order.
InputInv ==
    /\ \A i \in DOMAIN consumed : consumed[i] = i
    /\ \A i \in DOMAIN pty : pty[i] = Len(consumed) + i
    /\ Taken <= typed
    /\ worker = "writeInput" => held.n = Taken + 1 /\ held.n <= typed
    /\ Flowing =>
          /\ InOrder(down, "stdin")
          /\ Below(AtPty, OnWay \cup AtClients) /\ Below(OnWay, AtClients)
          /\ AtPty \cup OnWay \cup AtClients = (Taken + 1)..typed

TInv == ShapeInv /\ OwnerInv /\ NewInv /\ LinkInv /\ OutputInv /\ InputInv
-----------------------------------------------------------------------------
(* Frames and the queues they are in.                                      *)

\* A frame is told by its kind.
LEMMA FrameFacts ==
    /\ \A f \in Outputs : f.kind = "output" /\ f.n \in 1..MaxOut
    /\ \A f \in Inputs : f.kind = "stdin" /\ f.n \in 1..MaxIn
    /\ \A n \in 1..MaxOut : Output(n) \in Outputs /\ Output(n).n = n
    /\ \A n \in 1..MaxIn : Stdin(n) \in Inputs /\ Stdin(n).n = n
    /\ \A k : Bare(k).kind = k /\ Bare(k).n = 0
    /\ NoFrame.kind = "none"
    /\ \A f \in Event : f.kind = "output" => f \in Outputs
    /\ \A f \in Event \cup {Bare("pong")} : f.kind = "output" => f \in Outputs
    /\ \A f \in Inputs \cup {Bare("ping"), Bare("resize")} : f.kind = "stdin" => f \in Inputs
  BY DEF Outputs, Inputs, Event, Output, Stdin, Bare, NoFrame

\* The constants are numbers.
LEMMA Numbers ==
    /\ WireCap \in Nat \ {0} /\ Backlog \in Nat \ {0} /\ PtyCap \in Nat \ {0}
    /\ KeepTimeout \in Nat \ {0} /\ MaxOut \in Nat /\ MaxIn \in Nat
  BY TerminalAssumption

\* What a queue is after an element was added, and after its head was taken.
LEMMA QueueFacts ==
    ASSUME NEW S, NEW s \in Seq(S)
    PROVE  /\ Len(s) \in Nat /\ DOMAIN s = 1..Len(s) /\ \A i \in DOMAIN s : s[i] \in S
           /\ s = <<>> <=> Len(s) = 0
           /\ \A e \in S : /\ Append(s, e) \in Seq(S) /\ Len(Append(s, e)) = Len(s) + 1
                           /\ DOMAIN Append(s, e) = 1..(Len(s) + 1)
                           /\ Append(s, e)[Len(s) + 1] = e
                           /\ \A i \in DOMAIN s : Append(s, e)[i] = s[i]
           /\ s # <<>> => /\ Tail(s) \in Seq(S) /\ Len(Tail(s)) = Len(s) - 1
                          /\ DOMAIN Tail(s) = 1..(Len(s) - 1)
                          /\ Head(s) = s[1] /\ s[1] \in S
                          /\ \A i \in 1..(Len(s) - 1) : Tail(s)[i] = s[i + 1]
           /\ <<>> \in Seq(S) /\ Len(<<>>) = 0
  OBVIOUS

-----------------------------------------------------------------------------
(* Types.                                                                  *)

\* Init has the shape.
LEMMA ShapeInit == ASSUME Init PROVE ShapeInv
  <1>1. TypeOK
    <2>1. \A S : <<>> \in Seq(S)
      OBVIOUS
    <2>2. /\ up \in Seq(Event \cup {Bare("pong")}) /\ consumed \in Seq(1..MaxIn)
          /\ down \in Seq(Inputs \cup {Bare("ping"), Bare("resize")}) /\ pty \in Seq(1..MaxIn)
          /\ backlog \in [Attachment -> Seq(Event)] /\ received \in [Attachment -> Seq(1..MaxOut)]
      BY <2>1 DEF Init
    <2>3. /\ Len(up) = 0 /\ Len(down) = 0 /\ Len(pty) = 0
          /\ \A t \in Attachment : Len(backlog[t]) = 0
      BY DEF Init
    <2>4. handler \in [Attachment -> HandlerPc] /\ client \in [Attachment -> ClientState]
          /\ worker \in WorkerPc
      BY DEF Init, HandlerPc, WorkerPc, ClientState
    <2>5. /\ routing \in [to : Attachment \cup {None}, frame : Outputs \cup {NoFrame}]
          /\ sending \in [Attachment -> Outputs \cup Inputs
                                          \cup {NoFrame, Bare("ping"), Bare("resize")}]
          /\ held \in Event \cup Inputs \cup {NoFrame, Bare("pong")}
          /\ session \in {"active", "ended"} /\ terminal \in Attachment \cup {None}
          /\ spawned \subseteq Attachment /\ loop \in {"select", "routing", "ended"}
      BY DEF Init, NoRoute
    <2>6. silent \in 0..KeepTimeout /\ produced \in 0..MaxOut /\ typed \in 0..MaxIn
          /\ 0 <= WireCap /\ 0 <= PtyCap /\ 0 <= Backlog
      BY Numbers DEF Init
    <2>7. permit \in BOOLEAN /\ link \in BOOLEAN
      BY Zenon DEF Init
    <2> QED
      BY <2>2, <2>3, <2>4, <2>5, <2>6, <2>7 DEF TypeOK
  <1> QED
    BY <1>1 DEF Init, ShapeInv, HeldInv, SendingInv, Fits, RouteInv

\* A handler goes on, and what else it changes has its type.
LEMMA GoShape ==
    ASSUME ShapeInv, NEW t \in Attachment, NEW pc \in HandlerPc, NEW f, Fits(pc, f), Go(t, pc, f),
           terminal' \in Attachment \cup {None},
           backlog' \in [Attachment -> Seq(Event)],
           \A u \in Attachment : Len(backlog'[u]) <= Backlog,
           down' \in Seq(Inputs \cup {Bare("ping"), Bare("resize")}), Len(down') <= WireCap,
           client' \in [Attachment -> ClientState],
           received' \in [Attachment -> Seq(1..MaxOut)],
           typed' \in 0..MaxIn,
           UNCHANGED <<session, spawned, loopVars, keepVars, link, up, workerVars>>
    PROVE  ShapeInv'
  <1>1. /\ handler' \in [Attachment -> HandlerPc] /\ SendingInv'
        /\ sending' \in [Attachment -> Outputs \cup Inputs
                                         \cup {NoFrame, Bare("ping"), Bare("resize")}]
    BY DEF ShapeInv, TypeOK, SendingInv, Fits, Go, HandlerPc
  <1>2. TypeOK'
    BY <1>1 DEF ShapeInv, TypeOK, loopVars, keepVars, workerVars
  <1> QED
    BY <1>1, <1>2 DEF ShapeInv, HeldInv, RouteInv, loopVars, workerVars

\* A frame for the client goes to a handler in its select!, or is accepted.
LEMMA ToClientGoes ==
    ASSUME ShapeInv, NEW t \in Attachment, NEW f \in Outputs \cup {Bare("ping")}, ToClient(t, f)
    PROVE  /\ \E pc \in {"select", "toClient"} :
                 \E g : Fits(pc, g) /\ Go(t, pc, g)
           /\ received' \in [Attachment -> Seq(1..MaxOut)]
  <1>1. f.kind = "output" => f.n \in 1..MaxOut
    BY FrameFacts
  <1>2. received[t] \in Seq(1..MaxOut) /\ received \in [Attachment -> Seq(1..MaxOut)]
    BY DEF ShapeInv, TypeOK
  <1>3. f.kind = "output" => Append(received[t], f.n) \in Seq(1..MaxOut)
    BY <1>1, <1>2, QueueFacts
  <1>4. Fits("select", NoFrame) /\ Fits("toClient", f)
    BY DEF Fits
  <1> QED
    BY <1>2, <1>3, <1>4 DEF ToClient

\* The steps of a handler keep the shape.
LEMMA ShapeHandler ==
    ASSUME ShapeInv, NEW t \in Attachment, Attach(t) \/ HandlerStep(t) PROVE ShapeInv'
  <1>t. /\ terminal \in Attachment \cup {None} /\ typed \in 0..MaxIn
        /\ backlog \in [Attachment -> Seq(Event)]
        /\ \A u \in Attachment : Len(backlog[u]) <= Backlog
        /\ down \in Seq(Inputs \cup {Bare("ping"), Bare("resize")}) /\ Len(down) <= WireCap
        /\ client \in [Attachment -> ClientState]
        /\ received \in [Attachment -> Seq(1..MaxOut)]
    BY DEF ShapeInv, TypeOK
  <1>p. \A pc \in HandlerPc \ {"toWorker", "toClient"} : Fits(pc, NoFrame)
    BY DEF Fits
  <1>e. /\ [backlog EXCEPT ![t] = <<>>] \in [Attachment -> Seq(Event)]
        /\ \A u \in Attachment : Len([backlog EXCEPT ![t] = <<>>][u]) <= Backlog
    <2>1. <<>> \in Seq(Event) /\ Len(<<>>) = 0
      OBVIOUS
    <2> QED
      BY <1>t, <2>1, Numbers
  <1>1. CASE Attach(t)
    <2>1. client' \in [Attachment -> ClientState] /\ Go(t, "upgrading", NoFrame)
      BY <1>1, <1>t DEF Attach, ClientState
    <2> QED
      BY <1>1, <1>t, <1>p, <2>1, GoShape DEF Attach, HandlerPc, linkVars
  <1>2. CASE Upgrade(t)
    <2>1. backlog' \in [Attachment -> Seq(Event)]
          /\ \A u \in Attachment : Len(backlog'[u]) <= Backlog
      BY <1>2, <1>t, <1>e DEF Upgrade
    <2>2. UNCHANGED <<recordVars, loopVars, keepVars, linkVars, workerVars, clientVars>>
      BY <1>2 DEF Upgrade
    <2>3. PICK pc \in {"dropped", "select"} : Go(t, pc, NoFrame)
      BY <1>2 DEF Upgrade
    <2> QED
      BY <1>t, <1>p, <2>1, <2>2, <2>3, GoShape DEF HandlerPc, linkVars, clientVars, recordVars
  <1>3. CASE PingClient(t)
    <2>1. UNCHANGED <<recordVars, backlog, loopVars, keepVars, linkVars, workerVars, client, typed>>
      BY <1>3 DEF PingClient
    <2>2. /\ \E pc \in {"select", "toClient"} : \E g : Fits(pc, g) /\ Go(t, pc, g)
          /\ received' \in [Attachment -> Seq(1..MaxOut)]
      BY <1>3, ToClientGoes DEF PingClient
    <2> QED
      BY <1>t, <2>1, <2>2, GoShape DEF HandlerPc, linkVars, recordVars
  <1>4. CASE ClientSilent(t) \/ ClientLost(t) \/ SendClientFails(t) \/ SendClose(t)
    <2>1. UNCHANGED <<recordVars, backlog, loopVars, keepVars, linkVars, workerVars, clientVars>>
      BY <1>4 DEF ClientSilent, ClientLost, SendClientFails, SendClose
    <2>2. PICK pc \in {"closing", "detaching"} : Go(t, pc, NoFrame)
      BY <1>4 DEF ClientSilent, ClientLost, SendClientFails, SendClose
    <2> QED
      BY <1>t, <1>p, <2>1, <2>2, GoShape DEF HandlerPc, linkVars, clientVars, recordVars
  <1>5. CASE ClientInput(t)
    <2>1. typed' \in 0..MaxIn /\ typed + 1 \in 1..MaxIn
      BY <1>5, <1>t, Numbers DEF ClientInput
    <2>2. Fits("toWorker", Stdin(typed + 1))
      BY <2>1, FrameFacts DEF Fits
    <2>3. Go(t, "toWorker", Stdin(typed + 1))
          /\ UNCHANGED <<recordVars, backlog, loopVars, keepVars, linkVars, workerVars, client,
                         received>>
      BY <1>5 DEF ClientInput
    <2> QED
      BY <1>t, <2>1, <2>2, <2>3, GoShape DEF HandlerPc, linkVars, recordVars
  <1>6. CASE ClientControl(t)
    <2>1. UNCHANGED <<recordVars, backlog, loopVars, keepVars, linkVars, workerVars, clientVars>>
      BY <1>6 DEF ClientControl
    <2>2. PICK pc \in {"toWorker", "closing"} : \E g : Fits(pc, g) /\ Go(t, pc, g)
      BY <1>6 DEF ClientControl, Fits
    <2> QED
      BY <1>t, <2>1, <2>2, GoShape DEF HandlerPc, linkVars, clientVars, recordVars
  <1>7. CASE Recv(t)
    <2>1. UNCHANGED <<recordVars, loopVars, keepVars, linkVars, workerVars, client, typed>>
          /\ backlog[t] # <<>> /\ backlog' = [backlog EXCEPT ![t] = Tail(@)]
      BY <1>7 DEF Recv
    <2>2. /\ Head(backlog[t]) \in Event /\ Tail(backlog[t]) \in Seq(Event)
          /\ Len(Tail(backlog[t])) <= Backlog
      BY <1>t, <2>1, QueueFacts, Numbers
    <2>3. backlog' \in [Attachment -> Seq(Event)]
          /\ \A u \in Attachment : Len(backlog'[u]) <= Backlog
      BY <1>t, <2>1, <2>2
    <2>4. CASE Go(t, "closing", NoFrame) /\ UNCHANGED received
      BY <1>t, <1>p, <2>1, <2>3, <2>4, GoShape DEF HandlerPc, linkVars, recordVars
    <2>5. CASE Head(backlog[t]).kind = "output" /\ ToClient(t, Head(backlog[t]))
      <3>1. /\ \E pc \in {"select", "toClient"} : \E g : Fits(pc, g) /\ Go(t, pc, g)
            /\ received' \in [Attachment -> Seq(1..MaxOut)]
        BY <2>2, <2>5, FrameFacts, ToClientGoes
      <3>2. PICK pc \in {"select", "toClient"} : \E g : Fits(pc, g) /\ Go(t, pc, g)
        BY <3>1
      <3>3. PICK g : Fits(pc, g) /\ Go(t, pc, g)
        BY <3>2
      <3>4. UNCHANGED <<session, terminal, spawned, loopVars, keepVars, link, up, down, workerVars,
                        client, typed>>
        BY <2>1 DEF linkVars, recordVars
      <3> QED
        BY <1>t, <2>3, <3>1, <3>3, <3>4, GoShape DEF HandlerPc
    <2> QED
      BY <1>7, <2>4, <2>5 DEF Recv
  <1>8. CASE SendClient(t)
    <2>1. Fits("toClient", sending[t])
      BY <1>8 DEF SendClient, ShapeInv, SendingInv
    <2>2. sending[t].kind = "output" => sending[t].n \in 1..MaxOut
      BY <2>1, FrameFacts DEF Fits
    <2>3. sending[t].kind = "output" => Append(received[t], sending[t].n) \in Seq(1..MaxOut)
      BY <1>t, <2>2, QueueFacts
    <2>4. received' \in [Attachment -> Seq(1..MaxOut)] /\ Go(t, "select", NoFrame)
          /\ UNCHANGED <<recordVars, backlog, loopVars, keepVars, linkVars, workerVars, client,
                         typed>>
      BY <1>8, <1>t, <2>3 DEF SendClient
    <2> QED
      BY <1>t, <1>p, <2>4, GoShape DEF HandlerPc, linkVars, recordVars
  <1>9. CASE SendWorker(t)
    <2>1. UNCHANGED <<recordVars, backlog, loopVars, keepVars, link, up, workerVars, clientVars>>
      BY <1>9 DEF SendWorker
    <2>2. sending[t] \in Inputs \cup {Bare("ping"), Bare("resize")}
      BY <1>9 DEF SendWorker, ShapeInv, SendingInv, Fits
    <2>3. down' \in Seq(Inputs \cup {Bare("ping"), Bare("resize")}) /\ Len(down') <= WireCap
      <3>1. /\ Append(down, sending[t]) \in Seq(Inputs \cup {Bare("ping"), Bare("resize")})
            /\ Len(Append(down, sending[t])) = Len(down) + 1 /\ Len(down) \in Nat
        BY <1>t, <2>2, QueueFacts
      <3> QED
        <4>1. CASE Len(down) < WireCap /\ down' = Append(down, sending[t])
          BY <3>1, <4>1, Numbers
        <4>2. CASE UNCHANGED down
          BY <1>t, <4>2
        <4> QED
          BY <1>9, <4>1, <4>2 DEF SendWorker
    <2>4. PICK pc \in {"select", "detaching"} : Go(t, pc, NoFrame)
      BY <1>9 DEF SendWorker
    <2> QED
      BY <1>t, <1>p, <2>1, <2>3, <2>4, GoShape DEF HandlerPc, clientVars, recordVars
  <1>10. CASE Detach(t)
    <2>1. client' \in [Attachment -> ClientState] /\ terminal' \in Attachment \cup {None}
      BY <1>10, <1>t DEF Detach, ClientState, Released
    <2>2. Go(t, "over", NoFrame) /\ backlog' = [backlog EXCEPT ![t] = <<>>]
          /\ UNCHANGED <<session, spawned, loopVars, keepVars, linkVars, workerVars, received,
                         typed>>
      BY <1>10 DEF Detach
    <2> QED
      BY <1>t, <1>e, <1>p, <2>1, <2>2, GoShape DEF HandlerPc, linkVars
  <1>11. CASE SpawnedDetach(t)
    <2>1. terminal' \in Attachment \cup {None}
      BY <1>11, <1>t DEF SpawnedDetach, Released
    <2>2. Go(t, "over", NoFrame)
          /\ UNCHANGED <<session, spawned, backlog, loopVars, keepVars, linkVars, workerVars,
                         clientVars>>
      BY <1>11 DEF SpawnedDetach
    <2> QED
      BY <1>t, <1>p, <2>1, <2>2, GoShape DEF HandlerPc, linkVars, clientVars
  <1> QED
    BY <1>1, <1>2, <1>3, <1>4, <1>5, <1>6, <1>7, <1>8, <1>9, <1>10, <1>11 DEF HandlerStep

\* A send into a client's channel keeps its type and its bound.
LEMMA OfferShape ==
    ASSUME ShapeInv, NEW t \in Attachment, NEW e \in Event, Offer(t, e)
    PROVE  /\ backlog' \in [Attachment -> Seq(Event)]
           /\ \A u \in Attachment : Len(backlog'[u]) <= Backlog
  <1>1. /\ backlog \in [Attachment -> Seq(Event)] /\ backlog[t] \in Seq(Event)
        /\ \A u \in Attachment : Len(backlog[u]) <= Backlog
    BY DEF ShapeInv, TypeOK
  <1>2. /\ Append(backlog[t], e) \in Seq(Event) /\ Len(Append(backlog[t], e)) = Len(backlog[t]) + 1
        /\ Len(backlog[t]) \in Nat
    BY <1>1, QueueFacts
  <1>3. CASE UNCHANGED backlog
    BY <1>1, <1>3
  <1>4. CASE Len(backlog[t]) < Backlog /\ backlog' = [backlog EXCEPT ![t] = Append(@, e)]
    <2>1. Len(Append(backlog[t], e)) <= Backlog
      BY <1>2, <1>4, Numbers
    <2> QED
      BY <1>1, <1>2, <1>4, <2>1
  <1> QED
    BY <1>3, <1>4 DEF Offer

\* The steps of the server's other tasks, of clients and of the network keep it.
LEMMA ShapeServer ==
    ASSUME ShapeInv,
           \/ \E t \in Attachment :
                 TellClosed(t) \/ \E how \in {"stalled", "gone"} : ClientFails(t, how)
           \/ ReadFrame \/ Route \/ LoopEnds \/ Keepalive \/ CloseSocket \/ LinkFails
    PROVE  ShapeInv'
  <1>t. TypeOK /\ HeldInv /\ SendingInv /\ RouteInv
    BY DEF ShapeInv
  <1>e. Bare("closed") \in Event
    BY DEF Event
  <1>1. ASSUME NEW t \in Attachment, TellClosed(t) PROVE ShapeInv'
    <2>1. /\ backlog' \in [Attachment -> Seq(Event)]
          /\ \A u \in Attachment : Len(backlog'[u]) <= Backlog
      BY <1>1, <1>e, OfferShape DEF TellClosed
    <2>2. /\ spawned' \subseteq Attachment
          /\ UNCHANGED <<session, terminal, handlerVars, loopVars, keepVars, linkVars, workerVars,
                         clientVars>>
      BY <1>1, <1>t DEF TellClosed, TypeOK
    <2>3. TypeOK'
      BY <1>t, <2>1, <2>2, SMTT(30) DEF TypeOK, handlerVars, loopVars, keepVars, linkVars, workerVars,
         clientVars
    <2> QED
      BY <1>t, <2>2, <2>3 DEF ShapeInv, HeldInv, SendingInv, RouteInv, handlerVars, loopVars,
         workerVars
  <1>2. ASSUME NEW t \in Attachment, NEW how \in {"stalled", "gone"}, ClientFails(t, how)
        PROVE  ShapeInv'
    <2>1. client' \in [Attachment -> ClientState]
      BY <1>2, <1>t DEF ClientFails, TypeOK, ClientState
    <2> QED
      BY <1>2, <1>t, <2>1 DEF ClientFails, ShapeInv, TypeOK, HeldInv, SendingInv, RouteInv,
            recordVars, handlerVars, loopVars, keepVars, linkVars, workerVars
  <1>3. CASE ReadFrame
    <2>1. /\ up' = Tail(up) /\ up # <<>> /\ up \in Seq(Event \cup {Bare("pong")})
          /\ silent' = 0 /\ Len(up) <= WireCap
          /\ UNCHANGED <<handlerVars, backlog, permit, link, down, workerVars, clientVars>>
      BY <1>3, <1>t DEF ReadFrame, TypeOK
    <2>2. /\ up' \in Seq(Event \cup {Bare("pong")}) /\ Len(up') <= WireCap
          /\ Head(up) \in Event \cup {Bare("pong")} /\ silent' \in 0..KeepTimeout
      BY <2>1, QueueFacts, Numbers
    <2>3. /\ session' \in {"active", "ended"} /\ terminal' \in Attachment \cup {None}
          /\ spawned' \subseteq Attachment
      BY <1>3, <1>t DEF ReadFrame, EndSession, TypeOK, recordVars
    <2>4. RouteInv' /\ loop' \in {"select", "routing", "ended"}
          /\ routing' \in [to : Attachment \cup {None}, frame : Outputs \cup {NoFrame}]
      <3>1. CASE UNCHANGED loopVars
        BY <1>t, <3>1 DEF RouteInv, TypeOK, loopVars
      <3>2. CASE Head(up).kind = "output" /\ terminal # None /\ loop' = "routing"
                 /\ routing' = [to |-> terminal, frame |-> Head(up)]
        <4>1. Head(up) \in Outputs
          BY <2>2, <3>2, FrameFacts
        <4> QED
          BY <1>t, <3>2, <4>1 DEF RouteInv, TypeOK
      <3> QED
        BY <1>3, <3>1, <3>2 DEF ReadFrame, RouteTo
    <2> QED
      BY <1>t, <2>1, <2>2, <2>3, <2>4 DEF ShapeInv, TypeOK, HeldInv, SendingInv,
            handlerVars, workerVars, clientVars
  <1>4. CASE Route
    <2>0. routing.to \in Attachment /\ routing.frame \in Event
      BY <1>4, <1>t DEF Route, RouteInv, Event
    <2>1. /\ backlog' \in [Attachment -> Seq(Event)]
          /\ \A u \in Attachment : Len(backlog'[u]) <= Backlog
      BY <1>4, <2>0, OfferShape DEF Route
    <2>2. RouteInv' /\ loop' \in {"select", "routing", "ended"}
          /\ routing' \in [to : Attachment \cup {None}, frame : Outputs \cup {NoFrame}]
      BY <1>4 DEF Route, RouteInv, NoRoute
    <2> QED
      BY <1>4, <1>t, <2>1, <2>2, SMTT(30) DEF Route, ShapeInv, TypeOK, HeldInv, SendingInv,
            recordVars, handlerVars, keepVars, linkVars, workerVars, clientVars
  <1>5. CASE LoopEnds
    <2>1. /\ session' \in {"active", "ended"} /\ terminal' \in Attachment \cup {None}
          /\ spawned' \subseteq Attachment
      BY <1>5, <1>t DEF LoopEnds, EndSession, TypeOK
    <2>2. RouteInv' /\ silent' \in 0..KeepTimeout
      BY <1>5, <1>t, Numbers DEF LoopEnds, RouteInv
    <2> QED
      BY <1>5, <1>t, <2>1, <2>2 DEF LoopEnds, ShapeInv, TypeOK, HeldInv, SendingInv,
            handlerVars, linkVars, workerVars, clientVars
  <1>6. CASE Keepalive
    <2>1. /\ down' \in Seq(Inputs \cup {Bare("ping"), Bare("resize")}) /\ Len(down') <= WireCap
          /\ silent' \in 0..KeepTimeout /\ permit' \in BOOLEAN
      <3>1. /\ down \in Seq(Inputs \cup {Bare("ping"), Bare("resize")}) /\ Len(down) <= WireCap
            /\ silent \in 0..KeepTimeout
        BY <1>t DEF TypeOK
      <3>2. /\ Append(down, Bare("ping")) \in Seq(Inputs \cup {Bare("ping"), Bare("resize")})
            /\ Len(Append(down, Bare("ping"))) = Len(down) + 1 /\ Len(down) \in Nat
        BY <3>1, QueueFacts
      <3>3. permit' \in BOOLEAN
        BY <1>6, <1>t, Zenon DEF Keepalive, TypeOK
      <3> QED
        BY <1>6, <3>1, <3>2, <3>3, Numbers DEF Keepalive
    <2> QED
      BY <1>6, <1>t, <2>1, SMTT(30) DEF Keepalive, ShapeInv, TypeOK, HeldInv, SendingInv, RouteInv,
            recordVars, handlerVars, loopVars, workerVars, clientVars
  <1>7. CASE CloseSocket \/ LinkFails
    <2>1. /\ down' \in Seq(Inputs \cup {Bare("ping"), Bare("resize")}) /\ Len(down') <= WireCap
          /\ up' \in Seq(Event \cup {Bare("pong")}) /\ Len(up') <= WireCap /\ link' \in BOOLEAN
      <3>1. \A S : <<>> \in Seq(S)
        OBVIOUS
      <3>2. Len(<<>>) = 0 /\ 0 <= WireCap
        BY Numbers
      <3>3. down' = <<>> /\ up' \in {up, <<>>} /\ link' = FALSE
        BY <1>7 DEF CloseSocket, LinkFails
      <3> QED
        BY <1>t, <3>1, <3>2, <3>3, ZenonT(40) DEF TypeOK
    <2>2. UNCHANGED <<recordVars, handlerVars, backlog, loopVars, keepVars, workerVars, clientVars>>
      BY <1>7 DEF CloseSocket, LinkFails
    <2>3. TypeOK'
      BY <1>t, <2>1, <2>2 DEF TypeOK, recordVars, handlerVars, loopVars, keepVars, workerVars,
         clientVars
    <2> QED
      BY <1>t, <2>2, <2>3 DEF ShapeInv, HeldInv, SendingInv, RouteInv, handlerVars, loopVars,
         workerVars
  <1> QED
    BY <1>1, <1>2, <1>3, <1>4, <1>5, <1>6, <1>7

\* The steps of the worker and its shell keep it.
LEMMA ShapeWorker == ASSUME ShapeInv, WorkerStep \/ ShellReads PROVE ShapeInv'
  <1>t. TypeOK /\ HeldInv /\ SendingInv /\ RouteInv
    BY DEF ShapeInv
  <1>0. UNCHANGED <<recordVars, handlerVars, backlog, loopVars, keepVars, clientVars>>
    BY DEF WorkerStep, ReadPty, ShellEnds, SendServer, ReadServer, WriteInput, IdleReads,
           WorkerLost, ShellReads, workerVars, linkVars
  <1>s. ASSUME link' \in BOOLEAN, worker' \in WorkerPc, HeldInv',
               held' \in Event \cup Inputs \cup {NoFrame, Bare("pong")},
               produced' \in 0..MaxOut,
               up' \in Seq(Event \cup {Bare("pong")}), Len(up') <= WireCap,
               down' \in Seq(Inputs \cup {Bare("ping"), Bare("resize")}), Len(down') <= WireCap,
               pty' \in Seq(1..MaxIn), Len(pty') <= PtyCap, consumed' \in Seq(1..MaxIn)
        PROVE  ShapeInv'
    BY <1>t, <1>0, <1>s DEF ShapeInv, TypeOK, SendingInv, RouteInv,
       recordVars, handlerVars, loopVars, keepVars, clientVars
  <1>1. CASE ReadPty
    <2>1. produced + 1 \in 1..MaxOut /\ produced' \in 0..MaxOut
      BY <1>1, <1>t, Numbers DEF ReadPty, TypeOK
    <2>2. held' \in Outputs /\ worker' = "sendOutput"
      BY <1>1, <2>1, FrameFacts DEF ReadPty
    <2>3. /\ HeldInv' /\ held' \in Event \cup Inputs \cup {NoFrame, Bare("pong")}
          /\ worker' \in WorkerPc
      BY <2>2 DEF HeldInv, Event, WorkerPc
    <2> QED
      BY <1>1, <1>t, <1>s, <2>1, <2>3 DEF ReadPty, TypeOK, linkVars
  <1>2. CASE ShellEnds
    <2>1. /\ HeldInv' /\ held' \in Event \cup Inputs \cup {NoFrame, Bare("pong")}
          /\ worker' \in WorkerPc
      BY <1>2 DEF ShellEnds, HeldInv, Event, WorkerPc
    <2> QED
      BY <1>2, <1>t, <1>s, <2>1 DEF ShellEnds, TypeOK, linkVars
  <1>3. CASE SendServer
    <2>1. held \in Event \cup {Bare("pong")}
      BY <1>3, <1>t DEF SendServer, HeldInv, Event
    <2>2. up' \in Seq(Event \cup {Bare("pong")}) /\ Len(up') <= WireCap
      <3>1. up \in Seq(Event \cup {Bare("pong")}) /\ Len(up) <= WireCap
        BY <1>t DEF TypeOK
      <3>2. /\ Append(up, held) \in Seq(Event \cup {Bare("pong")})
            /\ Len(Append(up, held)) = Len(up) + 1 /\ Len(up) \in Nat
        BY <2>1, <3>1, QueueFacts
      <3> QED
        BY <1>3, <3>1, <3>2, Numbers DEF SendServer
    <2>3. /\ HeldInv' /\ held' \in Event \cup Inputs \cup {NoFrame, Bare("pong")}
          /\ worker' \in WorkerPc
      BY <1>3 DEF SendServer, HeldInv, WorkerPc
    <2> QED
      BY <1>3, <1>t, <1>s, <2>2, <2>3 DEF SendServer, TypeOK
  <1>4. CASE ReadServer
    <2>1. down \in Seq(Inputs \cup {Bare("ping"), Bare("resize")}) /\ Len(down) <= WireCap
          /\ down # <<>> /\ down' = Tail(down)
      BY <1>4, <1>t DEF ReadServer, TypeOK
    <2>2. /\ down' \in Seq(Inputs \cup {Bare("ping"), Bare("resize")}) /\ Len(down') <= WireCap
          /\ Head(down) \in Inputs \cup {Bare("ping"), Bare("resize")}
      BY <2>1, QueueFacts, Numbers
    <2>3. /\ HeldInv' /\ held' \in Event \cup Inputs \cup {NoFrame, Bare("pong")}
          /\ worker' \in WorkerPc
      BY <1>4, <1>t, <2>2, FrameFacts DEF ReadServer, HeldInv, WorkerPc, TypeOK
    <2> QED
      BY <1>4, <1>t, <1>s, <2>2, <2>3 DEF ReadServer, TypeOK
  <1>5. CASE WriteInput
    <2>1. held.n \in 1..MaxIn
      BY <1>5, <1>t, FrameFacts DEF WriteInput, HeldInv
    <2>2. pty' \in Seq(1..MaxIn) /\ Len(pty') <= PtyCap
      BY <1>5, <1>t, <2>1, QueueFacts, Numbers DEF WriteInput, TypeOK
    <2>3. /\ HeldInv' /\ held' \in Event \cup Inputs \cup {NoFrame, Bare("pong")}
          /\ worker' \in WorkerPc
      BY <1>5 DEF WriteInput, HeldInv, WorkerPc
    <2> QED
      BY <1>5, <1>t, <1>s, <2>2, <2>3 DEF WriteInput, TypeOK, linkVars
  <1>6. CASE IdleReads \/ WorkerLost
    <2>1. /\ down' \in Seq(Inputs \cup {Bare("ping"), Bare("resize")}) /\ Len(down') <= WireCap
          /\ link' \in BOOLEAN
      <3>1. /\ down \in Seq(Inputs \cup {Bare("ping"), Bare("resize")}) /\ Len(down) <= WireCap
            /\ link \in BOOLEAN
        BY <1>t DEF TypeOK
      <3>2. down # <<>> => /\ Tail(down) \in Seq(Inputs \cup {Bare("ping"), Bare("resize")})
                           /\ Len(Tail(down)) <= WireCap
        BY <3>1, QueueFacts, Numbers
      <3>3. /\ <<>> \in Seq(Inputs \cup {Bare("ping"), Bare("resize")})
            /\ Len(<<>>) <= WireCap
        BY Numbers
      <3> QED
        BY <1>6, <3>1, <3>2, <3>3 DEF IdleReads, WorkerLost
    <2>2. /\ HeldInv' /\ held' \in Event \cup Inputs \cup {NoFrame, Bare("pong")}
          /\ worker' \in WorkerPc
      BY <1>6, <1>t DEF IdleReads, WorkerLost, HeldInv, WorkerPc, TypeOK, workerVars
    <2> QED
      BY <1>6, <1>t, <1>s, <2>1, <2>2 DEF IdleReads, WorkerLost, TypeOK, workerVars
  <1>7. CASE ShellReads
    <2>1. /\ pty' \in Seq(1..MaxIn) /\ Len(pty') <= PtyCap /\ consumed' \in Seq(1..MaxIn)
      <3>1. pty \in Seq(1..MaxIn) /\ Len(pty) <= PtyCap /\ consumed \in Seq(1..MaxIn)
        BY <1>t DEF TypeOK
      <3>2. pty # <<>> /\ consumed' = Append(consumed, Head(pty)) /\ pty' = Tail(pty)
        BY <1>7 DEF ShellReads
      <3>3. /\ Head(pty) \in 1..MaxIn /\ Tail(pty) \in Seq(1..MaxIn)
            /\ Len(Tail(pty)) <= PtyCap
        BY <3>1, <3>2, QueueFacts, Numbers
      <3> QED
        BY <3>1, <3>2, <3>3, QueueFacts
    <2>2. HeldInv'
      BY <1>7, <1>t DEF ShellReads, HeldInv
    <2> QED
      BY <1>7, <1>t, <1>s, <2>1, <2>2 DEF ShellReads, TypeOK, linkVars
  <1> QED
    BY <1>1, <1>2, <1>3, <1>4, <1>5, <1>6, <1>7 DEF WorkerStep

\* Every step keeps the shape.
LEMMA ShapeNext == ASSUME ShapeInv, [Next]_vars PROVE ShapeInv'
  <1>1. CASE UNCHANGED vars
    BY <1>1 DEF vars, ShapeInv, TypeOK, HeldInv, SendingInv, RouteInv,
       recordVars, handlerVars, loopVars, keepVars, linkVars, workerVars, clientVars
  <1> QED
    BY <1>1, ShapeHandler, ShapeServer, ShapeWorker DEF Next

-----------------------------------------------------------------------------
(* The reservation.                                                        *)

BaseInv == ShapeInv /\ OwnerInv /\ NewInv /\ LinkInv

\* What Init says of it.
LEMMA BaseInit == ASSUME Init PROVE BaseInv
  <1>1. OwnerInv /\ NewInv /\ LinkInv
    BY TerminalAssumption
       DEF Init, OwnerInv, ReservationOwned, Attached, NewInv, LinkInv, NoRoute
  <1> QED
    BY <1>1, ShapeInit DEF BaseInv

\* Where a handler goes in its steps, and what happens to the reservation.
LEMMA HandlerGoes ==
    ASSUME ShapeInv, NEW t \in Attachment, HandlerStep(t)
    PROVE  /\ handler[t] # "none"
           /\ \E pc \in HandlerPc \ {"none"} :
                /\ handler' = [handler EXCEPT ![t] = pc]
                /\ pc = "over" => terminal' = Released(t)
                /\ pc # "over" => terminal' = terminal
                /\ pc # "over" => Attached(t)
           /\ \A u \in Attachment : u # t => backlog'[u] = backlog[u] /\ received'[u] = received[u]
           /\ UNCHANGED <<session, spawned, loopVars, link, worker>>
           /\ ~link => UNCHANGED down
  <1>t. handler \in [Attachment -> HandlerPc] /\ backlog \in [Attachment -> Seq(Event)]
        /\ received \in [Attachment -> Seq(1..MaxOut)]
    BY DEF ShapeInv, TypeOK
  <1>1. CASE Upgrade(t)
    BY <1>1, <1>t DEF Upgrade, Go, Attached, HandlerPc, recordVars, linkVars, workerVars, clientVars
  <1>2. CASE PingClient(t)
    BY <1>2, <1>t DEF PingClient, ToClient, Go, Attached, HandlerPc, recordVars, linkVars,
       workerVars
  <1>3. CASE ClientSilent(t) \/ ClientLost(t) \/ SendClientFails(t) \/ SendClose(t)
    BY <1>3, <1>t DEF ClientSilent, ClientLost, SendClientFails, SendClose, Go, Attached,
       HandlerPc, recordVars, linkVars, workerVars, clientVars
  <1>4. CASE ClientInput(t) \/ ClientControl(t)
    BY <1>4, <1>t DEF ClientInput, ClientControl, Go, Attached,
       HandlerPc, recordVars, linkVars, workerVars, clientVars
  <1>5. CASE Recv(t)
    BY <1>5, <1>t DEF Recv, ToClient, Go, Attached, HandlerPc, recordVars, linkVars, workerVars
  <1>6. CASE SendClient(t)
    BY <1>6, <1>t DEF SendClient, Go, Attached, HandlerPc, recordVars, linkVars, workerVars
  <1>7. CASE SendWorker(t)
    BY <1>7, <1>t DEF SendWorker, Go, Attached, HandlerPc, recordVars, workerVars, clientVars
  <1>8. CASE Detach(t) \/ SpawnedDetach(t)
    BY <1>8, <1>t DEF Detach, SpawnedDetach, Go, Attached, HandlerPc, linkVars, workerVars,
       clientVars
  <1> QED
    BY <1>1, <1>2, <1>3, <1>4, <1>5, <1>6, <1>7, <1>8 DEF HandlerStep

\* The end of a session takes the reservation away.
LEMMA EndKeeps ==
    ASSUME BaseInv, EndSession, UNCHANGED handler, loop' \in {loop, "ended"}
    PROVE  OwnerInv' /\ \A t \in Attachment : handler[t] = "none" => t \notin spawned'
  <1>1. \A t \in Attachment : handler[t] = "none" => t \notin spawned /\ terminal # t
    BY DEF BaseInv, NewInv, OwnerInv, ReservationOwned
  <1>2. \A t \in Attachment : Attached(t)' <=> Attached(t)
    BY DEF Attached
  <1> QED
    BY <1>1, <1>2, TerminalAssumption DEF BaseInv, OwnerInv, ReservationOwned, EndSession

\* Every step keeps the reservation with its handler.
LEMMA BaseNext == ASSUME BaseInv, [Next]_vars PROVE BaseInv'
  <1>t. ShapeInv /\ ShapeInv' /\ OwnerInv /\ NewInv /\ LinkInv
    BY ShapeNext DEF BaseInv
  <1>h. /\ handler \in [Attachment -> HandlerPc] /\ backlog \in [Attachment -> Seq(Event)]
        /\ received \in [Attachment -> Seq(1..MaxOut)] /\ None \notin Attachment
        /\ terminal \in Attachment \cup {None}
    BY <1>t, TerminalAssumption DEF ShapeInv, TypeOK
  <1>s. ASSUME OwnerInv', NewInv', LinkInv' PROVE BaseInv'
    BY <1>t, <1>s DEF BaseInv
  <1>1. ASSUME NEW t \in Attachment, Attach(t) PROVE BaseInv'
    <2>1. OwnerInv'
      BY <1>1, <1>t, <1>h DEF Attach, Go, OwnerInv, ReservationOwned, Attached, loopVars
    <2>2. NewInv'
      BY <1>1, <1>t, <1>h DEF Attach, Go, NewInv, loopVars
    <2>3. LinkInv'
      BY <1>1, <1>t DEF Attach, LinkInv, linkVars, workerVars
    <2> QED
      BY <1>s, <2>1, <2>2, <2>3
  <1>2. ASSUME NEW t \in Attachment, HandlerStep(t) PROVE BaseInv'
    <2>1. PICK pc \in HandlerPc \ {"none"} :
                /\ handler' = [handler EXCEPT ![t] = pc]
                /\ pc = "over" => terminal' = Released(t)
                /\ pc # "over" => terminal' = terminal
                /\ pc # "over" => Attached(t)
      BY <1>2, <1>t, HandlerGoes
    <2>2. /\ handler[t] # "none"
          /\ \A u \in Attachment : u # t => backlog'[u] = backlog[u] /\ received'[u] = received[u]
          /\ UNCHANGED <<session, spawned, loopVars, link, worker>>
          /\ ~link => UNCHANGED down
      BY <1>2, <1>t, HandlerGoes
    <2>3. OwnerInv'
      BY <1>t, <1>h, <2>1, <2>2 DEF OwnerInv, ReservationOwned, Attached, Released, loopVars
    <2>4. NewInv'
      BY <1>t, <1>h, <2>1, <2>2 DEF NewInv, loopVars
    <2>5. LinkInv'
      BY <1>t, <2>2 DEF LinkInv
    <2> QED
      BY <1>s, <2>3, <2>4, <2>5
  <1>3. ASSUME NEW t \in Attachment,
               TellClosed(t) \/ \E how \in {"stalled", "gone"} : ClientFails(t, how)
        PROVE  BaseInv'
    <2>1. OwnerInv'
      BY <1>3, <1>t DEF TellClosed, ClientFails, OwnerInv, ReservationOwned, Attached,
         handlerVars, loopVars, recordVars
    <2>2. NewInv'
      <3>1. \A u \in Attachment : handler[u] = "none" => backlog'[u] = backlog[u]
        BY <1>3, <1>t, <1>h DEF TellClosed, ClientFails, NewInv, Offer, Attached
      <3> QED
        BY <1>3, <1>t, <3>1 DEF TellClosed, ClientFails, NewInv, handlerVars, loopVars, recordVars,
           clientVars
    <2>3. LinkInv'
      BY <1>3, <1>t DEF TellClosed, ClientFails, LinkInv, linkVars, workerVars
    <2> QED
      BY <1>s, <2>1, <2>2, <2>3
  <1>4. CASE ReadFrame
    <2>0. /\ loop = "select" /\ UNCHANGED <<handlerVars, backlog, link, down, workerVars,
                                            clientVars>>
          /\ \/ UNCHANGED <<loopVars, recordVars>>
             \/ EndSession /\ UNCHANGED loopVars
             \/ RouteTo(Head(up)) /\ UNCHANGED recordVars
      BY <1>4 DEF ReadFrame
    <2>l. LinkInv'
      BY <1>t, <2>0 DEF LinkInv, workerVars
    <2>1. CASE UNCHANGED <<loopVars, recordVars>>
      BY <1>t, <1>s, <2>0, <2>1, <2>l DEF OwnerInv, ReservationOwned, Attached, NewInv, loopVars,
         recordVars, handlerVars, clientVars
    <2>2. CASE EndSession /\ UNCHANGED loopVars
      <3>1. OwnerInv' /\ \A t \in Attachment : handler[t] = "none" => t \notin spawned'
        BY <2>0, <2>2, EndKeeps DEF handlerVars, loopVars
      <3>2. NewInv'
        BY <1>t, <2>0, <2>2, <3>1 DEF NewInv, loopVars, handlerVars, clientVars
      <3> QED
        BY <1>s, <2>l, <3>1, <3>2
    <2>3. CASE RouteTo(Head(up)) /\ UNCHANGED recordVars
      <3>1. OwnerInv'
        BY <1>t, <2>0, <2>3 DEF OwnerInv, ReservationOwned, Attached, RouteTo, loopVars,
           recordVars, handlerVars
      <3>2. \A t \in Attachment : handler[t] = "none" => routing'.to # t
        BY <1>t, <2>3 DEF RouteTo, OwnerInv, ReservationOwned, NewInv, loopVars
      <3>3. NewInv'
        BY <1>t, <2>0, <2>3, <3>2 DEF NewInv, recordVars, handlerVars, clientVars
      <3> QED
        BY <1>s, <2>l, <3>1, <3>3
    <2> QED
      BY <2>0, <2>1, <2>2, <2>3
  <1>5. CASE Route
    <2>1. OwnerInv' /\ LinkInv'
      BY <1>5, <1>t DEF Route, OwnerInv, ReservationOwned, Attached, LinkInv, recordVars,
         handlerVars, linkVars, workerVars
    <2>2. \A u \in Attachment : handler[u] = "none" => backlog'[u] = backlog[u]
      BY <1>5, <1>t, <1>h DEF Route, NewInv, Offer, Attached
    <2>3. NewInv'
      BY <1>5, <1>t, <1>h, <2>2 DEF Route, NewInv, NoRoute, recordVars, handlerVars, clientVars
    <2> QED
      BY <1>s, <2>1, <2>3
  <1>6. CASE LoopEnds
    <2>1. OwnerInv' /\ \A t \in Attachment : handler[t] = "none" => t \notin spawned'
      BY <1>6, EndKeeps DEF LoopEnds, handlerVars
    <2>2. NewInv' /\ LinkInv'
      BY <1>6, <1>t, <2>1 DEF LoopEnds, NewInv, LinkInv, handlerVars, clientVars, linkVars,
         workerVars
    <2> QED
      BY <1>s, <2>1, <2>2
  <1>7. CASE Keepalive \/ CloseSocket \/ LinkFails
    <2>1. OwnerInv' /\ NewInv'
      BY <1>7, <1>t DEF Keepalive, CloseSocket, LinkFails, OwnerInv, ReservationOwned, Attached,
         NewInv, recordVars, handlerVars, loopVars, clientVars
    <2>2. LinkInv'
      BY <1>7, <1>t DEF Keepalive, CloseSocket, LinkFails, LinkInv, workerVars
    <2> QED
      BY <1>s, <2>1, <2>2
  <1>8. CASE WorkerStep \/ ShellReads
    <2>0. UNCHANGED <<recordVars, handlerVars, backlog, loopVars, keepVars, clientVars>>
      BY <1>8 DEF WorkerStep, ReadPty, ShellEnds, SendServer, ReadServer, WriteInput, IdleReads,
           WorkerLost, ShellReads, workerVars, linkVars
    <2>1. OwnerInv' /\ NewInv'
      BY <1>t, <2>0 DEF OwnerInv, ReservationOwned, Attached,
         NewInv, recordVars, handlerVars, loopVars, clientVars
    <2>2. LinkInv'
      BY <1>8, <1>t DEF WorkerStep, ReadPty, ShellEnds, SendServer, ReadServer, WriteInput,
         IdleReads, WorkerLost, ShellReads, LinkInv, workerVars, linkVars
    <2> QED
      BY <1>s, <2>1, <2>2
  <1>9. CASE UNCHANGED vars
    <2>1. OwnerInv' /\ NewInv' /\ LinkInv'
      BY <1>9, <1>t DEF vars, OwnerInv, ReservationOwned, Attached, NewInv, LinkInv,
         recordVars, handlerVars, loopVars, linkVars, workerVars, clientVars
    <2> QED
      BY <1>s, <2>1
  <1> QED
    BY <1>1, <1>2, <1>3, <1>4, <1>5, <1>6, <1>7, <1>8, <1>9 DEF Next

-----------------------------------------------------------------------------
(* The units in a queue.                                                   *)

\* No frame, and one frame.
LEMMA UnitsFew ==
    /\ \A k : Units(<<>>, k) = {} /\ InOrder(<<>>, k)
    /\ \A f, k : /\ f.kind = k => Units(<<f>>, k) = {f.n}
                 /\ f.kind # k => Units(<<f>>, k) = {}
                 /\ InOrder(<<f>>, k)
  <1>1. \A f, k : /\ f.kind = k => Units(<<f>>, k) = {f.n}
                  /\ f.kind # k => Units(<<f>>, k) = {}
                  /\ InOrder(<<f>>, k)
    <2> TAKE f, k
    <2>1. DOMAIN <<f>> = {1} /\ <<f>>[1] = f
      OBVIOUS
    <2>2. \A i, j \in DOMAIN <<f>> : ~(i < j)
      BY <2>1
    <2> QED
      BY <2>1, <2>2 DEF Units, InOrder
  <1> QED
    BY <1>1 DEF Units, InOrder

\* A frame is added.
LEMMA UnitsAppend ==
    ASSUME NEW S, NEW s \in Seq(S), NEW f \in S, NEW k
    PROVE  /\ Units(Append(s, f), k) = Units(s, k) \cup Units(<<f>>, k)
           /\ InOrder(s, k) /\ Below(Units(s, k), Units(<<f>>, k)) => InOrder(Append(s, f), k)
  <1>1. /\ Len(s) \in Nat /\ DOMAIN s = 1..Len(s) /\ DOMAIN Append(s, f) = 1..(Len(s) + 1)
        /\ Append(s, f)[Len(s) + 1] = f /\ \A i \in DOMAIN s : Append(s, f)[i] = s[i]
    BY QueueFacts
  <1>2. Units(Append(s, f), k) \subseteq Units(s, k) \cup Units(<<f>>, k)
    <2> SUFFICES ASSUME NEW i \in DOMAIN Append(s, f), Append(s, f)[i].kind = k
                 PROVE  Append(s, f)[i].n \in Units(s, k) \cup Units(<<f>>, k)
      BY DEF Units
    <2>1. CASE i = Len(s) + 1
      <3>1. Append(s, f)[i] = f /\ f.kind = k
        BY <1>1, <2>1
      <3>2. f.n \in Units(<<f>>, k)
        <4>1. f.kind = k
          BY <3>1
        <4>2. Units(<<f>>, k) = {f.n}
          BY ONLY <4>1, UnitsFew
        <4> QED
          BY <4>2
      <3> QED
        BY <3>1, <3>2
    <2>2. CASE i \in DOMAIN s
      BY <1>1, <2>2 DEF Units
    <2> QED
      BY <1>1, <2>1, <2>2
  <1>3. Units(s, k) \subseteq Units(Append(s, f), k)
    <2> SUFFICES ASSUME NEW i \in DOMAIN s, s[i].kind = k
                 PROVE  s[i].n \in Units(Append(s, f), k)
      BY DEF Units
    <2>1. i \in DOMAIN Append(s, f) /\ Append(s, f)[i] = s[i]
      BY <1>1
    <2> QED
      BY <2>1 DEF Units
  <1>4. Units(<<f>>, k) \subseteq Units(Append(s, f), k)
    <2>1. Len(s) + 1 \in DOMAIN Append(s, f)
      BY <1>1
    <2> QED
      BY <1>1, <2>1, UnitsFew DEF Units
  <1>5. ASSUME InOrder(s, k), Below(Units(s, k), Units(<<f>>, k)) PROVE InOrder(Append(s, f), k)
    <2> SUFFICES ASSUME NEW i \in DOMAIN Append(s, f), NEW j \in DOMAIN Append(s, f), i < j,
                        Append(s, f)[i].kind = k, Append(s, f)[j].kind = k
                 PROVE  Append(s, f)[i].n < Append(s, f)[j].n
      BY DEF InOrder
    <2>1. i \in DOMAIN s /\ Append(s, f)[i] = s[i]
      BY <1>1
    <2>2. CASE j \in DOMAIN s
      BY <1>1, <1>5, <2>1, <2>2 DEF InOrder
    <2>3. CASE j = Len(s) + 1
      <3>1. s[i].n \in Units(s, k) /\ f.n \in Units(<<f>>, k)
        BY <1>1, <2>1, <2>3, UnitsFew DEF Units
      <3> QED
        BY <1>1, <1>5, <2>1, <2>3, <3>1 DEF Below
    <2> QED
      BY <1>1, <2>2, <2>3
  <1> QED
    BY <1>2, <1>3, <1>4, <1>5

\* The head is taken.
LEMMA UnitsTail ==
    ASSUME NEW S, NEW s \in Seq(S), s # <<>>, NEW k
    PROVE  /\ Units(s, k) = Units(<<Head(s)>>, k) \cup Units(Tail(s), k)
           /\ InOrder(s, k) =>
                 InOrder(Tail(s), k) /\ Below(Units(<<Head(s)>>, k), Units(Tail(s), k))
  <1>1. /\ Len(s) \in Nat \ {0} /\ DOMAIN s = 1..Len(s) /\ DOMAIN Tail(s) = 1..(Len(s) - 1)
        /\ Head(s) = s[1] /\ \A i \in 1..(Len(s) - 1) : Tail(s)[i] = s[i + 1]
    BY QueueFacts
  <1>2. Units(s, k) \subseteq Units(<<Head(s)>>, k) \cup Units(Tail(s), k)
    <2> SUFFICES ASSUME NEW i \in DOMAIN s, s[i].kind = k
                 PROVE  s[i].n \in Units(<<Head(s)>>, k) \cup Units(Tail(s), k)
      BY DEF Units
    <2>1. CASE i = 1
      <3>1. Head(s) = s[i] /\ Head(s).kind = k
        BY <1>1, <2>1
      <3> QED
        BY <3>1, UnitsFew, ZenonT(40)
    <2>2. CASE i # 1
      <3>1. i - 1 \in DOMAIN Tail(s) /\ Tail(s)[i - 1] = s[i]
        BY <1>1, <2>2
      <3> QED
        BY <3>1 DEF Units
    <2> QED
      BY <2>1, <2>2
  <1>3. Units(Tail(s), k) \subseteq Units(s, k)
    <2> SUFFICES ASSUME NEW i \in DOMAIN Tail(s), Tail(s)[i].kind = k
                 PROVE  Tail(s)[i].n \in Units(s, k)
      BY DEF Units
    <2>1. i + 1 \in DOMAIN s /\ Tail(s)[i] = s[i + 1]
      BY <1>1
    <2> QED
      BY <2>1 DEF Units
  <1>4. Units(<<Head(s)>>, k) \subseteq Units(s, k)
    <2>1. 1 \in DOMAIN s
      BY <1>1
    <2> QED
      BY <1>1, <2>1, UnitsFew DEF Units
  <1>5. ASSUME InOrder(s, k) PROVE InOrder(Tail(s), k)
    <2> SUFFICES ASSUME NEW i \in DOMAIN Tail(s), NEW j \in DOMAIN Tail(s), i < j,
                        Tail(s)[i].kind = k, Tail(s)[j].kind = k
                 PROVE  Tail(s)[i].n < Tail(s)[j].n
      BY DEF InOrder
    <2>1. /\ i + 1 \in DOMAIN s /\ j + 1 \in DOMAIN s /\ i + 1 < j + 1
          /\ Tail(s)[i] = s[i + 1] /\ Tail(s)[j] = s[j + 1]
      BY <1>1
    <2> QED
      BY <1>5, <2>1 DEF InOrder
  <1>6. ASSUME InOrder(s, k) PROVE Below(Units(<<Head(s)>>, k), Units(Tail(s), k))
    <2> SUFFICES ASSUME s[1].kind = k, NEW i \in DOMAIN Tail(s), Tail(s)[i].kind = k
                 PROVE  s[1].n < Tail(s)[i].n
      BY <1>1, UnitsFew DEF Units, Below
    <2>1. 1 \in DOMAIN s /\ i + 1 \in DOMAIN s /\ 1 < i + 1 /\ Tail(s)[i] = s[i + 1]
      BY <1>1
    <2> QED
      BY <1>6, <2>1 DEF InOrder
  <1> QED
    BY <1>2, <1>3, <1>4, <1>5, <1>6

\* Two runs of frames behind each other.
LEMMA UnitsConcat ==
    ASSUME NEW S, NEW s \in Seq(S), NEW u \in Seq(S), NEW k
    PROVE  /\ Units(s \o u, k) = Units(s, k) \cup Units(u, k)
           /\ InOrder(s, k) /\ InOrder(u, k) /\ Below(Units(s, k), Units(u, k)) =>
                 InOrder(s \o u, k)
  <1>1. /\ Len(s) \in Nat /\ DOMAIN s = 1..Len(s) /\ Len(u) \in Nat /\ DOMAIN u = 1..Len(u)
        /\ DOMAIN (s \o u) = 1..(Len(s) + Len(u))
        /\ \A i \in 1..(Len(s) + Len(u)) :
              (s \o u)[i] = IF i <= Len(s) THEN s[i] ELSE u[i - Len(s)]
    OBVIOUS
  <1>2. Units(s \o u, k) \subseteq Units(s, k) \cup Units(u, k)
    <2> SUFFICES ASSUME NEW i \in DOMAIN (s \o u), (s \o u)[i].kind = k
                 PROVE  (s \o u)[i].n \in Units(s, k) \cup Units(u, k)
      BY DEF Units
    <2>1. CASE i <= Len(s)
      <3>1. i \in DOMAIN s /\ (s \o u)[i] = s[i]
        BY <1>1, <2>1
      <3> QED
        BY <3>1 DEF Units
    <2>2. CASE ~(i <= Len(s))
      <3>1. i - Len(s) \in DOMAIN u /\ (s \o u)[i] = u[i - Len(s)]
        BY <1>1, <2>2
      <3> QED
        BY <3>1 DEF Units
    <2> QED
      BY <2>1, <2>2
  <1>3. Units(s, k) \subseteq Units(s \o u, k)
    <2> SUFFICES ASSUME NEW i \in DOMAIN s, s[i].kind = k PROVE s[i].n \in Units(s \o u, k)
      BY DEF Units
    <2>1. i \in DOMAIN (s \o u) /\ (s \o u)[i] = s[i]
      BY <1>1
    <2> QED
      BY <2>1 DEF Units
  <1>4. Units(u, k) \subseteq Units(s \o u, k)
    <2> SUFFICES ASSUME NEW i \in DOMAIN u, u[i].kind = k PROVE u[i].n \in Units(s \o u, k)
      BY DEF Units
    <2>1. i + Len(s) \in DOMAIN (s \o u) /\ (s \o u)[i + Len(s)] = u[i]
      BY <1>1
    <2> QED
      BY <2>1 DEF Units
  <1>5. ASSUME InOrder(s, k), InOrder(u, k), Below(Units(s, k), Units(u, k))
        PROVE  InOrder(s \o u, k)
    <2> SUFFICES ASSUME NEW i \in DOMAIN (s \o u), NEW j \in DOMAIN (s \o u), i < j,
                        (s \o u)[i].kind = k, (s \o u)[j].kind = k
                 PROVE  (s \o u)[i].n < (s \o u)[j].n
      BY DEF InOrder
    <2>1. CASE j <= Len(s)
      <3>1. /\ i \in DOMAIN s /\ (s \o u)[i] = s[i] /\ j \in DOMAIN s /\ (s \o u)[j] = s[j]
        BY <1>1, <2>1
      <3> QED
        BY <1>5, <3>1 DEF InOrder
    <2>2. CASE i <= Len(s) /\ ~(j <= Len(s))
      <3>1. /\ i \in DOMAIN s /\ (s \o u)[i] = s[i]
            /\ j - Len(s) \in DOMAIN u /\ (s \o u)[j] = u[j - Len(s)]
        BY <1>1, <2>2
      <3>2. s[i].n \in Units(s, k) /\ u[j - Len(s)].n \in Units(u, k)
        BY <3>1 DEF Units
      <3> QED
        BY <1>5, <3>1, <3>2 DEF Below
    <2>3. CASE ~(i <= Len(s))
      <3>1. /\ i - Len(s) \in DOMAIN u /\ (s \o u)[i] = u[i - Len(s)]
            /\ j - Len(s) \in DOMAIN u /\ (s \o u)[j] = u[j - Len(s)]
            /\ i - Len(s) < j - Len(s)
        BY <1>1, <2>3
      <3> QED
        BY <1>5, <3>1 DEF InOrder
    <2> QED
      BY <1>1, <2>1, <2>2, <2>3
  <1> QED
    BY <1>2, <1>3, <1>4, <1>5

\* The next unit of a run without a gap continues it.
LEMMA NextUnit ==
    ASSUME NEW s \in Seq(1..MaxOut), Steady(s), NEW x \in 1..MaxOut, NEW M \in SUBSET Nat,
           Below({s[i] : i \in DOMAIN s}, {x}), Below({x}, M),
           Convex({s[i] : i \in DOMAIN s} \cup {x} \cup M)
    PROVE  Steady(Append(s, x))
  <1>1. /\ Len(s) \in Nat /\ DOMAIN s = 1..Len(s) /\ DOMAIN Append(s, x) = 1..(Len(s) + 1)
        /\ Append(s, x)[Len(s) + 1] = x /\ \A i \in DOMAIN s : Append(s, x)[i] = s[i]
        /\ \A i \in DOMAIN s : s[i] \in 1..MaxOut
    <2> DEFINE S == 1..MaxOut
    <2> s \in Seq(S) /\ x \in S
      OBVIOUS
    <2> HIDE DEF S
    <2>1. /\ Len(s) \in Nat /\ DOMAIN s = 1..Len(s) /\ DOMAIN Append(s, x) = 1..(Len(s) + 1)
          /\ Append(s, x)[Len(s) + 1] = x /\ \A i \in DOMAIN s : Append(s, x)[i] = s[i]
          /\ \A i \in DOMAIN s : s[i] \in S
      BY QueueFacts
    <2> QED
      BY <2>1 DEF S
  <1>n. MaxOut \in Nat
    BY Numbers
  <1>2. CASE Len(s) = 0
    BY <1>1, <1>2, <1>n DEF Steady
  <1>3. CASE Len(s) # 0
    <2>1. /\ 1 \in DOMAIN s /\ Len(s) \in DOMAIN s /\ s[1] \in 1..MaxOut
          /\ s[Len(s)] = s[1] + (Len(s) - 1)
      BY <1>1, <1>3 DEF Steady
    <2>2. x = s[Len(s)] + 1
      <3>1. s[Len(s)] < x
        BY <2>1 DEF Below
      <3>2. SUFFICES ASSUME s[Len(s)] + 1 < x PROVE FALSE
        BY <1>n, <2>1, <3>1
      <3>3. s[Len(s)] + 1 \in {s[i] : i \in DOMAIN s} \cup {x} \cup M
        <4>1. s[Len(s)] \in {s[i] : i \in DOMAIN s} /\ s[Len(s)] \in Nat /\ s[Len(s)] + 1 \in Nat
          BY <1>1, <1>n, <2>1
        <4>2. s[Len(s)] < s[Len(s)] + 1
          BY <4>1
        <4> QED
          BY <3>2, <4>1, <4>2 DEF Convex
      <3>4. s[Len(s)] + 1 # x
        BY <1>n, <2>1, <3>2
      <3>5. s[Len(s)] + 1 \notin M
        BY <1>n, <1>1, <2>1, <3>2 DEF Below
      <3>6. \A i \in DOMAIN s : s[i] # s[Len(s)] + 1
        BY <1>1, <1>n, <2>1 DEF Steady
      <3> QED
        BY <3>3, <3>4, <3>5, <3>6
    <2>3. \A i \in DOMAIN Append(s, x) : Append(s, x)[i] = s[1] + (i - 1)
      BY <1>1, <1>n, <2>1, <2>2 DEF Steady
    <2> QED
      BY <1>1, <2>1, <2>3 DEF Steady
  <1> QED
    BY <1>2, <1>3

-----------------------------------------------------------------------------
(* Output.                                                                 *)

\* The hops of a client of which nothing changes.
LEMMA LineSame ==
    ASSUME NEW t \in Attachment, LineOf(t), InOrder(backlog[t], "output")',
           Got(t)' = Got(t), AtHandler(t)' = AtHandler(t), InChannel(t)' = InChannel(t),
           AtLoop(t)' = AtLoop(t), produced \in Nat, produced' \in Nat, produced <= produced'
    PROVE  LineOf(t)'
  <1>1. Mine(t)' = Mine(t)
    BY DEF Mine
  <1>2. Mine(t)' \subseteq 1..produced'
    BY <1>1 DEF LineOf
  <1> QED
    BY <1>1, <1>2 DEF LineOf

\* What comes next for a client whose line stays.
LEMMA JoinedSame ==
    ASSUME NEW t \in Attachment, JoinedTo(t), Mine(t)' = Mine(t), Coming' = Coming,
           produced' = produced, worker = "gone" => worker' = "gone"
    PROVE  JoinedTo(t)'
  BY DEF JoinedTo, UpToDate

\* The hops beyond the read loop when nothing happens there.
LEMMA WireSame ==
    ASSUME WireInv, InOrder(up, "output")', OnWire' = OnWire, AtShell' = AtShell,
           produced' = produced, worker = "gone" => worker' = "gone"
    PROVE  WireInv'
  BY DEF WireInv, UpToDate, Coming

\* A handler's step says nothing about the other clients and about what comes.
LEMMA OutputOthers ==
    ASSUME BaseInv, OutputInv, NEW t \in Attachment,
           UNCHANGED <<up, held, worker, produced, routing>>,
           \A u \in Attachment : u # t =>
              /\ handler'[u] = handler[u] /\ sending'[u] = sending[u]
              /\ backlog'[u] = backlog[u] /\ received'[u] = received[u],
           terminal' \in {terminal, None, t},
           Steady(received'[t]),
           Serving(t)' => LineOf(t)', Serving(t)' /\ terminal' = t => JoinedTo(t)'
    PROVE  OutputInv'
  <1>n. produced \in Nat
    BY DEF BaseInv, ShapeInv, TypeOK
  <1>1. Coming' = Coming /\ OnWire' = OnWire /\ AtShell' = AtShell
    BY DEF Coming, OnWire, AtShell
  <1>2. WireInv'
    BY <1>1, WireSame DEF OutputInv, WireInv
  <1>3. ASSUME NEW u \in Attachment, u # t
        PROVE  /\ Steady(received'[u])
               /\ Serving(u)' => LineOf(u)'
               /\ Serving(u)' /\ terminal' = u => JoinedTo(u)'
    <2>1. /\ Got(u)' = Got(u) /\ AtHandler(u)' = AtHandler(u) /\ InChannel(u)' = InChannel(u)
          /\ AtLoop(u)' = AtLoop(u) /\ Serving(u)' = Serving(u) /\ backlog'[u] = backlog[u]
      BY <1>3 DEF Got, AtHandler, InChannel, AtLoop, Routed, Serving
    <2>2. Mine(u)' = Mine(u)
      BY <2>1 DEF Mine
    <2>3. ASSUME Serving(u) PROVE LineOf(u)'
      <3>1. LineOf(u) /\ InOrder(backlog[u], "output")'
        BY <2>1, <2>3 DEF OutputInv, LineOf
      <3>2. produced' \in Nat /\ produced <= produced'
        BY <1>n
      <3> QED
        BY <1>n, <2>1, <3>1, <3>2, LineSame
    <2>4. Serving(u) /\ terminal' = u => JoinedTo(u)'
      BY <1>1, <1>3, <2>2, JoinedSame, TerminalAssumption DEF OutputInv
    <2> QED
      BY <1>3, <2>1, <2>3, <2>4 DEF OutputInv
  <1> QED
    BY <1>2, <1>3 DEF OutputInv

\* A frame that carries no output.
LEMMA NoOutput ==
    /\ Units(<<NoFrame>>, "output") = {}
    /\ \A k \in {"ping", "resize", "closed", "pong"} : Units(<<Bare(k)>>, "output") = {}
    /\ \A f \in Inputs : Units(<<f>>, "output") = {}
    /\ \A f \in Outputs : Units(<<f>>, "output") = {f.n}
  BY UnitsFew, FrameFacts

\* A unit is delivered: what the client got grows by the next unit of its line.
LEMMA Delivered ==
    ASSUME BaseInv, OutputInv, NEW t \in Attachment, Serving(t), NEW f \in Outputs,
           Mine(t) = Got(t) \cup {f.n} \cup InChannel(t)' \cup AtLoop(t),
           Below(Got(t), {f.n}), Below({f.n}, InChannel(t)' \cup AtLoop(t)),
           received' = [received EXCEPT ![t] = Append(@, f.n)]
    PROVE  Steady(received'[t]) /\ Got(t)' = Got(t) \cup {f.n}
  <1>1. received[t] \in Seq(1..MaxOut) /\ received'[t] = Append(received[t], f.n)
        /\ Steady(received[t]) /\ f.n \in 1..MaxOut
    BY FrameFacts DEF BaseInv, ShapeInv, TypeOK, OutputInv
  <1>2. Convex(Mine(t)) /\ Mine(t) \subseteq 1..produced /\ produced \in Nat
    <2>1. LineOf(t)
      BY DEF OutputInv
    <2>2. produced \in Nat
      BY DEF BaseInv, ShapeInv, TypeOK
    <2> QED
      BY <2>1, <2>2 DEF LineOf
  <1>3. InChannel(t)' \cup AtLoop(t) \in SUBSET Nat
    BY <1>2
  <1>4. Got(t) \cup {f.n} \cup (InChannel(t)' \cup AtLoop(t)) = Mine(t)
    OBVIOUS
  <1>5. Steady(Append(received[t], f.n))
    <2> DEFINE M == InChannel(t)' \cup AtLoop(t)
    <2>1. /\ M \in SUBSET Nat /\ Below({f.n}, M)
          /\ Convex({received[t][i] : i \in DOMAIN received[t]} \cup {f.n} \cup M)
          /\ Below({received[t][i] : i \in DOMAIN received[t]}, {f.n})
      BY <1>2, <1>3, <1>4 DEF Got
    <2> HIDE DEF M
    <2> QED
      BY <1>1, <2>1, NextUnit
  <1>6. Got(t)' = Got(t) \cup {f.n}
    <2> DEFINE S == 1..MaxOut
    <2>1. received[t] \in Seq(S) /\ f.n \in S
      BY <1>1
    <2> HIDE DEF S
    <2>2. /\ Len(received[t]) \in Nat /\ DOMAIN received[t] = 1..Len(received[t])
          /\ DOMAIN Append(received[t], f.n) = 1..(Len(received[t]) + 1)
          /\ Append(received[t], f.n)[Len(received[t]) + 1] = f.n
          /\ \A i \in DOMAIN received[t] : Append(received[t], f.n)[i] = received[t][i]
      BY <2>1, QueueFacts
    <2>3. {Append(received[t], f.n)[i] : i \in DOMAIN Append(received[t], f.n)}
             = {received[t][i] : i \in DOMAIN received[t]} \cup {f.n}
      BY <2>2
    <2> QED
      BY <1>1, <2>3 DEF Got
  <1> QED
    BY <1>1, <1>5, <1>6

\* A step of the handler of t, as far as the output goes.
HandlerOnly(t) ==
    /\ UNCHANGED <<up, held, worker, produced, routing>>
    /\ \A u \in Attachment : u # t =>
          /\ handler'[u] = handler[u] /\ sending'[u] = sending[u]
          /\ backlog'[u] = backlog[u] /\ received'[u] = received[u]
    /\ terminal' \in {terminal, None, t}

\* Every step of a handler is one.
LEMMA HandlerIsOnly ==
    ASSUME ShapeInv, NEW t \in Attachment, Attach(t) \/ HandlerStep(t)
    PROVE  HandlerOnly(t)
  <1>t. /\ handler \in [Attachment -> HandlerPc] /\ backlog \in [Attachment -> Seq(Event)]
        /\ sending \in [Attachment -> Outputs \cup Inputs
                                        \cup {NoFrame, Bare("ping"), Bare("resize")}]
        /\ received \in [Attachment -> Seq(1..MaxOut)]
    BY DEF ShapeInv, TypeOK
  <1>1. CASE Attach(t) \/ Upgrade(t)
    BY <1>1, <1>t DEF Attach, Upgrade, Go, HandlerOnly, recordVars, linkVars, workerVars, loopVars,
       clientVars
  <1>2. CASE PingClient(t) \/ SendClient(t)
    BY <1>2, <1>t DEF PingClient, SendClient, ToClient, Go, HandlerOnly, recordVars, linkVars,
       workerVars, loopVars
  <1>3. CASE ClientSilent(t) \/ ClientLost(t) \/ SendClientFails(t) \/ SendClose(t)
    BY <1>3, <1>t DEF ClientSilent, ClientLost, SendClientFails, SendClose, Go, HandlerOnly,
       recordVars, linkVars, workerVars, loopVars, clientVars
  <1>4. CASE ClientInput(t) \/ ClientControl(t) \/ SendWorker(t)
    BY <1>4, <1>t DEF ClientInput, ClientControl, SendWorker, Go, HandlerOnly, recordVars, linkVars,
       workerVars, loopVars, clientVars
  <1>5. CASE Recv(t)
    BY <1>5, <1>t DEF Recv, ToClient, Go, HandlerOnly, recordVars, linkVars, workerVars, loopVars
  <1>6. CASE Detach(t) \/ SpawnedDetach(t)
    BY <1>6, <1>t DEF Detach, SpawnedDetach, Go, HandlerOnly, Released, linkVars, workerVars,
       loopVars, clientVars
  <1> QED
    BY <1>1, <1>2, <1>3, <1>4, <1>5, <1>6 DEF HandlerStep

\* The handler stops serving.
LEMMA Leaves ==
    ASSUME BaseInv, OutputInv, NEW t \in Attachment, HandlerOnly(t), ~Serving(t)',
           received'[t] = received[t]
    PROVE  OutputInv'
  <1>1. Steady(received'[t])
    BY DEF OutputInv
  <1> QED
    BY <1>1, OutputOthers DEF HandlerOnly

\* The units of a client that is served go from one of its hops to the next.
LEMMA MovesOn ==
    ASSUME BaseInv, OutputInv, NEW t \in Attachment, HandlerOnly(t), Serving(t),
           terminal' = terminal,
           Steady(received'[t]), Mine(t)' = Mine(t), InOrder(backlog'[t], "output"),
           Below(Got(t)', AtHandler(t)' \cup InChannel(t)' \cup AtLoop(t)'),
           Below(AtHandler(t)', InChannel(t)' \cup AtLoop(t)'),
           Below(InChannel(t)', AtLoop(t)')
    PROVE  OutputInv'
  <1>1. LineOf(t) /\ (terminal = t => JoinedTo(t)) /\ produced' = produced
    BY DEF OutputInv, HandlerOnly
  <1>2. LineOf(t)'
    BY <1>1 DEF LineOf
  <1>3. Coming' = Coming /\ (worker = "gone" => worker' = "gone")
    BY DEF Coming, OnWire, AtShell, HandlerOnly
  <1>4. terminal' = t => JoinedTo(t)'
    BY <1>1, <1>3, JoinedSame
  <1> QED
    BY <1>2, <1>4, OutputOthers DEF HandlerOnly

\* The handler does something else with its client or with the worker.
LEMMA Stays ==
    ASSUME BaseInv, OutputInv, NEW t \in Attachment, HandlerOnly(t), Serving(t),
           terminal' = terminal, AtHandler(t) = {}, AtHandler(t)' = {},
           received'[t] = received[t], backlog'[t] = backlog[t]
    PROVE  OutputInv'
  <1>1. LineOf(t) /\ Steady(received'[t])
    BY DEF OutputInv
  <1>2. Got(t)' = Got(t) /\ InChannel(t)' = InChannel(t) /\ AtLoop(t)' = AtLoop(t)
    BY DEF Got, InChannel, AtLoop, Routed, HandlerOnly
  <1>3. Mine(t)' = Mine(t)
    BY <1>2 DEF Mine
  <1>4. InOrder(backlog'[t], "output")
    BY <1>1 DEF LineOf
  <1>5. /\ Below(Got(t)', AtHandler(t)' \cup InChannel(t)' \cup AtLoop(t)')
        /\ Below(AtHandler(t)', InChannel(t)' \cup AtLoop(t)')
        /\ Below(InChannel(t)', AtLoop(t)')
    BY <1>1, <1>2 DEF LineOf
  <1> QED
    BY <1>1, <1>3, <1>4, <1>5, MovesOn

\* Attach, and the steps of a handler, keep the output in its line.
LEMMA OutputHandler ==
    ASSUME BaseInv, OutputInv, NEW t \in Attachment, Attach(t) \/ HandlerStep(t)
    PROVE  OutputInv'
  <1>o. HandlerOnly(t) /\ ShapeInv
    BY HandlerIsOnly DEF BaseInv
  <1>t. /\ handler \in [Attachment -> HandlerPc] /\ backlog \in [Attachment -> Seq(Event)]
        /\ sending \in [Attachment -> Outputs \cup Inputs
                                        \cup {NoFrame, Bare("ping"), Bare("resize")}]
        /\ received \in [Attachment -> Seq(1..MaxOut)] /\ typed \in 0..MaxIn
    BY <1>o DEF ShapeInv, TypeOK
  <1>f. Fits(handler[t], sending[t])
    BY <1>o DEF ShapeInv, SendingInv
  <1>n. AtHandler(t) # {} => handler[t] = "toClient" /\ sending[t] \in Outputs
    BY <1>f, NoOutput DEF Fits, AtHandler
  <1>g. \A pc, f : Go(t, pc, f) => handler'[t] = pc /\ sending'[t] = f
    BY <1>t DEF Go
  <1>1. CASE Attach(t)
    <2>1. /\ handler[t] = "none" /\ handler'[t] = "upgrading" /\ sending'[t] = NoFrame
          /\ UNCHANGED <<backlog, received>>
      BY <1>1, <1>g DEF Attach
    <2>2. backlog[t] = <<>> /\ received[t] = <<>> /\ routing.to # t
      BY <2>1 DEF BaseInv, NewInv
    <2>3. /\ Got(t)' = {} /\ AtHandler(t)' = {} /\ InChannel(t)' = {} /\ AtLoop(t)' = {}
          /\ InOrder(backlog'[t], "output")
      <3>1. routing' = routing
        BY <1>o DEF HandlerOnly
      <3> QED
        BY <2>1, <2>2, <3>1, NoOutput, UnitsFew DEF Got, AtHandler, InChannel, AtLoop, Routed
    <2>4. Mine(t)' = {} /\ Coming' = Coming
      BY <1>o, <2>3 DEF Mine, Coming, OnWire, AtShell, HandlerOnly
    <2>5. LineOf(t)'
      BY <2>3, <2>4 DEF LineOf, Below, Convex
    <2>6. JoinedTo(t)'
      <3>1. WireInv /\ produced' = produced /\ worker' = worker
        BY <1>o DEF OutputInv, HandlerOnly
      <3>2. Mine(t)' \cup Coming' = Coming
        BY <2>4
      <3> QED
        BY <2>4, <3>1, <3>2 DEF JoinedTo, WireInv, Below, UpToDate
    <2>7. Steady(received'[t])
      BY <2>1, <2>2 DEF Steady
    <2> QED
      BY <1>o, <2>5, <2>6, <2>7, OutputOthers DEF HandlerOnly
  <1>2. CASE Upgrade(t)
    <2>1. /\ handler[t] = "upgrading" /\ UNCHANGED <<received, terminal>>
          /\ sending'[t] = NoFrame
          /\ \/ handler'[t] = "dropped"
             \/ handler'[t] = "select" /\ backlog'[t] = backlog[t]
      BY <1>2, <1>t, <1>g DEF Upgrade, recordVars, clientVars
    <2>2. AtHandler(t) = {} /\ AtHandler(t)' = {}
      BY <1>n, <2>1, NoOutput DEF AtHandler
    <2> QED
      BY <1>o, <2>1, <2>2, Leaves, Stays DEF Serving
  <1>3. CASE PingClient(t)
    <2>1. handler[t] = "select" /\ UNCHANGED <<terminal, backlog>> /\ ToClient(t, Bare("ping"))
      BY <1>3 DEF PingClient, recordVars
    <2>2. /\ received'[t] = received[t]
          /\ sending'[t] \in {NoFrame, Bare("ping")}
      BY <1>g, <2>1, FrameFacts DEF ToClient
    <2>3. AtHandler(t) = {} /\ AtHandler(t)' = {}
      BY <1>n, <2>1, <2>2, NoOutput DEF AtHandler
    <2> QED
      BY <1>o, <2>1, <2>2, <2>3, Stays DEF Serving
  <1>4. CASE ClientSilent(t) \/ ClientLost(t) \/ SendClientFails(t) \/ SendClose(t)
    <2>1. handler'[t] \in {"closing", "detaching"} /\ received'[t] = received[t]
      BY <1>4, <1>g DEF ClientSilent, ClientLost, SendClientFails, SendClose, clientVars
    <2> QED
      BY <1>o, <2>1, Leaves DEF Serving
  <1>5. CASE ClientInput(t) \/ ClientControl(t)
    <2>1. /\ handler[t] = "select" /\ UNCHANGED <<terminal, backlog, received>>
          /\ \/ handler'[t] = "closing"
             \/ sending'[t] \in Inputs \cup {Bare("resize")}
      <3>1. typed < MaxIn => Stdin(typed + 1) \in Inputs
        BY <1>t, Numbers, FrameFacts
      <3> QED
        BY <1>5, <1>g, <3>1 DEF ClientInput, ClientControl, recordVars, clientVars
    <2>2. AtHandler(t) = {}
      BY <1>n, <2>1
    <2>3. sending'[t] \in Inputs \cup {Bare("resize")} => AtHandler(t)' = {}
      BY NoOutput DEF AtHandler
    <2> QED
      BY <1>o, <2>1, <2>2, <2>3, Leaves, Stays DEF Serving
  <1>6. CASE SendWorker(t)
    <2>1. /\ handler[t] = "toWorker" /\ UNCHANGED <<terminal, backlog, received>>
          /\ handler'[t] \in {"select", "detaching"} /\ sending'[t] = NoFrame
      BY <1>6, <1>g DEF SendWorker, recordVars, clientVars
    <2>2. AtHandler(t) = {} /\ AtHandler(t)' = {}
      BY <1>n, <2>1, NoOutput DEF AtHandler
    <2> QED
      BY <1>o, <2>1, <2>2, Stays DEF Serving
  <1>7. CASE Detach(t) \/ SpawnedDetach(t)
    <2>1. handler'[t] = "over" /\ received'[t] = received[t]
      BY <1>7, <1>g DEF Detach, SpawnedDetach, clientVars
    <2> QED
      BY <1>o, <2>1, Leaves DEF Serving
  <1>8. CASE SendClient(t)
    <2>1. /\ handler[t] = "toClient" /\ UNCHANGED <<terminal, backlog>>
          /\ handler'[t] = "select" /\ sending'[t] = NoFrame
          /\ received' = IF sending[t].kind = "output"
                         THEN [received EXCEPT ![t] = Append(@, sending[t].n)]
                         ELSE received
      BY <1>8, <1>g DEF SendClient, recordVars
    <2>2. AtHandler(t)' = {}
      BY <2>1, NoOutput DEF AtHandler
    <2>3. sending[t] \in Outputs \cup {Bare("ping")}
      BY <1>f, <2>1 DEF Fits
    <2>4. CASE sending[t] = Bare("ping")
      <3>1. received'[t] = received[t] /\ AtHandler(t) = {}
        BY <2>1, <2>4, FrameFacts, NoOutput DEF AtHandler
      <3> QED
        BY <1>o, <2>1, <2>2, <3>1, Stays DEF Serving
    <2>5. CASE sending[t] \in Outputs
      <3> DEFINE f == sending[t]
      <3>0. LineOf(t) /\ Serving(t)
        BY <2>1 DEF OutputInv, Serving
      <3>1. AtHandler(t) = {f.n} /\ received' = [received EXCEPT ![t] = Append(@, f.n)]
        BY <2>1, <2>5, FrameFacts, NoOutput DEF AtHandler
      <3>2. InChannel(t)' = InChannel(t) /\ AtLoop(t)' = AtLoop(t)
        BY <1>o, <2>1 DEF InChannel, AtLoop, Routed, HandlerOnly
      <3>3. /\ Mine(t) = Got(t) \cup {f.n} \cup InChannel(t)' \cup AtLoop(t)
            /\ Below(Got(t), {f.n}) /\ Below({f.n}, InChannel(t)' \cup AtLoop(t))
        BY <3>0, <3>1, <3>2 DEF Mine, LineOf, Below
      <3>4. Steady(received'[t]) /\ Got(t)' = Got(t) \cup {f.n}
        BY <2>5, <3>0, <3>1, <3>3, Delivered
      <3>5. Mine(t)' = Mine(t)
        BY <2>2, <3>1, <3>2, <3>4 DEF Mine
      <3>6. /\ Below(Got(t)', AtHandler(t)' \cup InChannel(t)' \cup AtLoop(t)')
            /\ Below(AtHandler(t)', InChannel(t)' \cup AtLoop(t)')
            /\ Below(InChannel(t)', AtLoop(t)') /\ InOrder(backlog'[t], "output")
        BY <2>1, <2>2, <3>0, <3>1, <3>2, <3>4 DEF LineOf, Below
      <3> QED
        BY <1>o, <2>1, <3>0, <3>4, <3>5, <3>6, MovesOn
    <2> QED
      BY <2>3, <2>4, <2>5
  <1>9. CASE Recv(t)
    <2> DEFINE f == Head(backlog[t])
    <2>1. /\ handler[t] = "select" /\ terminal' = terminal /\ backlog[t] # <<>>
          /\ backlog'[t] = Tail(backlog[t])
          /\ \/ f.kind = "closed" /\ handler'[t] = "closing" /\ received' = received
             \/ f.kind = "output" /\ ToClient(t, f)
      BY <1>9, <1>t, <1>g DEF Recv, recordVars
    <2>2. CASE f.kind = "closed"
      BY <1>o, <2>1, <2>2, Leaves DEF Serving
    <2>3. CASE f.kind = "output" /\ ToClient(t, f)
      <3>0. LineOf(t) /\ Serving(t) /\ AtHandler(t) = {}
        BY <1>n, <2>1 DEF OutputInv, Serving
      <3>1. backlog[t] \in Seq(Event) /\ f \in Outputs
        <4>1. backlog[t] \in Seq(Event)
          BY <1>t
        <4>2. f \in Event
          BY <2>1, <4>1, QueueFacts
        <4> QED
          BY <2>3, <4>1, <4>2, FrameFacts
      <3>2. /\ InChannel(t) = {f.n} \cup InChannel(t)' /\ Below({f.n}, InChannel(t)')
            /\ InOrder(backlog'[t], "output")
        <4>1. Units(<<f>>, "output") = {f.n}
          BY <3>1, NoOutput
        <4>2. /\ Units(backlog[t], "output") = {f.n} \cup Units(Tail(backlog[t]), "output")
              /\ InOrder(Tail(backlog[t]), "output")
              /\ Below({f.n}, Units(Tail(backlog[t]), "output"))
          <5>1. InOrder(backlog[t], "output")
            BY <3>0 DEF LineOf
          <5> HIDE DEF f
          <5>2. /\ Units(backlog[t], "output")
                      = Units(<<f>>, "output") \cup Units(Tail(backlog[t]), "output")
                /\ InOrder(Tail(backlog[t]), "output")
                /\ Below(Units(<<f>>, "output"), Units(Tail(backlog[t]), "output"))
            BY <2>1, <3>1, <5>1, UnitsTail DEF f
          <5> QED
            BY <4>1, <5>2
        <4> QED
          BY <2>1, <4>2 DEF InChannel
      <3>3. AtLoop(t)' = AtLoop(t)
        BY <1>o DEF AtLoop, Routed, HandlerOnly
      <3>4. CASE Go(t, "select", NoFrame) /\ received' = [received EXCEPT ![t] = Append(@, f.n)]
        <4>1. AtHandler(t)' = {}
          BY <1>g, <3>4, NoOutput DEF AtHandler
        <4>2. /\ Mine(t) = Got(t) \cup {f.n} \cup InChannel(t)' \cup AtLoop(t)
              /\ Below(Got(t), {f.n}) /\ Below({f.n}, InChannel(t)' \cup AtLoop(t))
          BY <3>0, <3>2, <3>3 DEF Mine, LineOf, Below
        <4>3. Steady(received'[t]) /\ Got(t)' = Got(t) \cup {f.n}
          BY <3>0, <3>1, <3>4, <4>2, Delivered
        <4>4. Mine(t)' = Mine(t)
          BY <4>1, <3>3, <4>2, <4>3 DEF Mine
        <4>5. /\ Below(Got(t)', AtHandler(t)' \cup InChannel(t)' \cup AtLoop(t)')
              /\ Below(AtHandler(t)', InChannel(t)' \cup AtLoop(t)')
              /\ Below(InChannel(t)', AtLoop(t)')
          BY <3>0, <3>2, <3>3, <4>1, <4>2, <4>3 DEF LineOf, Below
        <4> QED
          BY <1>o, <2>1, <3>0, <3>2, <4>3, <4>4, <4>5, MovesOn
      <3>5. CASE Go(t, "toClient", f) /\ UNCHANGED received
        <4>1. AtHandler(t)' = {f.n} /\ Got(t)' = Got(t)
          BY <1>g, <3>1, <3>5, NoOutput DEF AtHandler, Got
        <4>2. Mine(t)' = Mine(t)
          BY <3>0, <3>2, <3>3, <4>1 DEF Mine
        <4>3. /\ Below(Got(t)', AtHandler(t)' \cup InChannel(t)' \cup AtLoop(t)')
              /\ Below(AtHandler(t)', InChannel(t)' \cup AtLoop(t)')
              /\ Below(InChannel(t)', AtLoop(t)')
          BY <3>0, <3>2, <3>3, <4>1 DEF LineOf, Below
        <4>4. Steady(received'[t])
          BY <3>5 DEF OutputInv
        <4> QED
          BY <1>o, <2>1, <3>0, <3>2, <4>2, <4>3, <4>4, MovesOn
      <3> QED
        BY <2>3, <3>4, <3>5 DEF ToClient
    <2> QED
      BY <2>1, <2>2, <2>3
  <1> QED
    BY <1>1, <1>2, <1>3, <1>4, <1>5, <1>6, <1>7, <1>8, <1>9 DEF HandlerStep

\* What is in front of a run without a gap, and what is behind.
LEMMA Cut ==
    ASSUME NEW A \in SUBSET Nat, NEW B \in SUBSET Nat, Convex(A \cup B), Below(A, B)
    PROVE  Convex(A) /\ Convex(B)
  <1>1. ASSUME NEW a \in A, NEW b \in A, NEW m \in Nat, a < m, m < b PROVE m \in A
    <2>1. m \in A \cup B
      BY <1>1 DEF Convex
    <2>2. ASSUME m \in B PROVE FALSE
      BY <1>1, <2>2 DEF Below
    <2> QED
      BY <2>1, <2>2
  <1>2. ASSUME NEW a \in B, NEW b \in B, NEW m \in Nat, a < m, m < b PROVE m \in B
    <2>1. m \in A \cup B
      BY <1>2 DEF Convex
    <2>2. ASSUME m \in A PROVE FALSE
      BY <1>2, <2>2 DEF Below
    <2> QED
      BY <2>1, <2>2
  <1> QED
    BY <1>1, <1>2 DEF Convex

\* A step of which the handlers see nothing, and that moves no unit between their
\* channels and the read loop.
LEMMA OutputElse ==
    ASSUME BaseInv, OutputInv, UNCHANGED <<handlerVars, received>>, terminal' \in {terminal, None},
           produced' \in Nat, produced <= produced', WireInv',
           \A t \in Attachment : Serving(t) =>
              /\ InChannel(t)' = InChannel(t) /\ AtLoop(t)' = AtLoop(t)
              /\ InOrder(backlog'[t], "output"),
           \A t \in Attachment : Serving(t) /\ terminal = t /\ terminal' = t => JoinedTo(t)'
    PROVE  OutputInv'
  <1>n. produced \in Nat /\ None \notin Attachment
    BY TerminalAssumption DEF BaseInv, ShapeInv, TypeOK
  <1>1. \A t \in Attachment : /\ Got(t)' = Got(t) /\ AtHandler(t)' = AtHandler(t)
                              /\ Serving(t)' = Serving(t)
    BY DEF Got, AtHandler, Serving, handlerVars
  <1>2. ASSUME NEW t \in Attachment, Serving(t)' PROVE LineOf(t)'
    <2>1. Serving(t) /\ LineOf(t)
      BY <1>1, <1>2 DEF OutputInv
    <2> QED
      BY <1>1, <1>n, <2>1, LineSame
  <1>3. ASSUME NEW t \in Attachment, Serving(t)', terminal' = t PROVE JoinedTo(t)'
    BY <1>1, <1>3, <1>n
  <1>4. \A t \in Attachment : Steady(received'[t])
    BY DEF OutputInv
  <1> QED
    BY <1>2, <1>3, <1>4 DEF OutputInv

\* A step that moves none of the output.
LEMMA OutputSame ==
    ASSUME BaseInv, OutputInv, UNCHANGED <<handlerVars, received, produced>>,
           terminal' \in {terminal, None}, worker = "gone" => worker' = "gone",
           OnWire' = OnWire, AtShell' = AtShell, InOrder(up, "output")',
           \A t \in Attachment : Serving(t) =>
              /\ InChannel(t)' = InChannel(t) /\ AtLoop(t)' = AtLoop(t)
              /\ InOrder(backlog'[t], "output")
    PROVE  OutputInv'
  <1>1. WireInv'
    BY WireSame DEF OutputInv
  <1>2. ASSUME NEW t \in Attachment, Serving(t), terminal = t, terminal' = t PROVE JoinedTo(t)'
    <2>1. JoinedTo(t)
      BY <1>2 DEF OutputInv
    <2>2. Mine(t)' = Mine(t) /\ Coming' = Coming
      BY <1>2 DEF Mine, Coming, Got, AtHandler, handlerVars
    <2> QED
      BY <2>1, <2>2, JoinedSame
  <1>3. produced' \in Nat /\ produced <= produced'
    BY DEF BaseInv, ShapeInv, TypeOK
  <1> QED
    BY <1>1, <1>2, <1>3, OutputElse

\* A step that leaves the channels and the read loop alone.
LEMMA OutputQuiet ==
    ASSUME BaseInv, OutputInv, UNCHANGED <<handlerVars, received, produced, backlog, routing>>,
           terminal' \in {terminal, None}, worker = "gone" => worker' = "gone",
           OnWire' = OnWire, AtShell' = AtShell, InOrder(up, "output")'
    PROVE  OutputInv'
  <1>1. ASSUME NEW t \in Attachment, Serving(t)
        PROVE  /\ InChannel(t)' = InChannel(t) /\ AtLoop(t)' = AtLoop(t)
               /\ InOrder(backlog'[t], "output")
    BY <1>1 DEF InChannel, AtLoop, Routed, OutputInv, LineOf
  <1> QED
    BY <1>1, OutputSame

\* A frame is put into a channel: what is in the channel then.
LEMMA Offered ==
    ASSUME BaseInv, OutputInv, NEW t \in Attachment, NEW f \in Event, Offer(t, f), Serving(t),
           Below(InChannel(t), Units(<<f>>, "output"))
    PROVE  /\ InChannel(t)' = InChannel(t) \cup Units(<<f>>, "output")
           /\ InOrder(backlog'[t], "output")
           /\ \A u \in Attachment : u # t => backlog'[u] = backlog[u]
  <1>1. backlog \in [Attachment -> Seq(Event)] /\ InOrder(backlog[t], "output")
    BY DEF BaseInv, ShapeInv, TypeOK, OutputInv, LineOf
  <1>2. Attached(t)
    BY DEF Serving, Attached
  <1>3. backlog' = [backlog EXCEPT ![t] = Append(@, f)]
    BY <1>2 DEF Offer
  <1>4. backlog'[t] = Append(backlog[t], f) /\ backlog[t] \in Seq(Event)
    BY <1>1, <1>3
  <1>5. /\ Units(Append(backlog[t], f), "output")
               = Units(backlog[t], "output") \cup Units(<<f>>, "output")
        /\ InOrder(Append(backlog[t], f), "output")
    <2> DEFINE S == Event
    <2> HIDE DEF S
    <2>1. backlog[t] \in Seq(S) /\ f \in S
      BY <1>4 DEF S
    <2> QED
      BY <1>1, <2>1, UnitsAppend DEF InChannel
  <1> QED
    BY <1>1, <1>3, <1>4, <1>5 DEF InChannel

\* The tasks that tell a client of the end, and what happens to the sockets.
LEMMA OutputAround ==
    ASSUME BaseInv, OutputInv,
           \/ \E t \in Attachment :
                 TellClosed(t) \/ \E how \in {"stalled", "gone"} : ClientFails(t, how)
           \/ LoopEnds \/ Keepalive \/ LinkFails
    PROVE  OutputInv'
  <1>1. ASSUME NEW t \in Attachment, TellClosed(t) PROVE OutputInv'
    <2>0. /\ UNCHANGED <<terminal, handlerVars, loopVars, keepVars, linkVars, workerVars,
                         clientVars>>
          /\ Offer(t, Bare("closed"))
      BY <1>1 DEF TellClosed
    <2>1. OnWire' = OnWire /\ AtShell' = AtShell /\ InOrder(up, "output")'
      BY <2>0 DEF OnWire, AtShell, OutputInv, WireInv, linkVars, workerVars
    <2>2. Bare("closed") \in Event /\ Units(<<Bare("closed")>>, "output") = {}
      BY NoOutput DEF Event
    <2>3. ASSUME NEW u \in Attachment, Serving(u)
          PROVE  /\ InChannel(u)' = InChannel(u) /\ AtLoop(u)' = AtLoop(u)
                 /\ InOrder(backlog'[u], "output")
      <3>1. AtLoop(u)' = AtLoop(u)
        BY <2>0 DEF AtLoop, Routed, loopVars
      <3>2. CASE u = t
        <4>1. Below(InChannel(t), Units(<<Bare("closed")>>, "output"))
          BY <2>2 DEF Below
        <4>2. /\ InChannel(t)' = InChannel(t) \cup Units(<<Bare("closed")>>, "output")
              /\ InOrder(backlog'[t], "output")
          BY <2>0, <2>2, <2>3, <3>2, <4>1, Offered
        <4> QED
          BY <2>2, <3>1, <3>2, <4>2
      <3>3. CASE u # t
        <4>1. backlog'[u] = backlog[u]
          BY <2>0, <3>3 DEF Offer, BaseInv, ShapeInv, TypeOK
        <4> QED
          BY <2>3, <3>1, <4>1 DEF InChannel, OutputInv, LineOf
      <3> QED
        BY <3>2, <3>3
    <2> QED
      BY <2>0, <2>1, <2>3, OutputSame DEF workerVars, clientVars
  <1>2. CASE \/ \E t \in Attachment : \E how \in {"stalled", "gone"} : ClientFails(t, how)
             \/ LoopEnds \/ Keepalive \/ LinkFails
    <2>1. /\ UNCHANGED <<handlerVars, received, produced, backlog, routing, worker, held, up>>
          /\ terminal' \in {terminal, None}
      BY <1>2 DEF ClientFails, LoopEnds, EndSession, Keepalive, LinkFails, recordVars, loopVars,
         linkVars, workerVars, clientVars
    <2>2. OnWire' = OnWire /\ AtShell' = AtShell /\ InOrder(up, "output")'
      BY <2>1 DEF OnWire, AtShell, OutputInv, WireInv
    <2> QED
      BY <2>1, <2>2, OutputQuiet
  <1> QED
    BY <1>1, <1>2

\* The read loop puts what it routes into the channel.
LEMMA OutputRoute == ASSUME BaseInv, OutputInv, Route PROVE OutputInv'
  <1>0. /\ loop = "routing" /\ Offer(routing.to, routing.frame) /\ routing' = NoRoute
        /\ UNCHANGED <<recordVars, handlerVars, keepVars, linkVars, workerVars, clientVars>>
    BY DEF Route
  <1>2. routing.to \in Attachment /\ routing.frame \in Outputs /\ None \notin Attachment
    BY <1>0, TerminalAssumption DEF BaseInv, ShapeInv, RouteInv
  <1>p. PICK t \in Attachment, f \in Outputs : routing.to = t /\ routing.frame = f
    BY <1>2
  <1>1. /\ Offer(t, f) /\ routing' = NoRoute /\ f \in Event
        /\ UNCHANGED <<recordVars, handlerVars, keepVars, linkVars, workerVars, clientVars>>
    BY <1>0, <1>p DEF Event
  <1>3. OnWire' = OnWire /\ AtShell' = AtShell /\ InOrder(up, "output")'
    BY <1>1 DEF OnWire, AtShell, OutputInv, WireInv, linkVars, workerVars
  <1>4. \A u \in Attachment : AtLoop(u)' = {}
    BY <1>1, <1>2, UnitsFew DEF AtLoop, Routed, NoRoute
  <1>5. Units(<<f>>, "output") = {f.n} /\ AtLoop(t) = {f.n}
    BY <1>p, NoOutput DEF AtLoop, Routed
  <1>6. ASSUME NEW u \in Attachment, u # t, Serving(u)
        PROVE  /\ InChannel(u)' = InChannel(u) /\ AtLoop(u)' = AtLoop(u)
               /\ InOrder(backlog'[u], "output")
    <2>1. AtLoop(u) = {}
      BY <1>6, <1>p, UnitsFew DEF AtLoop, Routed
    <2>2. backlog'[u] = backlog[u]
      BY <1>1, <1>6 DEF Offer, BaseInv, ShapeInv, TypeOK
    <2> QED
      BY <1>4, <1>6, <2>1, <2>2 DEF InChannel, OutputInv, LineOf
  <1>7. CASE Serving(t)
    <2>1. LineOf(t) /\ Below(InChannel(t), Units(<<f>>, "output"))
      BY <1>2, <1>5, <1>7 DEF OutputInv, LineOf
    <2>2. InChannel(t)' = InChannel(t) \cup {f.n} /\ InOrder(backlog'[t], "output")
      BY <1>1, <1>2, <1>5, <1>7, <2>1, Offered
    <2>3. Got(t)' = Got(t) /\ AtHandler(t)' = AtHandler(t) /\ Coming' = Coming
      BY <1>1, <1>3 DEF Got, AtHandler, handlerVars, clientVars, Coming
    <2>4. Mine(t)' = Mine(t)
      BY <1>2, <1>4, <1>5, <2>2, <2>3 DEF Mine
    <2>5. LineOf(t)'
      <3>1. /\ Below(Got(t)', AtHandler(t)' \cup InChannel(t)' \cup AtLoop(t)')
            /\ Below(AtHandler(t)', InChannel(t)' \cup AtLoop(t)')
            /\ Below(InChannel(t)', AtLoop(t)')
        BY <1>2, <1>4, <1>5, <2>1, <2>2, <2>3 DEF LineOf, Below
      <3>2. produced' = produced
        BY <1>1 DEF workerVars
      <3> QED
        BY <2>1, <2>2, <2>4, <3>1, <3>2 DEF LineOf
    <2>6. terminal' = t => JoinedTo(t)'
      BY <1>1, <1>2, <1>7, <2>3, <2>4, JoinedSame DEF OutputInv, recordVars, workerVars
    <2>7. WireInv'
      BY <1>1, <1>3, WireSame DEF OutputInv, workerVars
    <2>8. ASSUME NEW u \in Attachment, u # t, Serving(u)
          PROVE  LineOf(u)' /\ (terminal' = u => JoinedTo(u)')
      <3>1. /\ Got(u)' = Got(u) /\ AtHandler(u)' = AtHandler(u) /\ InChannel(u)' = InChannel(u)
            /\ AtLoop(u)' = AtLoop(u) /\ InOrder(backlog'[u], "output") /\ Coming' = Coming
        BY <1>1, <1>6, <2>3, <2>8 DEF Got, AtHandler, handlerVars, clientVars
      <3>2. LineOf(u) /\ Mine(u)' = Mine(u) /\ produced' = produced /\ produced \in Nat
        BY <1>1, <2>8, <3>1
           DEF OutputInv, Mine, workerVars, BaseInv, ShapeInv, TypeOK
      <3>3. LineOf(u)'
        <4>1. produced' \in Nat /\ produced <= produced'
          BY <3>2
        <4> QED
          BY <3>1, <3>2, <4>1, LineSame
      <3>4. terminal' = u => JoinedTo(u)'
        BY <1>1, <2>8, <3>1, <3>2, JoinedSame DEF OutputInv, recordVars, workerVars
      <3> QED
        BY <3>3, <3>4
    <2>9. \A u \in Attachment : Steady(received'[u]) /\ (Serving(u)' <=> Serving(u))
      BY <1>1 DEF OutputInv, Serving, clientVars, handlerVars
    <2> QED
      BY <1>2, <2>5, <2>6, <2>7, <2>8, <2>9 DEF OutputInv
  <1>8. CASE ~Serving(t)
    BY <1>1, <1>3, <1>6, <1>8, OutputSame DEF recordVars, workerVars, clientVars
  <1> QED
    BY <1>7, <1>8

\* The read loop takes a frame from the socket: the head of what comes.
LEMMA OutputRead == ASSUME BaseInv, OutputInv, ReadFrame PROVE OutputInv'
  <1>t. /\ up \in Seq(Event \cup {Bare("pong")}) /\ WireInv /\ None \notin Attachment
        /\ terminal \in Attachment \cup {None} /\ produced \in Nat
    BY TerminalAssumption DEF BaseInv, ShapeInv, TypeOK, OutputInv
  <1>p. PICK f \in Event \cup {Bare("pong")} : f = Head(up)
    <2>1. up # <<>>
      BY DEF ReadFrame
    <2>2. Head(up) \in Event \cup {Bare("pong")}
      BY <1>t, <2>1, QueueFacts
    <2> QED
      BY <2>2
  <1>1. /\ loop = "select" /\ up # <<>> /\ up' = Tail(up)
        /\ \/ f.kind # "output" /\ UNCHANGED loopVars /\ terminal' \in {terminal, None}
           \/ f.kind = "output" /\ RouteTo(f) /\ UNCHANGED recordVars
        /\ UNCHANGED <<handlerVars, backlog, link, down, workerVars, clientVars>>
    BY <1>p DEF ReadFrame, EndSession, recordVars
  <1>2. /\ OnWire = Units(<<f>>, "output") \cup OnWire'
        /\ InOrder(up', "output") /\ Below(Units(<<f>>, "output"), OnWire')
    <2> DEFINE S == Event \cup {Bare("pong")}
    <2> HIDE DEF S
    <2>1. up \in Seq(S) /\ InOrder(up, "output")
      BY <1>t DEF S, WireInv
    <2>2. /\ Units(up, "output") = Units(<<f>>, "output") \cup Units(Tail(up), "output")
          /\ InOrder(Tail(up), "output") /\ Below(Units(<<f>>, "output"), Units(Tail(up), "output"))
      BY <1>p, <1>1, <2>1, UnitsTail
    <2> QED
      BY <1>1, <2>2 DEF OnWire
  <1>3. AtShell' = AtShell
    BY <1>1 DEF AtShell, workerVars
  <1>4. CASE f.kind # "output"
    <2>1. OnWire' = OnWire
      BY <1>2, <1>4, UnitsFew
    <2> QED
      BY <1>1, <1>2, <1>3, <1>4, <2>1, OutputQuiet DEF workerVars, clientVars, loopVars
  <1>5. CASE f.kind = "output"
    <2>1. f \in Outputs /\ Units(<<f>>, "output") = {f.n} /\ f.n \in Nat
      <3>1. f \in Outputs
        BY <1>5, FrameFacts
      <3> QED
        BY <3>1, FrameFacts, NoOutput, Numbers
    <2>2. Coming = {f.n} \cup Coming' /\ Below({f.n}, Coming')
      BY <1>2, <1>3, <1>t, <2>1 DEF Coming, WireInv, Below
    <2>3. Coming \subseteq 1..produced /\ Coming' \in SUBSET Nat
      BY <1>t, <2>2 DEF WireInv
    <2>4. Convex(Coming') /\ UpToDate(Coming')
      <3>1. Convex(Coming')
        BY <1>t, <2>1, <2>2, <2>3, Cut DEF WireInv
      <3>2. ASSUME worker # "gone", Coming' # {} PROVE produced \in Coming'
        <4>1. produced \in Coming
          BY <1>t, <2>2, <3>2 DEF WireInv, UpToDate
        <4>2. PICK c \in Coming' : TRUE
          BY <3>2
        <4>3. f.n < c /\ c \in 1..produced
          BY <2>2, <2>3 DEF Below
        <4> QED
          BY <1>t, <2>1, <2>2, <4>1, <4>3
      <3> QED
        BY <3>1, <3>2 DEF UpToDate
    <2>5. WireInv'
      <3>1. worker' = worker /\ produced' = produced
        BY <1>1 DEF workerVars
      <3>2. Below(OnWire', AtShell')
        BY <1>2, <1>3, <1>t DEF WireInv, Below
      <3> QED
        BY <1>2, <2>2, <2>3, <2>4, <3>1, <3>2 DEF WireInv, UpToDate
    <2>6. \A u \in Attachment : AtLoop(u) = {}
      BY <1>1, <1>t, UnitsFew DEF AtLoop, Routed, BaseInv, ShapeInv, RouteInv, NoRoute
    <2>7. \A u \in Attachment : u # terminal => AtLoop(u)' = {}
      <3>1. CASE terminal = None
        BY <1>1, <1>5, <2>6, <3>1 DEF RouteTo, AtLoop, Routed, loopVars
      <3>2. CASE terminal # None
        <4>1. routing'.to = terminal
          BY <1>1, <1>5, <3>2 DEF RouteTo
        <4>2. \A u \in Attachment : u # terminal => Routed(u)' = <<>>
          BY <4>1 DEF Routed
        <4> QED
          BY <4>2, UnitsFew DEF AtLoop
      <3> QED
        BY <3>1, <3>2
    <2>8. /\ UNCHANGED <<handlerVars, received, backlog, terminal, worker>>
          /\ produced' = produced
      BY <1>1, <1>5 DEF clientVars, workerVars, recordVars
    <2>9. \A u \in Attachment : /\ Got(u)' = Got(u) /\ AtHandler(u)' = AtHandler(u)
                                /\ InChannel(u)' = InChannel(u) /\ Serving(u)' = Serving(u)
                                /\ Steady(received'[u])
      BY <2>8 DEF Got, AtHandler, InChannel, Serving, handlerVars, OutputInv
    <2>10. ASSUME NEW u \in Attachment, Serving(u), terminal = u
           PROVE  LineOf(u)' /\ JoinedTo(u)'
      <3>1. AtLoop(u)' = {f.n}
        BY <1>1, <1>5, <1>t, <2>1, <2>10 DEF RouteTo, AtLoop, Routed
      <3>2. LineOf(u) /\ JoinedTo(u)
        BY <2>10 DEF OutputInv
      <3>3. Mine(u)' = Mine(u) \cup {f.n}
        BY <2>6, <2>9, <3>1 DEF Mine
      <3>4. Below(Mine(u), {f.n} \cup Coming')
        BY <2>2, <3>2 DEF JoinedTo
      <3>5. Below(Mine(u)', Coming') /\ Mine(u)' \cup Coming' = Mine(u) \cup Coming
        BY <2>2, <3>3, <3>4 DEF Below
      <3>6. Mine(u)' \subseteq 1..produced
        BY <2>2, <2>3, <3>2, <3>3 DEF LineOf
      <3>7. Convex(Mine(u)' \cup Coming')
        BY <3>2, <3>5 DEF JoinedTo
      <3>8. Convex(Mine(u)')
        <4>1. Mine(u)' \in SUBSET Nat
          BY <3>6
        <4> QED
          BY <2>3, <3>5, <3>7, <4>1, Cut
      <3>9. /\ Below(Got(u)', AtHandler(u)' \cup InChannel(u)' \cup AtLoop(u)')
            /\ Below(AtHandler(u)', InChannel(u)' \cup AtLoop(u)')
            /\ Below(InChannel(u)', AtLoop(u)')
        BY <2>9, <3>1, <3>2, <3>4 DEF LineOf, Below, Mine
      <3>10. LineOf(u)'
        BY <2>8, <3>2, <3>6, <3>8, <3>9 DEF LineOf
      <3>11. JoinedTo(u)'
        BY <2>8, <3>2, <3>5, <3>7 DEF JoinedTo, UpToDate
      <3> QED
        BY <3>10, <3>11
    <2>11. ASSUME NEW u \in Attachment, Serving(u), terminal # u PROVE LineOf(u)'
      <3>1. LineOf(u) /\ AtLoop(u)' = AtLoop(u) /\ InOrder(backlog'[u], "output")
        BY <2>6, <2>7, <2>8, <2>11 DEF OutputInv, LineOf
      <3> QED
        BY <1>t, <2>8, <2>9, <3>1, LineSame
    <2> QED
      BY <2>5, <2>8, <2>9, <2>10, <2>11 DEF OutputInv
  <1> QED
    BY <1>4, <1>5

\* The server closes its socket: what was still on it is nobody's any more.
LEMMA OutputClose == ASSUME BaseInv, OutputInv, CloseSocket PROVE OutputInv'
  <1>t. WireInv /\ produced \in Nat /\ None \notin Attachment
    BY TerminalAssumption DEF BaseInv, ShapeInv, TypeOK, OutputInv
  <1>1. /\ up' = <<>> /\ loop = "ended"
        /\ UNCHANGED <<recordVars, handlerVars, backlog, loopVars, keepVars, workerVars,
                       clientVars>>
    BY DEF CloseSocket
  <1>2. OnWire' = {} /\ AtShell' = AtShell /\ InOrder(up', "output")
    BY <1>1, UnitsFew DEF OnWire, AtShell, workerVars
  <1>3. OnWire \in SUBSET Nat /\ AtShell \in SUBSET Nat
    BY <1>t DEF WireInv, Coming
  <1>4. Convex(AtShell)
    BY <1>t, <1>3, Cut DEF WireInv, Coming
  <1>5. ASSUME worker # "gone", AtShell # {} PROVE produced \in AtShell
    <2>1. produced \in OnWire \cup AtShell
      BY <1>t, <1>5 DEF WireInv, UpToDate, Coming
    <2>2. PICK c \in AtShell : c \in 1..produced
      BY <1>t, <1>5 DEF WireInv, Coming
    <2>3. produced \in OnWire => produced < c
      BY <1>t DEF WireInv, Below
    <2> QED
      BY <1>t, <2>1, <2>2, <2>3
  <1>6. WireInv'
    <2>1. worker' = worker /\ produced' = produced
      BY <1>1 DEF workerVars
    <2>2. Coming' = AtShell /\ AtShell \subseteq 1..produced
      BY <1>2, <1>t DEF Coming, WireInv
    <2> QED
      BY <1>2, <1>4, <1>5, <2>1, <2>2 DEF WireInv, UpToDate, Below
  <1>7. terminal = None
    BY <1>1 DEF BaseInv, OwnerInv
  <1>8. ASSUME NEW u \in Attachment, Serving(u)
        PROVE  /\ InChannel(u)' = InChannel(u) /\ AtLoop(u)' = AtLoop(u)
               /\ InOrder(backlog'[u], "output")
    BY <1>1, <1>8 DEF InChannel, AtLoop, Routed, OutputInv, LineOf, loopVars
  <1> QED
    BY <1>1, <1>6, <1>7, <1>8, <1>t, OutputElse DEF recordVars, workerVars, clientVars

\* The shell writes the next unit.
LEMMA OutputMade == ASSUME BaseInv, OutputInv, ReadPty PROVE OutputInv'
  <1>t. /\ WireInv /\ produced \in Nat /\ None \notin Attachment
        /\ produced < MaxOut /\ MaxOut \in Nat
    BY TerminalAssumption, Numbers DEF BaseInv, ShapeInv, TypeOK, OutputInv, ReadPty
  <1>1. /\ worker = "select" /\ produced' = produced + 1 /\ held' = Output(produced + 1)
        /\ worker' = "sendOutput"
        /\ UNCHANGED <<recordVars, handlerVars, backlog, loopVars, keepVars, linkVars, clientVars>>
    BY DEF ReadPty
  <1>2. AtShell = {}
    BY <1>1, NoOutput DEF AtShell, BaseInv, ShapeInv, HeldInv
  <1>3. AtShell' = {produced + 1}
    <2>1. produced + 1 \in 1..MaxOut
      BY <1>t
    <2>2. held' \in Outputs /\ held'.n = produced + 1
      BY <1>1, <2>1, FrameFacts
    <2> QED
      BY <2>2, NoOutput DEF AtShell
  <1>4. OnWire' = OnWire /\ up' = up /\ Coming = OnWire /\ Coming' = Coming \cup {produced + 1}
    BY <1>1, <1>2, <1>3 DEF OnWire, Coming, linkVars
  \* A run up to the newest unit goes on with the next one.
  <1>5. ASSUME NEW A \in SUBSET (1..produced), Convex(A), UpToDate(A)
        PROVE  Convex(A \cup {produced + 1})
    <2>1. A # {} => produced \in A
      BY <1>1, <1>5 DEF UpToDate
    <2> SUFFICES ASSUME NEW a \in A \cup {produced + 1}, NEW b \in A \cup {produced + 1},
                        NEW m \in Nat, a < m, m < b
                 PROVE  m \in A
      BY DEF Convex
    <2>2. a \in A /\ a \in 1..produced
      BY <1>t
    <2>3. produced \in A
      BY <2>1, <2>2
    <2>4. CASE m = produced
      BY <2>3, <2>4
    <2>5. CASE m # produced
      <3>1. m < produced
        BY <1>t, <2>5
      <3> QED
        BY <1>5, <2>2, <2>3, <3>1 DEF Convex
    <2> QED
      BY <2>4, <2>5
  <1>6. WireInv'
    <2>1. Below(OnWire, {produced + 1})
      BY <1>t, <1>4 DEF WireInv, Below
    <2>2. Coming \in SUBSET (1..produced) /\ Convex(Coming) /\ UpToDate(Coming)
      BY <1>t DEF WireInv
    <2>3. Convex(Coming \cup {produced + 1})
      BY <1>5, <2>2
    <2>4. Coming \cup {produced + 1} \subseteq 1..(produced + 1)
      BY <1>t, <2>2
    <2> QED
      BY <1>1, <1>3, <1>4, <1>t, <2>1, <2>3, <2>4 DEF WireInv, UpToDate
  <1>7. ASSUME NEW t \in Attachment, Serving(t)
        PROVE  /\ InChannel(t)' = InChannel(t) /\ AtLoop(t)' = AtLoop(t)
               /\ InOrder(backlog'[t], "output")
    BY <1>1, <1>7 DEF InChannel, AtLoop, Routed, OutputInv, LineOf, loopVars
  <1>8. ASSUME NEW t \in Attachment, Serving(t), terminal = t PROVE JoinedTo(t)'
    <2>1. JoinedTo(t) /\ LineOf(t)
      BY <1>8 DEF OutputInv
    <2>2. Mine(t)' = Mine(t)
      BY <1>1, <1>7, <1>8 DEF Mine, Got, AtHandler, handlerVars, clientVars
    <2>3. Mine(t) \cup Coming \in SUBSET (1..produced)
      BY <1>t, <2>1 DEF LineOf, WireInv
    <2>4. Convex((Mine(t) \cup Coming) \cup {produced + 1})
      BY <1>5, <2>1, <2>3 DEF JoinedTo
    <2>5. Mine(t)' \cup Coming' = (Mine(t) \cup Coming) \cup {produced + 1}
      BY <1>4, <2>2
    <2>6. Below(Mine(t)', Coming')
      BY <1>t, <1>4, <2>1, <2>2, <2>3 DEF JoinedTo, Below
    <2> QED
      BY <1>1, <2>4, <2>5, <2>6 DEF JoinedTo, UpToDate
  <1>9. produced' \in Nat /\ produced <= produced'
    BY <1>1, <1>t
  <1> QED
    BY <1>1, <1>6, <1>7, <1>8, <1>9, OutputElse DEF recordVars, clientVars

\* run_session sends its frame, or goes with it.
LEMMA OutputSent == ASSUME BaseInv, OutputInv, SendServer PROVE OutputInv'
  <1>t. /\ WireInv /\ produced \in Nat /\ None \notin Attachment
        /\ up \in Seq(Event \cup {Bare("pong")})
    BY TerminalAssumption DEF BaseInv, ShapeInv, TypeOK, OutputInv
  <1>1. /\ worker \in {"sendOutput", "sendPong", "sendClosed"} /\ held' = NoFrame
        /\ UNCHANGED <<recordVars, handlerVars, backlog, loopVars, keepVars, produced, clientVars>>
        /\ \/ up' = Append(up, held) /\ worker' # "gone"
           \/ worker' = "gone" /\ up' = up
    BY DEF SendServer
  <1>2. held \in Event \cup {Bare("pong")} /\ worker # "gone"
    BY <1>1 DEF BaseInv, ShapeInv, HeldInv, Event
  <1>3. AtShell' = {}
    BY <1>1, NoOutput DEF AtShell
  <1>4. OnWire \in SUBSET Nat /\ AtShell \in SUBSET Nat
    BY <1>t DEF WireInv, Coming
  <1>7. ASSUME NEW t \in Attachment, Serving(t)
        PROVE  /\ InChannel(t)' = InChannel(t) /\ AtLoop(t)' = AtLoop(t)
               /\ InOrder(backlog'[t], "output") /\ Mine(t)' = Mine(t)
    BY <1>1, <1>7 DEF InChannel, AtLoop, Routed, OutputInv, LineOf, loopVars, Mine, Got, AtHandler,
       handlerVars, clientVars
  <1>5. CASE up' = Append(up, held) /\ worker' # "gone"
    <2>1. OnWire' = OnWire \cup AtShell /\ InOrder(up', "output")
      <3> DEFINE S == Event \cup {Bare("pong")}
      <3>1. up \in Seq(S) /\ held \in S /\ InOrder(up, "output") /\ Below(OnWire, AtShell)
        BY <1>t, <1>2 DEF WireInv
      <3> HIDE DEF S
      <3>2. Units(Append(up, held), "output") = Units(up, "output") \cup Units(<<held>>, "output")
            /\ InOrder(Append(up, held), "output")
        BY <3>1, UnitsAppend DEF OnWire, AtShell
      <3> QED
        BY <1>5, <3>2 DEF OnWire, AtShell
    <2>2. Coming' = Coming
      BY <1>3, <2>1 DEF Coming
    <2>3. WireInv'
      BY <1>1, <1>2, <1>3, <1>t, <2>1, <2>2 DEF WireInv, UpToDate, Below
    <2>4. ASSUME NEW t \in Attachment, Serving(t), terminal = t PROVE JoinedTo(t)'
      BY <1>1, <1>2, <1>7, <2>2, <2>4, JoinedSame DEF OutputInv
    <2> QED
      BY <1>1, <1>7, <1>t, <2>3, <2>4, OutputElse DEF recordVars, clientVars
  <1>6. CASE worker' = "gone" /\ up' = up
    <2>1. Coming' = OnWire /\ OnWire' = OnWire /\ Coming = OnWire \cup AtShell
      BY <1>3, <1>6 DEF Coming, OnWire
    <2>2. Convex(OnWire)
      BY <1>t, <1>4, <2>1, Cut DEF WireInv
    <2>3. WireInv'
      BY <1>1, <1>3, <1>6, <1>t, <2>1, <2>2 DEF WireInv, UpToDate, Below
    <2>4. ASSUME NEW t \in Attachment, Serving(t), terminal = t PROVE JoinedTo(t)'
      <3>1. JoinedTo(t) /\ LineOf(t)
        BY <2>4 DEF OutputInv
      <3>2. Convex(Mine(t) \cup OnWire)
        <4> DEFINE A == Mine(t) \cup OnWire
        <4>1. A \in SUBSET Nat /\ A \cup AtShell = Mine(t) \cup Coming
          <5>1. Mine(t) \subseteq 1..produced
            BY <3>1 DEF LineOf
          <5>2. Mine(t) \in SUBSET Nat
            BY <1>t, <5>1
          <5> QED
            BY <1>4, <2>1, <5>2
        <4>2. Below(A, AtShell)
          BY <1>t, <2>1, <3>1 DEF JoinedTo, WireInv, Below
        <4>3. Convex(A \cup AtShell)
          BY <3>1, <4>1 DEF JoinedTo
        <4> HIDE DEF A
        <4>4. Convex(A)
          BY <1>4, <4>1, <4>2, <4>3, Cut
        <4> QED
          BY <4>4 DEF A
      <3>3. Below(Mine(t), OnWire)
        BY <2>1, <3>1 DEF JoinedTo, Below
      <3> QED
        BY <1>6, <1>7, <2>1, <2>4, <3>2, <3>3 DEF JoinedTo, UpToDate
    <2> QED
      BY <1>1, <1>7, <1>t, <2>3, <2>4, OutputElse DEF recordVars, clientVars
  <1> QED
    BY <1>1, <1>5, <1>6

\* The other steps of the worker and of the shell.
LEMMA OutputOther ==
    ASSUME BaseInv, OutputInv,
           ShellEnds \/ ReadServer \/ WriteInput \/ IdleReads \/ WorkerLost \/ ShellReads
    PROVE  OutputInv'
  <1>t. HeldInv /\ down \in Seq(Inputs \cup {Bare("ping"), Bare("resize")})
    BY DEF BaseInv, ShapeInv, TypeOK
  <1>1. /\ UNCHANGED <<handlerVars, received, produced, backlog, routing, terminal, up>>
        /\ worker = "gone" => worker' = "gone"
    BY DEF ShellEnds, ReadServer, WriteInput, IdleReads, WorkerLost, ShellReads, recordVars,
       loopVars,
       linkVars, workerVars, clientVars
  <1>2. OnWire' = OnWire /\ InOrder(up, "output")'
    BY <1>1 DEF OnWire, OutputInv, WireInv
  <1>3. AtShell' = AtShell
    <2>1. CASE ShellEnds
      BY <1>t, <2>1, NoOutput DEF AtShell, ShellEnds, HeldInv
    <2>2. CASE ReadServer
      <3>1. Head(down) \in Inputs \cup {Bare("ping"), Bare("resize")}
        BY <1>t, <2>2, QueueFacts DEF ReadServer
      <3>2. held = NoFrame /\ (held' = NoFrame \/ held' = Bare("pong") \/ held' \in Inputs)
        BY <1>t, <2>2, <3>1, FrameFacts DEF ReadServer, HeldInv
      <3> QED
        BY <3>2, NoOutput DEF AtShell
    <2>3. CASE WriteInput
      BY <1>t, <2>3, NoOutput DEF AtShell, WriteInput, HeldInv
    <2>4. CASE IdleReads \/ WorkerLost \/ ShellReads
      BY <2>4 DEF AtShell, IdleReads, WorkerLost, ShellReads, workerVars
    <2> QED
      BY <2>1, <2>2, <2>3, <2>4
  <1> QED
    BY <1>1, <1>2, <1>3, OutputQuiet

\* Init has no output yet.
LEMMA OutputInit == ASSUME Init PROVE OutputInv
  <1>1. /\ OnWire = {} /\ AtShell = {} /\ InOrder(up, "output") /\ Coming = {}
    BY UnitsFew, NoOutput DEF Init, OnWire, AtShell, Coming
  <1>2. WireInv
    BY <1>1 DEF WireInv, Below, Convex, UpToDate
  <1> QED
    BY <1>2 DEF OutputInv, Init, Steady, Serving

\* Every step keeps the output in its lines.
LEMMA OutputNext == ASSUME BaseInv, OutputInv, [Next]_vars PROVE OutputInv'
  <1>1. CASE UNCHANGED vars
    <2>1. UNCHANGED <<handlerVars, received, produced, backlog, routing, terminal, worker, up,
                      held>>
      BY <1>1 DEF vars, recordVars, loopVars, linkVars, workerVars, clientVars
    <2>2. OnWire' = OnWire /\ AtShell' = AtShell /\ InOrder(up, "output")'
      BY <2>1 DEF OnWire, AtShell, OutputInv, WireInv
    <2> QED
      BY <2>1, <2>2, OutputQuiet
  <1> QED
    BY <1>1, OutputHandler, OutputAround, OutputRoute, OutputRead, OutputClose, OutputMade,
       OutputSent, OutputOther DEF Next, WorkerStep

-----------------------------------------------------------------------------
(* Input.                                                                  *)

\* A frame that carries no input.
LEMMA NoInput ==
    /\ Units(<<NoFrame>>, "stdin") = {}
    /\ \A k \in {"ping", "resize", "closed", "pong"} : Units(<<Bare(k)>>, "stdin") = {}
    /\ \A f \in Outputs : Units(<<f>>, "stdin") = {}
    /\ \A f \in Inputs : Units(<<f>>, "stdin") = {f.n} /\ f.n \in 1..MaxIn
  BY UnitsFew, FrameFacts

\* Only a handler that sends to the worker has input, and there is one at most.
LEMMA OneClient ==
    ASSUME BaseInv, NEW t \in Attachment
    PROVE  /\ handler[t] # "toWorker" => Units(<<sending[t]>>, "stdin") = {}
           /\ Attached(t) => AtClients = Units(<<sending[t]>>, "stdin")
  <1>1. ASSUME NEW u \in Attachment, handler[u] # "toWorker"
        PROVE  Units(<<sending[u]>>, "stdin") = {}
    <2>1. Fits(handler[u], sending[u])
      BY DEF BaseInv, ShapeInv, SendingInv
    <2> QED
      BY <1>1, <2>1, NoInput DEF Fits
  <1>2. ASSUME Attached(t), NEW u \in Attachment, u # t PROVE Units(<<sending[u]>>, "stdin") = {}
    <2>1. ~Attached(u)
      BY <1>2 DEF BaseInv, OwnerInv
    <2> QED
      BY <1>1, <2>1 DEF Attached
  <1> QED
    BY <1>1, <1>2 DEF AtClients

\* A step that moves none of the input.
LEMMA InputSame ==
    ASSUME InputInv, UNCHANGED <<typed, consumed, pty>>, Flowing' => Flowing,
           worker' = "writeInput" => worker = "writeInput" /\ held' = held,
           Flowing' => /\ AtPty' = AtPty /\ OnWay' = OnWay /\ AtClients' = AtClients
                       /\ InOrder(down', "stdin")
    PROVE  InputInv'
  <1>1. Taken' = Taken
    BY DEF Taken
  <1> QED
    BY <1>1 DEF InputInv

\* The steps of a handler.
LEMMA InputHandler ==
    ASSUME BaseInv, BaseInv', InputInv, NEW t \in Attachment, Attach(t) \/ HandlerStep(t)
    PROVE  InputInv'
  <1>o. HandlerOnly(t) /\ ShapeInv
    BY HandlerIsOnly DEF BaseInv
  <1>t. /\ handler \in [Attachment -> HandlerPc] /\ typed \in Nat
        /\ sending \in [Attachment -> Outputs \cup Inputs
                                        \cup {NoFrame, Bare("ping"), Bare("resize")}]
        /\ down \in Seq(Inputs \cup {Bare("ping"), Bare("resize")})
        /\ consumed \in Seq(1..MaxIn) /\ pty \in Seq(1..MaxIn) /\ MaxIn \in Nat
    BY <1>o, Numbers DEF ShapeInv, TypeOK
  <1>g. \A pc, f : Go(t, pc, f) => handler'[t] = pc /\ sending'[t] = f
    BY <1>t DEF Go
  <1>w. UNCHANGED <<worker, held>> /\ AtPty' = AtPty
    BY <1>o DEF HandlerOnly, AtPty
  <1>c. ASSUME Units(<<sending[t]>>, "stdin") = {}, Units(<<sending'[t]>>, "stdin") = {}
        PROVE  AtClients' = AtClients
    <2>1. \A u \in Attachment : Units(<<sending'[u]>>, "stdin") = Units(<<sending[u]>>, "stdin")
      BY <1>c, <1>o DEF HandlerOnly
    <2> QED
      BY <2>1 DEF AtClients
  <1>s. ASSUME UNCHANGED <<typed, consumed, pty, down, link>>,
               Units(<<sending[t]>>, "stdin") = {}, Units(<<sending'[t]>>, "stdin") = {}
        PROVE  InputInv'
    <2>1. OnWay' = OnWay /\ (Flowing' <=> Flowing)
      BY <1>s, <1>w DEF OnWay, Flowing
    <2>2. Flowing => InOrder(down', "stdin")
      BY <1>s DEF InputInv
    <2> QED
      BY <1>s, <1>c, <1>w, <2>1, <2>2, InputSame
  <1>q. ASSUME UNCHANGED <<typed, consumed, pty, down, link>>,
               handler[t] # "toWorker", handler'[t] # "toWorker"
        PROVE  InputInv'
    <2>1. Units(<<sending[t]>>, "stdin") = {}
      BY <1>q, OneClient
    <2>2. Units(<<sending'[t]>>, "stdin") = {}
      <3>1. Fits(handler'[t], sending'[t])
        BY DEF BaseInv, ShapeInv, SendingInv
      <3> QED
        BY <1>q, <3>1, NoInput DEF Fits
    <2> QED
      BY <1>q, <1>s, <2>1, <2>2
  <1>1. CASE Attach(t) \/ Upgrade(t)
    <2>1. UNCHANGED <<typed, consumed, pty, down, link>>
      BY <1>1 DEF Attach, Upgrade, linkVars, workerVars, clientVars
    <2>2. handler[t] # "toWorker" /\ handler'[t] # "toWorker"
      BY <1>1, <1>g DEF Attach, Upgrade
    <2> QED
      BY <1>q, <2>1, <2>2
  <1>2. CASE PingClient(t) \/ SendClient(t) \/ Recv(t)
    <2>1. UNCHANGED <<typed, consumed, pty, down, link>>
      BY <1>2 DEF PingClient, SendClient, Recv, linkVars, workerVars
    <2>2. handler[t] # "toWorker" /\ handler'[t] # "toWorker"
      BY <1>2, <1>g DEF PingClient, SendClient, Recv, ToClient
    <2> QED
      BY <1>q, <2>1, <2>2
  <1>3. CASE ClientSilent(t) \/ ClientLost(t) \/ SendClientFails(t) \/ SendClose(t)
    <2>1. UNCHANGED <<typed, consumed, pty, down, link>>
      BY <1>3 DEF ClientSilent, ClientLost, SendClientFails, SendClose, linkVars, workerVars,
         clientVars
    <2>2. handler[t] # "toWorker" /\ handler'[t] # "toWorker"
      BY <1>3, <1>g DEF ClientSilent, ClientLost, SendClientFails, SendClose
    <2> QED
      BY <1>q, <2>1, <2>2
  <1>4. CASE Detach(t) \/ SpawnedDetach(t)
    <2>1. UNCHANGED <<typed, consumed, pty, down, link>>
      BY <1>4 DEF Detach, SpawnedDetach, linkVars, workerVars, clientVars
    <2>2. handler[t] # "toWorker" /\ handler'[t] # "toWorker"
      BY <1>4, <1>g DEF Detach, SpawnedDetach
    <2> QED
      BY <1>q, <2>1, <2>2
  <1>5. CASE ClientControl(t)
    <2>1. UNCHANGED <<typed, consumed, pty, down, link>>
      BY <1>5 DEF ClientControl, linkVars, workerVars, clientVars
    <2>2. handler[t] = "select" /\ sending'[t] \in {NoFrame, Bare("resize")}
      BY <1>5, <1>g DEF ClientControl
    <2>3. Units(<<sending[t]>>, "stdin") = {} /\ Units(<<sending'[t]>>, "stdin") = {}
      BY <2>2, OneClient, NoInput
    <2> QED
      BY <1>s, <2>1, <2>3
  <1>6. CASE ClientInput(t)
    <2>1. /\ handler[t] = "select" /\ typed < MaxIn /\ typed' = typed + 1
          /\ sending'[t] = Stdin(typed + 1) /\ handler'[t] = "toWorker"
          /\ UNCHANGED <<consumed, pty, down, link>>
      BY <1>6, <1>g DEF ClientInput, linkVars, workerVars
    <2>2. AtClients = {}
      BY <2>1, OneClient DEF Attached
    <2>3. AtClients' = {typed + 1}
      <3>1. typed + 1 \in 1..MaxIn
        BY <1>t, <2>1
      <3>2. Units(<<sending'[t]>>, "stdin") = {typed + 1}
        BY <2>1, <3>1, FrameFacts, NoInput
      <3>3. \A u \in Attachment : u # t => Units(<<sending'[u]>>, "stdin") = {}
        BY <1>o, <2>2 DEF HandlerOnly, AtClients
      <3> QED
        BY <3>2, <3>3 DEF AtClients
    <2>4. Taken' = Taken /\ Taken \in Nat /\ OnWay' = OnWay /\ (Flowing' <=> Flowing)
      BY <1>t, <1>w, <2>1 DEF Taken, OnWay, Flowing
    <2>5. ASSUME Flowing
          PROVE  /\ InOrder(down', "stdin")
                 /\ Below(AtPty', OnWay' \cup AtClients') /\ Below(OnWay', AtClients')
                 /\ AtPty' \cup OnWay' \cup AtClients' = (Taken + 1)..(typed + 1)
      <3>1. /\ Taken <= typed /\ InOrder(down, "stdin") /\ Below(AtPty, OnWay)
            /\ AtPty \cup OnWay = (Taken + 1)..typed
        BY <2>2, <2>5 DEF InputInv, Below
      <3>2. Below(AtPty \cup OnWay, {typed + 1})
        BY <1>t, <2>4, <3>1 DEF Below
      <3>3. ((Taken + 1)..typed) \cup {typed + 1} = (Taken + 1)..(typed + 1)
        <4>1. \A a, b \in Nat : a <= b => ((a + 1)..b) \cup {b + 1} = (a + 1)..(b + 1)
          OBVIOUS
        <4> QED
          BY <1>t, <2>4, <3>1, <4>1
      <3> QED
        BY <1>w, <2>1, <2>3, <2>4, <3>1, <3>2, <3>3 DEF Below
    <2>6. Taken <= typed /\ (worker = "writeInput" => held.n = Taken + 1 /\ held.n <= typed)
      BY DEF InputInv
    <2> QED
      BY <1>t, <1>w, <2>1, <2>4, <2>5, <2>6 DEF InputInv
  <1>7. CASE SendWorker(t)
    <2>1. /\ handler[t] = "toWorker" /\ sending'[t] = NoFrame
          /\ UNCHANGED <<typed, consumed, pty, link>>
          /\ \/ down' = Append(down, sending[t])
             \/ ~link /\ down' = down
      BY <1>7, <1>g DEF SendWorker, linkVars, workerVars, clientVars
    <2>2. CASE ~link
      BY <1>w, <2>1, <2>2, InputSame DEF Flowing
    <2>3. CASE link /\ down' = Append(down, sending[t])
      <3>1. AtClients = Units(<<sending[t]>>, "stdin")
        BY <2>1, OneClient DEF Attached
      <3>2. AtClients' = {}
        <4>1. \A u \in Attachment : Units(<<sending'[u]>>, "stdin") = {}
          <5>1. ASSUME NEW u \in Attachment, u # t PROVE Units(<<sending[u]>>, "stdin") = {}
            <6>1. ~Attached(u)
              BY <2>1, <5>1 DEF BaseInv, OwnerInv, Attached
            <6> QED
              BY <6>1, OneClient DEF Attached
          <5> QED
            BY <1>o, <2>1, <5>1, NoInput DEF HandlerOnly
        <4> QED
          BY <4>1 DEF AtClients
      <3>3. sending[t] \in Inputs \cup {Bare("ping"), Bare("resize")}
        <4>1. Fits(handler[t], sending[t])
          BY DEF BaseInv, ShapeInv, SendingInv
        <4> QED
          BY <2>1, <4>1 DEF Fits
      <3>4. ASSUME Flowing
            PROVE  OnWay' = OnWay \cup AtClients /\ InOrder(down', "stdin")
        <4> DEFINE S == Inputs \cup {Bare("ping"), Bare("resize")}
        <4>1. down \in Seq(S) /\ sending[t] \in S /\ InOrder(down, "stdin")
              /\ Below(OnWay, AtClients)
          BY <1>t, <3>3, <3>4 DEF InputInv
        <4> HIDE DEF S
        <4>2. /\ Units(Append(down, sending[t]), "stdin")
                    = Units(down, "stdin") \cup Units(<<sending[t]>>, "stdin")
              /\ InOrder(Append(down, sending[t]), "stdin")
          BY <3>1, <4>1, UnitsAppend DEF OnWay
        <4> QED
          BY <2>3, <3>1, <4>2 DEF OnWay
      <3>5. Taken' = Taken /\ (Flowing' <=> Flowing)
        BY <1>w, <2>1 DEF Taken, Flowing
      <3> QED
        BY <1>w, <2>1, <3>2, <3>4, <3>5 DEF InputInv, Below
    <2> QED
      BY <2>1, <2>2, <2>3
  <1> QED
    BY <1>1, <1>2, <1>3, <1>4, <1>5, <1>6, <1>7 DEF HandlerStep

\* The steps of the server's tasks, of the sockets and of the clients.
LEMMA InputServer ==
    ASSUME BaseInv, InputInv,
           \/ \E t \in Attachment :
                 TellClosed(t) \/ \E how \in {"stalled", "gone"} : ClientFails(t, how)
           \/ ReadFrame \/ Route \/ LoopEnds \/ Keepalive \/ CloseSocket \/ LinkFails
    PROVE  InputInv'
  <1>1. UNCHANGED <<typed, consumed, pty, worker, held, sending>>
    BY DEF TellClosed, ClientFails, ReadFrame, Route, LoopEnds, Keepalive, CloseSocket, LinkFails,
       handlerVars, workerVars, clientVars
  <1>2. AtPty' = AtPty /\ AtClients' = AtClients
    BY <1>1 DEF AtPty, AtClients
  <1>3. CASE CloseSocket \/ LinkFails
    <2>1. ~Flowing'
      BY <1>3 DEF CloseSocket, LinkFails, Flowing
    <2> QED
      BY <1>1, <2>1, InputSame
  <1>4. CASE UNCHANGED <<down, link>>
    <2>1. OnWay' = OnWay /\ (Flowing' <=> Flowing) /\ (Flowing => InOrder(down', "stdin"))
      BY <1>1, <1>4 DEF OnWay, Flowing, InputInv
    <2> QED
      BY <1>1, <1>2, <2>1, InputSame
  <1>5. CASE Keepalive /\ down' = Append(down, Bare("ping"))
    <2>1. link' = link /\ down \in Seq(Inputs \cup {Bare("ping"), Bare("resize")})
      BY <1>5 DEF Keepalive, BaseInv, ShapeInv, TypeOK
    <2>2. Flowing' <=> Flowing
      BY <1>1, <2>1 DEF Flowing
    <2>3. ASSUME Flowing PROVE OnWay' = OnWay /\ InOrder(down', "stdin")
      <3> DEFINE S == Inputs \cup {Bare("ping"), Bare("resize")}
      <3>1. /\ down \in Seq(S) /\ Bare("ping") \in S /\ InOrder(down, "stdin")
            /\ Units(<<Bare("ping")>>, "stdin") = {}
        BY <2>1, <2>3, NoInput DEF InputInv
      <3> HIDE DEF S
      <3>2. Below(Units(down, "stdin"), Units(<<Bare("ping")>>, "stdin"))
        BY <3>1 DEF Below
      <3>3. /\ Units(Append(down, Bare("ping")), "stdin")
                  = Units(down, "stdin") \cup Units(<<Bare("ping")>>, "stdin")
            /\ InOrder(Append(down, Bare("ping")), "stdin")
        BY <3>1, <3>2, UnitsAppend
      <3> QED
        BY <1>5, <3>1, <3>3 DEF OnWay
    <2> QED
      BY <1>1, <1>2, <2>2, <2>3, InputSame
  <1> QED
    BY <1>3, <1>4, <1>5 DEF TellClosed, ClientFails, ReadFrame, Route, LoopEnds, Keepalive, linkVars

\* run_session takes the next unit from the socket, or an answer to give.
LEMMA InputRead == ASSUME BaseInv, InputInv, ReadServer PROVE InputInv'
  <1>t. /\ down \in Seq(Inputs \cup {Bare("ping"), Bare("resize")}) /\ typed \in Nat
        /\ consumed \in Seq(1..MaxIn) /\ pty \in Seq(1..MaxIn) /\ MaxIn \in Nat
        /\ worker = "select" /\ held = NoFrame /\ down # <<>> /\ down' = Tail(down)
    BY Numbers DEF BaseInv, ShapeInv, TypeOK, HeldInv, ReadServer
  <1>1. Flowing
    BY <1>t DEF Flowing, BaseInv, LinkInv
  <1>2. UNCHANGED <<typed, consumed, pty, sending, link>> /\ AtClients' = AtClients
    BY DEF ReadServer, handlerVars, clientVars, AtClients
  <1>3. Taken \in Nat /\ Taken' = Taken
    BY <1>t, <1>2 DEF Taken
  <1>p. PICK f \in Inputs \cup {Bare("ping"), Bare("resize")} : f = Head(down)
    <2>1. Head(down) \in Inputs \cup {Bare("ping"), Bare("resize")}
      BY <1>t, QueueFacts
    <2> QED
      BY <2>1
  <1>4. /\ OnWay = Units(<<f>>, "stdin") \cup OnWay' /\ InOrder(down', "stdin")
        /\ Below(Units(<<f>>, "stdin"), OnWay')
    <2> DEFINE S == Inputs \cup {Bare("ping"), Bare("resize")}
    <2>1. down \in Seq(S) /\ InOrder(down, "stdin") /\ f = Head(down)
      BY <1>t, <1>1, <1>p DEF InputInv
    <2> HIDE DEF S
    <2>2. /\ Units(down, "stdin") = Units(<<f>>, "stdin") \cup Units(Tail(down), "stdin")
          /\ InOrder(Tail(down), "stdin")
          /\ Below(Units(<<f>>, "stdin"), Units(Tail(down), "stdin"))
      BY <1>t, <2>1, UnitsTail
    <2> QED
      BY <1>t, <2>2 DEF OnWay
  <1>5. AtPty = {}
    BY <1>t, NoInput DEF AtPty
  <1>6. CASE f \notin Inputs
    <2>1. /\ Units(<<f>>, "stdin") = {} /\ worker' # "writeInput"
          /\ held' \in {NoFrame, Bare("pong")}
      BY <1>6, <1>t, <1>p, NoInput, FrameFacts DEF ReadServer
    <2>2. AtPty' = {} /\ OnWay' = OnWay
      BY <1>4, <2>1, NoInput DEF AtPty
    <2> QED
      BY <1>1, <1>2, <1>4, <1>5, <2>1, <2>2, InputSame
  <1>7. CASE f \in Inputs
    <2>1. /\ worker' = "writeInput" /\ held' = f /\ f.n \in Nat
          /\ Units(<<f>>, "stdin") = {f.n}
      <3>1. f.kind = "stdin" /\ f.n \in 1..MaxIn
        BY <1>7, FrameFacts
      <3> QED
        BY <1>7, <1>p, <1>t, <3>1, NoInput DEF ReadServer
    <2>2. AtPty' = {f.n}
      BY <2>1 DEF AtPty
    <2>3. /\ Taken <= typed /\ Below(OnWay, AtClients)
          /\ OnWay \cup AtClients = (Taken + 1)..typed
      BY <1>1, <1>5 DEF InputInv
    <2>4. Below({f.n}, OnWay' \cup AtClients) /\ Below(OnWay', AtClients)
          /\ {f.n} \cup OnWay' \cup AtClients = (Taken + 1)..typed
      BY <1>4, <2>1, <2>3 DEF Below
    <2>5. f.n = Taken + 1 /\ f.n <= typed
      <3>1. f.n \in (Taken + 1)..typed
        BY <2>4
      <3>2. Taken + 1 \in (Taken + 1)..typed
        BY <1>t, <1>3, <3>1
      <3>3. Taken + 1 = f.n \/ f.n < Taken + 1
        BY <2>4, <3>2 DEF Below
      <3> QED
        BY <1>t, <1>3, <3>1, <3>3
    <2>6. Taken' <= typed' /\ held'.n = Taken' + 1 /\ held'.n <= typed'
      BY <1>2, <1>3, <2>1, <2>3, <2>5
    <2>7. /\ Below(AtPty', OnWay' \cup AtClients') /\ Below(OnWay', AtClients')
          /\ AtPty' \cup OnWay' \cup AtClients' = (Taken' + 1)..typed'
      BY <1>2, <1>3, <2>2, <2>4
    <2> QED
      BY <1>2, <1>4, <2>6, <2>7 DEF InputInv
  <1> QED
    BY <1>6, <1>7

\* The pty takes the next unit.
LEMMA InputWritten == ASSUME BaseInv, InputInv, WriteInput PROVE InputInv'
  <1>t. /\ typed \in Nat /\ consumed \in Seq(1..MaxIn) /\ pty \in Seq(1..MaxIn) /\ MaxIn \in Nat
        /\ worker = "writeInput" /\ held \in Inputs /\ held' = NoFrame
        /\ pty' = Append(pty, held.n) /\ worker' = "select"
    BY Numbers DEF BaseInv, ShapeInv, TypeOK, HeldInv, WriteInput
  <1>1. UNCHANGED <<typed, consumed, sending, link, down>>
    BY DEF WriteInput, handlerVars, linkVars, clientVars
  <1>2. AtClients' = AtClients /\ OnWay' = OnWay /\ (Flowing' <=> Flowing)
    BY <1>t, <1>1 DEF AtClients, OnWay, Flowing
  <1>3. AtPty = {held.n} /\ AtPty' = {} /\ held.n \in 1..MaxIn
    BY <1>t, NoInput DEF AtPty
  <1>4. /\ Len(pty) \in Nat /\ DOMAIN pty = 1..Len(pty) /\ DOMAIN pty' = 1..(Len(pty) + 1)
        /\ Len(pty') = Len(pty) + 1
        /\ pty'[Len(pty) + 1] = held.n /\ \A i \in DOMAIN pty : pty'[i] = pty[i]
    <2> DEFINE S == 1..MaxIn
    <2>1. pty \in Seq(S) /\ held.n \in S
      BY <1>t, <1>3
    <2> HIDE DEF S
    <2> QED
      BY <1>t, <2>1, QueueFacts
  <1>5. Len(consumed) \in Nat /\ Taken \in Nat /\ Taken' = Taken + 1
    BY <1>t, <1>1, <1>4 DEF Taken
  <1>6. held.n = Taken + 1 /\ Taken + 1 <= typed
    BY <1>t DEF InputInv
  <1>7. \A i \in DOMAIN pty' : pty'[i] = Len(consumed) + i
    BY <1>4, <1>5, <1>6 DEF InputInv, Taken
  <1>8. ASSUME Flowing
        PROVE  /\ InOrder(down', "stdin") /\ Below(AtPty', OnWay' \cup AtClients')
               /\ Below(OnWay', AtClients')
               /\ AtPty' \cup OnWay' \cup AtClients' = (Taken' + 1)..typed'
    <2>1. /\ InOrder(down, "stdin") /\ Below({Taken + 1}, OnWay \cup AtClients)
          /\ Below(OnWay, AtClients)
          /\ {Taken + 1} \cup OnWay \cup AtClients = (Taken + 1)..typed
      BY <1>3, <1>6, <1>8 DEF InputInv
    <2>2. OnWay \cup AtClients = (Taken + 2)..typed
      <3>1. Taken + 1 \notin OnWay \cup AtClients
        BY <1>5, <2>1 DEF Below
      <3>2. \A x : x \in OnWay \cup AtClients <=> x \in (Taken + 1)..typed /\ x # Taken + 1
        BY <2>1, <3>1
      <3>3. \A x : x \in (Taken + 2)..typed <=> x \in (Taken + 1)..typed /\ x # Taken + 1
        BY <1>5, <1>t
      <3> QED
        BY <3>2, <3>3
    <2>3. (Taken' + 1)..typed' = (Taken + 2)..typed
      BY <1>1, <1>5
    <2> QED
      BY <1>1, <1>2, <1>3, <2>1, <2>2, <2>3 DEF Below
  <1>9. Taken' <= typed' /\ \A i \in DOMAIN consumed' : consumed'[i] = i
    BY <1>1, <1>5, <1>6 DEF InputInv
  <1> QED
    BY <1>t, <1>1, <1>2, <1>7, <1>8, <1>9 DEF InputInv

\* The shell reads the next unit.
LEMMA InputConsumed == ASSUME BaseInv, InputInv, ShellReads PROVE InputInv'
  <1>t. /\ consumed \in Seq(1..MaxIn) /\ pty \in Seq(1..MaxIn)
        /\ pty # <<>> /\ pty' = Tail(pty) /\ consumed' = Append(consumed, Head(pty))
        /\ UNCHANGED <<typed, worker, held, sending, link, down>>
    BY DEF BaseInv, ShapeInv, TypeOK, ShellReads, handlerVars, linkVars, clientVars
  <1>1. AtClients' = AtClients /\ OnWay' = OnWay /\ AtPty' = AtPty /\ (Flowing' <=> Flowing)
    BY <1>t DEF AtClients, OnWay, AtPty, Flowing
  <1>2. /\ Len(pty) \in Nat \ {0} /\ DOMAIN pty = 1..Len(pty)
        /\ Len(pty') = Len(pty) - 1 /\ DOMAIN pty' = 1..(Len(pty) - 1)
        /\ \A i \in 1..(Len(pty) - 1) : pty'[i] = pty[i + 1]
        /\ Len(consumed) \in Nat /\ DOMAIN consumed = 1..Len(consumed)
        /\ Len(consumed') = Len(consumed) + 1 /\ DOMAIN consumed' = 1..(Len(consumed) + 1)
        /\ consumed'[Len(consumed) + 1] = pty[1]
        /\ \A i \in DOMAIN consumed : consumed'[i] = consumed[i]
    <2> DEFINE S == 1..MaxIn
    <2>1. pty \in Seq(S) /\ consumed \in Seq(S)
      BY <1>t
    <2> HIDE DEF S
    <2>2. Head(pty) \in S /\ Head(pty) = pty[1]
      BY <1>t, <2>1, QueueFacts
    <2>3. /\ Len(pty) \in Nat \ {0} /\ DOMAIN pty = 1..Len(pty)
          /\ Len(pty') = Len(pty) - 1 /\ DOMAIN pty' = 1..(Len(pty) - 1)
          /\ \A i \in 1..(Len(pty) - 1) : pty'[i] = pty[i + 1]
      BY <1>t, <2>1, QueueFacts
    <2>4. /\ Len(consumed) \in Nat /\ DOMAIN consumed = 1..Len(consumed)
          /\ Len(consumed') = Len(consumed) + 1 /\ DOMAIN consumed' = 1..(Len(consumed) + 1)
          /\ consumed'[Len(consumed) + 1] = pty[1]
          /\ \A i \in DOMAIN consumed : consumed'[i] = consumed[i]
      BY <1>t, <2>1, <2>2, QueueFacts
    <2> QED
      BY <2>3, <2>4
  <1>3. Taken' = Taken
    BY <1>2 DEF Taken
  <1>4. /\ \A i \in DOMAIN consumed : consumed[i] = i
        /\ \A i \in DOMAIN pty : pty[i] = Len(consumed) + i
    BY DEF InputInv
  <1>5. \A i \in DOMAIN consumed' : consumed'[i] = i
    BY <1>2, <1>4
  <1>6. ASSUME NEW i \in DOMAIN pty' PROVE pty'[i] = Len(consumed') + i
    <2>1. i \in Nat /\ i + 1 \in DOMAIN pty /\ pty'[i] = pty[i + 1]
      BY <1>2
    <2>2. pty[i + 1] = Len(consumed) + (i + 1)
      BY <1>4, <2>1
    <2> QED
      BY <1>2, <2>1, <2>2
  <1> QED
    BY <1>t, <1>1, <1>3, <1>5, <1>6 DEF InputInv

\* The other steps of the worker.
LEMMA InputOther ==
    ASSUME BaseInv, InputInv, ReadPty \/ ShellEnds \/ SendServer \/ IdleReads \/ WorkerLost
    PROVE  InputInv'
  <1>1. /\ UNCHANGED <<typed, consumed, pty, sending>> /\ worker' # "writeInput"
        /\ worker # "writeInput"
    BY DEF ReadPty, ShellEnds, SendServer, IdleReads, WorkerLost, handlerVars, linkVars, workerVars,
       clientVars
  <1>2. AtClients' = AtClients
    BY <1>1 DEF AtClients
  <1>3. CASE ShellEnds \/ IdleReads \/ WorkerLost
    <2>1. ~Flowing'
      BY <1>3 DEF ShellEnds, IdleReads, WorkerLost, Flowing, workerVars
    <2> QED
      BY <1>1, <2>1, InputSame
  <1>4. CASE ReadPty \/ SendServer
    <2>1. UNCHANGED <<down, link>> /\ OnWay' = OnWay
      BY <1>4 DEF ReadPty, SendServer, linkVars, OnWay
    <2>2. Flowing' => Flowing
      BY <1>4, <2>1 DEF ReadPty, SendServer, Flowing
    <2>3. AtPty = {}
      <3>1. held \in Outputs \cup {NoFrame, Bare("pong"), Bare("closed")}
        BY <1>4 DEF BaseInv, ShapeInv, HeldInv, ReadPty, SendServer
      <3> QED
        BY <3>1, NoInput DEF AtPty
    <2>4. AtPty' = {}
      <3>1. held' \in Outputs \cup {NoFrame}
        <4>1. produced < MaxOut => Output(produced + 1) \in Outputs
          BY Numbers, FrameFacts DEF BaseInv, ShapeInv, TypeOK
        <4> QED
          BY <1>4, <4>1 DEF ReadPty, SendServer
      <3> QED
        BY <3>1, NoInput DEF AtPty
    <2>5. Flowing => InOrder(down', "stdin")
      BY <2>1 DEF InputInv
    <2> QED
      BY <1>1, <1>2, <2>1, <2>2, <2>3, <2>4, <2>5, InputSame
  <1> QED
    BY <1>3, <1>4

\* Init has no input yet.
LEMMA InputInit == ASSUME Init PROVE InputInv
  <1>1. /\ AtPty = {} /\ OnWay = {} /\ AtClients = {} /\ InOrder(down, "stdin")
    BY UnitsFew, NoInput DEF Init, AtPty, OnWay, AtClients
  <1>2. Taken = 0 /\ typed = 0 /\ consumed = <<>> /\ pty = <<>> /\ worker = "select"
    BY DEF Init, Taken
  <1> QED
    BY <1>1, <1>2 DEF InputInv, Below

\* Every step keeps the input complete and in order.
LEMMA InputNext == ASSUME BaseInv, InputInv, [Next]_vars PROVE InputInv'
  <1>b. BaseInv'
    BY BaseNext
  <1>1. CASE UNCHANGED vars
    <2>1. UNCHANGED <<typed, consumed, pty, worker, held, sending, link, down>>
      BY <1>1 DEF vars, handlerVars, linkVars, workerVars, clientVars
    <2>2. /\ AtPty' = AtPty /\ OnWay' = OnWay /\ AtClients' = AtClients /\ (Flowing' <=> Flowing)
          /\ Flowing => InOrder(down', "stdin")
      BY <2>1 DEF AtPty, OnWay, AtClients, Flowing, InputInv
    <2> QED
      BY <2>1, <2>2, InputSame
  <1> QED
    BY <1>b, <1>1, InputHandler, InputServer, InputRead, InputWritten, InputConsumed, InputOther
       DEF Next, WorkerStep

-----------------------------------------------------------------------------
(* The theorems.                                                           *)

\* A set of numbers has a least one.
LEMMA LeastUnit ==
    ASSUME NEW A \in SUBSET Nat, A # {}
    PROVE  \E a \in A : \A b \in A : a <= b
  <1> DEFINE R == OpToRel(<, Nat)
  <1>1. IsWellFoundedOn(R, Nat)
    BY NatLessThanWellFounded
  <1>2. \A x, y \in Nat : <<y, x>> \in R <=> y < x
    BY DEF OpToRel
  <1> HIDE DEF R
  <1>3. PICK a \in A : \A b \in A : ~(<<b, a>> \in R)
    BY <1>1, WFMin
  <1>4. \A b \in A : ~(b < a)
    BY <1>2, <1>3
  <1> QED
    BY <1>4

\* Two runs of frames behind each other, of which both are in order.
LEMMA Joined ==
    ASSUME NEW S, NEW s \in Seq(S), NEW u \in Seq(S), NEW k,
           InOrder(s, k), InOrder(u, k), Below(Units(s, k), Units(u, k))
    PROVE  /\ s \o u \in Seq(S) /\ InOrder(s \o u, k)
           /\ Units(s \o u, k) = Units(s, k) \cup Units(u, k)
  <1>1. s \o u \in Seq(S)
    OBVIOUS
  <1> QED
    BY <1>1, UnitsConcat

\* All frames there are.
AnyFrame ==
    Outputs \cup Inputs
      \cup {NoFrame, Bare("ping"), Bare("resize"), Bare("closed"), Bare("pong")}

\* Units that have left the wire, as frames.
LEMMA FramesOfUnits ==
    ASSUME NEW k, NEW m \in Nat, NEW units \in Seq(1..m), NEW S,
           \A n \in 1..m : [kind |-> k, n |-> n] \in S,
           \A i, j \in DOMAIN units : i < j => units[i] < units[j]
    PROVE  /\ Frames(units, k) \in Seq(S) /\ InOrder(Frames(units, k), k)
           /\ Units(Frames(units, k), k) = {units[i] : i \in DOMAIN units}
  <1>1. /\ Len(units) \in Nat /\ DOMAIN units = 1..Len(units)
        /\ \A i \in DOMAIN units : units[i] \in 1..m
    <2> DEFINE T == 1..m
    <2> HIDE DEF T
    <2>1. units \in Seq(T)
      BY DEF T
    <2>2. /\ Len(units) \in Nat /\ DOMAIN units = 1..Len(units)
          /\ \A i \in DOMAIN units : units[i] \in T
      BY <2>1, QueueFacts
    <2> QED
      BY <2>2 DEF T
  <1>2. /\ DOMAIN Frames(units, k) = DOMAIN units
        /\ \A i \in DOMAIN units : /\ Frames(units, k)[i] = [kind |-> k, n |-> units[i]]
                                   /\ Frames(units, k)[i].kind = k
                                   /\ Frames(units, k)[i].n = units[i]
    BY DEF Frames
  <1>3. Frames(units, k) \in Seq(S)
    <2>1. \A i \in 1..Len(units) : [kind |-> k, n |-> units[i]] \in S
      BY <1>1
    <2>2. Frames(units, k) = [i \in 1..Len(units) |-> [kind |-> k, n |-> units[i]]]
      BY <1>1 DEF Frames
    <2>3. Frames(units, k) \in [1..Len(units) -> S]
      BY <2>1, <2>2
    <2> QED
      BY <1>1, <2>3, SeqDef
  <1>4. InOrder(Frames(units, k), k)
    BY <1>2 DEF InOrder
  <1>5. Units(Frames(units, k), k) = {units[i] : i \in DOMAIN units}
    BY <1>2 DEF Units
  <1> QED
    BY <1>3, <1>4, <1>5

\* What a client got is without a gap, and with what is under way it is complete.
LEMMA OutputMeant == ASSUME BaseInv, OutputInv PROVE OutputInOrder
  <1>t. /\ received \in [Attachment -> Seq(1..MaxOut)] /\ backlog \in [Attachment -> Seq(Event)]
        /\ up \in Seq(Event \cup {Bare("pong")}) /\ produced \in Nat /\ MaxOut \in Nat
        /\ sending \in [Attachment -> Outputs \cup Inputs
                                        \cup {NoFrame, Bare("ping"), Bare("resize")}]
        /\ held \in Event \cup Inputs \cup {NoFrame, Bare("pong")}
        /\ routing.frame \in Outputs \cup {NoFrame}
    BY Numbers DEF BaseInv, ShapeInv, TypeOK
  <1> SUFFICES ASSUME NEW t \in Attachment
               PROVE  /\ Contiguous(received[t])
                      /\ terminal = t /\ Serving(t) /\ link =>
                            \E first \in 1..(produced + 1) :
                               Carries(OutputOf(t), "output", first, produced)
    BY DEF OutputInOrder
  <1>1. /\ received[t] \in Seq(1..MaxOut) /\ Steady(received[t])
        /\ Len(received[t]) \in Nat /\ DOMAIN received[t] = 1..Len(received[t])
        /\ \A i \in DOMAIN received[t] : received[t][i] \in Nat
    <2>1. received[t] \in Seq(1..MaxOut) /\ Steady(received[t])
      BY <1>t DEF OutputInv
    <2> DEFINE T == 1..MaxOut
    <2>2. received[t] \in Seq(T)
      BY <2>1
    <2> HIDE DEF T
    <2>3. /\ Len(received[t]) \in Nat /\ DOMAIN received[t] = 1..Len(received[t])
          /\ \A i \in DOMAIN received[t] : received[t][i] \in T
      BY <2>2, QueueFacts
    <2> QED
      BY <1>t, <2>1, <2>3 DEF T
  <1>2. Contiguous(received[t])
    <2> SUFFICES ASSUME NEW i \in 1..(Len(received[t]) - 1)
                 PROVE  received[t][i + 1] = received[t][i] + 1
      BY DEF Contiguous
    <2>1. i \in DOMAIN received[t] /\ i + 1 \in DOMAIN received[t] /\ 1 \in DOMAIN received[t]
      BY <1>1
    <2>2. /\ received[t][i] = received[t][1] + (i - 1)
          /\ received[t][i + 1] = received[t][1] + ((i + 1) - 1) /\ received[t][1] \in Nat
      BY <1>1, <2>1 DEF Steady
    <2> QED
      BY <2>2
  <1>3. ASSUME terminal = t, Serving(t), link
        PROVE  \E first \in 1..(produced + 1) : Carries(OutputOf(t), "output", first, produced)
    <2>0. LineOf(t) /\ JoinedTo(t) /\ WireInv /\ worker # "gone"
      BY <1>3 DEF OutputInv, BaseInv, LinkInv
    <2> DEFINE got == Frames(received[t], "output")
    <2>1. /\ got \in Seq(AnyFrame) /\ InOrder(got, "output") /\ Units(got, "output") = Got(t)
      <3>1. \A n \in 1..MaxOut : [kind |-> "output", n |-> n] \in AnyFrame
        BY DEF AnyFrame, Outputs, Output
      <3>2. ASSUME NEW i \in DOMAIN received[t], NEW j \in DOMAIN received[t], i < j
            PROVE  received[t][i] < received[t][j]
        <4>1. 1 \in DOMAIN received[t]
          BY <1>1
        <4>2. /\ received[t][i] = received[t][1] + (i - 1)
              /\ received[t][j] = received[t][1] + (j - 1)
              /\ received[t][1] \in Nat /\ i \in Nat /\ j \in Nat
          BY <1>1, <4>1 DEF Steady
        <4> QED
          BY <3>2, <4>2
      <3> HIDE DEF got
      <3> QED
        BY <1>1, <1>t, <3>1, <3>2, FramesOfUnits DEF Got, got
    <2> HIDE DEF got
    <2>2. /\ <<sending[t]>> \in Seq(AnyFrame) /\ backlog[t] \in Seq(AnyFrame)
          /\ Routed(t) \in Seq(AnyFrame) /\ up \in Seq(AnyFrame) /\ <<held>> \in Seq(AnyFrame)
      <3>1. backlog[t] \in Seq(AnyFrame) /\ up \in Seq(AnyFrame)
        <4>1. Event \subseteq AnyFrame /\ Event \cup {Bare("pong")} \subseteq AnyFrame
          BY DEF Event, AnyFrame
        <4>2. backlog[t] \in Seq(Event)
          BY <1>t
        <4> QED
          BY <1>t, <4>1, <4>2, SeqMonotonic
      <3>2. sending[t] \in AnyFrame /\ routing.frame \in AnyFrame /\ held \in AnyFrame
        BY <1>t DEF Event, AnyFrame
      <3> QED
        BY <3>1, <3>2 DEF Routed
    <2>3. /\ InOrder(<<sending[t]>>, "output") /\ InOrder(<<held>>, "output")
          /\ InOrder(Routed(t), "output") /\ InOrder(backlog[t], "output") /\ InOrder(up, "output")
      BY <2>0, UnitsFew DEF Routed, LineOf, WireInv
    <2>4. /\ Below(Got(t), AtHandler(t)) /\ Below(Got(t) \cup AtHandler(t), InChannel(t))
          /\ Below(Got(t) \cup AtHandler(t) \cup InChannel(t), AtLoop(t))
          /\ Below(Mine(t), OnWire) /\ Below(Mine(t) \cup OnWire, AtShell)
      BY <2>0 DEF LineOf, JoinedTo, WireInv, Below, Mine, Coming
    <2> DEFINE p2 == got \o <<sending[t]>>
               p3 == p2 \o backlog[t]
               p4 == p3 \o Routed(t)
               p5 == p4 \o up
               p6 == p5 \o <<held>>
    <2>5. /\ p2 \in Seq(AnyFrame) /\ InOrder(p2, "output")
          /\ Units(p2, "output") = Got(t) \cup AtHandler(t)
      <3>1. Below(Units(got, "output"), Units(<<sending[t]>>, "output"))
        BY <2>1, <2>4 DEF AtHandler
      <3>2. /\ p2 \in Seq(AnyFrame) /\ InOrder(p2, "output")
            /\ Units(p2, "output") = Units(got, "output") \cup Units(<<sending[t]>>, "output")
        <4> DEFINE u == <<sending[t]>>
        <4>1. /\ u \in Seq(AnyFrame) /\ InOrder(u, "output")
              /\ Below(Units(got, "output"), Units(u, "output"))
          BY <2>2, <2>3, <3>1
        <4>2. p2 = got \o u
          OBVIOUS
        <4> HIDE DEF u, p2
        <4>3. /\ p2 \in Seq(AnyFrame) /\ InOrder(p2, "output")
              /\ Units(p2, "output") = Units(got, "output") \cup Units(u, "output")
          BY <2>1, <4>1, <4>2, Joined
        <4> QED
          BY <4>3 DEF u
      <3> QED
        BY <2>1, <3>2 DEF AtHandler
    <2> HIDE DEF p2
    <2>6. /\ p3 \in Seq(AnyFrame) /\ InOrder(p3, "output")
          /\ Units(p3, "output") = Got(t) \cup AtHandler(t) \cup InChannel(t)
      <3>1. Below(Units(p2, "output"), Units(backlog[t], "output"))
        BY <2>4, <2>5 DEF InChannel
      <3>2. /\ p3 \in Seq(AnyFrame) /\ InOrder(p3, "output")
            /\ Units(p3, "output") = Units(p2, "output") \cup Units(backlog[t], "output")
        BY <2>2, <2>3, <2>5, <3>1, Joined
      <3> QED
        BY <2>5, <3>2 DEF InChannel
    <2> HIDE DEF p3
    <2>7. /\ p4 \in Seq(AnyFrame) /\ InOrder(p4, "output") /\ Units(p4, "output") = Mine(t)
      <3>1. Below(Units(p3, "output"), Units(Routed(t), "output"))
        BY <2>4, <2>6 DEF AtLoop
      <3>2. /\ p4 \in Seq(AnyFrame) /\ InOrder(p4, "output")
            /\ Units(p4, "output") = Units(p3, "output") \cup Units(Routed(t), "output")
        BY <2>2, <2>3, <2>6, <3>1, Joined
      <3> QED
        BY <2>6, <3>2 DEF AtLoop, Mine
    <2> HIDE DEF p4
    <2>8. /\ p5 \in Seq(AnyFrame) /\ InOrder(p5, "output")
          /\ Units(p5, "output") = Mine(t) \cup OnWire
      BY <2>2, <2>3, <2>4, <2>7, Joined DEF OnWire
    <2> HIDE DEF p5
    <2>9. InOrder(p6, "output") /\ Units(p6, "output") = Mine(t) \cup Coming
      <3>1. InOrder(p6, "output") /\ Units(p6, "output") = (Mine(t) \cup OnWire) \cup AtShell
        <4>1. Below(Units(p5, "output"), Units(<<held>>, "output"))
          BY <2>4, <2>8 DEF AtShell
        <4>2. /\ InOrder(p6, "output")
              /\ Units(p6, "output") = Units(p5, "output") \cup Units(<<held>>, "output")
          <5> DEFINE u == <<held>>
          <5>1. /\ u \in Seq(AnyFrame) /\ InOrder(u, "output")
                /\ Below(Units(p5, "output"), Units(u, "output"))
            BY <2>2, <2>3, <4>1
          <5>2. p6 = p5 \o u
            OBVIOUS
          <5> HIDE DEF u, p6
          <5>3. /\ InOrder(p6, "output")
                /\ Units(p6, "output") = Units(p5, "output") \cup Units(u, "output")
            BY <2>8, <5>1, <5>2, Joined
          <5> QED
            BY <5>3 DEF u
        <4> QED
          BY <2>8, <4>2 DEF AtShell
      <3> QED
        BY <3>1 DEF Coming
    <2>10. OutputOf(t) = p6
      BY DEF OutputOf, p2, p3, p4, p5, got
    <2> HIDE DEF p6
    <2>11. /\ Mine(t) \cup Coming \subseteq 1..produced /\ Convex(Mine(t) \cup Coming)
           /\ Mine(t) \cup Coming # {} => produced \in Mine(t) \cup Coming
      BY <2>0 DEF LineOf, WireInv, JoinedTo, UpToDate
    <2> DEFINE A == Mine(t) \cup Coming
    <2> HIDE DEF A
    <2>12. PICK first \in 1..(produced + 1) : A = first..produced
      <3>a. A \subseteq 1..produced /\ Convex(A) /\ (A # {} => produced \in A)
        BY <2>11 DEF A
      <3>1. CASE A = {}
        <4>1. (produced + 1)..produced = {} /\ produced + 1 \in 1..(produced + 1)
          BY <1>t
        <4> QED
          BY <3>1, <4>1
      <3>2. CASE A # {}
        <4>1. PICK a \in A : \A b \in A : a <= b
          <5>1. A \in SUBSET Nat
            BY <3>a
          <5> QED
            BY <3>2, <5>1, LeastUnit
        <4>2. ASSUME NEW m \in a..produced PROVE m \in A
          <5>1. a \in 1..produced /\ produced \in A
            BY <3>2, <3>a
          <5>2. m = a \/ m = produced \/ (a < m /\ m < produced)
            BY <1>t, <5>1
          <5>3. m \in Nat
            BY <1>t, <5>1
          <5> QED
            BY <3>a, <5>1, <5>2, <5>3 DEF Convex
        <4>3. ASSUME NEW m \in A PROVE m \in a..produced
          BY <1>t, <3>a, <4>1
        <4>4. a \in 1..(produced + 1) /\ A = a..produced
          <5>1. a \in 1..produced
            BY <3>a
          <5>2. A = a..produced
            BY <4>2, <4>3
          <5> QED
            BY <1>t, <5>1, <5>2
        <4> QED
          BY <4>4
      <3> QED
        BY <3>1, <3>2
    <2> QED
      BY <2>9, <2>10, <2>12 DEF Carries, A
  <1> QED
    BY <1>2, <1>3

\* What the shell read is without a gap, and with what is under way it is
\* everything typed so far.
LEMMA InputMeant == ASSUME BaseInv, InputInv PROVE InputInOrder
  <1>t. /\ consumed \in Seq(1..MaxIn) /\ pty \in Seq(1..MaxIn) /\ typed \in Nat /\ MaxIn \in Nat
        /\ down \in Seq(Inputs \cup {Bare("ping"), Bare("resize")})
        /\ sending \in [Attachment -> Outputs \cup Inputs
                                        \cup {NoFrame, Bare("ping"), Bare("resize")}]
        /\ held \in Event \cup Inputs \cup {NoFrame, Bare("pong")}
    BY Numbers DEF BaseInv, ShapeInv, TypeOK
  <1>1. /\ Len(consumed) \in Nat /\ DOMAIN consumed = 1..Len(consumed)
        /\ Len(pty) \in Nat /\ DOMAIN pty = 1..Len(pty)
    BY <1>t
  <1>2. /\ \A i \in DOMAIN consumed : consumed[i] = i
        /\ \A i \in DOMAIN pty : pty[i] = Len(consumed) + i
    BY DEF InputInv
  <1>3. Contiguous(consumed)
    <2> SUFFICES ASSUME NEW i \in 1..(Len(consumed) - 1) PROVE consumed[i + 1] = consumed[i] + 1
      BY DEF Contiguous
    <2>1. i \in DOMAIN consumed /\ i + 1 \in DOMAIN consumed
      BY <1>1
    <2>2. consumed[i] = i /\ consumed[i + 1] = i + 1
      BY <1>2, <2>1
    <2> QED
      BY <2>2
  <1>4. ASSUME NEW t \in Attachment, terminal = t, link,
               worker \notin {"sendClosed", "done", "gone"}
        PROVE  Carries(InputOf(t), "stdin", 1, typed)
    <2>f. Flowing
      BY <1>4 DEF Flowing
    <2>1. AtClients = Units(<<sending[t]>>, "stdin")
      <3>1. session = "active"
        BY <1>4, TerminalAssumption DEF BaseInv, OwnerInv
      <3>2. ASSUME NEW u \in Attachment, u # t PROVE Units(<<sending[u]>>, "stdin") = {}
        <4>1. ~Attached(u)
          BY <1>4, <3>1, <3>2 DEF BaseInv, OwnerInv, ReservationOwned
        <4> QED
          BY <4>1, OneClient DEF Attached
      <3> QED
        BY <3>2 DEF AtClients
    <2> DEFINE read == Frames(consumed, "stdin")
               ready == Frames(pty, "stdin")
               here == <<held>>
               own == <<sending[t]>>
    <2>2. \A n \in 1..MaxIn : [kind |-> "stdin", n |-> n] \in AnyFrame
      BY DEF AnyFrame, Inputs, Stdin
    <2>3. /\ read \in Seq(AnyFrame) /\ InOrder(read, "stdin")
          /\ Units(read, "stdin") = 1..Len(consumed)
      <3>1. \A i, j \in DOMAIN consumed : i < j => consumed[i] < consumed[j]
        BY <1>2
      <3>2. {consumed[i] : i \in DOMAIN consumed} = 1..Len(consumed)
        BY <1>1, <1>2
      <3>3. /\ read \in Seq(AnyFrame) /\ InOrder(read, "stdin")
            /\ Units(read, "stdin") = {consumed[i] : i \in DOMAIN consumed}
        <4> HIDE DEF read
        <4> QED
          BY <1>t, <2>2, <3>1, FramesOfUnits DEF read
      <3> QED
        BY <3>2, <3>3
    <2>4. /\ ready \in Seq(AnyFrame) /\ InOrder(ready, "stdin")
          /\ Units(ready, "stdin") = (Len(consumed) + 1)..Taken
      <3>1. \A i, j \in DOMAIN pty : i < j => pty[i] < pty[j]
        BY <1>1, <1>2
      <3>2. {pty[i] : i \in DOMAIN pty} = (Len(consumed) + 1)..Taken
        <4>1. \A x \in (Len(consumed) + 1)..Taken :
                 x - Len(consumed) \in DOMAIN pty /\ pty[x - Len(consumed)] = x
          BY <1>1, <1>2 DEF Taken
        <4>2. \A i \in DOMAIN pty : pty[i] \in (Len(consumed) + 1)..Taken
          BY <1>1, <1>2 DEF Taken
        <4> QED
          BY <4>1, <4>2
      <3>3. /\ ready \in Seq(AnyFrame) /\ InOrder(ready, "stdin")
            /\ Units(ready, "stdin") = {pty[i] : i \in DOMAIN pty}
        <4> HIDE DEF ready
        <4> QED
          BY <1>t, <2>2, <3>1, FramesOfUnits DEF ready
      <3> QED
        BY <3>2, <3>3
    <2>5. /\ here \in Seq(AnyFrame) /\ own \in Seq(AnyFrame) /\ down \in Seq(AnyFrame)
          /\ InOrder(here, "stdin") /\ InOrder(own, "stdin") /\ InOrder(down, "stdin")
          /\ Units(here, "stdin") = AtPty /\ Units(own, "stdin") = AtClients
      <3>1. held \in AnyFrame /\ sending[t] \in AnyFrame
        BY <1>t DEF AnyFrame, Event
      <3>2. down \in Seq(AnyFrame)
        <4>1. Inputs \cup {Bare("ping"), Bare("resize")} \subseteq AnyFrame
          BY DEF AnyFrame
        <4> QED
          BY <1>t, <4>1, SeqMonotonic
      <3> QED
        BY <2>1, <2>f, <3>1, <3>2, UnitsFew DEF InputInv, AtPty
    <2>6. /\ Below(AtPty, OnWay \cup AtClients) /\ Below(OnWay, AtClients) /\ Taken <= typed
          /\ AtPty \cup OnWay \cup AtClients = (Taken + 1)..typed
      BY <2>f DEF InputInv
    <2>7. InputOf(t) = (((read \o ready) \o here) \o down) \o own
      BY DEF InputOf
    <2> HIDE DEF read, ready, here, own
    <2> DEFINE p2 == read \o ready
               p3 == p2 \o here
               p4 == p3 \o down
               p5 == p4 \o own
    <2>8. /\ Taken \in Nat /\ Len(consumed) <= Taken
          /\ (1..Len(consumed)) \cup ((Len(consumed) + 1)..Taken) = 1..Taken
      <3>1. Taken \in Nat /\ Len(consumed) <= Taken
        BY <1>1 DEF Taken
      <3>2. \A a, b \in Nat : a <= b => (1..a) \cup ((a + 1)..b) = 1..b
        OBVIOUS
      <3> QED
        BY <1>1, <3>1, <3>2
    <2>9. p2 \in Seq(AnyFrame) /\ InOrder(p2, "stdin") /\ Units(p2, "stdin") = 1..Taken
      <3>1. Below(Units(read, "stdin"), Units(ready, "stdin"))
        BY <1>1, <2>3, <2>4, <2>8 DEF Below
      <3>2. /\ p2 \in Seq(AnyFrame) /\ InOrder(p2, "stdin")
            /\ Units(p2, "stdin") = Units(read, "stdin") \cup Units(ready, "stdin")
        BY <2>3, <2>4, <3>1, Joined
      <3> QED
        BY <2>3, <2>4, <2>8, <3>2
    <2> HIDE DEF p2
    <2>10. /\ p3 \in Seq(AnyFrame) /\ InOrder(p3, "stdin")
           /\ Units(p3, "stdin") = (1..Taken) \cup AtPty
      <3>1. Below(Units(p2, "stdin"), Units(here, "stdin"))
        BY <2>5, <2>6, <2>8, <2>9 DEF Below
      <3>2. /\ p3 \in Seq(AnyFrame) /\ InOrder(p3, "stdin")
            /\ Units(p3, "stdin") = Units(p2, "stdin") \cup Units(here, "stdin")
        BY <2>5, <2>9, <3>1, Joined
      <3> QED
        BY <2>5, <2>9, <3>2
    <2> HIDE DEF p3
    <2>11. /\ p4 \in Seq(AnyFrame) /\ InOrder(p4, "stdin")
           /\ Units(p4, "stdin") = (1..Taken) \cup AtPty \cup OnWay
      <3>1. Below(Units(p3, "stdin"), Units(down, "stdin"))
        BY <2>6, <2>8, <2>10 DEF Below, OnWay
      <3>2. /\ p4 \in Seq(AnyFrame) /\ InOrder(p4, "stdin")
            /\ Units(p4, "stdin") = Units(p3, "stdin") \cup Units(down, "stdin")
        BY <2>5, <2>10, <3>1, Joined
      <3> QED
        BY <2>10, <3>2 DEF OnWay
    <2> HIDE DEF p4
    <2>12. InOrder(p5, "stdin") /\ Units(p5, "stdin") = 1..typed
      <3>1. Below(Units(p4, "stdin"), Units(own, "stdin"))
        <4>1. Below(1..Taken, AtClients)
          BY <2>6, <2>8 DEF Below
        <4>2. Below((1..Taken) \cup AtPty \cup OnWay, AtClients)
          BY <2>6, <4>1 DEF Below
        <4> QED
          BY <2>5, <2>11, <4>2
      <3>2. InOrder(p5, "stdin") /\ Units(p5, "stdin") = Units(p4, "stdin") \cup Units(own, "stdin")
        BY <2>5, <2>11, <3>1, Joined
      <3>3. (1..Taken) \cup ((Taken + 1)..typed) = 1..typed
        <4>1. \A a, b \in Nat : a <= b => (1..a) \cup ((a + 1)..b) = 1..b
          OBVIOUS
        <4> QED
          BY <1>t, <2>6, <2>8, <4>1
      <3>4. Units(p5, "stdin") = (1..Taken) \cup (AtPty \cup OnWay \cup AtClients)
        BY <2>5, <2>11, <3>2
      <3> QED
        BY <2>6, <3>2, <3>3, <3>4
    <2>13. InputOf(t) = p5
      BY <2>7 DEF p2, p3, p4
    <2> QED
      BY <2>12, <2>13 DEF Carries
  <1> QED
    BY <1>3, <1>4 DEF InputInOrder

\* The invariant: the reservation has its handler, output and input are in their
\* lines.  It holds whatever the clients, the shell and the network do.
THEOREM TerminalInvariant == Spec => []TInv
  <1>1. Init => TInv
    BY BaseInit, OutputInit, InputInit DEF TInv, BaseInv
  <1>2. TInv /\ [Next]_vars => TInv'
    <2> SUFFICES ASSUME TInv, [Next]_vars PROVE TInv'
      OBVIOUS
    <2>1. BaseInv /\ OutputInv /\ InputInv
      BY DEF TInv, BaseInv
    <2>2. BaseInv' /\ OutputInv' /\ InputInv'
      BY <2>1, BaseNext, OutputNext, InputNext
    <2> QED
      BY <2>2 DEF TInv, BaseInv
  <1> QED
    BY <1>1, <1>2, PTL DEF Spec

\* Types, and every queue stays within its capacity.
THEOREM TerminalTyped == Spec => []TypeOK
  <1>1. TInv => TypeOK
    BY DEF TInv, ShapeInv
  <1> QED
    BY <1>1, TerminalInvariant, PTL

\* While the session is active its terminal is reserved for the one client whose
\* handler runs, and no reservation outlives its attachment (attach_terminal,
\* detach_terminal_if and the Drop of an attachment).
THEOREM TerminalReserved == Spec => []ReservationOwned
  <1>1. TInv => ReservationOwned
    BY DEF TInv, OwnerInv
  <1> QED
    BY <1>1, TerminalInvariant, PTL

\* What a client gets of the output is without a gap, and while it is served
\* nothing of it is lost, doubled or out of order on any of the hops
\* (route_output, serve_terminal, run_session).
THEOREM TerminalOutput == Spec => []OutputInOrder
  <1>1. TInv => OutputInOrder
    BY OutputMeant DEF TInv, BaseInv
  <1> QED
    BY <1>1, TerminalInvariant, PTL

\* The shell reads what the clients typed, each unit once and in order
\* (serve_terminal, run_session, write_input).
THEOREM TerminalInput == Spec => []InputInOrder
  <1>1. TInv => InputInOrder
    BY InputMeant DEF TInv, BaseInv
  <1> QED
    BY <1>1, TerminalInvariant, PTL
=============================================================================
