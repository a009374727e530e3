--------------------------- MODULE SessionService ---------------------------
(***************************************************************************)
(* What the session API promises its clients (README.md and the handlers   *)
(* of shiitake-server/src/http/sessions.rs), with no worker, connection,   *)
(* lock, frame or timeout in it: a session opens, runs commands while it   *)
(* is active, is released and ends once; a command that was accepted gets  *)
(* one outcome, for good; and whoever is attached to the shell has it to   *)
(* itself.  Pool is shown to implement it.                                 *)
(***************************************************************************)
CONSTANTS
    Session,    \* session ids
    Command,    \* command handle ids
    Terminal,   \* terminal attachments
    Outcomes,   \* how a command may end
    None        \* no session

VARIABLES
    phase,      \* [Session -> the state the API reports]
    outcome,    \* [Command -> "Absent", "Running", one of Outcomes or "Purged"]
    request,    \* [Command -> the session and the mode it was accepted with, or None]
    shell       \* [Terminal -> the session it is attached to, or None]

vars == <<phase, outcome, request, shell>>

Live == {"Opening", "Active", "Closing"}
Ended == {"Closed", "Failed"}
Request == [session : Session, mode : {"Stateful", "Parallel"}]

Init ==
    /\ phase = [s \in Session |-> "Absent"]
    /\ outcome = [r \in Command |-> "Absent"]
    /\ request = [r \in Command |-> None]
    /\ shell = [t \in Terminal |-> None]

\* The session s goes from one of the phases to another one.
Moves(s, from, to) ==
    /\ phase[s] \in from
    /\ phase' = [phase EXCEPT ![s] = to]
    /\ UNCHANGED <<outcome, request, shell>>

Open(s) == Moves(s, {"Absent"}, "Opening")
Start(s) == Moves(s, {"Opening"}, "Active")
Release(s) == Moves(s, {"Opening", "Active"}, "Closing")
\* A session ends once; only what it is said to have ended as may change later, when
\* the worker's own report comes after the server gave it up.
End(s, how) == Moves(s, Live \cup Ended, how)
Forget(s) == Moves(s, Ended, "Swept")

\* The session of q accepts the command r; a stateful one only while nobody is
\* attached to the session's shell.
Accept(r, q) ==
    /\ outcome[r] = "Absent"
    /\ phase[q.session] = "Active"
    /\ q.mode = "Stateful" => \A t \in Terminal : shell[t] # q.session
    /\ outcome' = [outcome EXCEPT ![r] = "Running"]
    /\ request' = [request EXCEPT ![r] = q]
    /\ UNCHANGED <<phase, shell>>

Finish(r, how) ==
    /\ outcome[r] = "Running"
    /\ outcome' = [outcome EXCEPT ![r] = how]
    /\ UNCHANGED <<phase, request, shell>>

Purge(r) ==
    /\ outcome[r] \in Outcomes
    /\ outcome' = [outcome EXCEPT ![r] = "Purged"]
    /\ UNCHANGED <<phase, request, shell>>

\* Nobody else is attached.
Attach(t, s) ==
    /\ shell[t] = None
    /\ phase[s] = "Active"
    /\ \A u \in Terminal : shell[u] # s
    /\ shell' = [shell EXCEPT ![t] = s]
    /\ UNCHANGED <<phase, outcome, request>>

Detach(t) ==
    /\ shell[t] # None
    /\ shell' = [shell EXCEPT ![t] = None]
    /\ UNCHANGED <<phase, outcome, request>>

Next ==
    \/ \E s \in Session : \/ Open(s) \/ Start(s) \/ Release(s) \/ Forget(s)
                          \/ \E how \in Ended : End(s, how)
    \/ \E r \in Command : \/ Purge(r)
                          \/ \E how \in Outcomes : Finish(r, how)
                          \/ \E q \in Request : Accept(r, q)
    \/ \E t \in Terminal : Detach(t) \/ \E s \in Session : Attach(t, s)

Spec == Init /\ [][Next]_vars
=============================================================================
