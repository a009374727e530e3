---------------------------- MODULE WorkerProofs ----------------------------
(***************************************************************************)
(* Theorems about WorkerLifecycle composed with Sandbox, for every quota,  *)
(* every lease setting, every set of processes, objects, paths and         *)
(* accounts, and every bound.                                              *)
(***************************************************************************)
EXTENDS WorkerLifecycle, TLAPS

-----------------------------------------------------------------------------
(* Type correctness, the bound on served, and the work on its way.         *)

\* Work is only taken below the bound.
BoundInv == pc = "running" => served < MaxServed

\* But for an early release, the server dispatches to a worker that has reported, once
\* per report.
OfferInv ==
    ~early =>
        /\ offered => pc \in {"greeting", "idle", "closing"}
        /\ inbox # "none" => pc \in {"greeting", "idle", "closing"} /\ ~offered

TypeInv == TypeOK /\ BoundInv /\ OfferInv

\* The process starts well-typed.
LEMMA TypeInit == ASSUME Init PROVE TypeInv
  <1>1. SandboxTypeOK
    BY SandboxAssumption DEF Init, SandboxInit, SandboxTypeOK, Step
  <1>2. served \in 0..MaxServed /\ BoundInv
    BY WorkerAssumption DEF Init, BoundInv
  <1>4. OfferInv
    BY DEF Init, OfferInv
  <1>3. lease \in BOOLEAN
    BY WorkerAssumption DEF Init
  <1> QED
    BY <1>1, <1>2, <1>3, <1>4 DEF Init, TypeInv, TypeOK, Pc, Work, Link

\* A fresh container is well-typed.
LEMMA FreshTyped == ASSUME SandboxTypeOK, FreshContainer PROVE SandboxTypeOK'
  BY DEF SandboxTypeOK, FreshContainer, Step

\* A step of the work's processes or of the reset leaves the sandbox well-typed.
LEMMA ProcTyped ==
    ASSUME SandboxTypeOK, NEW busy \in BOOLEAN, ProcStep(busy)
    PROVE  SandboxTypeOK'
  <1> USE DEF SandboxTypeOK, accounts, sweep, procs
  <1>1. ASSUME NEW p \in Proc, Fork(p, busy) PROVE SandboxTypeOK'
    BY <1>1 DEF Fork
  <1>2. ASSUME NEW p \in Proc, ProcEnds(p) PROVE SandboxTypeOK'
    BY <1>2 DEF ProcEnds
  <1>3. ASSUME NEW p \in Proc, ParentWaits(p, busy) PROVE SandboxTypeOK'
    BY <1>3 DEF ParentWaits
  <1>4. ASSUME NEW i \in Ipc, CreateIpc(i, busy) PROVE SandboxTypeOK'
    BY <1>4 DEF CreateIpc
  <1>5. ASSUME NEW d \in Path, WriteScratch(d, busy) PROVE SandboxTypeOK'
    BY <1>5 DEF WriteScratch
  <1> QED
    BY <1>1, <1>2, <1>3, <1>4, <1>5 DEF ProcStep

\* The reset's steps.
LEMMA ResetTyped ==
    ASSUME SandboxTypeOK, ResetStep \/ DeadlinePasses
    PROVE  SandboxTypeOK'
  <1> USE DEF SandboxTypeOK, accounts, sweep, procs, box, Step
  <1>1. CASE SweepList
    BY <1>1 DEF SweepList, ReapZombies
  <1>2. CASE SweepListFails
    BY <1>2 DEF SweepListFails, ReapZombies
  <1>3. CASE SweepKill
    BY <1>3 DEF SweepKill, SignalRemaining
  <1>4. CASE SweepGivesUp \/ Cleared \/ DeadlinePasses
    BY <1>4 DEF SweepGivesUp, Cleared, DeadlinePasses
  <1>6. CASE RemoveIpc
    BY <1>6 DEF RemoveIpc, TablesRead, TableUnreadable, IoError
  <1>5. ASSUME NEW d \in Path, ClearPath(d) PROVE SandboxTypeOK'
    BY <1>5 DEF ClearPath
  <1> QED
    BY <1>1, <1>2, <1>3, <1>4, <1>5, <1>6 DEF ResetStep

\* Naming an account, and forgetting it.
LEMMA AccountTyped ==
    ASSUME SandboxTypeOK,
           \/ \E a \in Account, create_home \in BOOLEAN : Ensure(a, create_home)
           \/ \E kept \in SUBSET homes : CleanAccounts(kept)
    PROVE  SandboxTypeOK'
  <1> USE DEF SandboxTypeOK, sweep, procs, Step, IoError
  <1>1. ASSUME NEW a \in Account, NEW create_home \in BOOLEAN, Ensure(a, create_home)
        PROVE  SandboxTypeOK'
    <2>1. CASE Named(a) \/ AppendFails(a)
      BY <1>1, <2>1 DEF Ensure, Named, AppendFails
    <2>2. CASE Append(a, create_home)
      <3>1. ledger' \subseteq [account : Account, home : BOOLEAN]
        <4>1. [account |-> a, home |-> TRUE] \in [account : Account, home : BOOLEAN]
              /\ [account |-> a, home |-> FALSE] \in [account : Account, home : BOOLEAN]
          OBVIOUS
        <4>2. \/ ledger' = ledger \cup {[account |-> a, home |-> TRUE]}
              \/ ledger' = ledger \cup {[account |-> a, home |-> FALSE]}
          BY <2>2 DEF Append
        <4> QED
          BY <4>1, <4>2
      <3>2. passwd' \subseteq Account \cup Baked /\ homes' \subseteq Account
        BY <2>2 DEF Append
      <3>3. io_errors' \subseteq IoError
        BY <2>2 DEF Append
      <3> QED
        BY <1>1, <3>1, <3>2, <3>3 DEF Ensure
    <2> QED
      BY <1>1, <2>1, <2>2 DEF Ensure
  <1>2. ASSUME NEW kept \in SUBSET homes, CleanAccounts(kept) PROVE SandboxTypeOK'
    BY <1>2 DEF CleanAccounts, Prune
  <1> QED
    BY <1>1, <1>2

\* Every step keeps the types and the bound.
LEMMA TypeNext ==
    ASSUME TypeOK, BoundInv, [Next]_vars
    PROVE  TypeOK' /\ BoundInv'
  <1> USE DEF config, round, net, TypeOK, BoundInv, Pc, Work, Link, Dead
  <1> DEFINE NetTyped == link \in Link /\ inbox \in {"none", "work"} /\ offered \in BOOLEAN
                         /\ early \in BOOLEAN
  <1>0. UNCHANGED sandboxVars => SandboxTypeOK'
    BY DEF SandboxTypeOK, sandboxVars, box, procs, accounts, sweep
  <1>1. CASE Offer \/ SilenceEnds \/ ReleaseEarly
    <2>1. SandboxTypeOK'
      BY <1>0, <1>1 DEF Offer, SilenceEnds, ReleaseEarly
    <2>2. NetTyped'
      BY <1>1 DEF Offer, SilenceEnds, ReleaseEarly
    <2>3. TypeOK'
      BY <1>1, <2>1, <2>2 DEF Offer, SilenceEnds, ReleaseEarly
    <2>4. BoundInv'
      BY <1>1 DEF Offer, SilenceEnds, ReleaseEarly
    <2> QED
      BY <2>3, <2>4
  <1>12. ASSUME Dispatch PROVE TypeOK' /\ BoundInv'
    <2>1. SandboxTypeOK'
      BY <1>0, <1>12 DEF Dispatch
    <2>2. NetTyped'
      BY <1>12 DEF Dispatch
    <2>3. TypeOK'
      BY <1>12, <2>1, <2>2 DEF Dispatch
    <2>4. BoundInv'
      BY <1>12 DEF Dispatch
    <2> QED
      BY <2>3, <2>4
  <1>13. ASSUME NEW l \in Dead, LinkFails(l) PROVE TypeOK' /\ BoundInv'
    <2>1. SandboxTypeOK'
      BY <1>0, <1>13 DEF LinkFails
    <2>2. NetTyped'
      BY <1>13 DEF LinkFails
    <2>3. TypeOK'
      BY <1>13, <2>1, <2>2 DEF LinkFails
    <2>4. BoundInv'
      BY <1>13 DEF LinkFails
    <2> QED
      BY <2>3, <2>4
  <1>2. CASE HelloAcked \/ TakeWork \/ Sleep
    BY <1>0, <1>2 DEF HelloAcked, TakeWork, Sleep
  <1>15. CASE IgnoreWork \/ LoopHeld \/ LoopGoesOn
    <2>1. SandboxTypeOK'
      BY <1>0, <1>15 DEF IgnoreWork, LoopHeld, LoopGoesOn
    <2>2. NetTyped'
      BY <1>15 DEF IgnoreWork, LoopHeld, LoopGoesOn
    <2>3. TypeOK'
      BY <1>15, <2>1, <2>2 DEF IgnoreWork, LoopHeld, LoopGoesOn
    <2>4. BoundInv'
      BY <1>15 DEF IgnoreWork, LoopHeld, LoopGoesOn
    <2> QED
      BY <2>3, <2>4
  <1>14. CASE Connect \/ GreetingFails \/ IdleEnds
    BY <1>0, <1>14 DEF Connect, GreetingFails, IdleEnds, Reconnect, HangUp
  <1>3. CASE WorkDone
    <2>1. SandboxTypeOK'
      BY <1>3 DEF WorkDone, ResetStarts, SandboxTypeOK, box, procs, accounts, sweep, Step
    <2>2. served' = served + 1 /\ served' \in 0..MaxServed /\ exiting' \in BOOLEAN
      BY <1>3, WorkerAssumption DEF WorkDone, CountServed, QuotaReached
    <2>4. pc' \in {"reporting", "resetting"}
      BY <1>3 DEF WorkDone
    <2> QED
      BY <1>3, <2>1, <2>2, <2>4 DEF WorkDone
  <1>4. CASE WorkLost \/ CloseAndExit
    BY <1>4, FreshTyped DEF WorkLost, CommandLost, PtyLost, SessionLost, LostMidCommand,
                            CloseAndExit, Exit, HangUp
  <1>5. CASE NameAccount
    BY <1>5, AccountTyped DEF NameAccount
  <1>6. CASE ProcessStep
    <2>1. SandboxTypeOK'
      BY <1>6, ProcTyped DEF ProcessStep
    <2> QED
      BY <1>6, <2>1 DEF ProcessStep
  <1>7. CASE Resetting \/ ResetLate
    BY <1>7, ResetTyped DEF Resetting, ResetLate
  <1>8. CASE ResetEnds
    <2>1. SandboxTypeOK'
      BY <1>8, AccountTyped DEF ResetEnds
    <2>2. first_err \in BOOLEAN
      BY DEF SandboxTypeOK
    <2> QED
      BY <1>8, <2>1, <2>2 DEF ResetEnds
  <1>9. CASE Report \/ ReportFails
    BY <1>0, <1>9, ZenonT(40) DEF Report, ReportFails, Reconnect, HangUp
  <1>10. CASE Restart
    <2>1. served' \in 0..MaxServed
      BY <1>10, WorkerAssumption DEF Restart
    <2> QED
      BY <1>0, <1>10, <2>1 DEF Restart
  <1>11. CASE UNCHANGED vars
    BY <1>0, <1>11 DEF vars
  <1> QED
    BY <1>1, <1>2, <1>3, <1>4, <1>5, <1>6, <1>7, <1>8, <1>9, <1>10, <1>11, <1>12, <1>13, <1>14,
       <1>15 DEF Next

\* Every step keeps work from being on its way to a worker that would ignore it.
LEMMA OfferNext ==
    ASSUME TypeOK, OfferInv, [Next]_vars
    PROVE  OfferInv'
  <1> USE DEF config, round, net, OfferInv, Pc
  <1>1. CASE Offer \/ SilenceEnds \/ ReleaseEarly
    BY <1>1 DEF Offer, SilenceEnds, ReleaseEarly
  <1>2. ASSUME Dispatch PROVE OfferInv'
    BY <1>2 DEF Dispatch
  <1>3. ASSUME NEW l \in Dead, LinkFails(l) PROVE OfferInv'
    BY <1>3 DEF LinkFails
  <1>4. CASE HelloAcked \/ TakeWork \/ IgnoreWork \/ Sleep
    BY <1>4 DEF HelloAcked, TakeWork, IgnoreWork, Sleep
  <1>5. CASE Connect \/ GreetingFails \/ IdleEnds
    BY <1>5 DEF Connect, GreetingFails, IdleEnds, Reconnect, HangUp
  <1>6. CASE WorkDone \/ LoopHeld \/ LoopGoesOn
    BY <1>6 DEF WorkDone, LoopHeld, LoopGoesOn
  <1>7. CASE WorkLost \/ CloseAndExit
    BY <1>7 DEF WorkLost, CommandLost, PtyLost, SessionLost, LostMidCommand,
                CloseAndExit, Exit, HangUp
  <1>8. CASE NameAccount \/ ProcessStep \/ Resetting \/ ResetLate
    BY <1>8 DEF NameAccount, ProcessStep, Resetting, ResetLate
  <1>9. CASE ResetEnds
    BY <1>9 DEF ResetEnds
  <1>10. CASE Report \/ ReportFails
    BY <1>10 DEF Report, ReportFails, Reconnect, HangUp
  <1>11. CASE Restart
    BY <1>11 DEF Restart
  <1>12. CASE UNCHANGED vars
    BY <1>12 DEF vars
  <1> QED
    BY <1>1, <1>2, <1>3, <1>4, <1>5, <1>6, <1>7, <1>8, <1>9, <1>10, <1>11, <1>12 DEF Next

\* Every step keeps all three.
LEMMA TypeInvNext ==
    ASSUME TypeInv, [Next]_vars
    PROVE  TypeInv'
  BY TypeNext, OfferNext DEF TypeInv

\* The state of the worker and of its container always has its shape.
THEOREM WorkerTypes ==
    Spec => []TypeOK
  <1>1. TypeInv => TypeOK
    BY DEF TypeInv
  <1> QED
    BY <1>1, TypeInit, TypeInvNext, PTL DEF Spec

\* Whatever the timing of the server, of the connection and of the reset, only an early
\* release by the pty handler gets dispatched work thrown away: on a connection without
\* one, no work is on its way while the work's loop or the reset's reads the socket.
THEOREM NoWorkSwallowed ==
    Spec => []NothingSwallowed
  <1>1. TypeInv => NothingSwallowed
    BY DEF TypeInv, OfferInv, NothingSwallowed
  <1> QED
    BY <1>1, TypeInit, TypeInvNext, PTL DEF Spec

-----------------------------------------------------------------------------
(* The container is clean whenever the worker waits for work.              *)

\* Where the reset stands: once the sweep is over no process is left, then no IPC
\* object that a table lists, then no file outside the paths still to clear, or an
\* error is kept.
ResetInv ==
    pc = "resetting" /\ pid1 =>
        /\ step \in Step \ {"none"}
        /\ step \in {"list", "kill", "ipc"} => todo = Path
        /\ step \in {"ipc", "clear", "accounts"} => first_err \/ Present = {}
        /\ step \in {"clear", "accounts"} =>
              first_err \/ ((ipc = {} \/ "sysvipc" \in io_errors) /\ scratch \subseteq todo)
        /\ step = "accounts" => todo = {}

\* Where the container may be dirty, and what the worker then knows about it.
DirtInv ==
    /\ pc = "exited" => Clean
    /\ ~report_failed /\ pid1 =>
          /\ pc \notin {"running", "resetting", "reporting", "closing"} => Clean
          /\ pc = "reporting" => Clean \/ exiting \/ reset_failed

BoxInv == ResetInv /\ DirtInv

\* A container with no process in it stays as it is while the worker runs no work.
LEMMA NothingStirs ==
    ASSUME ProcStep(FALSE), Present = {}
    PROVE  FALSE
  BY DEF ProcStep, Fork, ProcEnds, ParentWaits, CreateIpc, WriteScratch, Present

\* The process starts in a clean container.
LEMMA BoxInit == ASSUME Init PROVE BoxInv
  BY DEF Init, SandboxInit, BoxInv, ResetInv, DirtInv, Clean, Present

\* Every step of the reset brings the container nearer to clean, or keeps an error.
LEMMA ResetCleans ==
    ASSUME TypeInv, BoxInv, Resetting \/ ResetLate
    PROVE  BoxInv'
  <1> USE DEF BoxInv, ResetInv, DirtInv, Step, Resetting, ResetLate, Present,
              config, round, accounts, sweep, procs, box
  <1>1. CASE SweepList
    BY <1>1 DEF SweepList, ReapZombies
  <1>2. CASE SweepListFails
    BY <1>2 DEF SweepListFails
  <1>3. CASE SweepKill
    BY <1>3 DEF SweepKill, SignalRemaining
  <1>4. CASE SweepGivesUp \/ DeadlinePasses
    BY <1>4 DEF SweepGivesUp, DeadlinePasses
  <1>5. CASE RemoveIpc
    BY <1>5 DEF RemoveIpc, TablesRead, TableUnreadable, TypeInv, TypeOK, SandboxTypeOK
  <1>6. CASE Cleared
    BY <1>6 DEF Cleared
  <1>7. ASSUME NEW d \in Path, ClearPath(d) PROVE BoxInv'
    BY <1>7 DEF ClearPath
  <1> QED
    BY <1>1, <1>2, <1>3, <1>4, <1>5, <1>6, <1>7 DEF ResetStep

\* Every step keeps track of the dirt.
LEMMA BoxNext ==
    ASSUME TypeInv, BoxInv, [Next]_vars
    PROVE  BoxInv'
  <1> USE DEF config, round, net, BoxInv, ResetInv, DirtInv
  <1>0. UNCHANGED sandboxVars => /\ Clean' = Clean /\ Present' = Present
                                 /\ UNCHANGED <<pid1, ipc, scratch, io_errors, step, todo, first_err>>
    BY DEF sandboxVars, box, procs, accounts, sweep, Clean, Present
  <1>1. CASE Offer \/ Dispatch \/ (\E l \in Dead : LinkFails(l))
             \/ ReleaseEarly \/ SilenceEnds \/ IgnoreWork \/ LoopHeld \/ LoopGoesOn
    BY <1>0, <1>1 DEF Offer, Dispatch, LinkFails, ReleaseEarly, SilenceEnds, IgnoreWork,
                         LoopHeld, LoopGoesOn
  <1>2. CASE HelloAcked \/ TakeWork \/ Sleep
    BY <1>0, <1>2 DEF HelloAcked, TakeWork, Sleep
  <1>3. CASE Connect \/ GreetingFails \/ IdleEnds
    BY <1>0, <1>3 DEF Connect, GreetingFails, IdleEnds, Reconnect
  <1>4. CASE WorkDone
    <2>1. CASE QuotaReached(CountServed)
      BY <1>4, <2>1 DEF WorkDone
    <2>2. CASE ~QuotaReached(CountServed)
      BY <1>4, <2>2 DEF WorkDone, ResetStarts, Step
    <2> QED
      BY <2>1, <2>2
  <1>5. CASE WorkLost \/ CloseAndExit
    BY <1>5 DEF WorkLost, CommandLost, PtyLost, SessionLost, LostMidCommand, CloseAndExit,
                Exit, FreshContainer, Clean, Present
  <1>6. CASE NameAccount
    BY <1>6 DEF NameAccount, Ensure
  <1>7. CASE ProcessStep
    <2>1. CASE pc = "running"
      <3>1. pid1' = pid1
        BY <1>7 DEF ProcessStep, ProcStep, Fork, ProcEnds, ParentWaits, CreateIpc, WriteScratch
      <3> QED
        BY <1>7, <2>1, <3>1 DEF ProcessStep
    <2>2. CASE pc # "running"
      <3>1. ProcStep(FALSE) /\ Present # {}
        BY <1>7, <2>2, NothingStirs DEF ProcessStep
      <3>2. UNCHANGED <<pid1, sweep>>
        BY <3>1 DEF ProcStep, Fork, ProcEnds, ParentWaits, CreateIpc, WriteScratch
      <3> QED
        BY <1>7, <2>2, <3>1, <3>2 DEF ProcessStep, Clean, sweep
    <2> QED
      BY <2>1, <2>2
  <1>8. CASE Resetting \/ ResetLate
    BY <1>8, ResetCleans
  <1>9. CASE ResetEnds
    <2>1. UNCHANGED <<pid1, procs, ipc, scratch>> /\ step = "accounts"
      BY <1>9 DEF ResetEnds, CleanAccounts
    <2>2. io_errors \subseteq io_errors'
      BY <1>9 DEF ResetEnds, CleanAccounts, Prune
    <2>3. Clean => Clean'
      BY <2>1, <2>2 DEF Clean, Present, procs
    <2> QED
      BY <1>9, <2>1, <2>3 DEF ResetEnds, Clean
  <1>10. CASE Report \/ ReportFails
    BY <1>0, <1>10 DEF Report, ReportFails, Reconnect
  <1>11. CASE Restart
    BY <1>0, <1>11 DEF Restart
  <1>12. CASE UNCHANGED vars
    BY <1>0, <1>12 DEF vars
  <1> HIDE DEF BoxInv
  <1> QED
    BY <1>1, <1>2, <1>3, <1>4, <1>5, <1>6, <1>7, <1>8, <1>9, <1>10, <1>11, <1>12 DEF Next

\* A worker that waits for work has an empty container, on every connection, however
\* the forks of earlier work raced with the sweep and however its earlier
\* connections and resets ended, if none of its reports ended in a send error and but
\* for the IPC objects of a table that could not be read, which the reset misses.
THEOREM ReuseIsClean ==
    Spec => []CleanReuse
  <1>1. Init => TypeInv /\ BoxInv
    BY TypeInit, BoxInit
  <1>2. TypeInv /\ BoxInv /\ [Next]_vars => (TypeInv /\ BoxInv)'
    BY TypeInvNext, BoxNext
  <1>3. BoxInv => CleanReuse
    BY DEF BoxInv, DirtInv, CleanReuse
  <1> QED
    BY <1>1, <1>2, <1>3, PTL DEF Spec

-----------------------------------------------------------------------------
(* The accounts.                                                           *)

Ours == {c.account : c \in ledger}
Made == {c.account : c \in {e \in ledger : e.home}}

\* Where there was no error, /etc/passwd is the image's and what the ledger says.
LinesInv ==
    "passwd" \notin io_errors => passwd = Baked \cup Ours /\ Baked \cap Ours = {}

\* Where there was no error, the homes are those of the ledger.
HomesInv == "home" \notin io_errors => homes = Made

\* The ledger is empty but while work runs, until the reset, or for an exit.
LedgerInv ==
    /\ pc = "exited" => ledger = {} /\ passwd = Baked /\ homes = {}
    /\ ~report_failed =>
          /\ pc \notin {"running", "resetting", "reporting", "closing"} => ledger = {}
          /\ pc = "reporting" => ledger = {} \/ exiting \/ reset_failed

AccountsInv == LinesInv /\ HomesInv /\ LedgerInv

\* The process starts with the image's accounts.
LEMMA AccountsInit == ASSUME Init PROVE AccountsInv
  BY DEF Init, SandboxInit, AccountsInv, LinesInv, HomesInv, LedgerInv, Ours, Made

\* What ensure adds to the file and to the homes, the ledger remembers.
LEMMA EnsureRemembers ==
    ASSUME AccountsInv, NEW a \in Account, NEW create_home \in BOOLEAN,
           Ensure(a, create_home)
    PROVE  LinesInv' /\ HomesInv'
  <1> USE DEF AccountsInv, LinesInv, HomesInv, Ours, Made
  <1>1. CASE Named(a) \/ AppendFails(a)
    BY <1>1 DEF Named, AppendFails
  <1>2. CASE Append(a, create_home)
    <2> DEFINE with == [account |-> a, home |-> TRUE]
               without == [account |-> a, home |-> FALSE]
    <2>1. with.account = a /\ with.home = TRUE /\ without.account = a /\ without.home = FALSE
      OBVIOUS
    <2>2. CASE ledger' = ledger \cup {with} /\ homes' = homes \cup {a} /\ UNCHANGED io_errors
      <3>1. Ours' = Ours \cup {a} /\ Made' = Made \cup {a}
        BY <2>1, <2>2
      <3> QED
        BY <1>2, <2>2, <3>1 DEF Append
    <2>3. CASE /\ ledger' = ledger \cup {without}
               /\ \/ UNCHANGED <<homes, io_errors>>
                  \/ io_errors' = io_errors \cup {"home"}
      <3>1. Ours' = Ours \cup {a} /\ Made' = Made
        BY <2>1, <2>3
      <3> QED
        BY <1>2, <2>3, <3>1 DEF Append
    <2> QED
      BY <1>2, <2>2, <2>3 DEF Append
  <1> QED
    BY <1>1, <1>2 DEF Ensure

\* cleanup undoes all that the ledger remembers, or there was an error.
LEMMA CleanupUndoes ==
    ASSUME AccountsInv, NEW kept \in SUBSET homes, CleanAccounts(kept)
    PROVE  LinesInv' /\ HomesInv' /\ ledger' = {}
  <1>1. ledger' = {} /\ Ours' = {} /\ Made' = {}
    BY DEF CleanAccounts, Ours, Made
  <1>2. LinesInv'
    <2>1. CASE passwd' = passwd \ Ours /\ (io_errors' = io_errors \/ io_errors' = io_errors \cup {"home"})
      BY <1>1, <2>1 DEF AccountsInv, LinesInv
    <2>2. CASE "passwd" \in io_errors'
      BY <2>2 DEF LinesInv
    <2> QED
      BY <2>1, <2>2 DEF CleanAccounts, Prune, Ours
  <1>3. HomesInv'
    <2>1. CASE kept = {}
      <3>1. "home" \in io_errors => "home" \in io_errors'
        BY DEF CleanAccounts, Prune
      <3>2. homes' = homes \ Made
        BY <2>1 DEF CleanAccounts, Made
      <3> QED
        BY <1>1, <3>1, <3>2 DEF AccountsInv, HomesInv
    <2>2. CASE kept # {}
      BY <2>2 DEF CleanAccounts, Prune, HomesInv
    <2> QED
      BY <2>1, <2>2
  <1> QED
    BY <1>1, <1>2, <1>3

\* Every step keeps track of the accounts.
LEMMA AccountsNext ==
    ASSUME AccountsInv, [Next]_vars
    PROVE  AccountsInv'
  <1>0. UNCHANGED accounts => LinesInv' /\ HomesInv'
    BY DEF accounts, AccountsInv, LinesInv, HomesInv, Ours, Made
  <1>00. UNCHANGED sandboxVars => UNCHANGED accounts
    BY DEF sandboxVars, box
  <1> USE DEF config, round, net, LedgerInv
  <1>1. CASE Offer \/ Dispatch \/ (\E l \in Dead : LinkFails(l))
             \/ ReleaseEarly \/ SilenceEnds \/ IgnoreWork \/ LoopHeld \/ LoopGoesOn
    BY <1>0, <1>00, <1>1 DEF Offer, Dispatch, LinkFails, ReleaseEarly, SilenceEnds, IgnoreWork,
                         LoopHeld, LoopGoesOn, AccountsInv, accounts
  <1>2. CASE HelloAcked \/ TakeWork \/ Sleep \/ Restart
    BY <1>0, <1>00, <1>2 DEF HelloAcked, TakeWork, Sleep, Restart, AccountsInv, accounts
  <1>3. CASE Connect \/ GreetingFails \/ IdleEnds
    BY <1>0, <1>00, <1>3 DEF Connect, GreetingFails, IdleEnds, Reconnect, AccountsInv, accounts
  <1>4. CASE WorkDone
    <2>1. UNCHANGED accounts /\ (pc' = "resetting" \/ (pc' = "reporting" /\ exiting'))
      BY <1>4 DEF WorkDone, box
    <2> QED
      BY <1>0, <2>1 DEF AccountsInv
  <1>5. CASE WorkLost \/ CloseAndExit
    <2>1. FreshContainer /\ pc' = "exited"
      BY <1>5 DEF WorkLost, CommandLost, PtyLost, SessionLost, LostMidCommand, CloseAndExit,
                  Exit
    <2>2. Ours' = {} /\ Made' = {}
      BY <2>1 DEF FreshContainer, Ours, Made
    <2> QED
      BY <2>1, <2>2 DEF FreshContainer, AccountsInv, LinesInv, HomesInv
  <1>6. CASE NameAccount
    BY <1>6, EnsureRemembers DEF NameAccount, AccountsInv
  <1>7. CASE ProcessStep
    <2>1. UNCHANGED accounts
      BY <1>7 DEF ProcessStep, ProcStep, Fork, ProcEnds, ParentWaits, CreateIpc, WriteScratch
    <2> QED
      BY <1>0, <1>7, <2>1 DEF ProcessStep, AccountsInv, accounts
  <1>8. CASE Resetting \/ ResetLate
    <2>1. UNCHANGED <<passwd, homes, ledger>> /\ io_errors' \in {io_errors, io_errors \cup {"sysvipc"}}
      BY <1>8 DEF Resetting, ResetLate, ResetStep, SweepList, SweepListFails, SweepKill,
                  SignalRemaining, SweepGivesUp, RemoveIpc, TablesRead, TableUnreadable,
                  ClearPath, Cleared, DeadlinePasses, box, accounts
    <2>2. LinesInv' /\ HomesInv'
      BY <2>1 DEF AccountsInv, LinesInv, HomesInv, Ours, Made
    <2> QED
      BY <1>8, <2>1, <2>2 DEF Resetting, ResetLate, AccountsInv
  <1>9. CASE ResetEnds
    BY <1>9, CleanupUndoes DEF ResetEnds, AccountsInv
  <1>10. CASE Report \/ ReportFails
    BY <1>0, <1>00, <1>10 DEF Report, ReportFails, Reconnect, AccountsInv, accounts
  <1>11. CASE UNCHANGED vars
    BY <1>0, <1>00, <1>11 DEF vars, AccountsInv, accounts
  <1> QED
    BY <1>1, <1>2, <1>3, <1>4, <1>5, <1>6, <1>7, <1>8, <1>9, <1>10, <1>11 DEF Next

\* Every account the worker named is undone before it waits for work again, or one of
\* the file operations that make or undo accounts has failed in this container.
THEOREM AccountsAreUndone ==
    Spec => []AccountsUndone
  <1>1. AccountsInv => AccountsUndone
    BY DEF AccountsInv, LinesInv, HomesInv, LedgerInv, AccountsUndone, Ours, Made
  <1> QED
    BY <1>1, AccountsInit, AccountsNext, PTL DEF Spec

-----------------------------------------------------------------------------
(* The quota.                                                              *)

\* The quota is reached only by a process that is about to exit.
QuotaInv ==
    ~report_failed =>
        /\ exiting => pc \in {"reporting", "closing", "exited"}
        /\ restart_after # 0 =>
              \/ served < restart_after
              \/ served = restart_after /\ exiting

\* The process has served nothing when it starts.
LEMMA QuotaInit == ASSUME Init PROVE QuotaInv
  BY WorkerAssumption DEF Init, QuotaInv

\* Every step keeps track of the quota.
LEMMA QuotaNext ==
    ASSUME TypeInv, QuotaInv, [Next]_vars
    PROVE  QuotaInv'
  <1>0. served \in Nat /\ restart_after \in Nat
    BY WorkerAssumption DEF TypeInv, TypeOK
  <1> USE DEF config, round, net, QuotaInv
  <1>1. CASE Offer \/ Dispatch \/ (\E l \in Dead : LinkFails(l))
             \/ ReleaseEarly \/ SilenceEnds \/ IgnoreWork \/ LoopHeld \/ LoopGoesOn
    BY <1>1 DEF Offer, Dispatch, LinkFails, ReleaseEarly, SilenceEnds, IgnoreWork,
                         LoopHeld, LoopGoesOn
  <1>2. CASE HelloAcked \/ TakeWork \/ Sleep \/ Connect \/ GreetingFails \/ IdleEnds
    BY <1>2 DEF HelloAcked, TakeWork, Sleep, Connect, GreetingFails, IdleEnds, Reconnect
  <1>3. CASE WorkDone
    <2>1. served' = served + 1 /\ UNCHANGED <<restart_after, report_failed>>
      BY <1>3 DEF WorkDone, CountServed
    <2>2. ~report_failed /\ restart_after # 0 => served < restart_after
      BY <1>3 DEF WorkDone
    <2>3. CASE restart_after # 0 /\ served + 1 >= restart_after
      <3>1. exiting' /\ pc' = "reporting"
        BY <1>3, <2>3 DEF WorkDone, CountServed, QuotaReached
      <3> QED
        BY <1>0, <2>1, <2>2, <2>3, <3>1
    <2>4. CASE ~(restart_after # 0 /\ served + 1 >= restart_after)
      <3>1. ~exiting'
        BY <1>3, <2>4 DEF WorkDone, CountServed, QuotaReached
      <3> QED
        BY <1>0, <2>1, <2>4, <3>1
    <2> QED
      BY <2>3, <2>4
  <1>4. CASE WorkLost \/ CloseAndExit
    BY <1>4 DEF WorkLost, CommandLost, PtyLost, SessionLost, LostMidCommand, CloseAndExit, Exit
  <1>5. CASE NameAccount \/ ProcessStep \/ Resetting \/ ResetLate
    BY <1>5 DEF NameAccount, ProcessStep, Resetting, ResetLate
  <1>6. CASE ResetEnds \/ Report \/ ReportFails
    BY <1>6 DEF ResetEnds, Report, ReportFails
  <1>7. CASE Restart
    BY <1>0, <1>7 DEF Restart
  <1>8. CASE UNCHANGED vars
    BY <1>8 DEF vars
  <1> QED
    BY <1>1, <1>2, <1>3, <1>4, <1>5, <1>6, <1>7, <1>8 DEF Next

\* The process never serves more than its quota, whatever the number of
\* connections it takes, if none of its reports ended in a send error.
THEOREM QuotaIsRespected ==
    Spec => []QuotaRespected
  <1>1. Init => TypeInv /\ QuotaInv
    BY TypeInit, QuotaInit
  <1>2. TypeInv /\ QuotaInv /\ [Next]_vars => (TypeInv /\ QuotaInv)'
    BY TypeInvNext, QuotaNext
  <1>3. TypeInv /\ QuotaInv => QuotaRespected
    BY WorkerAssumption DEF TypeInv, TypeOK, QuotaInv, QuotaRespected
  <1> QED
    BY <1>1, <1>2, <1>3, PTL DEF Spec
=============================================================================
