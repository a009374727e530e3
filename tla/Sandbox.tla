------------------------------- MODULE Sandbox ------------------------------
(***************************************************************************)
(* What the work of a worker leaves behind in its container, and the reset *)
(* that removes it between two pieces of work (shiitake-worker/src/reset.rs*)
(* and account.rs): processes, SysV IPC objects, files under the scratch   *)
(* paths, and the accounts named for a drop_to.                            *)
(*                                                                         *)
(* The reset races with what it removes: processes fork and die between    *)
(* the listing of /proc and the kills.  WorkerLifecycle composes these     *)
(* steps with the worker's connection; this module has no Next of its own. *)
(***************************************************************************)
EXTENDS Naturals, FiniteSets

CONSTANTS
    Proc,       \* process ids the work may use (they are used again)
    Ipc,        \* SysV IPC objects the work may create
    Path,       \* the scratch paths (reset_paths)
    Account,    \* accounts (a name and its uid) a drop_to may ask for
    Baked,      \* the accounts of the image's own /etc/passwd
    Pid1s       \* subset of BOOLEAN: is the worker its container's pid 1

ASSUME SandboxAssumption == Pid1s \subseteq BOOLEAN

VARIABLES
    pid1,       \* getpid() = 1
    alive,      \* processes left running
    dying,      \* processes with a SIGKILL pending (in D state, for as long as it lasts)
    zombies,    \* processes that died and that nobody has waited for
    ipc,        \* the IPC objects that exist
    scratch,    \* the scratch paths that hold something
    passwd,     \* the accounts in /etc/passwd
    homes,      \* the homes under SHIITAKE_HOME_ROOT made by this worker
    ledger,     \* CREATED: the entries, each with or without a home
    io_errors,  \* history: what could not be read or written in this container
    step,       \* where reset is
    remaining,  \* kill_all_except_self: the pids of this pass
    late,       \* kill_all_except_self: REAP_DEADLINE has passed
    todo,       \* reset: the paths still to clear
    first_err   \* reset: some step failed

procs == <<alive, dying, zombies>>
accounts == <<passwd, homes, ledger, io_errors>>
sweep == <<step, remaining, late, todo, first_err>>
box == <<procs, ipc, scratch, accounts>>
sandboxVars == <<pid1, box, sweep>>

Present == alive \cup dying \cup zombies
Step == {"none", "list", "kill", "ipc", "clear", "accounts"}
IoError == {"passwd", "home", "sysvipc"}

SandboxInit ==
    /\ pid1 \in Pid1s
    /\ alive = {} /\ dying = {} /\ zombies = {}
    /\ ipc = {} /\ scratch = {}
    /\ passwd = Baked /\ homes = {} /\ ledger = {} /\ io_errors = {}
    /\ step = "none" /\ remaining = {} /\ late = FALSE /\ todo = {} /\ first_err = FALSE

\* The orchestrator replaces the container.
FreshContainer ==
    /\ alive' = {} /\ dying' = {} /\ zombies' = {}
    /\ ipc' = {} /\ scratch' = {}
    /\ passwd' = Baked /\ homes' = {} /\ ledger' = {} /\ io_errors' = {}
    /\ step' = "none" /\ remaining' = {} /\ late' = FALSE /\ todo' = {} /\ first_err' = FALSE
    /\ UNCHANGED pid1

-----------------------------------------------------------------------------
(* The work and its processes.  A command's own process, which its work    *)
(* waits for, is not one of them; busy says that there is one.             *)

\* A new process: of the command, or of a process it left behind.
Fork(p, busy) ==
    /\ busy \/ alive # {}
    /\ p \notin Present
    /\ alive' = alive \cup {p}
    /\ UNCHANGED <<pid1, dying, zombies, ipc, scratch, accounts, sweep>>

\* A process creates an IPC object or writes under a scratch path.
CreateIpc(i, busy) ==
    /\ busy \/ alive # {}
    /\ ipc' = ipc \cup {i}
    /\ UNCHANGED <<pid1, procs, scratch, accounts, sweep>>

WriteScratch(d, busy) ==
    /\ busy \/ alive # {}
    /\ scratch' = scratch \cup {d}
    /\ UNCHANGED <<pid1, procs, ipc, accounts, sweep>>

\* A process ends by itself, or its SIGKILL is delivered at last.
ProcEnds(p) ==
    /\ p \in alive \cup dying
    /\ alive' = alive \ {p}
    /\ dying' = dying \ {p}
    /\ zombies' = zombies \cup {p}
    /\ UNCHANGED <<pid1, ipc, scratch, accounts, sweep>>

\* Its parent, another process of the work, waits for it.
ParentWaits(p, busy) ==
    /\ p \in zombies
    /\ busy \/ alive # {}
    /\ zombies' = zombies \ {p}
    /\ UNCHANGED <<pid1, alive, dying, ipc, scratch, accounts, sweep>>

-----------------------------------------------------------------------------
(* account::ensure, before a command or a shell is started.                *)

\* The account is there already.
Named(a) ==
    /\ a \in passwd
    /\ UNCHANGED <<passwd, homes, ledger, io_errors>>

\* /etc/passwd cannot be read or opened, or the append ends part-way.
AppendFails(a) ==
    /\ a \notin passwd
    /\ passwd' \in {passwd, passwd \cup {a}}
    /\ io_errors' = io_errors \cup {"passwd"}
    /\ UNCHANGED <<homes, ledger>>

\* Mutant of Append: the ledger remembers only the accounts with a home.
AppendWithHome(a, create_home) ==
    /\ a \notin passwd
    /\ passwd' = passwd \cup {a}
    /\ \/ /\ create_home
          /\ homes' = homes \cup {a}
          /\ ledger' = ledger \cup {[account |-> a, home |-> TRUE]}
          /\ UNCHANGED io_errors
       \/ /\ create_home
          /\ homes' \in {homes, homes \cup {a}}
          /\ io_errors' = io_errors \cup {"home"}
          /\ UNCHANGED ledger
       \/ /\ ~create_home
          /\ UNCHANGED <<homes, ledger, io_errors>>

\* The entry is appended, its home provisioned if asked for, and both remembered.
\* A provision_home that fails may leave part of the home.
Append(a, create_home) ==
    /\ a \notin passwd
    /\ passwd' = passwd \cup {a}
    /\ \/ /\ create_home
          /\ homes' = homes \cup {a}
          /\ ledger' = ledger \cup {[account |-> a, home |-> TRUE]}
          /\ UNCHANGED io_errors
       \/ /\ create_home
          /\ homes' \in {homes, homes \cup {a}}
          /\ io_errors' = io_errors \cup {"home"}
          /\ ledger' = ledger \cup {[account |-> a, home |-> FALSE]}
       \/ /\ ~create_home
          /\ ledger' = ledger \cup {[account |-> a, home |-> FALSE]}
          /\ UNCHANGED <<homes, io_errors>>

Ensure(a, create_home) ==
    /\ Named(a) \/ AppendFails(a) \/ Append(a, create_home)
    /\ UNCHANGED <<pid1, procs, ipc, scratch, sweep>>

-----------------------------------------------------------------------------
(* reset.                                                                  *)

\* Only pid 1 sweeps the processes and removes the IPC objects.
ResetStarts ==
    /\ step' = IF pid1 THEN "list" ELSE "clear"
    /\ remaining' = {}
    /\ late' = FALSE
    /\ todo' = Path
    /\ first_err' = FALSE

\* Five seconds have passed.
DeadlinePasses ==
    /\ step \in {"list", "kill"}
    /\ ~late
    /\ late' = TRUE
    /\ UNCHANGED <<pid1, box, step, remaining, todo, first_err>>

\* reap_zombies: those whose parents are gone, which are all of them once no other
\* process is left.
ReapZombies ==
    \E reaped \in SUBSET zombies :
        /\ alive \cup dying = {} => reaped = zombies
        /\ zombies' = zombies \ reaped

\* One pass: reap and list.  The listing of /proc is no snapshot and can miss a
\* process, but not the last one: the eldest ancestor of every process is a child of
\* pid 1, and stays listed, dead or alive, until the next reap_zombies.
SweepList ==
    /\ step = "list"
    /\ ReapZombies
    /\ remaining' \in SUBSET (alive \cup dying \cup zombies')
    /\ remaining' = {} <=> alive \cup dying \cup zombies' = {}
    /\ step' = IF remaining' = {} THEN "ipc" ELSE "kill"
    /\ late' = (late /\ remaining' # {})
    /\ UNCHANGED <<pid1, alive, dying, ipc, scratch, accounts, todo, first_err>>

\* /proc cannot be read.
SweepListFails ==
    /\ step = "list"
    /\ ReapZombies
    /\ step' = "ipc"
    /\ late' = FALSE
    /\ first_err' = TRUE
    /\ UNCHANGED <<pid1, alive, dying, ipc, scratch, accounts, remaining, todo>>

\* SIGKILL to every listed pid, whoever has it now.
SignalRemaining ==
    /\ step = "kill"
    /\ ~late
    /\ alive' = alive \ remaining
    /\ dying' = dying \cup (alive \cap remaining)
    /\ remaining' = {}
    /\ UNCHANGED <<pid1, zombies, ipc, scratch, accounts, late, todo, first_err>>

\* Mutant of SweepKill: what was signalled is taken for dead.
SweepKillOnce == SignalRemaining /\ step' = "ipc"

\* The next pass looks again.
SweepKill == SignalRemaining /\ step' = "list"

\* Something is left after the deadline.
SweepGivesUp ==
    /\ step = "kill"
    /\ late
    /\ step' = "ipc"
    /\ remaining' = {}
    /\ late' = FALSE
    /\ first_err' = TRUE
    /\ UNCHANGED <<pid1, box, todo>>

\* The tables list what is left.
TablesRead == first_err' = (first_err \/ ipc' # {}) /\ UNCHANGED io_errors

\* ipc_ids takes a table that it cannot read for an empty one: its objects stay, and
\* only those that the other tables still list are an error.
TableUnreadable ==
    /\ io_errors' = io_errors \cup {"sysvipc"}
    /\ \/ UNCHANGED first_err
       \/ ipc' # {} /\ first_err' = TRUE

\* remove_sysv_ipc: an IPC_RMID may not take; what the tables still list is an error.
RemoveIpc ==
    /\ step = "ipc"
    /\ ipc' \in SUBSET ipc
    /\ TablesRead \/ TableUnreadable
    /\ step' = "clear"
    /\ UNCHANGED <<pid1, procs, scratch, passwd, homes, ledger, remaining, late, todo>>

\* clear_dir_contents: the path is emptied, or something in it could not be removed.
\* The first error is kept, and the other paths are cleared all the same.
ClearPath(d) ==
    /\ step = "clear"
    /\ d \in todo
    /\ todo' = todo \ {d}
    /\ \/ scratch' = scratch \ {d} /\ UNCHANGED first_err
       \/ scratch' = scratch /\ first_err' = TRUE
    /\ UNCHANGED <<pid1, procs, ipc, accounts, step, remaining, late>>

Cleared ==
    /\ step = "clear"
    /\ todo = {}
    /\ step' = "accounts"
    /\ UNCHANGED <<pid1, box, remaining, late, todo, first_err>>

\* remove_passwd_lines: the file is read and written again without our lines.  When
\* that fails, it is as it was or, once truncated, without some of the other lines too.
Prune(kept) ==
    LET others == passwd \ {c.account : c \in ledger}
        errs == IF kept = {} THEN io_errors ELSE io_errors \cup {"home"}
    IN  \/ passwd' = others /\ io_errors' = errs
        \/ /\ ledger # {}
           /\ passwd' \in {passwd} \cup SUBSET others
           /\ io_errors' = errs \cup {"passwd"}

\* account::cleanup: the ledger is drained first; its lines and its homes are removed
\* as far as possible, and no failure (kept: the homes that stay) fails the reset, which
\* returns what it has kept so far.
CleanAccounts(kept) ==
    LET made == {c.account : c \in {e \in ledger : e.home}}
    IN  /\ step = "accounts"
        /\ kept \subseteq homes \cap made
        /\ ledger' = {}
        /\ homes' = (homes \ made) \cup kept
        /\ Prune(kept)
        /\ step' = "none" /\ first_err' = FALSE
        /\ UNCHANGED <<pid1, procs, ipc, scratch, remaining, late, todo>>

\* A step of the work's processes, whatever the worker does.
ProcStep(busy) ==
    \/ \E p \in Proc : Fork(p, busy) \/ ProcEnds(p) \/ ParentWaits(p, busy)
    \/ \E i \in Ipc : CreateIpc(i, busy)
    \/ \E d \in Path : WriteScratch(d, busy)

\* A step of reset, up to the accounts.
ResetStep ==
    \/ SweepList \/ SweepListFails \/ SweepKill \/ SweepGivesUp
    \/ RemoveIpc \/ (\E d \in Path : ClearPath(d)) \/ Cleared

-----------------------------------------------------------------------------
(* Properties.                                                             *)

SandboxTypeOK ==
    /\ pid1 \in BOOLEAN
    /\ alive \subseteq Proc /\ dying \subseteq Proc /\ zombies \subseteq Proc
    /\ ipc \subseteq Ipc /\ scratch \subseteq Path
    /\ passwd \subseteq Account \cup Baked /\ homes \subseteq Account
    /\ ledger \subseteq [account : Account, home : BOOLEAN]
    /\ io_errors \subseteq IoError
    /\ step \in Step
    /\ remaining \subseteq Proc
    /\ late \in BOOLEAN
    /\ todo \subseteq Path
    /\ first_err \in BOOLEAN

\* Nothing that a piece of work can leave in the container is there, but for the IPC
\* objects of a table that could not be read.
Clean ==
    /\ Present = {}
    /\ scratch = {}
    /\ ipc = {} \/ "sysvipc" \in io_errors
=============================================================================
