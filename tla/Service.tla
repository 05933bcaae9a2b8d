------------------------------- MODULE Service -------------------------------
(***************************************************************************)
(* The shared service: how clients find it or start it                     *)
(* (cmd/codex-gemini/service.go), how it comes and goes                    *)
(* (internal/service/service.go, New and Close of manager.go), and how the *)
(* command line submits and cancels its jobs (cmd/codex-gemini/main.go).   *)
(*                                                                         *)
(* Two advisory locks, startup.lock of the clients and lock of the daemon, *)
(* and two socket files, which outlive the process that bound them and are *)
(* removed by name.  The batch of a command is one job.                    *)
(***************************************************************************)
EXTENDS Integers, FiniteSets

CONSTANTS
    Clients,        \* commands: serve, run, batch
    MaxDaemons,     \* bound: daemon processes started
    None            \* no process

ASSUME ServiceAssumption ==
    /\ IsFiniteSet(Clients) /\ None \notin Clients
    /\ MaxDaemons \in Nat
    /\ None \notin 1 .. MaxDaemons

Daemons == 1 .. MaxDaemons

VARIABLES
    dpc,            \* where a daemon is
    stateLock,      \* the daemon with a lock on `lock'
    sock, ctl,      \* the daemon that bound path and path.stop, alive or not
    cancelled,      \* the daemons whose context is done
    cpc,            \* where a client is
    startup,        \* the client with a lock on startup.lock
    child,          \* the daemon a client has started
    conn,           \* the daemon at the other end of a connection
    request,        \* the daemon with a gemini_batch request of a client
    job,            \* the job of a client
    interrupted,    \* the clients that got a signal
    answered,       \* history variable: the clients that know their jobs
    faults          \* history variable: what went wrong so far

daemon == <<dpc, stateLock, sock, ctl, cancelled>>
links == <<conn, request, job>>
vars == <<dpc, stateLock, sock, ctl, cancelled, cpc, startup, child, conn,
          request, job, interrupted, answered, faults>>

Preparing == {"owner", "clean", "bound"}

Init ==
    /\ dpc = [d \in Daemons |-> "none"] /\ stateLock = None
    /\ sock = None /\ ctl = None /\ cancelled = {}
    /\ cpc = [c \in Clients |-> "start"] /\ startup = None
    /\ child = [c \in Clients |-> None] /\ conn = [c \in Clients |-> None]
    /\ request = [c \in Clients |-> None] /\ job = [c \in Clients |-> "none"]
    /\ interrupted = {} /\ answered = {} /\ faults = {}

Listening == {d \in Daemons : dpc[d] \in {"bound", "serving"}}
GoTo(c, p) == cpc' = [cpc EXCEPT ![c] = p]
DaemonTo(d, p) == dpc' = [dpc EXCEPT ![d] = p]
Fault(f) == faults' = faults \cup {f}

\* A dial reaches the process that listens on what the name stands for now.
Dialled(c) == sock \in Listening /\ conn' = [conn EXCEPT ![c] = sock]
DialFails == sock \notin Listening /\ UNCHANGED conn
Unlock(c) == startup' = IF startup = c THEN None ELSE startup
-----------------------------------------------------------------------------
(* connectService.                                                         *)

Dial(c) ==
    /\ cpc[c] = "start"
    /\ \/ Dialled(c) /\ GoTo(c, "connected")
       \/ DialFails /\ GoTo(c, "lock")
    /\ UNCHANGED <<daemon, startup, child, request, job, interrupted, answered, faults>>

\* Mutant of TakeStartup: whoever finds no service starts one.
TakeStartupAlways(c) ==
    /\ cpc[c] = "lock"
    /\ startup' = c /\ GoTo(c, "redial")
    /\ UNCHANGED <<daemon, child, links, interrupted, answered, faults>>

TakeStartup(c) ==
    /\ cpc[c] = "lock" /\ startup = None
    /\ startup' = c /\ GoTo(c, "redial")
    /\ UNCHANGED <<daemon, child, links, interrupted, answered, faults>>

Redial(c) ==
    /\ cpc[c] = "redial"
    /\ \/ Dialled(c) /\ GoTo(c, "connected") /\ Unlock(c)
       \/ DialFails /\ GoTo(c, "spawn") /\ UNCHANGED startup
    /\ UNCHANGED <<daemon, child, request, job, interrupted, answered, faults>>

SpawnDaemon(c) ==
    /\ cpc[c] = "spawn"
    /\ \/ \E d \in Daemons :
             /\ \A e \in Daemons : dpc[e] = "none" <=> e >= d
             /\ DaemonTo(d, "boot") /\ child' = [child EXCEPT ![c] = d]
             /\ GoTo(c, "dial")
             /\ UNCHANGED <<startup, faults>>
       \/ Fault("no start") /\ GoTo(c, "failed") /\ Unlock(c) /\ UNCHANGED <<dpc, child>>
    /\ UNCHANGED <<stateLock, sock, ctl, cancelled, links, interrupted, answered>>

DialChild(c) ==
    /\ cpc[c] = "dial"
    /\ \/ Dialled(c) /\ GoTo(c, "connected") /\ Unlock(c)
       \/ DialFails /\ GoTo(c, "select") /\ UNCHANGED startup
    /\ UNCHANGED <<daemon, child, request, job, interrupted, answered, faults>>

\* The child has exited, or it is time for another attempt.
Select(c) ==
    /\ cpc[c] = "select"
    /\ \/ dpc[child[c]] = "dead" /\ GoTo(c, "failed") /\ Unlock(c)
       \/ GoTo(c, "dial") /\ UNCHANGED startup
    /\ UNCHANGED <<daemon, child, links, interrupted, answered, faults>>

\* Fifteen seconds have passed.
StartupTimeout(c) ==
    /\ cpc[c] \in {"lock", "select"}
    /\ GoTo(c, "failed") /\ Unlock(c) /\ Fault("timeout")
    /\ UNCHANGED <<daemon, child, links, interrupted, answered>>
-----------------------------------------------------------------------------
(* The commands run and batch; serve copies bytes until an end goes away.  *)

Leave(c) ==
    /\ cpc[c] = "connected" \/ (cpc[c] = "waiting" /\ job[c] = "ended")
    /\ GoTo(c, "gone")
    /\ UNCHANGED <<daemon, startup, child, links, interrupted, answered, faults>>

\* After the handshake, which the service answers once it accepts.
Submit(c) ==
    /\ cpc[c] = "connected" /\ conn[c] # None /\ dpc[conn[c]] = "serving"
    /\ request' = [request EXCEPT ![c] = conn[c]] /\ GoTo(c, "submitted")
    /\ UNCHANGED <<daemon, startup, child, conn, job, interrupted, answered, faults>>

\* The handler of gemini_batch starts the jobs or refuses them; it asks neither
\* for the context of the request nor for the client.
Handle(c) ==
    /\ request[c] # None /\ dpc[request[c]] \in {"serving", "closing"}
    /\ request' = [request EXCEPT ![c] = None]
    /\ \E s \in {"running", "refused"} : job' = [job EXCEPT ![c] = s]
    /\ UNCHANGED <<daemon, cpc, startup, child, conn, interrupted, answered, faults>>

\* The answer of the service.
Receive(c) ==
    /\ cpc[c] = "submitted" /\ conn[c] # None /\ request[c] = None
    /\ IF job[c] = "refused" THEN GoTo(c, "gone") /\ UNCHANGED answered
       ELSE GoTo(c, "waiting") /\ answered' = answered \cup {c}
    /\ UNCHANGED <<daemon, startup, child, links, interrupted, faults>>

Disconnected(c) ==
    /\ cpc[c] \in {"connected", "submitted", "waiting", "cancel"} /\ conn[c] = None
    /\ GoTo(c, "gone")
    /\ UNCHANGED <<daemon, startup, child, links, interrupted, answered, faults>>

\* Mutant of Interrupt: waiting ends with an error and no job is cancelled.
InterruptLeaves(c) ==
    /\ cpc[c] \in {"lock", "select", "connected", "submitted", "waiting"}
    /\ interrupted' = interrupted \cup {c}
    /\ GoTo(c, "gone") /\ Unlock(c)
    /\ UNCHANGED <<daemon, child, links, answered, faults>>

\* SIGINT or SIGTERM.  The deferred call that cancels the jobs is registered
\* once their IDs are known.
Interrupt(c) ==
    /\ cpc[c] \in {"lock", "select", "connected", "submitted", "waiting"}
    /\ interrupted' = interrupted \cup {c}
    /\ GoTo(c, IF cpc[c] = "waiting" THEN "cancelling" ELSE "gone")
    /\ Unlock(c)
    /\ UNCHANGED <<daemon, child, links, answered, faults>>

\* cancelCLIJobs, on a connection of its own.
DialToCancel(c) ==
    /\ cpc[c] = "cancelling"
    /\ \/ Dialled(c) /\ GoTo(c, "cancel")
       \/ DialFails /\ GoTo(c, "gone")
    /\ UNCHANGED <<daemon, startup, child, request, job, interrupted, answered, faults>>

Cancel(c) ==
    /\ cpc[c] = "cancel" /\ conn[c] # None
    /\ job' = [job EXCEPT ![c] = IF @ = "running" THEN "cancelled" ELSE @]
    /\ GoTo(c, "gone")
    /\ UNCHANGED <<daemon, startup, child, conn, request, interrupted, answered, faults>>

CancelTimeout(c) ==
    /\ cpc[c] \in {"cancelling", "cancel"}
    /\ GoTo(c, "gone") /\ Fault("timeout")
    /\ UNCHANGED <<daemon, startup, child, links, interrupted, answered>>
-----------------------------------------------------------------------------
(* The daemon.                                                             *)

\* Mutant of Boot: New does not ask for the lock.
BootUnlocked(d) ==
    /\ dpc[d] = "boot"
    /\ stateLock' = d /\ DaemonTo(d, "owner")
    /\ UNCHANGED <<sock, ctl, cancelled, cpc, startup, child, links, interrupted, answered,
                   faults>>

\* New: the lock on the state directory, or the process exits.
Boot(d) ==
    /\ dpc[d] = "boot"
    /\ \/ stateLock = None /\ stateLock' = d /\ DaemonTo(d, "owner") /\ UNCHANGED faults
       \/ stateLock # None /\ DaemonTo(d, "dead") /\ UNCHANGED <<stateLock, faults>>
       \/ Fault("no start") /\ DaemonTo(d, "dead") /\ UNCHANGED stateLock
    /\ UNCHANGED <<sock, ctl, cancelled, cpc, startup, child, links, interrupted, answered>>

\* Serve takes the name away from whoever had it.
RemoveSocket(d) ==
    /\ dpc[d] = "owner"
    /\ sock' = None /\ DaemonTo(d, "clean")
    /\ UNCHANGED <<stateLock, ctl, cancelled, cpc, startup, child, links, interrupted,
                   answered, faults>>

\* Binding fails when the name is in use.
Bind(d) ==
    /\ dpc[d] = "clean"
    /\ \/ sock = None /\ sock' = d /\ DaemonTo(d, "bound")
       \/ sock # None /\ UNCHANGED sock /\ DaemonTo(d, "drained")
    /\ UNCHANGED <<stateLock, ctl, cancelled, cpc, startup, child, links, interrupted,
                   answered, faults>>

BindControl(d) ==
    /\ dpc[d] = "bound"
    /\ ctl' = d /\ DaemonTo(d, "serving")
    /\ UNCHANGED <<stateLock, sock, cancelled, cpc, startup, child, links, interrupted,
                   answered, faults>>

\* A socket cannot be made: Serve returns, and closes the one it has.
SetupFails(d) ==
    /\ dpc[d] \in Preparing
    /\ sock' = IF dpc[d] = "bound" THEN None ELSE sock
    /\ conn' = [c \in Clients |-> IF conn[c] = d THEN None ELSE conn[c]]
    /\ request' = [c \in Clients |-> IF request[c] = d THEN None ELSE request[c]]
    /\ DaemonTo(d, "drained") /\ Fault("no start")
    /\ UNCHANGED <<stateLock, ctl, cancelled, cpc, startup, child, job, interrupted, answered>>

\* A connection to the control socket, or a signal.
Stop(d) ==
    /\ (dpc[d] = "serving" /\ ctl = d) \/ dpc[d] \in Preparing
    /\ cancelled' = cancelled \cup {d} /\ Fault("stop")
    /\ UNCHANGED <<dpc, stateLock, sock, ctl, cpc, startup, child, links, interrupted, answered>>

\* Closing a listener removes whatever has its name.
CloseListener(d) ==
    /\ dpc[d] = "serving" /\ d \in cancelled
    /\ sock' = None /\ DaemonTo(d, "closing")
    /\ UNCHANGED <<stateLock, ctl, cancelled, cpc, startup, child, links, interrupted,
                   answered, faults>>

\* The sessions end, and Serve returns.
Drain(d) ==
    /\ dpc[d] = "closing"
    /\ conn' = [c \in Clients |-> IF conn[c] = d THEN None ELSE conn[c]]
    /\ request' = [c \in Clients |-> IF request[c] = d THEN None ELSE request[c]]
    /\ ctl' = None /\ DaemonTo(d, "drained")
    /\ UNCHANGED <<stateLock, sock, cancelled, cpc, startup, child, job, interrupted,
                   answered, faults>>

JobsEnd == [c \in Clients |-> IF job[c] \in {"running", "cancelled"} THEN "ended" ELSE job[c]]

\* Close: every job is cancelled and waited for before the lock goes.
CloseManager(d) ==
    /\ dpc[d] = "drained"
    /\ job' = JobsEnd /\ stateLock' = None /\ DaemonTo(d, "dead")
    /\ UNCHANGED <<sock, ctl, cancelled, cpc, startup, child, conn, request, interrupted,
                   answered, faults>>

\* A job ends by itself, or because it was cancelled.
EndJob(c) ==
    /\ job[c] \in {"running", "cancelled"}
    /\ job' = [job EXCEPT ![c] = "ended"]
    /\ UNCHANGED <<daemon, cpc, startup, child, conn, request, interrupted, answered, faults>>

\* Killed: the lock and the connections go, the socket files stay.  Bound: it
\* happens once.
Crash(d) ==
    /\ dpc[d] \notin {"none", "dead"}
    /\ "crash" \notin faults
    /\ DaemonTo(d, "dead") /\ Fault("crash")
    /\ IF stateLock = d THEN stateLock' = None /\ job' = JobsEnd
       ELSE UNCHANGED <<stateLock, job>>
    /\ conn' = [c \in Clients |-> IF conn[c] = d THEN None ELSE conn[c]]
    /\ request' = [c \in Clients |-> IF request[c] = d THEN None ELSE request[c]]
    /\ UNCHANGED <<sock, ctl, cancelled, cpc, startup, child, interrupted, answered>>
-----------------------------------------------------------------------------
Connect(c) ==
    Dial(c) \/ TakeStartup(c) \/ Redial(c) \/ SpawnDaemon(c) \/ DialChild(c) \/ Select(c)

Command(c) ==
    \/ Leave(c) \/ Submit(c) \/ Handle(c) \/ Receive(c) \/ Disconnected(c)
    \/ DialToCancel(c) \/ Cancel(c) \/ EndJob(c)

Serve(d) ==
    \/ Boot(d) \/ RemoveSocket(d) \/ Bind(d) \/ BindControl(d)
    \/ CloseListener(d) \/ Drain(d) \/ CloseManager(d)

Next ==
    \/ \E c \in Clients : Connect(c) \/ Command(c) \/ Interrupt(c)
                            \/ StartupTimeout(c) \/ CancelTimeout(c)
    \/ \E d \in Daemons : Serve(d) \/ Stop(d) \/ SetupFails(d) \/ Crash(d)

Fairness ==
    /\ \A c \in Clients : WF_vars(Connect(c))
    /\ \A d \in Daemons : WF_vars(Serve(d))

Spec == Init /\ [][Next]_vars /\ Fairness
-----------------------------------------------------------------------------
(* Properties.                                                             *)

\* A service that listens can be reached, and one that serves can be stopped:
\* no other process, starting, stopping or gone, takes its sockets' names.
Reachable ==
    \A d \in Daemons : /\ dpc[d] \in {"bound", "serving"} => sock = d
                       /\ dpc[d] \in {"serving", "closing"} => ctl = d

\* Once its jobs are known to it, an interrupted command does not leave them
\* running, unless the service is on its way down, which stops them, or does not
\* answer in time.
InterruptCancels ==
    \A c \in interrupted \cap answered :
        cpc[c] = "gone" /\ job[c] = "running" =>
            "timeout" \in faults \/ stateLock \in cancelled

\* The same at whatever moment the signal comes, as docs/reference.md:353 has it:
\* "explicit CLI interruption cancels that CLI's submitted jobs".
InterruptCancelsAll ==
    \A c \in interrupted :
        cpc[c] = "gone" /\ job[c] = "running" =>
            "timeout" \in faults \/ stateLock \in cancelled

\* While no service stops or dies and no client gives up, every client that finds
\* no service gets to the one that it or another client has started.  (A client
\* that gives up lets go of startup.lock while its daemon is still on its way;
\* the daemon that the next one starts does not get the state directory.)
ClientsConnect ==
    \A c \in Clients :
        cpc[c] = "lock" ~> cpc[c] = "connected" \/ interrupted # {} \/ faults # {}
=============================================================================
