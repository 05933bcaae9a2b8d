---------------------------- MODULE Service_proof ----------------------------
(***************************************************************************)
(* Theorems about Service, for any number of commands and of daemons that  *)
(* start, stop, die and are turned away: nobody takes the sockets' names   *)
(* from the daemon that serves, and an interrupted command does not leave  *)
(* its jobs running.                                                       *)
(***************************************************************************)
EXTENDS Service, TLAPS

\* From the lock on the state directory to the end of Close.
Holding == {"owner", "clean", "bound", "serving", "closing", "drained"}

\* Types, as far as the argument needs them.
CommandTypes ==
    /\ DOMAIN cpc = Clients /\ DOMAIN job = Clients
    /\ conn \in [Clients -> Daemons \cup {None}]
    /\ request \in [Clients -> Daemons \cup {None}]
    /\ interrupted \subseteq Clients

ServiceTypes ==
    /\ dpc \in [Daemons -> {"none", "boot", "dead"} \cup Holding]
    /\ stateLock \in Daemons \cup {None}
    /\ CommandTypes

\* The lock is what makes a daemon the only one between Boot and Close.
LockHeld == \A d \in Daemons : stateLock = d <=> dpc[d] \in Holding

\* Serve returns from its listener because its context is done.
ClosingIsCancelled == \A d \in Daemons : dpc[d] = "closing" => d \in cancelled

\* A job runs in the daemon with the lock, which serves or is on its way down.
JobHasDaemon(c) ==
    job[c] \in {"running", "cancelled"} =>
        /\ stateLock \in Daemons
        /\ dpc[stateLock] \in {"serving", "closing", "drained"}
        /\ dpc[stateLock] # "serving" => stateLock \in cancelled

\* A command that knows its jobs has no request left that could start others.
Known(c) ==
    c \in answered => /\ cpc[c] \in {"waiting", "cancelling", "cancel", "gone"}
                      /\ request[c] = None

\* A signal is taken once, and sends only commands with known jobs to cancel them.
SignalTaken(c) ==
    /\ c \in interrupted => cpc[c] \in {"cancelling", "cancel", "gone"}
    /\ cpc[c] \in {"waiting", "cancelling", "cancel"} => c \in answered

\* The call that cancels is made to the daemon that runs the job.
CancelReaches(c) ==
    cpc[c] = "cancel" /\ job[c] = "running" =>
        conn[c] = stateLock \/ stateLock \in cancelled

\* InterruptCancels, of one command.
LeavesNone(c) ==
    c \in interrupted /\ c \in answered /\ cpc[c] = "gone" /\ job[c] = "running" =>
        "timeout" \in faults \/ stateLock \in cancelled

CommandInv(c) ==
    JobHasDaemon(c) /\ Known(c) /\ SignalTaken(c) /\ CancelReaches(c) /\ LeavesNone(c)

\* The inductive invariants: of the daemons alone, and of the commands too.
DaemonInv == ServiceTypes /\ LockHeld /\ ClosingIsCancelled /\ Reachable
SInv == DaemonInv /\ \A c \in Clients : CommandInv(c)
-----------------------------------------------------------------------------
(* The daemons.                                                            *)

\* Whoever is between Boot and Close is alone there.
LEMMA OneHolder ==
    ASSUME DaemonInv, NEW d \in Daemons, NEW e \in Daemons,
           dpc[d] \in Holding, dpc[e] \in Holding
    PROVE  d = e
BY DEF DaemonInv, LockHeld

\* Nothing of this depends on the commands.
LEMMA DaemonUnchanged ==
    ASSUME DaemonInv, UNCHANGED daemon,
           CommandTypes'
    PROVE  DaemonInv'
BY DEF DaemonInv, ServiceTypes, LockHeld, ClosingIsCancelled, Reachable, daemon

\* A daemon moves on; it alone has the lock, before or after, and the names it
\* binds or removes are not those of another one.
LEMMA DaemonMoves ==
    ASSUME DaemonInv, NEW d \in Daemons,
           NEW p \in {"none", "boot", "dead"} \cup Holding, DaemonTo(d, p),
           stateLock' \in {stateLock, d, None},
           p \in Holding => stateLock' = d /\ stateLock \in {d, None},
           p \notin Holding => stateLock' = IF stateLock = d THEN None ELSE stateLock,
           cancelled \subseteq cancelled', p = "closing" => d \in cancelled',
           \A e \in Daemons \ {d} : dpc[e] \in Holding => UNCHANGED <<sock, ctl>>,
           p \in {"bound", "serving"} => sock' = d,
           p \in {"serving", "closing"} => ctl' = d,
           CommandTypes'
    PROVE  DaemonInv'
<1>1. \A e \in Daemons : dpc'[e] = IF e = d THEN p ELSE dpc[e]
  BY DEF DaemonInv, ServiceTypes, DaemonTo
<1>2. None \notin Daemons
  BY ServiceAssumption DEF Daemons
<1>3. ServiceTypes'
  BY DEF DaemonInv, ServiceTypes, DaemonTo
<1>4. LockHeld'
  <2> SUFFICES ASSUME NEW e \in Daemons PROVE stateLock' = e <=> dpc'[e] \in Holding
    BY DEF LockHeld
  <2>1. stateLock = e <=> dpc[e] \in Holding
    BY DEF DaemonInv, LockHeld
  <2>2. CASE e = d
    BY <1>1, <1>2, <2>1, <2>2
  <2>3. CASE e # d
    BY <1>1, <1>2, <2>1, <2>3
  <2> QED
    BY <2>2, <2>3
<1>5. ClosingIsCancelled'
  BY <1>1 DEF DaemonInv, ClosingIsCancelled
<1>6. Reachable'
  <2> SUFFICES ASSUME NEW e \in Daemons
               PROVE  /\ dpc'[e] \in {"bound", "serving"} => sock' = e
                      /\ dpc'[e] \in {"serving", "closing"} => ctl' = e
    BY DEF Reachable
  <2>1. CASE e = d
    BY <1>1, <2>1
  <2>2. CASE e # d
    BY <1>1, <2>2 DEF DaemonInv, Reachable, Holding
  <2> QED
    BY <2>1, <2>2
<1> QED
  BY <1>3, <1>4, <1>5, <1>6 DEF DaemonInv

\* Every step of a command keeps what the daemons rely on; one of them starts one.
LEMMA CommandsKeepDaemons ==
    ASSUME DaemonInv, NEW c \in Clients,
           Connect(c) \/ Command(c) \/ Interrupt(c) \/ StartupTimeout(c) \/ CancelTimeout(c)
    PROVE  DaemonInv'
<1>1. CommandTypes'
  BY DEF DaemonInv, ServiceTypes, CommandTypes, Connect, Command, Dial, TakeStartup, Redial, SpawnDaemon,
         DialChild, Select, Leave, Submit, Handle, Receive, Disconnected, DialToCancel,
         Cancel, EndJob, Interrupt, StartupTimeout, CancelTimeout, GoTo, Dialled,
         DialFails, links, Listening
<1>2. CASE UNCHANGED daemon
  BY <1>1, <1>2, DaemonUnchanged
<1>3. ASSUME NEW d \in Daemons, dpc[d] = "none", DaemonTo(d, "boot"),
             UNCHANGED <<stateLock, sock, ctl, cancelled>>
      PROVE  DaemonInv'
  <2>1. stateLock # d
    BY <1>3 DEF DaemonInv, LockHeld, Holding
  <2> QED
    BY <1>1, <1>3, <2>1, DaemonMoves DEF Holding
<1>4. CASE SpawnDaemon(c)
  <2>1. ASSUME NEW d \in Daemons, \A e \in Daemons : dpc[e] = "none" <=> e >= d
        PROVE  dpc[d] = "none"
    <3>1. d >= d
      BY ServiceAssumption DEF Daemons
    <3> QED
      BY <2>1, <3>1
  <2>2. UNCHANGED <<stateLock, sock, ctl, cancelled>>
    BY <1>4 DEF SpawnDaemon
  <2>3. \/ UNCHANGED dpc
        \/ \E d \in Daemons : dpc[d] = "none" /\ DaemonTo(d, "boot")
    BY <1>4, <2>1 DEF SpawnDaemon
  <2> QED
    BY <1>2, <1>3, <2>2, <2>3 DEF daemon
<1> QED
  BY <1>2, <1>4 DEF Connect, Command, Dial, TakeStartup, Redial, DialChild, Select, Leave,
                    Submit, Handle, Receive, Disconnected, DialToCancel, Cancel, EndJob,
                    Interrupt, StartupTimeout, CancelTimeout

\* So does every step of a daemon.
LEMMA DaemonsKeepDaemons ==
    ASSUME DaemonInv, NEW d \in Daemons,
           Serve(d) \/ Stop(d) \/ SetupFails(d) \/ Crash(d)
    PROVE  DaemonInv'
<1>1. CommandTypes'
  BY DEF DaemonInv, ServiceTypes, CommandTypes, Serve, Boot, RemoveSocket, Bind, BindControl, Stop,
         SetupFails, CloseListener, Drain, CloseManager, Crash, JobsEnd, links
<1>2. dpc[d] \in Holding <=> stateLock = d
  BY DEF DaemonInv, LockHeld
<1>3. dpc[d] \in Holding => \A e \in Daemons \ {d} : dpc[e] \notin Holding
  BY OneHolder
<1>4. /\ dpc[d] \in {"bound", "serving"} => sock = d
      /\ dpc[d] \in {"serving", "closing"} => ctl = d
  BY DEF DaemonInv, Reachable
<1>5. None \notin Daemons
  BY ServiceAssumption DEF Daemons
<1>6. CASE Boot(d)
  <2>1. dpc[d] = "boot" /\ UNCHANGED <<sock, ctl, cancelled>>
    BY <1>6 DEF Boot
  <2>2. stateLock # d
    BY <1>2, <2>1 DEF Holding
  <2>3. CASE stateLock = None /\ stateLock' = d /\ DaemonTo(d, "owner")
    BY <1>1, <2>1, <2>3, DaemonMoves DEF Holding
  <2>4. CASE UNCHANGED stateLock /\ DaemonTo(d, "dead")
    BY <1>1, <2>1, <2>2, <2>4, DaemonMoves DEF Holding
  <2> QED
    BY <1>6, <2>3, <2>4 DEF Boot
<1>7. CASE RemoveSocket(d)
  BY <1>1, <1>2, <1>3, <1>4, <1>7, DaemonMoves DEF RemoveSocket, Holding
<1>8. CASE Bind(d)
  BY <1>1, <1>2, <1>3, <1>4, <1>8, DaemonMoves DEF Bind, Holding
<1>9. CASE BindControl(d)
  BY <1>1, <1>2, <1>3, <1>4, <1>9, DaemonMoves DEF BindControl, Holding
<1>10. CASE SetupFails(d)
  BY <1>1, <1>2, <1>3, <1>4, <1>10, DaemonMoves DEF SetupFails, Preparing, Holding
<1>11. CASE Stop(d)
  BY <1>1, <1>11
     DEF Stop, DaemonInv, ServiceTypes, LockHeld, ClosingIsCancelled, Reachable
<1>12. CASE CloseListener(d)
  BY <1>1, <1>2, <1>3, <1>4, <1>12, DaemonMoves DEF CloseListener, Holding
<1>13. CASE Drain(d)
  BY <1>1, <1>2, <1>3, <1>4, <1>13, DaemonMoves DEF Drain, Holding
<1>14. CASE CloseManager(d)
  BY <1>1, <1>2, <1>3, <1>4, <1>14, DaemonMoves DEF CloseManager, Holding
<1>15. CASE Crash(d)
  <2>1. /\ DaemonTo(d, "dead") /\ UNCHANGED <<sock, ctl, cancelled>>
        /\ stateLock' = IF stateLock = d THEN None ELSE stateLock
    BY <1>15 DEF Crash
  <2> QED
    BY <1>1, <2>1, DaemonMoves DEF Holding
<1> QED
  BY <1>6, <1>7, <1>8, <1>9, <1>10, <1>11, <1>12, <1>13, <1>14, <1>15 DEF Serve

\* The invariant of the daemons is inductive.
LEMMA DaemonInvCorrect == Spec => []DaemonInv
<1>1. Init => DaemonInv
  BY ServiceAssumption DEF Init, DaemonInv, ServiceTypes, LockHeld, ClosingIsCancelled,
                           Reachable, Holding, Daemons, CommandTypes
<1>2. DaemonInv /\ [Next]_vars => DaemonInv'
  <2> SUFFICES ASSUME DaemonInv, [Next]_vars PROVE DaemonInv'
    OBVIOUS
  <2>1. CASE UNCHANGED vars
    <3>1. UNCHANGED daemon /\ CommandTypes'
      BY <2>1 DEF vars, daemon, DaemonInv, ServiceTypes, CommandTypes
    <3> QED
      BY <3>1, DaemonUnchanged
  <2> QED
    BY <2>1, CommandsKeepDaemons, DaemonsKeepDaemons DEF Next
<1> QED
  BY <1>1, <1>2, PTL DEF Spec

\* A service that listens can be reached, and one that serves can be stopped:
\* no other daemon, starting, stopping or gone, takes its sockets' names.
THEOREM ReachableCorrect == Spec => []Reachable
<1>1. DaemonInv => Reachable
  BY DEF DaemonInv
<1> QED
  BY <1>1, DaemonInvCorrect, PTL
-----------------------------------------------------------------------------
(* The commands.                                                           *)

\* What is said of a command depends on its own state, on the daemon with the
\* lock, and on the faults so far.
LEMMA SameCommand ==
    ASSUME SInv, NEW c \in Clients,
           cpc'[c] = cpc[c], conn'[c] = conn[c], request'[c] = request[c],
           job'[c] = job[c], c \in interrupted' <=> c \in interrupted,
           c \in answered' <=> c \in answered,
           stateLock' = stateLock, cancelled \subseteq cancelled', faults \subseteq faults',
           stateLock \in Daemons => dpc'[stateLock] = dpc[stateLock]
    PROVE  CommandInv(c)'
BY DEF SInv, CommandInv, JobHasDaemon, Known, SignalTaken, CancelReaches, LeavesNone

\* One command moves, with the lock where it is.
LEMMA OneCommand ==
    ASSUME SInv, DaemonInv', NEW c \in Clients, CommandInv(c)',
           \A k \in Clients \ {c} :
               /\ cpc'[k] = cpc[k] /\ conn'[k] = conn[k] /\ request'[k] = request[k]
               /\ job'[k] = job[k] /\ (k \in interrupted' <=> k \in interrupted)
               /\ (k \in answered' <=> k \in answered),
           stateLock' = stateLock, cancelled \subseteq cancelled', faults \subseteq faults',
           stateLock \in Daemons => dpc'[stateLock] = dpc[stateLock]
    PROVE  SInv'
<1>1. \A k \in Clients \ {c} : CommandInv(k)'
  BY SameCommand
<1> QED
  BY <1>1 DEF SInv

\* The way to a connection is over before a command can have a job, or a signal
\* that it has to answer with a cancellation.
LEMMA ConnectKeeps ==
    ASSUME SInv, DaemonInv', NEW c \in Clients, Connect(c) \/ StartupTimeout(c)
    PROVE  SInv'
<1>1. /\ cpc[c] \in {"start", "lock", "redial", "spawn", "dial", "select"}
      /\ UNCHANGED <<stateLock, cancelled, request, job, interrupted, answered>>
      /\ faults \subseteq faults'
      /\ \E p \in {"connected", "lock", "redial", "spawn", "dial", "select", "failed"} :
            GoTo(c, p)
      /\ \A k \in Clients \ {c} : conn'[k] = conn[k]
  BY DEF Connect, Dial, TakeStartup, Redial, SpawnDaemon, DialChild, Select,
         StartupTimeout, Fault, Dialled, DialFails, daemon, links,
         SInv, DaemonInv, ServiceTypes, CommandTypes
<1>2. stateLock \in Daemons => dpc'[stateLock] = dpc[stateLock]
  <2>1. CASE UNCHANGED dpc
    BY <2>1
  <2>2. ASSUME NEW d \in Daemons, dpc[d] = "none", DaemonTo(d, "boot")
        PROVE  stateLock \in Daemons => dpc'[stateLock] = dpc[stateLock]
    BY <2>2 DEF DaemonTo, SInv, DaemonInv, ServiceTypes, LockHeld, Holding
  <2>3. CASE SpawnDaemon(c)
    <3>1. ASSUME NEW d \in Daemons, \A e \in Daemons : dpc[e] = "none" <=> e >= d
          PROVE  dpc[d] = "none"
      <4>1. d >= d
        BY ServiceAssumption DEF Daemons
      <4> QED
        BY <3>1, <4>1
    <3> QED
      BY <2>1, <2>2, <2>3, <3>1 DEF SpawnDaemon
  <2> QED
    BY <2>1, <2>3 DEF Connect, Dial, TakeStartup, Redial, DialChild, Select,
                      StartupTimeout, daemon
<1>3. /\ \A k \in Clients \ {c} : cpc'[k] = cpc[k]
      /\ cpc'[c] \in {"connected", "lock", "redial", "spawn", "dial", "select", "failed"}
  BY <1>1 DEF GoTo, SInv, DaemonInv, ServiceTypes, CommandTypes
<1>4. c \notin answered /\ c \notin interrupted
  BY <1>1 DEF SInv, CommandInv, Known, SignalTaken
<1>5. CommandInv(c)'
  BY <1>1, <1>2, <1>3, <1>4
     DEF SInv, CommandInv, JobHasDaemon, Known, SignalTaken, CancelReaches, LeavesNone
<1> QED
  BY <1>1, <1>2, <1>3, <1>5, OneCommand

\* A daemon that listens is the one with the lock.
LEMMA ListenerHolds ==
    ASSUME DaemonInv, sock \in Listening
    PROVE  stateLock = sock
BY DEF DaemonInv, LockHeld, Listening, Holding

\* The steps of a command that is connected, submits, waits, and cancels.
LEMMA CommandKeeps ==
    ASSUME SInv, DaemonInv', NEW c \in Clients,
           Command(c) \/ Interrupt(c) \/ CancelTimeout(c)
    PROVE  SInv'
<1>1. /\ UNCHANGED <<stateLock, cancelled, dpc>> /\ faults \subseteq faults'
      /\ \A k \in Clients \ {c} :
            /\ cpc'[k] = cpc[k] /\ conn'[k] = conn[k] /\ request'[k] = request[k]
            /\ job'[k] = job[k] /\ (k \in interrupted' <=> k \in interrupted)
            /\ (k \in answered' <=> k \in answered)
  BY DEF Command, Leave, Submit, Handle, Receive, Disconnected, DialToCancel, Cancel,
         EndJob, Interrupt, CancelTimeout, GoTo, Dialled, DialFails, Fault, daemon, links,
         SInv, DaemonInv, ServiceTypes, CommandTypes
<1>2. /\ JobHasDaemon(c) /\ Known(c) /\ SignalTaken(c) /\ CancelReaches(c)
      /\ LeavesNone(c) /\ DaemonInv
  BY DEF SInv, CommandInv
<1> USE DEF CommandInv, JobHasDaemon, Known, SignalTaken, CancelReaches, LeavesNone
<1>3. /\ DOMAIN cpc = Clients /\ DOMAIN conn = Clients /\ DOMAIN request = Clients
      /\ DOMAIN job = Clients
  BY <1>2 DEF DaemonInv, ServiceTypes, CommandTypes
<1> SUFFICES CommandInv(c)'
  BY <1>1, OneCommand
<1>4. CASE Leave(c)
  BY <1>1, <1>2, <1>3, <1>4 DEF Leave, GoTo, links
<1>5. CASE Submit(c)
  BY <1>1, <1>2, <1>3, <1>5 DEF Submit, GoTo, links
<1>6. CASE Handle(c)
  <2>1. request[c] # None /\ dpc[request[c]] \in {"serving", "closing"}
    BY <1>6 DEF Handle
  <2>2. c \notin answered /\ cpc[c] \notin {"cancelling", "cancel"}
    BY <1>2, <2>1
  <2>3. request[c] \in Daemons
    BY <1>2, <2>1 DEF DaemonInv, ServiceTypes, CommandTypes
  <2> QED
    BY <1>1, <1>2, <1>3, <1>6, <2>1, <2>2, <2>3
       DEF Handle, DaemonInv, LockHeld, ClosingIsCancelled, Holding, ServiceTypes
<1>7. CASE Receive(c)
  BY <1>1, <1>2, <1>3, <1>7 DEF Receive, GoTo, links
<1>8. CASE Disconnected(c)
  <2>1. conn[c] # stateLock \/ stateLock = None
    BY <1>8 DEF Disconnected
  <2>2. stateLock = None => job[c] # "running"
    BY <1>2, ServiceAssumption DEF Daemons
  <2> QED
    BY <1>1, <1>2, <1>3, <1>8, <2>1, <2>2 DEF Disconnected, GoTo, links
<1>9. CASE DialToCancel(c)
  <2>1. CASE Dialled(c) /\ GoTo(c, "cancel")
    <3>1. conn'[c] = stateLock
      BY <1>2, <1>3, <2>1, ListenerHolds DEF Dialled
    <3> QED
      BY <1>1, <1>2, <1>3, <1>9, <2>1, <3>1 DEF DialToCancel, GoTo, links
  <2>2. CASE DialFails /\ GoTo(c, "gone")
    <3>1. job[c] = "running" => dpc[stateLock] # "serving"
      BY <1>2, <2>2 DEF DialFails, Listening, DaemonInv, Reachable
    <3> QED
      BY <1>1, <1>2, <1>3, <1>9, <2>2, <3>1 DEF DialToCancel, GoTo, links
  <2> QED
    BY <1>9, <2>1, <2>2 DEF DialToCancel
<1>10. CASE Cancel(c)
  BY <1>1, <1>2, <1>3, <1>10 DEF Cancel, GoTo, links
<1>11. CASE EndJob(c)
  BY <1>1, <1>2, <1>3, <1>11 DEF EndJob, links
<1>12. CASE Interrupt(c)
  BY <1>1, <1>2, <1>3, <1>12 DEF Interrupt, GoTo, links
<1>13. CASE CancelTimeout(c)
  BY <1>1, <1>2, <1>3, <1>13 DEF CancelTimeout, GoTo, Fault, links
<1> QED
  BY <1>4, <1>5, <1>6, <1>7, <1>8, <1>9, <1>10, <1>11, <1>12, <1>13 DEF Command
-----------------------------------------------------------------------------
(* The daemons, as the commands see them.                                  *)

\* Whatever a daemon does, a command stays where it is, may lose its connection
\* and its request, and its job ends if the lock goes.
LEMMA DaemonKeeps ==
    ASSUME SInv, DaemonInv', NEW d \in Daemons,
           Serve(d) \/ Stop(d) \/ SetupFails(d) \/ Crash(d)
    PROVE  SInv'
<1> SUFFICES ASSUME NEW c \in Clients PROVE CommandInv(c)'
  BY DEF SInv
<1>1. /\ UNCHANGED <<cpc, interrupted, answered>> /\ cancelled \subseteq cancelled'
      /\ faults \subseteq faults'
      /\ request'[c] = request[c] \/ request'[c] = None
      /\ conn'[c] = conn[c] \/ (conn[c] = d /\ (Drain(d) \/ Crash(d) \/ SetupFails(d)))
      /\ job'[c] = job[c] \/ job'[c] = "ended"
  BY DEF Serve, Boot, RemoveSocket, Bind, BindControl, Stop, SetupFails, CloseListener,
         Drain, CloseManager, Crash, JobsEnd, links, Fault
<1>2. /\ JobHasDaemon(c) /\ Known(c) /\ SignalTaken(c) /\ CancelReaches(c)
      /\ LeavesNone(c) /\ DaemonInv
  BY DEF SInv, CommandInv
<1>3. stateLock \in Daemons \cup {None} /\ None \notin Daemons
  BY <1>2, ServiceAssumption DEF DaemonInv, ServiceTypes, Daemons
<1>4. job'[c] \in {"running", "cancelled"} =>
        /\ job[c] = job'[c] /\ stateLock' = stateLock /\ stateLock \in Daemons
        /\ dpc'[stateLock] \in {"serving", "closing", "drained"}
        /\ dpc'[stateLock] # "serving" => stateLock \in cancelled'
  <2> SUFFICES ASSUME job'[c] \in {"running", "cancelled"}
               PROVE  /\ job[c] = job'[c] /\ stateLock' = stateLock /\ stateLock \in Daemons
                      /\ dpc'[stateLock] \in {"serving", "closing", "drained"}
                      /\ dpc'[stateLock] # "serving" => stateLock \in cancelled'
    OBVIOUS
  <2>1. /\ job[c] = job'[c] /\ stateLock \in Daemons
        /\ dpc[stateLock] \in {"serving", "closing", "drained"}
        /\ dpc[stateLock] # "serving" => stateLock \in cancelled
    BY <1>1, <1>2 DEF JobHasDaemon
  <2>2. CASE d = stateLock
    <3>1. dpc[d] \in {"serving", "closing", "drained"}
      BY <2>1, <2>2
    <3>2. ~CloseManager(d) /\ ~Crash(d)
      BY <2>1, <2>2 DEF CloseManager, Crash, JobsEnd
    <3>3. CloseListener(d) \/ Drain(d) \/ Stop(d)
      BY <3>1, <3>2 DEF Serve, Boot, RemoveSocket, Bind, BindControl, SetupFails, Preparing
    <3>4. dpc'[d] \in {"serving", "closing", "drained"} /\ stateLock' = stateLock
      BY <1>2, <3>1, <3>3
         DEF CloseListener, Drain, Stop, DaemonTo, DaemonInv, ServiceTypes
    <3>5. dpc'[d] # "serving" => d \in cancelled'
      BY <2>1, <2>2, <3>1, <3>3, <1>1 DEF CloseListener, Drain, Stop
    <3> QED
      BY <2>1, <2>2, <3>4, <3>5
  <2>3. CASE d # stateLock
    <3>1. dpc[d] \notin Holding
      BY <1>2, <2>3 DEF DaemonInv, LockHeld
    <3>2. stateLock # None
      BY <1>3, <2>1
    <3>3. UNCHANGED stateLock
      BY <2>3, <3>1, <3>2
         DEF Serve, Boot, RemoveSocket, Bind, BindControl, Stop, SetupFails, CloseListener,
             Drain, CloseManager, Crash, Holding
    <3>4. dpc'[stateLock] = dpc[stateLock]
      BY <1>2, <2>1, <2>3
         DEF Serve, Boot, RemoveSocket, Bind, BindControl, Stop, SetupFails, CloseListener,
             Drain, CloseManager, Crash, DaemonTo, DaemonInv, ServiceTypes
    <3> QED
      BY <1>1, <2>1, <3>3, <3>4
  <2> QED
    BY <2>2, <2>3
<1>5. JobHasDaemon(c)'
  BY <1>4 DEF JobHasDaemon
<1>6. Known(c)' /\ SignalTaken(c)'
  BY <1>1, <1>2 DEF Known, SignalTaken
<1>7. CancelReaches(c)'
  <2> SUFFICES ASSUME cpc'[c] = "cancel", job'[c] = "running"
               PROVE  conn'[c] = stateLock' \/ stateLock' \in cancelled'
    BY DEF CancelReaches
  <2>1. /\ stateLock' = stateLock /\ stateLock \in Daemons
        /\ dpc'[stateLock] # "serving" => stateLock \in cancelled'
        /\ conn[c] = stateLock \/ stateLock \in cancelled'
    BY <1>1, <1>2, <1>4 DEF CancelReaches
  <2>2. CASE conn[c] = d /\ d = stateLock /\ (Drain(d) \/ Crash(d) \/ SetupFails(d))
    <3>1. dpc'[d] # "serving"
      BY <1>2, <2>2 DEF Drain, Crash, SetupFails, DaemonTo, DaemonInv, ServiceTypes
    <3> QED
      BY <2>1, <2>2, <3>1
  <2> QED
    BY <1>1, <2>1, <2>2
<1>8. LeavesNone(c)'
  BY <1>1, <1>2, <1>4 DEF LeavesNone
<1> QED
  BY <1>5, <1>6, <1>7, <1>8 DEF CommandInv

\* The invariant of daemons and commands is inductive.
LEMMA SInvCorrect == Spec => []SInv
<1>1. Init => SInv
  <2> SUFFICES ASSUME Init PROVE SInv
    OBVIOUS
  <2>1. DaemonInv
    BY ServiceAssumption DEF Init, DaemonInv, ServiceTypes, LockHeld, ClosingIsCancelled,
                             Reachable, Holding, Daemons, CommandTypes
  <2>2. \A c \in Clients : CommandInv(c)
    BY DEF Init, CommandInv, JobHasDaemon, Known, SignalTaken, CancelReaches, LeavesNone
  <2> QED
    BY <2>1, <2>2 DEF SInv
<1>2. SInv /\ DaemonInv' /\ [Next]_vars => SInv'
  <2> SUFFICES ASSUME SInv, DaemonInv', [Next]_vars PROVE SInv'
    OBVIOUS
  <2>1. CASE UNCHANGED vars
    <3>1. \A c \in Clients : CommandInv(c)'
      BY <2>1, SameCommand DEF vars
    <3> QED
      BY <3>1 DEF SInv
  <2> QED
    BY <2>1, ConnectKeeps, CommandKeeps, DaemonKeeps DEF Next
<1> QED
  BY <1>1, <1>2, DaemonInvCorrect, PTL DEF Spec

\* Once its jobs are known to it, an interrupted command does not leave them
\* running, unless the service is on its way down, which stops them, or does not
\* answer in time.
THEOREM InterruptCorrect == Spec => []InterruptCancels
<1>1. SInv => InterruptCancels
  BY DEF SInv, CommandInv, LeavesNone, InterruptCancels, DaemonInv, ServiceTypes,
         CommandTypes
<1> QED
  BY <1>1, SInvCorrect, PTL
=============================================================================
