-------------------------- MODULE ServerLifecycle --------------------------
(***************************************************************************)
(* The processes of oc-go-cc on one machine: servers (serve, in the        *)
(* foreground or as the daemon that serve --background starts), and the    *)
(* commands stop and status (cmd/oc-go-cc/main.go, internal/daemon).  They *)
(* share one PID file, without a lock.  A server drains its requests       *)
(* before it stops (internal/server).                                      *)
(*                                                                         *)
(* Whether a server gets its port is left open: servers may be given       *)
(* different ones, and other programs may hold them.  Unix only.           *)
(***************************************************************************)
EXTENDS Integers, FiniteSets

CONSTANTS
    Pids,           \* process ids, used again once their process is gone
    NoPid,          \* no PID file
    MaxActive,      \* bound: requests in flight at a time in one server
    MaxServers      \* bound: servers, or processes that start one, at a time

ASSUME LifecycleAssumption == NoPid \notin Pids /\ MaxActive \in Nat /\ MaxServers \in Nat

VARIABLES
    pidFile,        \* whom the PID file names
    command,        \* what each process runs, "none" if there is no process
    pc,             \* and where it is
    found,          \* the PID it read from the file
    server          \* what a server knows of its requests and its end:
                    \*   signalled    the context of NotifyContext is done
                    \*   shutdown     what the shutdown goroutine is doing
                    \*   old, new     requests in flight that came before the signal,
                    \*                and after it: their sum is the tracker's count
                    \*   expired      the drain's 15 seconds passed

\* History, read by properties only: the servers that wrote their PID while no
\* other command was under way.
VARIABLE settled

vars == <<pidFile, command, pc, found, server, settled>>

Idle == [signalled |-> FALSE, shutdown |-> "off", old |-> 0, new |-> 0, expired |-> FALSE]

Active(p) == server[p].old + server[p].new

TypeOK ==
    /\ pidFile \in Pids \cup {NoPid}
    /\ command \in [Pids -> {"none", "serve", "background", "stop", "status"}]
    /\ pc \in [Pids -> {"none", "reading", "testing", "removing", "writing", "spawning",
                        "signalling", "creating", "binding", "serving", "cleanup"}]
    /\ found \in [Pids -> Pids \cup {NoPid}]
    /\ server \in [Pids -> [signalled : BOOLEAN,
                            shutdown : {"off", "waiting", "draining", "closing", "closed"},
                            old : 0..MaxActive, new : 0..MaxActive, expired : BOOLEAN]]
    /\ settled \subseteq Pids

Init ==
    /\ pidFile = NoPid
    /\ command = [p \in Pids |-> "none"]
    /\ pc = [p \in Pids |-> "none"]
    /\ found = [p \in Pids |-> NoPid]
    /\ server = [p \in Pids |-> Idle]
    /\ settled = {}

IsProcessRunning(p) == command[p] # "none"

\* The processes ps are gone, and with them their requests.
Gone(ps) ==
    /\ command' = [p \in Pids |-> IF p \in ps THEN "none" ELSE command[p]]
    /\ pc' = [p \in Pids |-> IF p \in ps THEN "none" ELSE pc[p]]
    /\ found' = [p \in Pids |-> IF p \in ps THEN NoPid ELSE found[p]]
    /\ server' = [p \in Pids |-> IF p \in ps THEN Idle ELSE server[p]]
    /\ settled' = settled \ ps

GoTo(p, step) ==
    /\ pc' = [pc EXCEPT ![p] = step]
    /\ UNCHANGED <<command, found, server, settled>>

\* Where a server starts to be one.
AfterCheck(p) == IF command[p] = "serve" THEN "writing" ELSE "spawning"

-----------------------------------------------------------------------------
(* The commands *)

ServerLeft ==
    Cardinality({p \in Pids : command[p] \in {"serve", "background"}}) < MaxServers

Run(p, c) ==
    /\ command[p] = "none"
    /\ c \in {"serve", "background"} => ServerLeft
    /\ command' = [command EXCEPT ![p] = c]
    /\ pc' = [pc EXCEPT ![p] = "reading"]
    /\ UNCHANGED <<pidFile, found, server, settled>>

\* GetPID.
ReadFile(p) ==
    /\ pc[p] = "reading"
    /\ IF pidFile # NoPid
       THEN /\ found' = [found EXCEPT ![p] = pidFile]
            /\ pc' = [pc EXCEPT ![p] = IF command[p] = "stop" THEN "signalling" ELSE "testing"]
            /\ UNCHANGED <<command, server, settled>>
       ELSE IF command[p] \in {"stop", "status"} THEN Gone({p})
       ELSE GoTo(p, AfterCheck(p))
    /\ UNCHANGED pidFile

FoundStale(p) ==
    /\ pc' = [pc EXCEPT ![p] = "removing"]
    /\ found' = [found EXCEPT ![p] = NoPid]
    /\ UNCHANGED <<command, server, settled>>

\* Mutant of TestRunning: the deferred removal of the file is set up too early.
TestRunningCleansUp(p) ==
    /\ pc[p] = "testing"
    /\ IF ~IsProcessRunning(found[p]) THEN FoundStale(p)
       ELSE IF command[p] = "serve" THEN GoTo(p, "cleanup")
       ELSE Gone({p})
    /\ UNCHANGED pidFile

\* A server is running: an error for who wants to start one, the answer of
\* status.  Otherwise the file is stale.
TestRunning(p) ==
    /\ pc[p] = "testing"
    /\ IF IsProcessRunning(found[p]) THEN Gone({p}) ELSE FoundStale(p)
    /\ UNCHANGED pidFile

\* os.Remove, whomever the file names by now.
RemoveFile(p) ==
    /\ pc[p] = "removing"
    /\ pidFile' = NoPid
    /\ IF command[p] \in {"stop", "status"} THEN Gone({p}) ELSE GoTo(p, AfterCheck(p))

\* ForkIntoBackground starts serve --_daemonize, which does not look at the file
\* before it writes it, and exits.
Spawn(p) ==
    \E q \in Pids :
        /\ pc[p] = "spawning"
        /\ command[q] = "none"
        /\ command' = [command EXCEPT ![p] = "none", ![q] = "serve"]
        /\ pc' = [pc EXCEPT ![p] = "none", ![q] = "writing"]
        /\ found' = [found EXCEPT ![p] = NoPid]
        /\ UNCHANGED <<pidFile, server, settled>>

-----------------------------------------------------------------------------
(* Signals *)

\* NotifyContext has taken SIGTERM over, and has not given it back yet.
Handles(p) == pc[p] \in {"binding", "serving"}

Signalled(p) == server' = [server EXCEPT ![p].signalled = TRUE]

\* stop, when there is nobody to signal: an error, and the file stays.
StopFails(p) ==
    /\ pc[p] = "signalling"
    /\ ~IsProcessRunning(found[p])
    /\ Gone({p})
    /\ UNCHANGED pidFile

\* stop signals a server that handles it.  Wait returns at once: the server is
\* not a child of this process.
StopSignals(p) ==
    /\ pc[p] = "signalling"
    /\ Handles(found[p])
    /\ Signalled(found[p])
    /\ pc' = [pc EXCEPT ![p] = "removing"]
    /\ UNCHANGED <<pidFile, command, found, settled>>

\* stop signals a process that does not, which is then gone: a server that is
\* starting or has given the signal back, or another process with a reused PID,
\* perhaps its own.
StopKills(p) ==
    LET target == found[p]
    IN  /\ pc[p] = "signalling"
        /\ IsProcessRunning(target) /\ ~Handles(target)
        /\ command' = [command EXCEPT ![target] = "none"]
        /\ pc' = [pc EXCEPT ![p] = "removing", ![target] = "none"]
        /\ found' = [found EXCEPT ![target] = NoPid]
        /\ server' = [server EXCEPT ![target] = Idle]
        /\ settled' = settled \ {target}
        /\ UNCHANGED pidFile

\* Interrupted at the terminal, or by a service manager.
Interrupt(p) ==
    /\ Handles(p)
    /\ Signalled(p)
    /\ UNCHANGED <<pidFile, command, pc, found, settled>>

\* Killed, crashed, or stopped by an error before there is anything to clean up.
Dies(p) ==
    /\ command[p] # "none"
    /\ Gone({p})
    /\ UNCHANGED pidFile

-----------------------------------------------------------------------------
(* A server: serveCmd *)

WritePID(p) ==
    /\ pc[p] = "writing"
    /\ pidFile' = p
    /\ pc' = [pc EXCEPT ![p] = "creating"]
    /\ settled' = settled \cup {q \in {p} : \A o \in Pids \ {q} : command[o] = "none"}
    /\ UNCHANGED <<command, found, server>>

\* NewServer, then Start up to the shutdown goroutine.
CreateServer(p) ==
    /\ pc[p] = "creating"
    /\ \/ GoTo(p, "cleanup")
       \/ /\ pc' = [pc EXCEPT ![p] = "binding"]
          /\ server' = [server EXCEPT ![p].shutdown = "waiting"]
          /\ UNCHANGED <<command, found, settled>>
    /\ UNCHANGED pidFile

\* ListenAndServe: it fails if the port is taken, and ends at once after Shutdown.
Listen(p) ==
    /\ pc[p] = "binding"
    /\ \/ GoTo(p, "cleanup")
       \/ server[p].shutdown # "closed" /\ GoTo(p, "serving")
    /\ UNCHANGED pidFile

\* The deferred os.Remove, whomever the file names by now, and the end of the
\* process, requests in flight or not.
Cleanup(p) ==
    /\ pc[p] = "cleanup"
    /\ pidFile' = NoPid
    /\ Gone({p})

-----------------------------------------------------------------------------
(* Requests, counted by InFlightTracker.Track *)

RequestStarts(p) ==
    /\ pc[p] = "serving"
    /\ Active(p) < MaxActive
    /\ \/ server[p].signalled /\ server' = [server EXCEPT ![p].new = @ + 1]
       \/ ~server[p].signalled /\ server' = [server EXCEPT ![p].old = @ + 1]
    /\ UNCHANGED <<pidFile, command, pc, found, settled>>

\* Mutant of RequestEnds: Dec is called on every way out of the handler, and by
\* the deferred call.
RequestEndsTwice(p) ==
    /\ pc[p] = "serving"
    /\ \/ server[p].old > 0 /\ server' = [server EXCEPT ![p].old = @ - 2]
       \/ server[p].new > 0 /\ server' = [server EXCEPT ![p].new = @ - 2]
    /\ UNCHANGED <<pidFile, command, pc, found, settled>>

RequestEnds(p) ==
    /\ pc[p] = "serving"
    /\ \/ server[p].old > 0 /\ server' = [server EXCEPT ![p].old = @ - 1]
       \/ server[p].new > 0 /\ server' = [server EXCEPT ![p].new = @ - 1]
    /\ UNCHANGED <<pidFile, command, pc, found, settled>>

-----------------------------------------------------------------------------
(* The shutdown goroutine of Server.Start *)

Shutdown(p, from, to) ==
    /\ server[p].shutdown = from
    /\ server' = [server EXCEPT ![p].shutdown = to]
    /\ UNCHANGED <<pidFile, command, pc, found, settled>>

\* ctx.Done: the drain begins, with the listener still open.
BeginDrain(p) == server[p].signalled /\ Shutdown(p, "waiting", "draining")

\* Mutant of Drained: the count is not looked at.
DrainedUncounted(p) == Shutdown(p, "draining", "closing")

\* A tick finds the count at zero.
Drained(p) == Active(p) = 0 /\ Shutdown(p, "draining", "closing")

\* Mutant of DrainExpires: the drain has no time limit.
DrainNeverExpires(p) == FALSE /\ Shutdown(p, "draining", "closing")

\* The drain's time is over.
DrainExpires(p) ==
    /\ server[p].shutdown = "draining"
    /\ server' = [server EXCEPT ![p].shutdown = "closing", ![p].expired = TRUE]
    /\ UNCHANGED <<pidFile, command, pc, found, settled>>

\* httpSrv.Shutdown closes the listener, and ListenAndServe returns at once: the
\* process does not wait for what Shutdown waits for.
CloseListener(p) ==
    /\ server[p].shutdown = "closing"
    /\ server' = [server EXCEPT ![p].shutdown = "closed"]
    /\ pc' = IF pc[p] = "serving" THEN [pc EXCEPT ![p] = "cleanup"] ELSE pc
    /\ UNCHANGED <<pidFile, command, found, settled>>

-----------------------------------------------------------------------------

Command(p) ==
    \/ \E c \in {"serve", "background", "stop", "status"} : Run(p, c)
    \/ ReadFile(p) \/ TestRunning(p) \/ RemoveFile(p) \/ Spawn(p)
    \/ StopFails(p) \/ StopSignals(p) \/ StopKills(p)

Serve(p) ==
    \/ WritePID(p) \/ CreateServer(p) \/ Listen(p) \/ Cleanup(p)
    \/ RequestStarts(p) \/ RequestEnds(p)
    \/ BeginDrain(p) \/ Drained(p) \/ DrainExpires(p) \/ CloseListener(p)

Next == \E p \in Pids : Command(p) \/ Serve(p) \/ Interrupt(p) \/ Dies(p)

Spec == Init /\ [][Next]_vars

(***************************************************************************)
(* Fairness: a server's goroutines are scheduled, and 15 seconds pass.     *)
(* Nothing is assumed of requests (that they end, or stop arriving), of    *)
(* users or of other processes.                                            *)
(***************************************************************************)
FairSpec ==
    /\ Spec
    /\ \A p \in Pids :
        /\ WF_vars(Listen(p)) /\ WF_vars(Cleanup(p))
        /\ WF_vars(BeginDrain(p)) /\ WF_vars(DrainExpires(p)) /\ WF_vars(CloseListener(p))

-----------------------------------------------------------------------------
(* Properties *)

(***************************************************************************)
(* A server that wrote its PID while no other command was under way keeps  *)
(* the file while it starts and serves, whatever commands are run then, by *)
(* however many users at a time, until it is told to stop: serve, serve -b *)
(* and status test the file before they remove it (main.go:88-98, 205-208, *)
(* background.go:27-32).                                                   *)
(***************************************************************************)
SettledServerKeepsFile ==
    \A p \in settled :
        /\ pc[p] \in {"creating", "binding", "serving"}
        /\ ~server[p].signalled
        => pidFile = p

(***************************************************************************)
(* A server that was told to stop does not go before the requests it had   *)
(* then are answered, unless its 15 seconds pass (server.go:123-142); the  *)
(* ones that come while it drains may be cut off.                          *)
(***************************************************************************)
DrainHonoured ==
    \A p \in Pids :
        /\ server[p].shutdown \in {"closing", "closed"}
        /\ ~server[p].expired
        => server[p].old = 0

(***************************************************************************)
(* A server that was told to stop is gone in the end, with requests that   *)
(* never end, clients that go on sending, and a signal at any moment of    *)
(* its start.                                                              *)
(***************************************************************************)
StopsEventually == \A p \in Pids : server[p].signalled ~> ~server[p].signalled
=============================================================================
