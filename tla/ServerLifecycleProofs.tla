------------------------ MODULE ServerLifecycleProofs ------------------------
(***************************************************************************)
(* Safety of the server's processes for any number of them, of requests in *)
(* flight and of servers.                                                  *)
(***************************************************************************)
EXTENDS ServerLifecycle, TLAPS

\* A process is somewhere exactly while it runs a command, and it has a PID to
\* test or to signal.
ProcessesFit ==
    \A p \in Pids :
        /\ pc[p] = "none" <=> command[p] = "none"
        /\ pc[p] \in {"testing", "signalling"} => found[p] \in Pids

\* A server drains only after it was told to stop.
DrainsWhenSignalled ==
    \A p \in Pids :
        server[p].shutdown \in {"draining", "closing", "closed"} => server[p].signalled

\* A server in charge of the PID file: a settled one that starts or serves, and
\* has not been told to stop.
InCharge(p) ==
    /\ p \in settled
    /\ pc[p] \in {"creating", "binding", "serving"}
    /\ ~server[p].signalled

\* Whoever else is there while p is in charge has yet to read the file, or has
\* read p in it: nobody is about to remove or to write it.
OthersHarmless(p) ==
    \A q \in Pids \ {p} :
        \/ pc[q] \in {"none", "reading"}
        \/ pc[q] \in {"testing", "signalling"} /\ found[q] = p

KeepsFile(p) ==
    /\ p \in settled => pc[p] \in {"creating", "binding", "serving", "cleanup"}
    /\ InCharge(p) => pidFile = p /\ OthersHarmless(p)

SettledInv == \A p \in Pids : KeepsFile(p)

LifecycleInv ==
    /\ TypeOK
    /\ ProcessesFit
    /\ DrainsWhenSignalled
    /\ DrainHonoured
    /\ SettledInv

USE LifecycleAssumption

-----------------------------------------------------------------------------

LEMMA LifecycleInit == Init => LifecycleInv
<1> SUFFICES ASSUME Init PROVE LifecycleInv
  OBVIOUS
<1>1. TypeOK
  BY DEF Init, TypeOK, Idle
<1>2. ProcessesFit
  BY DEF Init, ProcessesFit
<1>3. DrainsWhenSignalled /\ DrainHonoured
  BY DEF Init, DrainsWhenSignalled, DrainHonoured, Idle
<1>4. SettledInv
  BY DEF Init, SettledInv, KeepsFile, InCharge
<1>5. QED
  BY <1>1, <1>2, <1>3, <1>4 DEF LifecycleInv

-----------------------------------------------------------------------------
(* Types *)

\* The end of processes keeps the types.
LEMMA GoneTypes ==
    ASSUME TypeOK, NEW ps, Gone(ps), pidFile' \in Pids \cup {NoPid}
    PROVE  TypeOK'
BY DEF TypeOK, Gone, Idle

Steps == {"none", "reading", "testing", "removing", "writing", "spawning", "signalling",
          "creating", "binding", "serving", "cleanup"}

\* So does a step of one program counter.
LEMMA GoToTypes ==
    ASSUME TypeOK, NEW p \in Pids, NEW step \in Steps, GoTo(p, step),
           pidFile' \in Pids \cup {NoPid}
    PROVE  TypeOK'
BY DEF TypeOK, GoTo, Steps

LEMMA AfterCheckStep == \A p : AfterCheck(p) \in Steps
BY DEF AfterCheck, Steps

LEMMA CommandTypes ==
    ASSUME TypeOK, ProcessesFit, NEW p \in Pids, Command(p)
    PROVE  TypeOK'
<1> USE DEF TypeOK
<1>1. ASSUME NEW c \in {"serve", "background", "stop", "status"}, Run(p, c) PROVE TypeOK'
  BY <1>1 DEF Run
<1>2. CASE ReadFile(p)
  BY <1>2, GoneTypes, GoToTypes, AfterCheckStep DEF ReadFile
<1>3. CASE TestRunning(p)
  BY <1>3, GoneTypes DEF TestRunning, FoundStale
<1>4. CASE RemoveFile(p)
  BY <1>4, GoneTypes, GoToTypes, AfterCheckStep DEF RemoveFile
<1>5. CASE Spawn(p)
  BY <1>5 DEF Spawn
<1>6. CASE StopFails(p)
  BY <1>6, GoneTypes DEF StopFails
<1>7. CASE StopSignals(p)
  BY <1>7, ZenonT(60) DEF StopSignals, Signalled
<1>8. CASE StopKills(p)
  <2>1. found[p] \in Pids
    BY <1>8 DEF ProcessesFit, StopKills
  <2>2. QED
    BY <1>8, <2>1 DEF StopKills, Idle
<1>9. QED
  BY <1>1, <1>2, <1>3, <1>4, <1>5, <1>6, <1>7, <1>8 DEF Command

LEMMA ServeTypes ==
    ASSUME TypeOK, NEW p \in Pids, Serve(p)
    PROVE  TypeOK'
<1> USE DEF TypeOK
<1>1. CASE WritePID(p)
  BY <1>1 DEF WritePID
<1>2. CASE CreateServer(p)
  BY <1>2, GoToTypes DEF CreateServer, Steps
<1>3. CASE Listen(p)
  BY <1>3, GoToTypes DEF Listen, Steps
<1>4. CASE Cleanup(p)
  BY <1>4, GoneTypes DEF Cleanup
<1>5. CASE RequestStarts(p)
  <2>1. server[p].old \in 0..MaxActive /\ server[p].new \in 0..MaxActive
    OBVIOUS
  <2>2. server[p].old + 1 \in 0..MaxActive /\ server[p].new + 1 \in 0..MaxActive
    BY <1>5, <2>1 DEF RequestStarts, Active
  <2>3. QED
    BY <1>5, <2>2, SMTT(30) DEF RequestStarts
<1>6. CASE RequestEnds(p)
  BY <1>6, SMTT(30) DEF RequestEnds
<1>7. CASE BeginDrain(p) \/ Drained(p)
  BY <1>7, SMTT(30) DEF BeginDrain, Drained, Shutdown
<1>8. CASE DrainExpires(p)
  BY <1>8, ZenonT(60) DEF DrainExpires
<1>9. CASE CloseListener(p)
  BY <1>9 DEF CloseListener
<1>10. QED
  BY <1>1, <1>2, <1>3, <1>4, <1>5, <1>6, <1>7, <1>8, <1>9 DEF Serve

LEMMA TypesKept == TypeOK /\ ProcessesFit /\ [Next]_vars => TypeOK'
<1> SUFFICES ASSUME TypeOK, ProcessesFit, [Next]_vars PROVE TypeOK'
  OBVIOUS
<1>1. ASSUME NEW p \in Pids, Interrupt(p) PROVE TypeOK'
  BY <1>1 DEF TypeOK, Interrupt, Signalled
<1>2. ASSUME NEW p \in Pids, Dies(p) PROVE TypeOK'
  BY <1>2, GoneTypes DEF TypeOK, Dies
<1>3. CASE UNCHANGED vars
  BY <1>3 DEF TypeOK, vars
<1>4. QED
  BY <1>1, <1>2, <1>3, CommandTypes, ServeTypes DEF Next

-----------------------------------------------------------------------------
(* Processes and their program counters *)

LEMMA FitKept == LifecycleInv /\ [Next]_vars => ProcessesFit'
<1> SUFFICES ASSUME LifecycleInv, [Next]_vars PROVE ProcessesFit'
  OBVIOUS
<1> USE DEF LifecycleInv, TypeOK, ProcessesFit
<1>1. ASSUME NEW ps, Gone(ps) PROVE ProcessesFit'
  BY <1>1 DEF Gone
<1>2. ASSUME NEW p \in Pids, pc[p] # "none",
             NEW step \in Steps \ {"none", "testing", "signalling"}, GoTo(p, step)
      PROVE  ProcessesFit'
  BY <1>2 DEF GoTo
<1>3. \A p : AfterCheck(p) \in Steps \ {"none", "testing", "signalling"}
  BY DEF AfterCheck, Steps
<1>4. ASSUME NEW p \in Pids, Command(p) PROVE ProcessesFit'
  <2>1. ASSUME NEW c \in {"serve", "background", "stop", "status"}, Run(p, c)
        PROVE  ProcessesFit'
    BY <2>1 DEF Run
  <2>2. CASE ReadFile(p)
    BY <1>1, <1>2, <1>3, <2>2 DEF ReadFile
  <2>3. CASE TestRunning(p)
    BY <1>1, <2>3 DEF TestRunning, FoundStale
  <2>4. CASE RemoveFile(p)
    BY <1>1, <1>2, <1>3, <2>4 DEF RemoveFile
  <2>5. CASE Spawn(p)
    BY <2>5 DEF Spawn
  <2>6. CASE StopFails(p)
    BY <1>1, <2>6 DEF StopFails
  <2>7. CASE StopSignals(p)
    BY <2>7 DEF StopSignals
  <2>8. CASE StopKills(p)
    BY <2>8 DEF StopKills, IsProcessRunning
  <2>9. QED
    BY <1>4, <2>1, <2>2, <2>3, <2>4, <2>5, <2>6, <2>7, <2>8 DEF Command
<1>5. ASSUME NEW p \in Pids, Serve(p) PROVE ProcessesFit'
  <2>1. CASE WritePID(p)
    BY <2>1 DEF WritePID
  <2>2. CASE CreateServer(p)
    BY <1>2, <2>2 DEF CreateServer, Steps
  <2>3. CASE Listen(p)
    BY <1>2, <2>3 DEF Listen, Steps
  <2>4. CASE Cleanup(p)
    BY <1>1, <2>4 DEF Cleanup
  <2>5. CASE CloseListener(p)
    BY <2>5 DEF CloseListener
  <2>6. CASE UNCHANGED <<command, pc, found>>
    BY <2>6
  <2>7. QED
    BY <1>5, <2>1, <2>2, <2>3, <2>4, <2>5, <2>6
    DEF Serve, RequestStarts, RequestEnds, BeginDrain, Drained, DrainExpires, Shutdown
<1>6. ASSUME NEW p \in Pids, Interrupt(p) PROVE ProcessesFit'
  BY <1>6 DEF Interrupt
<1>7. ASSUME NEW p \in Pids, Dies(p) PROVE ProcessesFit'
  BY <1>1, <1>7 DEF Dies
<1>8. CASE UNCHANGED vars
  BY <1>8 DEF vars
<1>9. QED
  BY <1>4, <1>5, <1>6, <1>7, <1>8 DEF Next

-----------------------------------------------------------------------------
(* The drain *)

\* What the tracker and the shutdown goroutine of one server promise.
ServerDrains(p) ==
    /\ server[p].shutdown \in {"draining", "closing", "closed"} => server[p].signalled
    /\ server[p].shutdown \in {"closing", "closed"} /\ ~server[p].expired
           => server[p].old = 0

DrainInv == DrainsWhenSignalled /\ DrainHonoured

LEMMA DrainPerServer == DrainInv <=> \A p \in Pids : ServerDrains(p)
BY DEF DrainInv, DrainsWhenSignalled, DrainHonoured, ServerDrains

\* A step that changes one server at most.
LEMMA OneServerMoves ==
    ASSUME TypeOK, DrainInv, NEW p \in Pids, ServerDrains(p)',
           \A q \in Pids \ {p} : server'[q] = server[q]
    PROVE  DrainInv'
<1>1. \A q \in Pids : ServerDrains(q)'
  BY DrainPerServer DEF ServerDrains
<1>2. QED
  BY <1>1 DEF DrainInv, DrainsWhenSignalled, DrainHonoured, ServerDrains

LEMMA DrainKept == LifecycleInv /\ [Next]_vars => DrainInv'
<1> SUFFICES ASSUME LifecycleInv, [Next]_vars PROVE DrainInv'
  OBVIOUS
<1> USE DEF LifecycleInv, TypeOK
<1>0. DrainInv /\ \A p \in Pids : ServerDrains(p)
  BY DrainPerServer DEF DrainInv
<1>1. ASSUME NEW ps, Gone(ps) PROVE DrainInv'
  BY <1>0, <1>1 DEF Gone, Idle, DrainInv, DrainsWhenSignalled, DrainHonoured
<1>2. CASE UNCHANGED server
  BY <1>0, <1>2 DEF DrainInv, DrainsWhenSignalled, DrainHonoured
<1>3. ASSUME NEW p \in Pids, Signalled(p) PROVE DrainInv'
  BY <1>0, <1>3, OneServerMoves DEF Signalled, ServerDrains
<1>4. ASSUME NEW p \in Pids, Command(p) PROVE DrainInv'
  <2>1. CASE StopSignals(p)
    BY <1>3, <2>1 DEF StopSignals, ProcessesFit
  <2>2. CASE StopKills(p)
    <3>1. found[p] \in Pids /\ server'[found[p]] = Idle
      BY <2>2 DEF StopKills, ProcessesFit
    <3>2. QED
      BY <1>0, <2>2, <3>1, OneServerMoves DEF StopKills, ServerDrains, Idle
  <2>3. QED
    BY <1>1, <1>2, <1>4, <2>1, <2>2
    DEF Command, Run, ReadFile, TestRunning, FoundStale, RemoveFile, Spawn, StopFails, GoTo
<1>5. ASSUME NEW p \in Pids, Serve(p) PROVE DrainInv'
  <2> USE DEF ServerDrains
  <2>1. CASE CreateServer(p)
    BY <1>0, <1>2, <2>1, OneServerMoves DEF CreateServer, GoTo
  <2>2. CASE RequestStarts(p)
    BY <1>0, <2>2, OneServerMoves DEF RequestStarts
  <2>3. CASE RequestEnds(p)
    <3>1. server[p].old \in Nat /\ server[p].new \in Nat
      OBVIOUS
    <3>2. server'[p].old = server[p].old \/ server[p].old > 0
      BY <2>3 DEF RequestEnds
    <3>3. QED
      BY <1>0, <2>3, <3>1, <3>2, OneServerMoves, SMTT(30) DEF RequestEnds
  <2>4. CASE BeginDrain(p)
    BY <1>0, <2>4, OneServerMoves DEF BeginDrain, Shutdown
  <2>5. CASE Drained(p)
    <3>1. server[p].old = 0
      BY <2>5 DEF Drained, Active
    <3>2. QED
      BY <1>0, <2>5, <3>1, OneServerMoves DEF Drained, Shutdown
  <2>6. CASE DrainExpires(p)
    BY <1>0, <2>6, OneServerMoves DEF DrainExpires
  <2>7. CASE CloseListener(p)
    BY <1>0, <2>7, OneServerMoves DEF CloseListener
  <2>8. QED
    BY <1>1, <1>2, <1>5, <2>1, <2>2, <2>3, <2>4, <2>5, <2>6, <2>7
    DEF Serve, WritePID, Listen, Cleanup, GoTo
<1>6. ASSUME NEW p \in Pids, Interrupt(p) PROVE DrainInv'
  BY <1>3, <1>6 DEF Interrupt
<1>7. ASSUME NEW p \in Pids, Dies(p) PROVE DrainInv'
  BY <1>1, <1>7 DEF Dies
<1>8. CASE UNCHANGED vars
  BY <1>2, <1>8 DEF vars
<1>9. QED
  BY <1>4, <1>5, <1>6, <1>7, <1>8 DEF Next

-----------------------------------------------------------------------------
(* The PID file *)

\* Processes that end, none of them in charge of the file but perhaps p itself,
\* take nothing from p.
LEMMA GoneKeeps ==
    ASSUME TypeOK, NEW p \in Pids, KeepsFile(p), NEW ps, Gone(ps),
           p \in ps \/ pidFile' = pidFile
    PROVE  KeepsFile(p)'
BY DEF TypeOK, KeepsFile, InCharge, OthersHarmless, Gone, Idle

\* Nor does another process that goes from one harmless place to another.
LEMMA OtherMoves ==
    ASSUME TypeOK, NEW p \in Pids, KeepsFile(p), NEW q \in Pids \ {p},
           UNCHANGED <<pidFile, settled>>, pc'[p] = pc[p], server'[p] = server[p],
           \A o \in Pids \ {p, q} : pc'[o] = pc[o] /\ found'[o] = found[o],
           InCharge(p) => \/ pc'[q] \in {"none", "reading"}
                          \/ pc'[q] \in {"testing", "signalling"} /\ found'[q] = p
    PROVE  KeepsFile(p)'
BY DEF KeepsFile, InCharge, OthersHarmless

\* Nor does p's own step from one of its server's places to another.
LEMMA OwnMove ==
    ASSUME TypeOK, NEW p \in Pids, KeepsFile(p),
           UNCHANGED <<pidFile, found, settled>>,
           \A q \in Pids \ {p} : pc'[q] = pc[q],
           p \in settled => pc'[p] \in {"creating", "binding", "serving", "cleanup"},
           pc'[p] \in {"creating", "binding", "serving"}
               => pc[p] \in {"creating", "binding", "serving"},
           ~server'[p].signalled => ~server[p].signalled
    PROVE  KeepsFile(p)'
BY DEF KeepsFile, InCharge, OthersHarmless

\* A process that is not in charge does not come to be by what others do.
LEMMA NotInCharge ==
    ASSUME NEW p \in Pids, KeepsFile(p), ~InCharge(p),
           p \in settled' => /\ p \in settled
                             /\ pc'[p] = pc[p]
                             /\ server[p].signalled => server'[p].signalled
    PROVE  KeepsFile(p)'
BY DEF KeepsFile, InCharge

LEMMA Unsettled ==
    ASSUME NEW p \in Pids, p \notin settled'
    PROVE  KeepsFile(p)'
BY DEF KeepsFile, InCharge

LEMMA SettledByCommand ==
    ASSUME LifecycleInv, NEW p \in Pids, NEW q \in Pids, Command(q)
    PROVE  KeepsFile(p)'
<1>0. KeepsFile(p) /\ TypeOK /\ ProcessesFit
  BY DEF LifecycleInv, SettledInv
<1>1. settled' \subseteq settled
  BY DEF Command, Run, ReadFile, TestRunning, FoundStale, RemoveFile, Spawn, StopFails,
         StopSignals, StopKills, GoTo, Gone
<1>2. CASE p = q
  <2>1. pc[p] \notin {"creating", "binding", "serving", "cleanup"}
    BY <1>0, <1>2
    DEF ProcessesFit, Command, Run, ReadFile, TestRunning, RemoveFile, Spawn, StopFails,
        StopSignals, StopKills
  <2>2. QED
    BY <1>0, <1>1, <2>1, Unsettled DEF KeepsFile
<1>3. CASE p # q /\ ~InCharge(p)
  <2>1. ASSUME p \in settled'
        PROVE  /\ pc'[p] = pc[p]
               /\ server[p].signalled => server'[p].signalled
    <3>1. p \in settled /\ pc[p] # "none" /\ command[p] # "none"
      BY <1>0, <1>1, <2>1 DEF KeepsFile, ProcessesFit
    <3>2. QED
      BY <1>0, <1>3, <2>1, <3>1
      DEF TypeOK, Command, Run, ReadFile, TestRunning, FoundStale, RemoveFile, Spawn,
          StopFails, StopSignals, StopKills, GoTo, Gone, Signalled
  <2>2. QED
    BY <1>0, <1>1, <1>3, <2>1, NotInCharge
<1>4. CASE p # q /\ InCharge(p)
  <2> USE <1>0, <1>4
  <2>1. /\ pidFile = p
        /\ \/ pc[q] \in {"none", "reading"}
           \/ pc[q] \in {"testing", "signalling"} /\ found[q] = p
        /\ command[p] # "none"
    BY DEF KeepsFile, OthersHarmless, InCharge, ProcessesFit
  <2>2. ASSUME NEW c \in {"serve", "background", "stop", "status"}, Run(q, c)
        PROVE  KeepsFile(p)'
    BY <2>2, OtherMoves DEF Run, TypeOK
  <2>3. CASE ReadFile(q)
    BY <2>1, <2>3, OtherMoves DEF ReadFile, TypeOK
  <2>4. CASE TestRunning(q)
    BY <2>1, <2>4, GoneKeeps DEF TestRunning, IsProcessRunning
  <2>5. CASE StopFails(q)
    BY <2>5, GoneKeeps DEF StopFails
  <2>6. CASE StopSignals(q)
    BY <2>1, <2>6 DEF StopSignals, Signalled, TypeOK, KeepsFile, InCharge
  <2>7. CASE StopKills(q)
    BY <2>1, <2>7, Unsettled DEF StopKills
  <2>8. QED
    BY <1>0, <2>1, <2>2, <2>3, <2>4, <2>5, <2>6, <2>7
    DEF Command, RemoveFile, Spawn, ProcessesFit
<1>5. QED
  BY <1>2, <1>3, <1>4

\* Of a server's steps only the write of its PID puts it in charge.
LEMMA SettledByServe ==
    ASSUME LifecycleInv, NEW p \in Pids, NEW q \in Pids, Serve(q)
    PROVE  KeepsFile(p)'
<1>0. KeepsFile(p) /\ TypeOK /\ ProcessesFit
  BY DEF LifecycleInv, SettledInv
<1> USE <1>0
<1>1. CASE WritePID(q)
  <2>1. CASE p = q /\ p \in settled'
    <3>1. p \notin settled
      BY <1>1, <2>1 DEF WritePID, KeepsFile
    <3>2. \A o \in Pids \ {p} : command[o] = "none"
      BY <1>1, <2>1, <3>1 DEF WritePID
    <3>3. \A o \in Pids \ {p} : pc'[o] = "none"
      BY <1>1, <2>1, <3>2 DEF WritePID, TypeOK, ProcessesFit
    <3>4. QED
      BY <1>1, <2>1, <3>3 DEF WritePID, TypeOK, KeepsFile, OthersHarmless
  <2>2. CASE p # q
    <3>1. ~InCharge(p)
      BY <1>1, <2>2 DEF WritePID, KeepsFile, OthersHarmless
    <3>2. p \in settled' => p \in settled
      BY <1>1, <2>2 DEF WritePID
    <3>3. QED
      BY <1>1, <2>2, <3>1, <3>2, NotInCharge DEF WritePID, TypeOK
  <2>3. QED
    BY <2>1, <2>2, Unsettled
<1>2. CASE Cleanup(q)
  <2>1. CASE p = q
    BY <1>2, <2>1, GoneKeeps DEF Cleanup
  <2>2. CASE p # q
    <3>1. ~InCharge(p)
      BY <1>2, <2>2 DEF Cleanup, KeepsFile, OthersHarmless
    <3>2. QED
      BY <1>2, <2>2, <3>1, NotInCharge DEF Cleanup, Gone, TypeOK
  <2>3. QED
    BY <2>1, <2>2
<1>3. CASE p = q /\ ~WritePID(q) /\ ~Cleanup(q)
  <2>1. /\ UNCHANGED <<pidFile, found, settled>>
        /\ \A o \in Pids \ {p} : pc'[o] = pc[o]
    BY <1>3 DEF Serve, TypeOK, CreateServer, Listen, RequestStarts, RequestEnds, BeginDrain,
                Drained, DrainExpires, CloseListener, Shutdown, GoTo
  <2>2. pc'[p] = pc[p] \/ ( /\ pc[p] \in {"creating", "binding", "serving"}
                            /\ pc'[p] \in {"binding", "serving", "cleanup"} )
    BY <1>3 DEF Serve, TypeOK, CreateServer, Listen, RequestStarts, RequestEnds, BeginDrain,
                Drained, DrainExpires, CloseListener, Shutdown, GoTo
  <2>3. server'[p].signalled = server[p].signalled
    BY <1>3 DEF Serve, TypeOK, CreateServer, Listen, RequestStarts, RequestEnds, BeginDrain,
                Drained, DrainExpires, CloseListener, Shutdown, GoTo
  <2>4. QED
    BY <2>1, <2>2, <2>3, OwnMove DEF KeepsFile
<1>4. CASE p # q /\ ~WritePID(q) /\ ~Cleanup(q)
  <2>1. /\ UNCHANGED <<pidFile, found, settled>>
        /\ pc'[p] = pc[p] /\ server'[p] = server[p]
        /\ \A o \in Pids \ {p, q} : pc'[o] = pc[o]
        /\ pc'[q] = pc[q] \/ pc[q] \in {"creating", "binding", "serving"}
    BY <1>4 DEF Serve, TypeOK, CreateServer, Listen, RequestStarts, RequestEnds, BeginDrain,
                Drained, DrainExpires, CloseListener, Shutdown, GoTo
  <2>2. QED
    BY <1>4, <2>1, OtherMoves DEF KeepsFile, OthersHarmless
<1>5. QED
  BY <1>1, <1>2, <1>3, <1>4

LEMMA SettledKept == LifecycleInv /\ [Next]_vars => SettledInv'
<1> SUFFICES ASSUME LifecycleInv, [Next]_vars, NEW p \in Pids PROVE KeepsFile(p)'
  BY DEF SettledInv
<1>0. KeepsFile(p) /\ TypeOK
  BY DEF LifecycleInv, SettledInv
<1>1. ASSUME NEW q \in Pids, Interrupt(q) PROVE KeepsFile(p)'
  BY <1>0, <1>1 DEF Interrupt, Signalled, TypeOK, KeepsFile, InCharge, OthersHarmless
<1>2. ASSUME NEW q \in Pids, Dies(q) PROVE KeepsFile(p)'
  BY <1>0, <1>2, GoneKeeps DEF Dies
<1>3. CASE UNCHANGED vars
  BY <1>0, <1>3 DEF vars, KeepsFile, InCharge, OthersHarmless
<1>4. QED
  BY <1>1, <1>2, <1>3, SettledByCommand, SettledByServe DEF Next

-----------------------------------------------------------------------------

\* No step of any process leaves the invariant.
THEOREM LifecycleInvariant == Spec => []LifecycleInv
<1>1. LifecycleInv /\ [Next]_vars => LifecycleInv'
  BY TypesKept, FitKept, DrainKept, SettledKept DEF LifecycleInv, DrainInv
<1>2. QED
  BY LifecycleInit, <1>1, PTL DEF Spec

(***************************************************************************)
(* Every variable keeps its type; in particular no request is counted      *)
(* twice as it ends (server.go, InFlightTracker.Track): the tracker's      *)
(* count never falls below zero.                                           *)
(***************************************************************************)
THEOREM LifecycleTypes == Spec => []TypeOK
<1>1. LifecycleInv => TypeOK
  BY DEF LifecycleInv
<1>2. QED
  BY <1>1, LifecycleInvariant, PTL

(***************************************************************************)
(* A server that was told to stop answers the requests it had, or its 15   *)
(* seconds pass (server.go:123-142), for any number of requests.           *)
(***************************************************************************)
THEOREM DrainIsHonoured == Spec => []DrainHonoured
<1>1. LifecycleInv => DrainHonoured
  BY DEF LifecycleInv
<1>2. QED
  BY <1>1, LifecycleInvariant, PTL

(***************************************************************************)
(* A server whose PID was written while nothing else ran keeps the file    *)
(* until it is told to stop (main.go:88-98, 205-208), for any number of    *)
(* commands and processes, and PIDs used again.                            *)
(***************************************************************************)
THEOREM SettledServersKeepFile == Spec => []SettledServerKeepsFile
<1>1. LifecycleInv => SettledServerKeepsFile
  BY DEF LifecycleInv, SettledInv, KeepsFile, InCharge, TypeOK, SettledServerKeepsFile
<1>2. QED
  BY <1>1, LifecycleInvariant, PTL
=============================================================================
