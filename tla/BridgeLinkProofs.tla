-------------------------- MODULE BridgeLinkProofs --------------------------
(***************************************************************************)
(* BridgeLink, for any number of connections, requests and deaths: one     *)
(* connection serves the browser, no lease outlives the link and the claim *)
(* that granted it, and the extension fails closed.                        *)
(***************************************************************************)
EXTENDS BridgeLink, TLAPS

\* A connection the host has not dialed yet is new to the daemon.
NewConn ==
  \A c \in Conns : host[c] = "started" =>
    /\ peer[c] = "none" /\ hello[c] = "sent"
    /\ c \notin byPeer /\ c \notin {inst, on}

\* An open connection that stands for the browser, or that a request waits on, has
\* registered the browser: an answer over it finds the browser registered.
Registered ==
  \A c \in byPeer \cup {inst, on} : c # None /\ peer[c] = "serving" => c \in byPeer

\* What the daemon needs to keep OneLink and LeaseHasLink.
DaemonInv ==
  /\ ConnType
  /\ TaskType
  /\ NewConn
  /\ Registered
  /\ OneLink
  /\ LeaseHasLink

\* A dead worker has no handlers.
HandlersLive ==
  \A c \in Conns : ext[c] \in Handling => mode \notin {"dead", "initializing"}

\* What is claimed is stored.  What is attached in good order is in #states until the
\* worker fails closed or dies, and then in the store, where the next worker finds it.
Traces ==
  /\ claim => stored /\ mode \in {"connected", "ready", "abandoned"}
  /\ stored => mode \in {"connected", "ready", "abandoned", "dead", "initializing"}
  /\ attached /\ ~stray =>
       \/ known /\ mode \in {"connected", "ready", "abandoned", "closing"}
       \/ stored /\ mode \in {"dead", "initializing"}

\* What the extension needs to keep FailsClosed.
ExtensionInv ==
  /\ WorkerType
  /\ ext \in [Conns -> Exts]
  /\ HandlersLive
  /\ Traces

-----------------------------------------------------------------------------

\* The daemon's invariant holds when nothing is connected yet.
LEMMA InitDaemonInv == Init => DaemonInv
<1> SUFFICES ASSUME Init PROVE DaemonInv
  OBVIOUS
<1>1. ConnType
  BY DEF Init, ConnType, Hosts, Hellos, Peers
<1>2. TaskType
  BY DEF Init, TaskType, Exts, Leases, Tasks
<1>3. NewConn /\ Registered
  BY DEF Init, NewConn, Registered
<1>4. OneLink
  BY DEF Init, OneLink
<1>5. LeaseHasLink
  BY DEF Init, LeaseHasLink
<1> QED
  BY <1>1, <1>2, <1>3, <1>4, <1>5 DEF DaemonInv

\* Every step keeps it: connecting, registering, claiming, tearing down, dying.
LEMMA NextDaemonInv == DaemonInv /\ [Next]_vars => DaemonInv'
<1> SUFFICES ASSUME DaemonInv, [Next]_vars PROVE DaemonInv'
  OBVIOUS
<1> USE LinkAssumption
    DEF DaemonInv, ConnType, TaskType, NewConn, Registered, OneLink, LeaseHasLink,
        Hosts, Hellos, Peers, Leases, Tasks, Exts, InFlight, Handling,
        workerVars, tabVars, connVars, peerVars, taskVars, daemonVars, counters, linkVars
<1>1. ASSUME NEW c \in Conns, Connect(c) PROVE DaemonInv'
  BY <1>1 DEF Connect, Unused, InFlight
<1>2. ASSUME NEW c \in Conns, HelloAccepted(c) PROVE DaemonInv'
  BY <1>2 DEF HelloAccepted
<1>3. ASSUME NEW c \in Conns, HelloFails(c) PROVE DaemonInv'
  BY <1>3 DEF HelloFails
<1>4. ASSUME NEW c \in Conns, OnDisconnect(c) PROVE DaemonInv'
  BY <1>4 DEF OnDisconnect
<1>5. ASSUME NEW c \in Conns, HostDials(c) PROVE DaemonInv'
  BY <1>5 DEF HostDials
<1>6. ASSUME NEW c \in Conns, HostAuthenticates(c) PROVE DaemonInv'
  BY <1>6 DEF HostAuthenticates
<1>7. ASSUME NEW c \in Conns, HostEnds(c) PROVE DaemonInv'
  BY <1>7 DEF HostEnds
<1>8. ASSUME NEW c \in Conns, HelloChecked(c) PROVE DaemonInv'
  BY <1>8 DEF HelloChecked
<1>9. ASSUME NEW c \in Conns, Register(c) PROVE DaemonInv'
  BY <1>9 DEF Register
<1>10. ASSUME NEW c \in Conns, RegisterRefuses(c) PROVE DaemonInv'
  BY <1>10 DEF RegisterRefuses
<1>11. ASSUME NEW c \in Conns, ServeReturns(c) PROVE DaemonInv'
  BY <1>11 DEF ServeReturns
<1>12. ASSUME NEW c \in Conns, Disconnect(c) PROVE DaemonInv'
  BY <1>12 DEF Disconnect
<1>13. ASSUME NEW c \in Conns, RevokeBrowser(c) PROVE DaemonInv'
  BY <1>13 DEF RevokeBrowser
<1>14. ASSUME NEW c \in Conns, StopIfLast(c) PROVE DaemonInv'
  BY <1>14 DEF StopIfLast
<1>15. ASSUME NEW c \in Conns, HostDies(c) PROVE DaemonInv'
  BY <1>15 DEF HostDies, Trouble
<1>16. ASSUME NEW c \in Conns, ReceiveClaim(c) PROVE DaemonInv'
  BY <1>16 DEF ReceiveClaim, Reaches, Becomes
<1>17. ASSUME NEW c \in Conns, AttachStart(c) PROVE DaemonInv'
  BY <1>17 DEF AttachStart, Becomes
<1>18. ASSUME NEW c \in Conns, Attach(c) PROVE DaemonInv'
  BY <1>18 DEF Attach, Becomes
<1>19. ASSUME NEW c \in Conns, AttachFails(c) PROVE DaemonInv'
  BY <1>19 DEF AttachFails, Becomes
<1>20. ASSUME NEW c \in Conns, Install(c) PROVE DaemonInv'
  BY <1>20 DEF Install, Becomes, Detach
<1>21. ASSUME NEW c \in Conns, Unclaim(c) PROVE DaemonInv'
  BY <1>21 DEF Unclaim, Becomes
<1>22. ASSUME NEW c \in Conns, Undo(c) PROVE DaemonInv'
  BY <1>22 DEF Undo, Becomes, Detach
<1>23. ASSUME NEW c \in Conns, ReceiveRelease(c) PROVE DaemonInv'
  BY <1>23 DEF ReceiveRelease, Reaches, Becomes, Detach
<1>24. ASSUME NEW c \in Conns, FinishRelease(c) PROVE DaemonInv'
  BY <1>24 DEF FinishRelease, Becomes
<1>25. ASSUME NEW c \in Conns, Answer(c) PROVE DaemonInv'
  BY <1>25 DEF Answer, Reaches, Becomes, Rejected
<1>26. CASE TabClaim
  BY <1>26 DEF TabClaim
<1>27. CASE TabRelease
  BY <1>27 DEF TabRelease
<1>28. CASE BindLeaseBrowser
  BY <1>28 DEF BindLeaseBrowser
<1>29. CASE CallBridge
  BY <1>29 DEF CallBridge, Rejected
<1>30. CASE BridgeError
  BY <1>30 DEF BridgeError, Rejected
<1>31. CASE Initialize
  BY <1>31 DEF Initialize
<1>32. CASE FailClosed
  BY <1>32 DEF FailClosed, DetachAll
<1>33. CASE WorkerStarts
  BY <1>33 DEF WorkerStarts
<1>34. CASE DaemonStarts
  BY <1>34 DEF DaemonStarts
<1>35. CASE WorkerDies
  BY <1>35 DEF WorkerDies, Trouble
<1>36. CASE DaemonDies
  BY <1>36 DEF DaemonDies, Trouble
<1>37. CASE UNCHANGED vars
  BY <1>37 DEF vars
<1> QED
  BY <1>1, <1>2, <1>3, <1>4, <1>5, <1>6, <1>7, <1>8, <1>9, <1>10, <1>11, <1>12,
     <1>13, <1>14, <1>15, <1>16, <1>17, <1>18, <1>19, <1>20, <1>21, <1>22, <1>23, <1>24,
     <1>25, <1>26, <1>27, <1>28, <1>29, <1>30, <1>31, <1>32, <1>33, <1>34, <1>35, <1>36,
     <1>37
  DEF Next, ConnStep, HandlerStep, TaskStep, Progress

\* The daemon's invariant holds throughout (acceptLoop, Registry, tabClaim).
LEMMA DaemonInvariance == Spec => []DaemonInv
BY InitDaemonInv, NextDaemonInv, PTL DEF Spec

\* At most one open connection serves the browser (Registry.Register).
THEOREM OneLinkSafety == Spec => []OneLink
<1>1. DaemonInv => OneLink
  BY DEF DaemonInv
<1> QED
  BY <1>1, DaemonInvariance, PTL

\* A lease has a registered browser, a teardown that will revoke it, or the tab.claim
\* that granted it (acceptLoop, Registry.Disconnect, tabClaim).
THEOREM LeaseSafety == Spec => []LeaseHasLink
<1>1. DaemonInv => LeaseHasLink
  BY DEF DaemonInv
<1> QED
  BY <1>1, DaemonInvariance, PTL

-----------------------------------------------------------------------------

\* A first worker has left no traces.
LEMMA InitExtensionInv == Init => ExtensionInv
BY LinkAssumption
DEF Init, ExtensionInv, WorkerType, HandlersLive, Traces, Modes, Exts, InFlight, Handling

\* Every step keeps what is claimed, attached and stored in line, the steps of
\* handlers that have outlived their connection included.
LEMMA NextExtensionInv == ExtensionInv /\ [Next]_vars => ExtensionInv'
<1> SUFFICES ASSUME ExtensionInv, [Next]_vars PROVE ExtensionInv'
  OBVIOUS
<1> USE LinkAssumption
    DEF ExtensionInv, WorkerType, HandlersLive, Traces, Modes, Exts, InFlight, Handling,
        workerVars, tabVars, connVars, peerVars, taskVars, daemonVars, counters, linkVars
<1>1. ASSUME NEW c \in Conns, Connect(c) PROVE ExtensionInv'
  BY <1>1 DEF Connect, Unused, InFlight
<1>2. ASSUME NEW c \in Conns, HelloAccepted(c) PROVE ExtensionInv'
  BY <1>2 DEF HelloAccepted
<1>3. ASSUME NEW c \in Conns, HelloFails(c) PROVE ExtensionInv'
  BY <1>3 DEF HelloFails
<1>4. ASSUME NEW c \in Conns, OnDisconnect(c) PROVE ExtensionInv'
  BY <1>4 DEF OnDisconnect
<1>5. ASSUME NEW c \in Conns, HostDials(c) PROVE ExtensionInv'
  BY <1>5 DEF HostDials
<1>6. ASSUME NEW c \in Conns, HostAuthenticates(c) PROVE ExtensionInv'
  BY <1>6 DEF HostAuthenticates
<1>7. ASSUME NEW c \in Conns, HostEnds(c) PROVE ExtensionInv'
  BY <1>7 DEF HostEnds
<1>8. ASSUME NEW c \in Conns, HelloChecked(c) PROVE ExtensionInv'
  BY <1>8 DEF HelloChecked
<1>9. ASSUME NEW c \in Conns, Register(c) PROVE ExtensionInv'
  BY <1>9 DEF Register
<1>10. ASSUME NEW c \in Conns, RegisterRefuses(c) PROVE ExtensionInv'
  BY <1>10 DEF RegisterRefuses
<1>11. ASSUME NEW c \in Conns, ServeReturns(c) PROVE ExtensionInv'
  BY <1>11 DEF ServeReturns
<1>12. ASSUME NEW c \in Conns, Disconnect(c) PROVE ExtensionInv'
  BY <1>12 DEF Disconnect
<1>13. ASSUME NEW c \in Conns, RevokeBrowser(c) PROVE ExtensionInv'
  BY <1>13 DEF RevokeBrowser
<1>14. ASSUME NEW c \in Conns, StopIfLast(c) PROVE ExtensionInv'
  BY <1>14 DEF StopIfLast
<1>15. ASSUME NEW c \in Conns, HostDies(c) PROVE ExtensionInv'
  BY <1>15 DEF HostDies, Trouble
<1>16. ASSUME NEW c \in Conns, ReceiveClaim(c) PROVE ExtensionInv'
  BY <1>16 DEF ReceiveClaim, Reaches, Becomes
<1>17. ASSUME NEW c \in Conns, AttachStart(c) PROVE ExtensionInv'
  BY <1>17 DEF AttachStart, Becomes
<1>18. ASSUME NEW c \in Conns, Attach(c) PROVE ExtensionInv'
  BY <1>18 DEF Attach, Becomes
<1>19. ASSUME NEW c \in Conns, AttachFails(c) PROVE ExtensionInv'
  BY <1>19 DEF AttachFails, Becomes
<1>20. ASSUME NEW c \in Conns, Install(c) PROVE ExtensionInv'
  BY <1>20 DEF Install, Becomes, Detach
<1>21. ASSUME NEW c \in Conns, Unclaim(c) PROVE ExtensionInv'
  BY <1>21 DEF Unclaim, Becomes
<1>22. ASSUME NEW c \in Conns, Undo(c) PROVE ExtensionInv'
  BY <1>22 DEF Undo, Becomes, Detach
<1>23. ASSUME NEW c \in Conns, ReceiveRelease(c) PROVE ExtensionInv'
  BY <1>23 DEF ReceiveRelease, Reaches, Becomes, Detach
<1>24. ASSUME NEW c \in Conns, FinishRelease(c) PROVE ExtensionInv'
  BY <1>24 DEF FinishRelease, Becomes
<1>25. ASSUME NEW c \in Conns, Answer(c) PROVE ExtensionInv'
  BY <1>25 DEF Answer, Reaches, Becomes, Rejected
<1>26. CASE TabClaim
  BY <1>26 DEF TabClaim
<1>27. CASE TabRelease
  BY <1>27 DEF TabRelease
<1>28. CASE BindLeaseBrowser
  BY <1>28 DEF BindLeaseBrowser
<1>29. CASE CallBridge
  BY <1>29 DEF CallBridge, Rejected
<1>30. CASE BridgeError
  BY <1>30 DEF BridgeError, Rejected
<1>31. CASE Initialize
  BY <1>31 DEF Initialize
<1>32. CASE FailClosed
  BY <1>32 DEF FailClosed, DetachAll
<1>33. CASE WorkerStarts
  BY <1>33 DEF WorkerStarts
<1>34. CASE DaemonStarts
  BY <1>34 DEF DaemonStarts
<1>35. CASE WorkerDies
  BY <1>35 DEF WorkerDies, Trouble
<1>36. CASE DaemonDies
  BY <1>36 DEF DaemonDies, Trouble
<1>37. CASE UNCHANGED vars
  BY <1>37 DEF vars
<1> QED
  BY <1>1, <1>2, <1>3, <1>4, <1>5, <1>6, <1>7, <1>8, <1>9, <1>10, <1>11, <1>12,
     <1>13, <1>14, <1>15, <1>16, <1>17, <1>18, <1>19, <1>20, <1>21, <1>22, <1>23, <1>24,
     <1>25, <1>26, <1>27, <1>28, <1>29, <1>30, <1>31, <1>32, <1>33, <1>34, <1>35, <1>36,
     <1>37
  DEF Next, ConnStep, HandlerStep, TaskStep, Progress

\* The extension's invariant holds throughout (NativeBridge, TabRegistry, #tabClaim).
LEMMA ExtensionInvariance == Spec => []ExtensionInv
BY InitExtensionInv, NextExtensionInv, PTL DEF Spec

\* An extension about to connect has no claim, and the debugger is attached only if a
\* tab.claim outlived its connection or a worker died before the claim was stored or
\* after it was dropped (stopAll, TabRegistry.initialize, #tabClaim).
THEOREM FailClosedSafety == Spec => []FailsClosed
<1>1. ExtensionInv => FailsClosed
  BY DEF ExtensionInv, Traces, FailsClosed
<1> QED
  BY <1>1, ExtensionInvariance, PTL

-----------------------------------------------------------------------------

\* Deaths and requests are counted up to their bounds.
CountType == troubles \in 0 .. MaxTroubles /\ calls \in 0 .. MaxCalls

\* Every step keeps the counters within their bounds.
LEMMA NextCountType == CountType /\ [Next]_vars => CountType'
<1> SUFFICES ASSUME CountType, [Next]_vars PROVE CountType'
  OBVIOUS
<1> USE LinkAssumption DEF CountType, workerVars, tabVars, connVars, peerVars, taskVars,
      daemonVars, counters, linkVars
<1>1. ASSUME NEW c \in Conns,
             \/ Connect(c) \/ HelloAccepted(c) \/ HelloFails(c) \/ OnDisconnect(c)
             \/ HostDials(c) \/ HostAuthenticates(c) \/ HostEnds(c)
      PROVE  CountType'
  BY <1>1 DEF Connect, Unused, InFlight, HelloAccepted, HelloFails, OnDisconnect,
        HostDials, HostAuthenticates, HostEnds
<1>2. ASSUME NEW c \in Conns,
             \/ HelloChecked(c) \/ Register(c) \/ RegisterRefuses(c) \/ ServeReturns(c)
             \/ Disconnect(c) \/ RevokeBrowser(c) \/ StopIfLast(c) \/ HostDies(c)
      PROVE  CountType'
  BY <1>2 DEF HelloChecked, Register, RegisterRefuses, ServeReturns, Disconnect,
        RevokeBrowser, StopIfLast, HostDies, Trouble
<1>3. ASSUME NEW c \in Conns,
             \/ ReceiveClaim(c) \/ AttachStart(c) \/ Attach(c) \/ AttachFails(c)
             \/ Install(c)
      PROVE  CountType'
  BY <1>3 DEF ReceiveClaim, Reaches, Becomes, AttachStart, Attach, AttachFails, Install,
        Detach
<1>4. ASSUME NEW c \in Conns,
             \/ Unclaim(c) \/ Undo(c) \/ ReceiveRelease(c) \/ FinishRelease(c)
             \/ Answer(c)
      PROVE  CountType'
  BY <1>4 DEF Unclaim, Becomes, Undo, Detach, ReceiveRelease, Reaches, FinishRelease,
        Answer, Rejected
<1>5. CASE TabClaim \/ TabRelease
  BY <1>5 DEF TabClaim, TabRelease
<1>6. CASE TaskStep
  BY <1>6 DEF TaskStep, BindLeaseBrowser, CallBridge, BridgeError, Rejected
<1>7. CASE Progress
  BY <1>7 DEF Progress, Initialize, FailClosed, DetachAll, WorkerStarts, DaemonStarts
<1>8. CASE WorkerDies \/ DaemonDies
  BY <1>8 DEF WorkerDies, DaemonDies, Trouble
<1>9. CASE UNCHANGED vars
  BY <1>9 DEF vars
<1> QED
  BY <1>1, <1>2, <1>3, <1>4, <1>5, <1>6, <1>7, <1>8, <1>9 DEF Next, ConnStep, HandlerStep

\* A flag is set or cleared by whoever touches it.
LEMMA NextFlagType == FlagType /\ [Next]_vars => FlagType'
<1> SUFFICES ASSUME FlagType, [Next]_vars PROVE FlagType'
  OBVIOUS
<1> USE DEF FlagType, workerVars, tabVars, connVars, peerVars, taskVars, daemonVars,
      counters, linkVars
<1>1. ASSUME NEW c \in Conns,
             \/ Connect(c) \/ HelloAccepted(c) \/ HelloFails(c) \/ OnDisconnect(c)
             \/ HostDials(c) \/ HostAuthenticates(c) \/ HostEnds(c)
      PROVE  FlagType'
  BY <1>1 DEF Connect, Unused, InFlight, HelloAccepted, HelloFails, OnDisconnect,
        HostDials, HostAuthenticates, HostEnds
<1>2. ASSUME NEW c \in Conns,
             \/ HelloChecked(c) \/ Register(c) \/ RegisterRefuses(c) \/ ServeReturns(c)
             \/ Disconnect(c) \/ RevokeBrowser(c) \/ StopIfLast(c) \/ HostDies(c)
      PROVE  FlagType'
  BY <1>2 DEF HelloChecked, Register, RegisterRefuses, ServeReturns, Disconnect,
        RevokeBrowser, StopIfLast, HostDies, Trouble
<1>3. ASSUME NEW c \in Conns,
             \/ ReceiveClaim(c) \/ AttachStart(c) \/ Attach(c) \/ AttachFails(c)
             \/ Install(c)
      PROVE  FlagType'
  BY <1>3 DEF ReceiveClaim, Reaches, Becomes, AttachStart, Attach, AttachFails, Install,
        Detach
<1>4. ASSUME NEW c \in Conns,
             \/ Unclaim(c) \/ Undo(c) \/ ReceiveRelease(c) \/ FinishRelease(c)
             \/ Answer(c)
      PROVE  FlagType'
  BY <1>4 DEF Unclaim, Becomes, Undo, Detach, ReceiveRelease, Reaches, FinishRelease,
        Answer, Rejected
<1>5. CASE TabClaim \/ TabRelease
  BY <1>5 DEF TabClaim, TabRelease
<1>6. CASE TaskStep
  BY <1>6 DEF TaskStep, BindLeaseBrowser, CallBridge, BridgeError, Rejected
<1>7. CASE Progress
  BY <1>7 DEF Progress, Initialize, FailClosed, DetachAll, WorkerStarts, DaemonStarts
<1>8. CASE WorkerDies \/ DaemonDies
  BY <1>8 DEF WorkerDies, DaemonDies, Trouble
<1>9. CASE UNCHANGED vars
  BY <1>9 DEF vars
<1> QED
  BY <1>1, <1>2, <1>3, <1>4, <1>5, <1>6, <1>7, <1>8, <1>9 DEF Next, ConnStep, HandlerStep

\* The port is set exactly while the bridge has one, connected or not
\* (NativeBridge #port), every connection is in a state of the protocol, and a lease
\* is unbound only while tabClaim has yet to bind it.
THEOREM TypeCorrect == Spec => []TypeOK
<1>1. Init => CountType
  BY LinkAssumption DEF Init, CountType
<1>2. Init => FlagType
  BY Zenon DEF Init, FlagType
<1>3. Spec => []CountType
  BY <1>1, NextCountType, PTL DEF Spec
<1>4. Spec => []FlagType
  BY <1>2, NextFlagType, PTL DEF Spec
<1>5. CountType /\ FlagType /\ DaemonInv /\ ExtensionInv => TypeOK
  BY DEF CountType, DaemonInv, ExtensionInv, TypeOK
<1> QED
  BY <1>3, <1>4, <1>5, DaemonInvariance, ExtensionInvariance, PTL

=============================================================================
