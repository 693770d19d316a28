----------------------------- MODULE BridgeLink -----------------------------
(***************************************************************************)
(* The link between one browser's extension and the daemon: the extension's*)
(* NativeBridge and its port, the native host that Chrome starts for each  *)
(* port, the daemon's bridge connections (a Peer each) and its Registry.   *)
(* Any of them may die; the others find out at their own pace, the         *)
(* extension fails closed and reconnects, and the daemon tears the lost    *)
(* connection down in steps that a new connection may overtake.            *)
(*                                                                         *)
(* A connection is a port with its host process and its peer.  Its name is *)
(* used again when nobody remembers it.                                    *)
(*                                                                         *)
(* Over the link the daemon claims and releases one tab.  The handlers at  *)
(* both ends go step by step, so that the link can be lost, torn down or   *)
(* made again between any two of them; the extension's handlers outlive    *)
(* their connection.  The daemon has one such request at a time and        *)
(* sessions are not told apart: requests that overlap, takeovers and the   *)
(* expiry of leases are in TabControl, answers that reach the wrong        *)
(* connection in BridgeRpc.                                                *)
(***************************************************************************)
EXTENDS Naturals

CONSTANTS
  Conns,
  MaxTroubles,  \* processes that die
  MaxCalls,     \* tab.claim and tab.release requests
  Hazards,      \* see below
  None

\* helloFails: bridge.hello may be refused or time out
ASSUME LinkAssumption ==
  /\ Hazards \subseteq {"helloFails"}
  /\ MaxTroubles \in Nat /\ MaxCalls \in Nat
  /\ None \notin Conns

VARIABLES
  mode,      \* what the service worker is up to
  port,      \* #port
  claim,     \* the tab is claimed (TabRegistry)
  known,     \* DebuggerManager has it in #states
  attached,  \* Chrome's debugger is attached to it
  stored,    \* claimedChromeTabIds in chrome.storage.session
  stray,     \* history: attached for a connection that was gone, or by a worker
             \* that died and had not stored the claim
  ext,       \* the extension's handler of a request made over each connection
  host,      \* the native host process of each connection
  hello,     \* how far bridge.hello has come
  up,        \* the daemon runs
  peer,      \* the daemon's goroutine for each connection
  auth,      \* bridgeAuth
  byPeer,    \* the peers that have registered the browser
  inst,      \* instances: the peer the browser is registered for
  lease,     \* Manager's lease on the tab
  task,      \* the daemon's handler of a tab.claim or tab.release
  on,        \* the connection whose answer it waits for
  troubles,  \* processes that have died
  calls      \* requests so far

workerVars == <<mode, port>>
tabVars == <<claim, known, attached, stored, stray>>
connVars == <<host, hello>>
peerVars == <<up, peer, auth, byPeer, inst>>
taskVars == <<lease, task, on>>
daemonVars == <<peerVars, taskVars>>
counters == <<troubles, calls>>
vars == <<workerVars, tabVars, ext, connVars, daemonVars, counters>>

\* The worker dies or runs: it initializes, waits to call #connect, has a port,
\* has its hello accepted, fails closed after losing the port, or has
\* disconnected the port itself.
Modes == {"dead", "initializing", "waiting", "connected", "ready", "closing", "abandoned"}
Hosts == {"none", "started", "dialed", "relaying", "gone"}
Hellos == {"none", "sent", "checked", "accepted", "refused"}
Peers == {"none", "serving", "closed", "forgotten", "revoking", "stopping"}

\* A lease is granted first and bound to the browser next.
Leases == {"none", "unbound", "bound"}
Tasks == {"none", "granted", "claiming", "releasing"}

\* A request is on its way, at one of the awaits of its handler, or decided.
InFlight == {"claim", "release"}
Handling == {"claimed", "attaching", "installing", "failed", "undoing", "releasing"}
Exts == {"none", "ok", "error"} \cup InFlight \cup Handling

Init ==
  /\ mode = "initializing" /\ port = None
  /\ claim = FALSE /\ known = FALSE /\ attached = FALSE
  /\ stored = FALSE /\ stray = FALSE
  /\ ext = [c \in Conns |-> "none"]
  /\ host = [c \in Conns |-> "none"]
  /\ hello = [c \in Conns |-> "none"]
  /\ up = TRUE
  /\ peer = [c \in Conns |-> "none"]
  /\ auth = {} /\ byPeer = {} /\ inst = None
  /\ lease = "none" /\ task = "none" /\ on = None
  /\ troubles = 0 /\ calls = 0

-----------------------------------------------------------------------------
(* The extension.                                                          *)

\* TabRegistry.initialize undoes what the last worker left behind, then start.
Initialize ==
  /\ mode = "initializing"
  /\ mode' = "waiting"
  /\ attached' = (attached /\ ~stored)
  /\ stored' = FALSE
  /\ stray' = (stray /\ ~stored)
  /\ UNCHANGED <<port, claim, known, ext, connVars, daemonVars, counters>>

\* Nobody remembers the connection c.
Unused(c) ==
  /\ host[c] \in {"none", "gone"} /\ peer[c] = "none" /\ hello[c] # "checked"
  /\ ext[c] \in {"none"} \cup InFlight
  /\ c \notin {port, inst, on}

\* #connect: the port, the host behind it, and the hello on its way.  If
\* connectNative throws, #scheduleReconnect leaves everything as it is.  Which
\* unused name the connection gets makes no difference.
Connect(c) ==
  /\ mode = "waiting"
  /\ Unused(c) /\ c = CHOOSE d \in Conns : Unused(d)
  /\ mode' = "connected"
  /\ port' = c
  /\ host' = [host EXCEPT ![c] = "started"]
  /\ hello' = [hello EXCEPT ![c] = "sent"]
  /\ ext' = [ext EXCEPT ![c] = "none"]
  /\ byPeer' = byPeer \ {c}
  /\ UNCHANGED <<tabVars, up, peer, auth, inst, taskVars, counters>>

HelloAccepted(c) ==
  /\ mode = "connected" /\ port = c
  /\ host[c] = "relaying" /\ hello[c] = "accepted"
  /\ mode' = "ready"
  /\ UNCHANGED <<port, tabVars, ext, connVars, daemonVars, counters>>

\* The hello is refused, or its timer fires first.  port.disconnect() is seen by
\* the host; Chrome does not call onDisconnect at the end that disconnects.
HelloFails(c) ==
  /\ "helloFails" \in Hazards
  /\ mode = "connected" /\ port = c
  /\ mode' = "abandoned"
  /\ UNCHANGED <<port, tabVars, ext, connVars, daemonVars, counters>>

\* Faulty: the port is not forgotten.
OnDisconnectKeepsPort(c) ==
  /\ mode \in {"connected", "ready"} /\ port = c /\ host[c] = "gone"
  /\ mode' = "closing"
  /\ claim' = FALSE /\ stored' = FALSE
  /\ UNCHANGED <<port, known, attached, stray, ext, connVars, daemonVars, counters>>

\* #onDisconnect up to the first await of stopAll: claims are dropped.
OnDisconnect(c) ==
  /\ mode \in {"connected", "ready"} /\ port = c /\ host[c] = "gone"
  /\ port' = None
  /\ mode' = "closing"
  /\ claim' = FALSE /\ stored' = FALSE
  /\ UNCHANGED <<known, attached, stray, ext, connVars, daemonVars, counters>>

\* detachAll goes through #states; what a dead worker had attached is not there.
DetachAll ==
  /\ known' = FALSE
  /\ attached' = (attached /\ ~known)
  /\ stray' = (stray /\ ~known)

\* Faulty: the debugger stays attached.
FailClosedAttached ==
  /\ mode = "closing"
  /\ mode' = "waiting"
  /\ UNCHANGED <<port, tabVars, ext, connVars, daemonVars, counters>>

\* Faulty: no reconnect is scheduled.
FailClosedForGood ==
  /\ mode = "closing"
  /\ DetachAll
  /\ UNCHANGED <<workerVars, claim, stored, ext, connVars, daemonVars, counters>>

\* The rest of failClosed, then #scheduleReconnect.  Handlers are not waited for.
FailClosed ==
  /\ mode = "closing"
  /\ mode' = "waiting"
  /\ DetachAll
  /\ UNCHANGED <<port, claim, stored, ext, connVars, daemonVars, counters>>

WorkerStarts ==
  /\ mode = "dead"
  /\ mode' = "initializing"
  /\ UNCHANGED <<port, tabVars, ext, connVars, daemonVars, counters>>

-----------------------------------------------------------------------------
(* The native host.                                                        *)

HostDials(c) ==
  /\ host[c] = "started" /\ up
  /\ host' = [host EXCEPT ![c] = "dialed"]
  /\ peer' = [peer EXCEPT ![c] = "serving"]
  /\ UNCHANGED <<workerVars, tabVars, ext, hello, up, auth, byPeer, inst, taskVars, counters>>

\* bridgeauth.Authenticate, answered by authenticateBridgeTransport.
HostAuthenticates(c) ==
  /\ host[c] = "dialed" /\ peer[c] = "serving"
  /\ host' = [host EXCEPT ![c] = "relaying"]
  /\ auth' = auth \cup {c}
  /\ UNCHANGED <<workerVars, tabVars, ext, hello, up, peer, byPeer, inst, taskVars, counters>>

\* The host cannot dial, loses the daemon, or finds its standard input closed.
HostEnds(c) ==
  /\ \/ host[c] = "started" /\ ~up
     \/ host[c] \in {"dialed", "relaying"} /\ peer[c] # "serving"
     \/ host[c] = "relaying" /\ (port # c \/ mode = "abandoned")
  /\ host' = [host EXCEPT ![c] = "gone"]
  /\ UNCHANGED <<workerVars, tabVars, ext, hello, daemonVars, counters>>

-----------------------------------------------------------------------------
(* The daemon.                                                             *)

\* handleBridge lets the request pass; it runs in a goroutine of its own.
HelloChecked(c) ==
  /\ host[c] = "relaying" /\ peer[c] = "serving" /\ hello[c] = "sent"
  /\ c \in auth
  /\ hello' = [hello EXCEPT ![c] = "checked"]
  /\ UNCHANGED <<workerVars, tabVars, ext, host, daemonVars, counters>>

\* Faulty: the connection that is replaced stays open.
RegisterBeside(c) ==
  /\ hello[c] = "checked"
  /\ hello' = [hello EXCEPT ![c] = "accepted"]
  /\ inst' = c
  /\ byPeer' = byPeer \cup {c}
  /\ UNCHANGED <<workerVars, tabVars, ext, host, up, peer, auth, taskVars, counters>>

\* Register, which closes the peer it replaces.  The answer is not written if
\* the connection has been closed meanwhile.
Register(c) ==
  /\ hello[c] = "checked"
  /\ hello' = [hello EXCEPT ![c] = IF peer[c] = "serving" THEN "accepted" ELSE "none"]
  /\ peer' = IF inst \notin {None, c} /\ peer[inst] = "serving"
             THEN [peer EXCEPT ![inst] = "closed"] ELSE peer
  /\ inst' = c
  /\ byPeer' = byPeer \cup {c}
  /\ UNCHANGED <<workerVars, tabVars, ext, host, up, auth, taskVars, counters>>

\* Register refuses another protocol version.
RegisterRefuses(c) ==
  /\ "helloFails" \in Hazards
  /\ hello[c] = "checked"
  /\ hello' = [hello EXCEPT ![c] = "refused"]
  /\ UNCHANGED <<workerVars, tabVars, ext, host, daemonVars, counters>>

\* Peer.Serve returns, and the connection's authentication is forgotten.
ServeReturns(c) ==
  /\ \/ peer[c] = "closed"
     \/ peer[c] = "serving" /\ host[c] = "gone"
  /\ peer' = [peer EXCEPT ![c] = "forgotten"]
  /\ auth' = auth \ {c}
  /\ UNCHANGED <<workerVars, tabVars, ext, connVars, up, byPeer, inst, taskVars, counters>>

\* Faulty: the browser is unregistered and not reported.
DisconnectUnreported(c) ==
  /\ peer[c] = "forgotten"
  /\ byPeer' = byPeer \ {c}
  /\ inst' = IF inst = c THEN None ELSE inst
  /\ peer' = [peer EXCEPT ![c] = "none"]
  /\ UNCHANGED <<workerVars, tabVars, ext, connVars, up, auth, taskVars, counters>>

\* Registry.Disconnect: the browser goes only if it is still registered for c.
Disconnect(c) ==
  /\ peer[c] = "forgotten"
  /\ byPeer' = byPeer \ {c}
  /\ IF c \in byPeer /\ inst = c
     THEN inst' = None /\ peer' = [peer EXCEPT ![c] = "revoking"]
     ELSE UNCHANGED inst /\ peer' = [peer EXCEPT ![c] = "none"]
  /\ UNCHANGED <<workerVars, tabVars, ext, connVars, up, auth, taskVars, counters>>

\* Only leases bound to the browser are taken.
RevokeBrowser(c) ==
  /\ peer[c] = "revoking"
  /\ peer' = [peer EXCEPT ![c] = "stopping"]
  /\ lease' = IF lease = "bound" THEN "none" ELSE lease
  /\ UNCHANGED <<workerVars, tabVars, ext, connVars, up, auth, byPeer, inst, task, on, counters>>

\* StopAll, if no browser is left.
StopIfLast(c) ==
  /\ peer[c] = "stopping"
  /\ peer' = [peer EXCEPT ![c] = "none"]
  /\ lease' = IF inst = None THEN "none" ELSE lease
  /\ UNCHANGED <<workerVars, tabVars, ext, connVars, up, auth, byPeer, inst, task, on, counters>>

DaemonStarts ==
  /\ ~up
  /\ up' = TRUE
  /\ UNCHANGED <<workerVars, tabVars, ext, connVars, peer, auth, byPeer, inst, taskVars, counters>>

-----------------------------------------------------------------------------
(* The daemon's tab.claim and tab.release.                                 *)

\* tabClaim grants or renews the lease before it asks whether the browser it was
\* given is registered.
TabClaim ==
  /\ up /\ task = "none" /\ calls < MaxCalls
  /\ task' = "granted"
  /\ lease' = IF lease = "none" THEN "unbound" ELSE lease
  /\ calls' = calls + 1
  /\ UNCHANGED <<workerVars, tabVars, ext, connVars, peerVars, on, troubles>>

\* BindLeaseBrowser, or the end of the handler if the lease is gone.
BindLeaseBrowser ==
  /\ task = "granted"
  /\ IF lease = "none" THEN task' = "none" /\ UNCHANGED lease
                       ELSE task' = "claiming" /\ lease' = "bound"
  /\ UNCHANGED <<workerVars, tabVars, ext, connVars, peerVars, on, counters>>

TabRelease ==
  /\ up /\ task = "none" /\ lease # "none" /\ calls < MaxCalls
  /\ task' = "releasing"
  /\ calls' = calls + 1
  /\ UNCHANGED <<workerVars, tabVars, ext, connVars, peerVars, lease, on, troubles>>

\* Faulty: a claim that failed keeps its lease.
RejectedKeepsLease ==
  /\ task' = "none" /\ on' = None
  /\ UNCHANGED lease

\* The handler ends with an error, and a claim gives its lease back.
Rejected ==
  /\ task' = "none" /\ on' = None
  /\ lease' = IF task = "claiming" THEN "none" ELSE lease

\* Registry.Call: nothing is sent if no browser is registered or its peer is dead.
CallBridge ==
  /\ task \in {"claiming", "releasing"} /\ on = None
  /\ IF inst # None /\ peer[inst] = "serving"
     THEN /\ ext[inst] = "none"
          /\ ext' = [ext EXCEPT ![inst] = IF task = "claiming" THEN "claim" ELSE "release"]
          /\ on' = inst
          /\ UNCHANGED <<lease, task>>
     ELSE Rejected /\ UNCHANGED ext
  /\ UNCHANGED <<workerVars, tabVars, connVars, peerVars, counters>>

\* The peer is closed, or the deadline of callBridge passes.
BridgeError ==
  /\ on # None
  /\ Rejected
  /\ UNCHANGED <<workerVars, tabVars, ext, connVars, peerVars, counters>>

-----------------------------------------------------------------------------
(* The extension's handlers.                                               *)

linkVars == <<workerVars, connVars, daemonVars, counters>>

\* What the host relays over c reaches the worker.
Reaches(c) == port = c /\ mode \in {"connected", "ready"} /\ host[c] = "relaying"

Becomes(c, stage) == ext' = [ext EXCEPT ![c] = stage]

Detach ==
  /\ known' = FALSE /\ attached' = FALSE /\ stray' = FALSE

\* TabRegistry.claim, which refuses if somebody else has the tab.
ReceiveClaim(c) ==
  /\ ext[c] = "claim" /\ Reaches(c)
  /\ \/ claim' = TRUE /\ stored' = TRUE /\ Becomes(c, "claimed")
     \/ claim /\ UNCHANGED <<claim, stored>> /\ Becomes(c, "error")
  /\ UNCHANGED <<known, attached, stray, linkVars>>

\* The claim is stored; whether it still stands is not looked at.
AttachStart(c) ==
  /\ ext[c] = "claimed"
  /\ Becomes(c, IF known THEN "installing" ELSE "attaching")
  /\ UNCHANGED <<tabVars, linkVars>>

\* Chrome attaches, and #states has the tab from now on.
Attach(c) ==
  /\ ext[c] = "attaching" /\ ~attached
  /\ known' = TRUE /\ attached' = TRUE
  /\ stray' = (port # c)
  /\ Becomes(c, "installing")
  /\ UNCHANGED <<claim, stored, linkVars>>

\* Chrome refuses, also if another handler has attached meanwhile.
AttachFails(c) ==
  /\ ext[c] = "attaching"
  /\ Becomes(c, "failed")
  /\ UNCHANGED <<tabVars, linkVars>>

\* The domains are enabled and the runtime is installed, or either fails.
Install(c) ==
  /\ ext[c] = "installing"
  /\ \/ Becomes(c, "ok") /\ UNCHANGED <<known, attached, stray>>
     \/ Becomes(c, "failed") /\ (Detach \/ UNCHANGED <<known, attached, stray>>)
  /\ UNCHANGED <<claim, stored, linkVars>>

Unclaim(c) ==
  /\ ext[c] = "failed"
  /\ claim' = FALSE /\ stored' = FALSE
  /\ Becomes(c, "undoing")
  /\ UNCHANGED <<known, attached, stray, linkVars>>

Undo(c) ==
  /\ ext[c] = "undoing"
  /\ Detach
  /\ Becomes(c, "error")
  /\ UNCHANGED <<claim, stored, linkVars>>

\* #tabRelease detaches at once if the tab is claimed under that lease.
ReceiveRelease(c) ==
  /\ ext[c] = "release" /\ Reaches(c)
  /\ \/ claim /\ Detach /\ Becomes(c, "releasing")
     \/ UNCHANGED <<known, attached, stray>> /\ Becomes(c, "error")
  /\ UNCHANGED <<claim, stored, linkVars>>

FinishRelease(c) ==
  /\ ext[c] = "releasing"
  /\ claim' = FALSE /\ stored' = FALSE
  /\ Becomes(c, "ok")
  /\ UNCHANGED <<known, attached, stray, linkVars>>

\* #respond.  If the answer arrives and is awaited, the daemon's handler ends:
\* a release that succeeds gives the lease up, a claim that fails as well.
Answer(c) ==
  /\ ext[c] \in {"ok", "error"}
  /\ Becomes(c, "none")
  /\ IF ~(Reaches(c) /\ peer[c] = "serving" /\ on = c) THEN UNCHANGED taskVars
     ELSE IF ext[c] = "error" THEN Rejected
     ELSE /\ task' = "none" /\ on' = None
          /\ lease' = IF task = "releasing" THEN "none" ELSE lease
  /\ UNCHANGED <<workerVars, tabVars, connVars, peerVars, counters>>

-----------------------------------------------------------------------------
(* Troubles.                                                               *)

Trouble == troubles < MaxTroubles /\ troubles' = troubles + 1 /\ UNCHANGED calls

\* The service worker is suspended or killed: what it held in memory is lost, but
\* Chrome may still finish an attachment it was asked for.
WorkerDies ==
  /\ Trouble
  /\ mode # "dead"
  /\ mode' = "dead"
  /\ port' = None
  /\ claim' = FALSE /\ known' = FALSE
  /\ attached' \in {attached, attached \/ \E c \in Conns : ext[c] = "attaching"}
  /\ stray' = (attached' /\ ~stored)
  /\ ext' = [c \in Conns |-> "none"]
  /\ UNCHANGED <<stored, connVars, daemonVars>>

HostDies(c) ==
  /\ Trouble
  /\ host[c] \in {"started", "dialed", "relaying"}
  /\ host' = [host EXCEPT ![c] = "gone"]
  /\ UNCHANGED <<workerVars, tabVars, ext, hello, daemonVars>>

DaemonDies ==
  /\ Trouble
  /\ up
  /\ up' = FALSE
  /\ hello' = [c \in Conns |-> IF hello[c] = "checked" THEN "none" ELSE hello[c]]
  /\ peer' = [c \in Conns |-> "none"]
  /\ auth' = {} /\ byPeer' = {} /\ inst' = None
  /\ lease' = "none" /\ task' = "none" /\ on' = None
  /\ UNCHANGED <<workerVars, tabVars, ext, host>>

-----------------------------------------------------------------------------

ConnStep(c) ==
  \/ Connect(c) \/ HelloAccepted(c) \/ OnDisconnect(c)
  \/ HostDials(c) \/ HostAuthenticates(c) \/ HostEnds(c)
  \/ HelloChecked(c) \/ Register(c)
  \/ ServeReturns(c) \/ Disconnect(c) \/ RevokeBrowser(c) \/ StopIfLast(c)

HandlerStep(c) ==
  \/ ReceiveClaim(c) \/ AttachStart(c) \/ Attach(c) \/ AttachFails(c)
  \/ Install(c) \/ Unclaim(c) \/ Undo(c)
  \/ ReceiveRelease(c) \/ FinishRelease(c) \/ Answer(c)

TaskStep == BindLeaseBrowser \/ CallBridge \/ BridgeError

Progress == Initialize \/ FailClosed \/ WorkerStarts \/ DaemonStarts

Next ==
  \/ \E c \in Conns :
       \/ ConnStep(c) \/ HandlerStep(c)
       \/ HelloFails(c) \/ RegisterRefuses(c) \/ HostDies(c)
  \/ TabClaim \/ TabRelease \/ TaskStep
  \/ Progress
  \/ WorkerDies
  \/ DaemonDies

\* Processes that are alive get on with it, Chrome answers the handlers, a hello or
\* a request that is not answered runs into its timer, launchd restarts the daemon,
\* and some event wakes a dead worker.
Fairness ==
  /\ \A c \in Conns :
       /\ WF_vars(HelloAccepted(c)) /\ WF_vars(HelloFails(c)) /\ WF_vars(OnDisconnect(c))
       /\ WF_vars(HostDials(c)) /\ WF_vars(HostAuthenticates(c)) /\ WF_vars(HostEnds(c))
       /\ WF_vars(HelloChecked(c)) /\ WF_vars(Register(c))
       /\ WF_vars(ServeReturns(c)) /\ WF_vars(Disconnect(c))
       /\ WF_vars(RevokeBrowser(c)) /\ WF_vars(StopIfLast(c))
       /\ WF_vars(HandlerStep(c))
  /\ WF_vars(TaskStep)
  /\ WF_vars(\E c \in Conns : Connect(c))
  /\ WF_vars(Initialize) /\ WF_vars(FailClosed)
  /\ WF_vars(WorkerStarts) /\ WF_vars(DaemonStarts)

Spec == Init /\ [][Next]_vars
FairSpec == Spec /\ Fairness

-----------------------------------------------------------------------------

WorkerType ==
  /\ mode \in Modes
  /\ port \in Conns \cup {None}
  /\ port # None <=> mode \in {"connected", "ready", "abandoned"}

ConnType ==
  /\ host \in [Conns -> Hosts]
  /\ hello \in [Conns -> Hellos]
  /\ peer \in [Conns -> Peers]
  /\ auth \subseteq Conns /\ byPeer \subseteq Conns
  /\ inst \in Conns \cup {None}

TaskType ==
  /\ ext \in [Conns -> Exts]
  /\ lease \in Leases /\ task \in Tasks
  /\ on \in Conns \cup {None}
  /\ on # None => task \in {"claiming", "releasing"}
  /\ lease = "unbound" => task = "granted"

FlagType ==
  /\ claim \in BOOLEAN /\ known \in BOOLEAN /\ attached \in BOOLEAN
  /\ stored \in BOOLEAN /\ stray \in BOOLEAN /\ up \in BOOLEAN

\* The port is set exactly while the bridge has one, connected or not, and a lease
\* without a browser is one that a claim is about to bind.
TypeOK ==
  /\ WorkerType
  /\ ConnType
  /\ TaskType
  /\ FlagType
  /\ troubles \in 0 .. MaxTroubles /\ calls \in 0 .. MaxCalls

\* No lease outlives the link: if there is one, the browser is registered, or the
\* teardown of its connection has yet to revoke it, or the tab.claim that granted it
\* is still at work (it may have been granted for a browser that is not connected)
\* and gives it back.
LeaseHasLink ==
  lease # "none" =>
    \/ inst # None
    \/ \E c \in Conns : peer[c] \in {"revoking", "stopping"}
    \/ task \in {"granted", "claiming"}

\* A browser is served over one connection: another one that has registered it
\* is closed, however late its hello was handled.
OneLink ==
  \A c \in byPeer : peer[c] = "serving" => inst = c

\* An extension without a link has no claim left, in memory or stored, and has
\* detached the debugger, also from what a worker that died had claimed.  The
\* debugger is attached only if that happened behind the back of stopAll or of
\* initialize: a tab.claim went on after its connection was lost, or a worker died
\* when the claim of an attached tab was not stored.
FailsClosed ==
  mode = "waiting" => ~claim /\ ~stored /\ (attached => stray)

Linked == mode = "ready" /\ inst = port /\ peer[port] = "serving"

\* When things stop dying the extension comes back by itself, and the daemon has
\* the browser registered for that very connection, unless the extension has
\* given the port up after a failed hello: late handlers, teardowns and closed
\* connections do not keep the two apart.
SettlesDown ==
  <>[](Linked \/ mode = "abandoned")

\* The extension always comes back by itself (see #scheduleReconnect).
ComesBack ==
  <>[]Linked

=============================================================================
