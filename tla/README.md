# browser-control: a TLA+ model

`browserd` (Go) lets agents on one machine operate the user's Chrome through an
extension (TypeScript). This directory models the part of it that is hard to get
right: who controls a tab, in which order work reaches it, what that work acts on,
and what happens to it when control, the page or the connection is lost. It holds TLA+
modules, TLC configurations and TLAPS proofs. `PROJECT.json` maps every definition to the source lines it models.

## 1. The system

```
agents -- public socket --> browserd (server.go, manager.go, tab_queue.go)
                               |  bridge socket (rpc/peer.go, bridge/registry.go)
                               v
                      native host (nativemsg) -- native messaging --> extension
                      (native-bridge.ts, service.ts, tab-registry.ts, debugger-manager.ts)
                               |  chrome.debugger, chrome.tabs, ...
                               v
                             tabs
```

| Component | State | Operations | What is hard | What makes it correct |
|---|---|---|---|---|
| Tab queue, `internal/core/tab_queue.go` | `running`, `generation`, `activeCancel`, `waiters` | `run`, `release`, `cancelAll` | two critical sections per request, cancellation racing a grant | one at a time, first in first out, no slot lost, a revocation hits exactly what came before it |
| Manager, `internal/core/manager.go` | sessions, leases, operations, confirmations, events, artifacts under one mutex | session and lease life cycle, `ExecuteOperation`, confirmations, janitor | leases lost in eight ways while operations are between critical sections; retries; time | a lost lease stops its work, a closed session is quiet, a retry does not repeat a mutation |
| Request handlers, `internal/server/server.go` | none of their own | `tabClaim`, `tabRelease`, `tabClose`, `forward`, `sessionClose`, ... | a lease is changed here and a claim there, with a bridge call that can time out in between | daemon and extension agree on who controls the tab |
| Bridge registry, RPC peer | instances, pending calls | `Register`, `Disconnect`, `Call` | disconnect racing reconnect, late answers | every call ends; a lost browser loses its leases |
| Extension service, tab registry, debugger manager: control | claims, debugger attachments | claim, release, close, stop; Chrome events | handlers interleave at every `await` and there is no queue | as for the handlers |
| Extension service: actions, with the locator runtime in the page | snapshots, document epochs, secure-input requests; element identities and revisions in the page | `observation.capture`, `action.perform`, `secureInput.request` and its submission | the page, navigations, releases and evictions come between any two calls into the page | an action takes effect on the element that was meant, or not at all; a secret goes into its field only |
| Extension service: expectations | event waiters, download waiters, download owners | arm, settle, cancel, poll | events come early, twice or for somebody else; Chrome does not say whose a download is | no event is missed, no download goes to the wrong call, every call returns |
| Native bridge, `native-bridge.ts` | port, pending requests, reconnect timer | connect, hello, request, disconnect | failure between connect and hello | the extension comes back by itself |
| Chunk codec, `chunk-codec.ts` and `internal/nativemsg` | partial messages | encode, accept, relay | the checksum is awaited, so small messages overtake large ones; streams age | every request is handled, and its answer is its own |
| Events and artifacts, in `manager.go` | bounded ring, files | emit, replay, long poll; store, read, delete | a reader slower than the ring | no event is skipped silently |
| Bridge authentication, `internal/bridgeauth` | challenge per peer | handshake | order of messages | no request before the handshake |

The other parts (command-line tools, configuration, schema, redaction, popup,
packaging, skills) are listed in `PROJECT.json` with the reason
they are left out.

The interactions that matter: the server's handlers call the manager under its
mutex and the extension without it; the manager starts the server's expiry hook in
a goroutine; the extension calls the daemon for popup actions; a lost bridge
connection revokes the browser's leases.

## 2. The modules

| Module | Models | Kind |
|---|---|---|
| `TabQueue` | `tab_queue.go`, one action per critical section | component |
| `SerialExecutor` | what the comment on `tabQueue` promises | abstract specification, implemented by `TabQueue` |
| `TabQueueProofs` | | theorems about `TabQueue` |
| `Manager` | sessions, leases, operations, action confirmations and the janitor of `manager.go` | component |
| `ManagerProofs` | | theorems about `Manager` |
| `TabControl` | the handlers of `server.go` that change who controls a tab, the bridge calls they make, and the extension's handlers of those calls | composition of daemon and extension |
| `TabControlProofs` | | theorems about `TabControl` |
| `BridgeLink` | the life of the link: `native-bridge.ts`, the native host, the accept loop and the registry | composition of extension, host and daemon |
| `BridgeLinkProofs` | | theorems about `BridgeLink` |
| `BridgeRpc` | a request of the daemon and its answer: `rpc/peer.go`, the relay, `chunk-codec.ts`, `native-bridge.ts` | composition of daemon, host and extension |
| `BridgeRpcProofs` | | theorems about `BridgeRpc` |
| `ActionPipeline` | from an observation to an input event: the handlers of `service.ts` and the locator runtime | composition of extension and page |
| `ActionPipelineProofs` | | theorems about `ActionPipeline` |
| `Expectations` | the event and download waiters of `service.ts` | component |
| `ExpectationsProofs` | | theorems about `Expectations` |
| `MCManager`, `MCTabControl`, `MCActionPipeline`, `MCExpectations` | symmetry sets and the situations a run starts from | instances |

Definitions whose comment starts with "Faulty:" are variants of the definition
that follows, with a plausible bug. No specification uses them; each shows that
one property would notice the bug.

**TabQueue.** A request is one call of `run`. `Enter` is its first critical
section, `SelectCtxDone` and `SelectReady` the two cases of its select, `Dispatch`
the second critical section, `FnReturn` and `Release` the end. `pc` says between
which of them a goroutine is. The channel `ready` is closed exactly when `granted`
or `err` is set. `cancelAll` is one action, since it holds `q.mu` throughout.

**Manager.** Every method of `Manager` runs under `Manager.mu` and is one action;
`ExecuteOperation` runs its `fn` without the lock and is split there
(`ExecuteRefused`, `ExecuteReplay`, `ExecuteJoin`, `ExecuteStart` are the outcomes
of its first critical section, `Complete` is the last one). Branches that change
nothing (refusals, renewals of a live lease) have no action. An operation object is
named by the call that created it, because a duplicate waits on the object it
found and not on the id. The tab queue appears as `SerialExecutor`. Time is
abstracted: a lease, a confirmation or a completed operation may pass its time at
any moment. `under`, `sent` and `pruned` are history variables.

**TabControl.** One tab, one browser. The daemon's side is the lease and the
handlers between their critical sections (`at`: ready, sent, ended); the
extension's side is the claim, the debugger attachment and the handlers between
their awaits (`ext`). Requests are delivered in the order they are written; replies
may be late. A behaviour begins with a past (`Pasts`): which troubles its environment
makes (`hazards`: takeovers, handlers that overlap, timeouts of the calls that change
control, debugger detaches), which sessions are closed and which leases are spent.
Cancellation and timeouts of ordinary work are always on.

**BridgeLink.** One browser. A connection is a port, the host process Chrome starts
for it, and the daemon's peer; each has its own state and notices the death of its
neighbour at its own pace. `mode` is where `NativeBridge` and the service worker are,
`hello` how far `bridge.hello` has come (it is handled in a goroutine of its own, so
it can be overtaken by the teardown of its connection), `peer` where the goroutine of
the accept loop is between `Serve`, `Disconnect`, `RevokeBrowser` and `StopAll`.
Worker, host and daemon may die at most `MaxTroubles` times; the constant `Hazards`
adds failing hellos. Over the link the daemon claims and releases one tab, at most
`MaxCalls` times. `task` is where its handler is: `TabClaim` grants the lease without
asking whether the browser is registered, `BindLeaseBrowser` binds it, `CallBridge` sends
the request over the connection `on`, and an answer (`Answer`) or an error
(`BridgeError`: connection closed or deadline) ends it. `ext` is at which await the
extension's handler is: the claim is recorded and stored (`ReceiveClaim`), Chrome is asked
to attach (`AttachStart`), it has attached and `#states` knows it (`Attach`), the runtime
is installed (`Install`) or everything is undone (`Unclaim`, `Undo`). Any death,
disconnect, `stopAll`, teardown or reconnect may come between two of these steps, and a
handler goes on after its connection is lost, beside those of the next one. `stray` is
history: the debugger was attached by a handler whose connection was gone, or by a worker
that died when the claim was not stored. The daemon has one such request at a time and an
answer for a connection that is gone is dropped: overlapping requests, takeovers and
expiry are in `TabControl`, answers on the wrong connection in `BridgeRpc`.

**BridgeRpc.** A call of `Peer.Call` is known on the wire by its number on its
connection. Its frames go through `down` to the assembler (`parts`); `handler` is
where the extension is with it: awaiting the checksum, running, encoding a large
answer. A handler is not tied to the connection it came from, and answers on the port
there is, as in the code. Frames may be dropped for their age at any moment.

**ActionPipeline.** One tab, its main frame. A layout says which element a hit test
finds at each spot; an element at no spot is one the runtime refuses (hidden,
disabled, obscured, detached), so that geometry, CSS and the DOM tree are abstracted
to what `actionabilityOf` decides. An element identity is a pair of runtime instance
and element, as identities are random and kept per instance. `req[r].phase` is which
call of a handler is under way and `at` how far it is (in the page, waiting for the
element to stand still, answered). `Move`, `Commit`, `OnCommitted`, `Release`, `Claim`,
`Install` and `Evict` come in between. A locator may match any element each time it
is resolved. `disturbed` and `loose` are history: the page changed after the last
check; the last check could not tell where the input goes.

**Expectations.** A call is an `action.perform` with expectations (or a
`downloadMedia`), a `condition.wait` or `download.wait` on an event, or one of their
polling forms. Navigation, dialog, file chooser and popup events are one type, as
they are armed, matched by tab and settled alike; downloads are another, since Chrome
reports them without a tab. `caused` is what the page will do about the input.

## 3. What TLC checks

| Run | Instance | Checks | States, time |
|---|---|---|---|
| `tab_queue` | 3 requests, 2 revocations | `TypeOK`, `SlotHeldOnce`, `RevocationReaches`, `OnlyRevokedAreCancelled`, `ReadyClosedOnce`, `IInv`, `EveryRunReturns`, `ImplementsSerialExecutor` | 124k, 20 s |
| `manager_leases` | 2 sessions, 1 tab, 1 browser, 3 leases, 1 operation | `TypeOK`, `LeaseHolderIsOpen`, `LostLeaseStopsWork`, `HookLeaseIsGone` | 509k, 50 s |
| `manager_operations` | 1 session, 2 calls under 1 operation id, 2 fingerprints, 1 confirmation | `ClosedSessionIsQuiet`, `OnceWhileRemembered`, `ReplayIsFaithful`, `EveryCallReturns` | 471k, 60 s |
| `tab_control` | 2 sessions, 3 leases, 2 calls with takeovers; and 1 session, 2 leases, 2 calls with overlap, timeouts and detaches | `TypeOK`, `Agreement`, `ControlIsGivenUp`, `EveryCallEnds` | 220k, 140 s |
| `bridge_link` | 2 connections at once, 2 deaths, 2 claims or releases, failing hellos | `TypeOK`, `LeaseHasLink`, `OneLink`, `FailsClosed`, `SettlesDown` | 754k, 130 s |
| `bridge_rpc` | 3 calls, 2 connections | `TypeOK`, `AnswersMatchOnOneLink`, `OneStreamAtATime`, `EveryCallIsAnswered` | 424k, 95 s |
| `actions` | 2 elements, 2 spots, 1 capture, 1 request of any kind, 2 documents, 2 runtimes, 2 leases, 1 change of the page | `TypeOK`, `LandsOnTarget`, `SecretStaysBound` | 1.8M, 60 s |
| `expectations` | 2 calls of any kind in one tab or in two, 1 download | `TypeOK`, `DownloadIsNotStolen`, `CausedEventIsSeen`, `EveryCallReturns` | 456k, 90 s |

What the newer properties say. `LandsOnTarget`: what an action takes effect on is the
element the caller named, by snapshot, or by the locator when it was first checked,
in the same document; input through the debugger may miss only if the page changed
after the last check, if the element did not take the focus, or if another instance
of the runtime counted the revisions. Another request is such a change: when the daemon
stops waiting for one operation and sends the next, the second may take the focus from
the first before its keys are sent; what is done in the page itself has no such gap. `SecretStaysBound` has no such exception: a
secret is filled in by the runtime, which compares the identity in the same turn.
`CausedEventIsSeen` and `DownloadIsNotStolen` are about the order in which waiters are
armed and events arrive. `AnswersMatchOnOneLink`: a wrong answer can only come from a
handler of an earlier connection.

`LeaseHasLink` and `FailsClosed` are as strong as the code allows. A lease may exist
although no browser is registered and no teardown is under way, but only while the
`tab.claim` that granted it is at work (`server.go:534` to `554`). An extension that waits
to connect has dropped every claim and detached the debugger, with two exceptions, which
`stray` records: a claim that was at one of its awaits when the port was lost attaches
afterwards, and a worker that dies when a tab is attached and its claim is not stored
(while it fails closed, undoes a claim, or after another handler dropped the claim) leaves
it attached.

Four more runs show a disagreement between the code and what the repository says of
it; each is a finding in `PROJECT.json` with the line it quotes.

| Run | What happens |
|---|---|
| `tab_control_timeout` | `tab.claim` times out, the daemon gives the lease back, the extension completes the claim: the tab stays attached with no lease (`AttachedOnlyWhenClaimed`). |
| `tab_control_takeover` | A `tab.release` under way when the tab is taken over clears the new holder's claim (`ReleaseClearsOwnClaim`). |
| `bridge_reconnect` | `bridge.hello` fails, the extension disconnects the port itself, Chrome does not call `onDisconnect` at that end, and no reconnect is scheduled (`ComesBack`). |
| `bridge_rpc_reply` | A handler outlives its connection and answers on the next one, under a number that means another request there (`AnswerIsItsOwn`). |

Four more are known and have no run. A `tab.claim` that is at an await when the port is
lost (`service.ts:517`, `debugger-manager.ts:91`) attaches the debugger after `stopAll` has
dropped the claim and `detachAll` has found nothing: the tab stays attached with no claim
although no process but the host died, while `docs/architecture.md:70` says that "the
extension detaches every debugger target and clears claimed-tab state"; `bridge_link`
reaches this state, and `FailsClosed` without `stray` fails there. The janitor forgets an operation after an hour
and the next exact retry repeats the mutation (`OnceWhileRemembered` is what holds). A
debugger detach drops the extension's claim and leaves the daemon's lease. The
comment on `#rebindCoordinateTarget` speaks of what was there when the screenshot was
taken, while the snapshot it uses is taken before the screenshot.

`Agreement` is therefore stated for handlers that do not overlap and calls that do
not time out (`Orderly`); the runs above show that neither condition can be dropped.

**Bounds.** Two sessions are needed for a takeover and a third lease for a claim
after it; three requests in the queue give one that holds, one granted or gone, and
one that waits when a revocation comes (the theorems cover any number); two calls
under one id give every pair of first
call and retry. `MaxGeneration` bounds the revocations, the sets of identifiers
bound everything else. In `bridge_link` two connections let one be torn down, or be
registered by a late hello, or have handlers left, while the other is new; a name is used
again when nobody remembers it, so that more than two are made one after the other, and the
theorems cover any number. Two requests give a claim and its release or renewal, and a
claim beside a handler that an earlier claim left behind. In `actions` every element can be moved, replaced by the
other one or taken away once, in a document that can be replaced once, before, between
and after the checks of a request. Two requests at once are too many for this instance
(with a page that stands still they give 148k states, and `LandsOnTarget` holds); the
theorems cover any number. In `expectations` two calls give every pair of a waiter and somebody who
takes its event or cancels it. In `bridge_rpc` two calls share a connection and a
third is on the next one. All modules may come to a stop when the identifiers are
used up, so deadlock is not checked; that calls do not hang is checked as liveness.

**Fairness.** Weak fairness on the steps of a goroutine that can run, on the select
of a waiter, and on the end of a bridge call, which `callBridge` and
`releaseLeasesOnExtension` bound by a deadline. In `TabControl` also weak fairness
on the extension's continuations (Chrome answers the extension's calls) and strong
fairness on sending queued work, since the tab queue is first come, first served
(`ImplementsSerialExecutor`). In `BridgeLink` every process that is alive makes
progress, Chrome answers the extension's handlers, a hello runs into its 10-second timer
and a request into the deadline of `callBridge`, launchd restarts the daemon
(`KeepAlive` in the plist), and some Chrome event wakes a dead worker. In
`Expectations` handlers go on, timers fire and deadlines pass; in `BridgeRpc` frames
are carried and handlers answer. Clients, users, revocations, expiries and failures
are never forced to happen.

## 4. What is proved

Every safety invariant and every action property of the passing runs is a theorem, for
every value of the constants, and so is the refinement of `SerialExecutor`. Each proof
rests on an inductive invariant, has one lemma per action that shows the action keeps it,
and derives the properties from it. The inductive invariants of `TabControlProofs`,
`BridgeLinkProofs`, `ExpectationsProofs`, `ManagerProofs` and `ActionPipelineProofs` were checked with TLC on
the instances of section 3 (two downloads for `Expectations`) before they were proved.

The assumptions on the constants are that the null values (`None`, `NoRequest`: nil,
null, undefined) are none of the identifiers they stand beside, that bounds are natural
numbers (positive where the system starts with one document, runtime, lease or
connection), and that the sets which choose an instance (`Kinds`, `Vias`, `Hazards`,
`Pasts`, `Places`) are of their type. TLC evaluates them in every run. No theorem has a
hypothesis besides the specification.

**TabQueueProofs**: `Invariance`, `TypeCorrect`, `SlotSafety`, `RevocationSafety`,
`CancelSafety`, `ChannelSafety`, `Implementation`. The properties are not inductive by
themselves. `IInv` adds `WaiterState` (what a
goroutine's position says about its waiter: a waiter that is not ready is in the
queue, a request past the select has been granted, grant and error exclude each
other, its generation is not from the future) and `CancelTarget` (`activeCancel` is
the cancel function of the request in `fn`). `RevocationReaches` needs
`CancelTarget` in the step of `cancelAll`, `SlotHeldOnce` needs `ReadyClosedOnce`
and `WaiterState` in the step of `release`, where `FirstLiveIsHead` shows that
under the invariant the loop of `release` never skips a waiter.

`Implementation` is the refinement. The abstract queue is the request that was granted
the slot, was not revoked and has not begun `fn`, if there is one, followed by `waiters`; the abstract
active request is the one that runs, until it gives the slot up. `Enter` submits,
`SelectCtxDone` withdraws, `Dispatch` starts the head, `Release` finishes, `cancelAll`
revokes; where a revocation has passed a request by, its later steps stutter, and so do
all others. It needs `CancelIsActive` (the published cancel
function belongs to the request that runs, and one is published whenever one runs),
which the safety properties do not, and a few lemmas on sequences with a request in
front or one taken out.

**ManagerProofs**: `TypeCorrect`, `LeaseSafety`, `HookSafety`, `LostLeaseSafety`,
`ClosedSessionSafety`, `OnceSafety`, `ReplaySafety`, for any number of sessions, tabs,
leases, operations, confirmations and calls. The invariant has three groups. `LeaseInv`
adds that a lease a hook was started for was issued: ids are not issued twice, so it
cannot come back. `OpInv` ties the tables together: `CallState` (an operation object
runs exactly while the call that made it is at work), `QueueState` (a queue holds calls
queued for its tab, each once), `Remembered` (an object that ever ran is in the table
under its id, or was pruned, or was replaced after asking for a confirmation, and a
running one is always in the table) and `Answers` (what a duplicate waits for is an
object of the same id, session and fingerprint). `WorkInv` adds that the lease noted
when a call started was issued to the call's session. `Remembered` is what makes both
`OnceWhileRemembered` and `LostLeaseStopsWork` work: cancellation goes through the
table, so an operation that ran outside it could not be stopped.

**TabControlProofs**: `TypeCorrect`, and `AgreementSafety`: with takeovers, for any
number of sessions, leases and calls, daemon and extension agree whenever nobody is
changing who controls the tab. `Agreement` says nothing of the moments in between; the
invariant does: `ClaimState` and `ReleaseState` say what lease, claim and attachment
are at each await of the handler under way, `Alone` that there is one such handler,
`Calm` that the daemon still waits for it, `Staged` and `Wired` what is on the wire.
The agreement part is conditional on `Orderly`, as the property is; types and wire hold
under every hazard.

**BridgeLinkProofs**: `TypeCorrect`, `OneLinkSafety`, `LeaseSafety`, `FailClosedSafety`, for
any number of connections, requests and deaths. The first two safety properties follow from
`DaemonInv`, which adds `NewConn`, that the daemon knows nothing of a connection whose host
has not dialed, so that a new peer neither inherits a registration nor hides a teardown
that still has leases to revoke; and `Registered`, that an open connection a request waits
on has registered the browser, so that a claim that is answered leaves its lease with a
browser. `FailClosedSafety` follows from `ExtensionInv`: handlers belong to a worker that is
alive (`HandlersLive`), a claim is stored, and what is attached and not `stray` is in
`#states` until the worker fails closed, or in the store after it died (`Traces`). The
steps that need care are `Attach`, which makes an attachment stray exactly when its
connection is gone, and `WorkerDies`, after which only the store counts.

**BridgeRpcProofs**: `TypeCorrect`, `AnswersMatch`, `StreamSafety`. The invariant of
`AnswersMatch` adds `Started` (a handler, a frame and an answer belong to a call that was
made) and `NumbersGrow` (the numbers of the calls of a connection differ and are at most its
peer's `nextID`, and no call is of a connection yet to be made), since an answer is
matched by number alone. `StreamSafety` needs `StreamInv`: the first frame of a large
request is followed on the wire by its second, and a request assembled half way has its
second frame at the head.

**ActionPipelineProofs**: `TypeCorrect`, `Lands`, `SecretBound`, for any page, any
number of documents, runtimes, captures and requests at once. The argument: an instance
of the runtime lives in one document (`Counters`, `CapState`), so an identity given by
the instance that is there now is one of this document (`Identity`), whatever was
committed since; a snapshot whose instance is still there and whose revision has not
moved shows the page as it is (`CapState`, `PointState`); the element in hand is the one
it was found to be until the page changes (`InHand`); what is ready to be sent goes to
its target, or something came in between (`ReadyState`); and the field of a secret about
to be filled is marked if its document is still there (`SecretState`). Stating it for
several requests showed that they disturb each other: `Perform` moves the focus
on which the keys of another request depend, which the model now records.

**ExpectationsProofs**: `TypeCorrect`, `DownloadSafety`, and the action property
`EventSafety`. `Waiting` says that waiters are there from before the input on and nothing
is caused before it; `Got` and `Begun` say that what a waiter has was begun and is
rightfully its own. The core is `Carries`, what any step may do to a waiter: it is armed
once, before the input, settled once, and given a download only while armed. From it
follows that an excuse (a call that lost its waiter or has another download) stays one,
and with that `DownloadIsNotStolen`, which compares calls of different moments, becomes
inductive.

Only model-checked: liveness, that is `EveryRunReturns`, `EveryCallReturns` (of `Manager`
and of `Expectations`), `ControlIsGivenUp`, `EveryCallEnds`, `SettlesDown` and
`EveryCallIsAnswered`. They depend on fairness and `ENABLED`, which the prover does not
handle. The four violations of section 3 are TLC's counterexamples.

## 5. Not modelled

In the daemon: the event history and artifacts, capability confirmations (every
session is opened with all capabilities), owned tabs, a panic inside `fn` (recovered
by `ExecuteOperation`, but it leaves the tab's queue running), `browser.stop` in
`TabControl`, several tabs at once.

In the extension: frames other than the main one with the coordinate translation
across them, drags, scrolling, uploads, clipboard, dialogs, exports and evaluation in
`ActionPipeline`; the masks around a screenshot; the console buffer; requests and
notifications that the extension itself sends (`BridgeLink` has the hello only);
which elements a locator matches (`locator.ts`, sequential code over a DOM; the model
lets it match any).

Redaction, the upload policy, command-line tools, configuration and schema keep no
state and run in one go; the components marked so in `PROJECT.json` are left out.

## 6. Plan

1. Done: `TabQueue`, `Manager`, `TabControl`, `BridgeLink`, `BridgeRpc`,
   `ActionPipeline` and `Expectations`, each with proofs of all its safety properties;
   the refinement of `SerialExecutor`.
2. Proofs still worth having: that `Manager`, which uses the tab queue as
   `SerialExecutor`, runs one operation per tab at a time; that without `Orderly` an
   attached tab is at least known to the daemon or to a handler under way.
3. Frames in `ActionPipeline`; the event history; `browser.stop` in `TabControl`.
