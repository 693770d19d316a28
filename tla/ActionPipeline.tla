--------------------------- MODULE ActionPipeline ---------------------------
(***************************************************************************)
(* From an observation to an input event: the handlers of                  *)
(* apps/extension/src/service.ts that capture a page, prepare a target and *)
(* act on it, with the locator runtime (packages/locator-runtime) they     *)
(* call in the page.  Every call into the page is an await: the page, a    *)
(* navigation, the loss of the claim and other handlers come between.      *)
(*                                                                         *)
(* One tab and its main frame.  A spot is a point of the viewport; the     *)
(* layout says which element a hit test finds there, and an element at no  *)
(* spot is one the runtime refuses (detached, hidden, obscured).  Elements *)
(* of a document are pairs <<document, name>>; an element identity is a    *)
(* pair <<runtime, name>>, since every instance of the runtime draws       *)
(* random ones of its own.  Any call may fail (Fail, CaptureFails).        *)
(***************************************************************************)
EXTENDS Naturals

CONSTANTS
  Elements, Spots,
  Captures,     \* calls of observation.capture; each names its snapshot
  Requests,     \* calls of action.perform and secureInput.request
  Kinds, Vias,  \* what requests do, and how they name their target
  MaxDocs, MaxMoves, MaxRuntimes, MaxLeases,   \* bounds
  None

ASSUME ActionsAssumption ==
  /\ Kinds \subseteq {"dom", "pointer", "keys", "secure"}
  /\ Vias \subseteq {"locator", "node", "point"}
  /\ {MaxDocs, MaxRuntimes, MaxLeases} \subseteq Nat \ {0}
  /\ None \notin Elements \cup (Nat \X (Elements \cup {None}))

VARIABLES
  page,     \* what the tab shows: its document, who is at each spot, the focus,
            \* and the fields marked sensitive
  runtime,  \* the runtime in the page: its number (0: none), revision, snapshots
  tab,      \* TabState and #snapshots: epoch, lease (0: no claim), store
  cap,      \* the captures
  req       \* the requests

vars == <<page, runtime, tab, cap, req>>

Layouts == {f \in [Spots -> Elements \cup {None}] :
              \A s, t \in Spots : s # t /\ f[s] = f[t] => f[s] = None}
FullLayouts == {f \in Layouts : \A s \in Spots : f[s] # None}
On(l) == {l[s] : s \in Spots} \ {None}
Connected == On(page.layout)
SpotOf(e) == CHOOSE s \in Spots : page.layout[s] = e

NewPage(d, l, n) ==
  [doc |-> d, layout |-> l, focus |-> None, moves |-> n, sensitive |-> {}]
Gone == [runtime EXCEPT !.no = 0, !.rev = 0, !.kept = {}]
NoCapture == [at |-> "idle", doc |-> 0, rt |-> 0, epoch |-> 0, rev |-> 0, layout |-> None, shot |-> FALSE]
Over == [NoCapture EXCEPT !.at = "done"]
\* id is the identity expected, want the element meant, el the one in hand; loose
\* says that the last check cannot tell where the input will go.
NoRequest == [kind |-> "none", via |-> "none", cap |-> None, e |-> None, spot |-> None,
              rev |-> 0, loose |-> FALSE,
              phase |-> "idle", at |-> "none", el |-> None, doc |-> 0, rt |-> 0,
              id |-> None, want |-> None, lease |-> 0, epoch |-> 0, disturbed |-> FALSE]

Init ==
  /\ \E l \in FullLayouts : page = NewPage(1, l, 0)
  /\ runtime = [no |-> 1, rev |-> 1, kept |-> {}, made |-> 1]
  /\ tab = [epoch |-> 1, lease |-> 1, leases |-> 1, store |-> {}]
  /\ cap = [c \in Captures |-> NoCapture]
  /\ req = [r \in Requests |-> NoRequest]

Set(r, q) == req' = [req EXCEPT ![r] = q]
Ended == [NoRequest EXCEPT !.phase = "over"]
Drop(r) == Set(r, Ended)

\* #snapshot: it is held and is of the document the tab is at.
Current(c) == c \in tab.store /\ cap[c].epoch = tab.epoch

Forget(cs) == [c \in Captures |-> IF c \in cs THEN Over ELSE cap[c]]

-----------------------------------------------------------------------------
(* The page and Chrome.                                                    *)

\* What was checked before this may be otherwise now.
Disturbed(q) ==
  IF q.at \in {"reply", "fresh", "ready"} THEN [q EXCEPT !.disturbed = TRUE] ELSE q

Disturb == req' = [r \in Requests |-> Disturbed(req[r])]

\* The page changes, or is scrolled; MutationObserver and listeners count it.
Move ==
  /\ page.moves < MaxMoves
  /\ \E l \in Layouts \ {page.layout} :
       page' = [page EXCEPT !.layout = l, !.moves = @ + 1,
                            !.focus = IF @ \in On(l) THEN @ ELSE None]
  /\ runtime' = IF runtime.no = 0 THEN runtime ELSE [runtime EXCEPT !.rev = @ + 1]
  /\ Disturb
  /\ UNCHANGED <<tab, cap>>

\* Another document is committed; it has no runtime yet.
Commit ==
  /\ page.doc < MaxDocs
  /\ \E l \in FullLayouts : page' = NewPage(page.doc + 1, l, page.moves)
  /\ runtime' = Gone
  /\ Disturb
  /\ UNCHANGED <<tab, cap>>

\* Faulty: commits of child frames count as well.
AnyFrame == TRUE

\* A commit of the main frame that the extension has not heard of.
MainFrame == tab.epoch < page.doc

\* webNavigation.onCommitted reaches the extension: noteNavigation counts the
\* epoch and the tab's snapshots are dropped.
OnCommitted ==
  /\ MainFrame
  /\ tab' = [tab EXCEPT !.epoch = @ + 1, !.store = {}]
  /\ cap' = Forget(tab.store)
  /\ UNCHANGED <<page, runtime, req>>

\* onCompleted, which follows onCommitted, installs it in a claimed tab.
OnCompleted == tab.lease # 0 /\ tab.epoch = page.doc

\* #invokeAll and #invokeFrame install it when a call, claimed or not, finds none.
OnDemand == \/ \E r \in Requests : req[r].at = "resolve"
            \/ \E c \in Captures : cap[c].at \in {"asked", "stored"}

\* locator.js is injected; it stays if there is one already.
Install ==
  /\ runtime.no = 0 /\ runtime.made < MaxRuntimes
  /\ OnCompleted \/ OnDemand
  /\ runtime' = [runtime EXCEPT !.no = runtime.made + 1, !.made = @ + 1, !.rev = 1]
  /\ UNCHANGED <<page, tab, cap, req>>

\* The tab is claimed or taken over; a runtime that is there stays.
Claim ==
  /\ tab.leases < MaxLeases
  /\ tab' = [tab EXCEPT !.leases = @ + 1, !.lease = tab.leases + 1]
  /\ UNCHANGED <<page, runtime, cap, req>>

\* The claim ends and the snapshots go.  #tabRelease and #releaseLocal dispose of
\* the runtime; after debugger.detached the runtime stays.
Release ==
  /\ tab.lease # 0
  /\ tab' = [tab EXCEPT !.lease = 0, !.store = {}]
  /\ cap' = Forget(tab.store)
  /\ runtime' \in {Gone, runtime}
  /\ Disturb
  /\ UNCHANGED page

-----------------------------------------------------------------------------
(* observation.capture.                                                    *)

Capture(c) ==
  /\ cap[c].at = "idle" /\ tab.lease # 0
  /\ cap' = [cap EXCEPT ![c].at = "asked"]
  /\ UNCHANGED <<page, runtime, tab, req>>

\* LocatorRuntime.capture.
CaptureInPage(c) ==
  /\ cap[c].at = "asked" /\ runtime.no # 0
  /\ runtime' = [runtime EXCEPT !.kept = @ \cup {c}]
  /\ cap' = [cap EXCEPT ![c].at = "read", ![c].doc = page.doc, ![c].rt = runtime.no,
                        ![c].rev = runtime.rev, ![c].layout = page.layout]
  /\ UNCHANGED <<page, tab, req>>

\* #storeSnapshot, with the epoch of this moment.
CaptureStore(c) ==
  /\ cap[c].at = "read"
  /\ tab' = [tab EXCEPT !.store = @ \cup {c}]
  /\ cap' = [cap EXCEPT ![c].at = "stored", ![c].epoch = tab.epoch]
  /\ UNCHANGED <<page, runtime, req>>

\* Later captures, of this tab or another, push a snapshot out: of the runtime,
\* which keeps 8, or of the service, which keeps 16.
Evict(c) ==
  /\ \/ /\ c \in runtime.kept
        /\ runtime' = [runtime EXCEPT !.kept = @ \ {c}]
        /\ UNCHANGED <<tab, cap>>
     \/ /\ c \in tab.store
        /\ tab' = [tab EXCEPT !.store = @ \ {c}]
        /\ cap' = Forget({c})
        /\ UNCHANGED runtime
  /\ UNCHANGED <<page, req>>

\* The picture of the page, which is taken later than the snapshot.
Shot(c) ==
  /\ cap[c].at = "stored" /\ tab.lease # 0
  /\ cap' = [cap EXCEPT ![c].at = "done", ![c].shot = TRUE]
  /\ UNCHANGED <<page, runtime, tab, req>>

CaptureFails(c) ==
  /\ \/ cap[c].at \in {"asked", "read"} /\ cap' = Forget({c})
     \/ cap[c].at = "stored" /\ cap' = [cap EXCEPT ![c].at = "done"]
  /\ UNCHANGED <<page, runtime, tab, req>>

-----------------------------------------------------------------------------
(* action.perform and secureInput.request: the service's side.             *)

\* #prepareTarget up to its call: a node reference needs its snapshot.
Prepare(r, q) ==
  IF q.via = "node" /\ ~Current(q.cap) THEN Drop(r)
  ELSE Set(r, [q EXCEPT !.phase = "prepare", !.at = "resolve",
                        !.el = None, !.doc = 0, !.rt = 0])

\* #claimed, then #actionPreflight, #validateCoordinateTarget or
\* #secureInputRequest up to the call.  The caller names what an observation gave
\* it: a locator, a node of a snapshot, or a point of its picture.
Begin(r, kind, via, c, e, s) ==
  /\ req[r] = NoRequest /\ tab.lease # 0
  /\ via # "locator" => Current(c)
  /\ via = "node" => e \in On(cap[c].layout)
  /\ via = "point" => kind = "pointer" /\ cap[c].shot
  /\ Set(r, [NoRequest EXCEPT
       !.kind = kind, !.via = via, !.at = "resolve",
       !.cap = IF via = "locator" THEN None ELSE c,
       !.e = IF via = "node" THEN e ELSE None,
       !.spot = IF via = "point" THEN s ELSE None,
       !.rev = IF via = "point" THEN cap[c].rev ELSE 0,
       !.rt = IF via = "point" THEN cap[c].rt ELSE 0,
       !.phase = CASE kind = "secure" -> "ask"
                   [] via = "point" -> "validate"
                   [] OTHER -> "preflight",
       !.want = CASE via = "node" -> <<cap[c].doc, e>>
                  [] via = "point" -> <<cap[c].doc, cap[c].layout[s]>>
                  [] OTHER -> None])
  /\ UNCHANGED <<page, runtime, tab, cap>>

\* #rebindCoordinateTarget: the node of the snapshot that covers the point.
Rebind(r, q) ==
  IF ~Current(q.cap) \/ cap[q.cap].layout[q.spot] = None THEN Drop(r)
  ELSE Set(r, [q EXCEPT !.via = "node", !.e = cap[q.cap].layout[q.spot],
                        !.phase = "prepare", !.at = "resolve", !.rev = 0, !.rt = 0,
                        !.loose = FALSE])

\* A call the page has answered.
Answered(r, phase) == req[r].phase = phase /\ req[r].at = "reply"
Found(q) == <<q.rt, q.el>>
Named(q) == IF q.want = None THEN <<q.doc, q.el>> ELSE q.want
Service == UNCHANGED <<page, runtime, tab, cap>>

\* #actionPreflight answers and #actionPerform goes on.
PreflightDone(r) ==
  /\ Answered(r, "preflight")
  /\ Prepare(r, [req[r] EXCEPT !.id = Found(req[r]), !.want = Named(req[r])])
  /\ Service

\* #performTargetAction with a point: dispatch there, or rebind when it is stale.
PointChecked(r) ==
  /\ req[r].phase = "validate"
  /\ \/ req[r].at = "fresh" /\ Set(r, [req[r] EXCEPT !.phase = "dispatch", !.at = "ready"])
     \/ req[r].at = "stale" /\ Rebind(r, req[r])
  /\ Service

\* Faulty: the element prepared is not compared with the one expected.
AnyElement(q) == TRUE

\* The element prepared is the one the preflight (or the request) found.
SameElement(q) == q.id \in {None, Found(q)}

\* Faulty: the secret is typed before its field is registered as sensitive.
UnmarkedPhase(kind) == IF kind = "pointer" THEN "dispatch" ELSE "perform"

\* What follows the preparation.
NextPhase(kind) == CASE kind = "pointer" -> "dispatch"
                     [] kind = "secure" -> "mark"
                     [] OTHER -> "perform"

\* #performTargetAction, and the submission of a secret, with a prepared element.
Prepared(r) ==
  /\ Answered(r, "prepare")
  /\ LET q == req[r] IN
     IF ~SameElement(q) THEN Drop(r)
     ELSE Set(r, [q EXCEPT !.id = Found(q), !.el = None, !.doc = 0, !.rt = 0,
                           !.at = IF q.kind = "pointer" THEN "ready" ELSE "resolve",
                           !.phase = NextPhase(q.kind)])
  /\ Service

\* #secureInputRequest keeps the request, for whoever holds the tab by now, and
\* opens the trusted window.
SecureInputRequested(r) ==
  /\ Answered(r, "ask")
  /\ IF tab.lease = 0 THEN Drop(r)
     ELSE Set(r, [req[r] EXCEPT !.phase = "waiting", !.at = "none", !.id = Found(req[r]),
                                !.want = Named(req[r]), !.el = None, !.doc = 0, !.rt = 0,
                                !.lease = tab.lease, !.epoch = tab.epoch])
  /\ Service

\* The user submits the secret, once: claim and epoch are checked.
Submit(r) ==
  /\ req[r].phase = "waiting"
  /\ IF tab.lease = req[r].lease /\ tab.epoch = req[r].epoch
     THEN Set(r, [req[r] EXCEPT !.phase = "origin"]) ELSE Drop(r)
  /\ Service

\* The tab's address has arrived.  Consecutive documents are of different origins.
OriginChecked(r) ==
  /\ req[r].phase = "origin"
  /\ IF page.doc % 2 = req[r].want[1] % 2 THEN Prepare(r, req[r]) ELSE Drop(r)
  /\ Service

\* Input through the debugger: the mouse acts where it is, keys and text go to
\* whatever has the focus.
MouseInput(q) == <<page.doc, page.layout[q.spot]>>
KeyInput == <<page.doc, page.focus>>

\* The input is sent while the debugger is attached; the events of one action, with
\* the awaits between them, are one step.
Dispatch(r) ==
  /\ req[r].at = "ready" /\ tab.lease # 0
  /\ Drop(r)
  /\ Service

Fail(r) ==
  /\ req[r].phase \notin {"idle", "over"}
  /\ Drop(r)
  /\ Service

-----------------------------------------------------------------------------
(* The runtime's side of a request.                                        *)

\* #resolveTarget: what the target may mean in this runtime now.  A locator
\* matches what the page makes it match at this moment.
Targets(q) ==
  IF q.via = "locator" THEN Connected
  ELSE IF q.cap \in runtime.kept THEN {q.e} \cap Connected ELSE {}

\* prepare and perform find the element and wait for it to stand still.
Resolve(r) ==
  LET q == req[r] IN
  /\ q.at = "resolve" /\ q.phase \notin {"validate", "mark"} /\ runtime.no # 0
  /\ \E e \in Targets(q) :
       Set(r, [q EXCEPT !.at = "settle", !.el = e, !.doc = page.doc, !.rt = runtime.no])
  /\ Service

\* getRevision, and viewport before it.
ReadRevision(r) ==
  LET q == req[r] IN
  /\ q.at = "resolve" /\ q.phase = "validate" /\ runtime.no # 0
  /\ Set(r, [q EXCEPT !.at = IF runtime.rev = q.rev THEN "fresh" ELSE "stale",
                      !.loose = runtime.no # q.rt, !.disturbed = FALSE])
  /\ Service

\* markSensitive sets an attribute, which the observer counts.
MarkSensitive(r) ==
  LET q == req[r] IN
  /\ q.at = "resolve" /\ q.phase = "mark" /\ runtime.no # 0
  /\ \E e \in Targets(q) :
       IF q.id # <<runtime.no, e>> THEN Drop(r) /\ UNCHANGED <<page, runtime>>
       ELSE /\ Set(r, [q EXCEPT !.phase = "perform"])
            /\ page' = [page EXCEPT !.sensitive = @ \cup {e}]
            /\ runtime' = [runtime EXCEPT !.rev = @ + 1]
  /\ UNCHANGED <<tab, cap>>

\* #prepareElement after its frames: the element is there and gets the pointer.
Settled(q) == q.at = "settle" /\ q.doc = page.doc /\ q.el \in Connected

Settle(r) ==
  LET q == req[r] IN
  /\ Settled(q) /\ q.phase # "perform"
  /\ Set(r, [q EXCEPT !.at = "reply", !.spot = IF q.kind = "pointer" THEN SpotOf(q.el) ELSE None,
                      !.disturbed = FALSE])
  /\ Service

\* performDomAction: what takes the focus gets it, if the action asks for it.  Keys
\* that another request is about to send go where the focus is then.
DomAction(r, f, q) ==
  /\ page' = [page EXCEPT !.focus = f]
  /\ req' = [x \in Requests |-> IF x = r THEN q
                                ELSE IF f = page.focus THEN req[x] ELSE Disturbed(req[x])]

\* perform, in the page: the identity is compared and the action done.
Perform(r) ==
  LET q == req[r] IN
  /\ Settled(q) /\ q.phase = "perform"
  /\ IF ~SameElement(q) THEN Drop(r) /\ UNCHANGED page
     ELSE \E f \in {q.el, page.focus} : DomAction(r, f,
            IF q.kind # "keys" THEN Ended
            ELSE [q EXCEPT !.phase = "dispatch", !.at = "ready", !.disturbed = FALSE,
                           !.loose = f # q.el, !.el = None, !.doc = 0, !.rt = 0, !.id = None])
  /\ UNCHANGED <<runtime, tab, cap>>

-----------------------------------------------------------------------------

CaptureStep(c) ==
  \/ Capture(c) \/ CaptureInPage(c) \/ CaptureStore(c)
  \/ Evict(c) \/ Shot(c) \/ CaptureFails(c)

RequestStep(r) ==
  \/ PreflightDone(r) \/ PointChecked(r) \/ Prepared(r) \/ Dispatch(r) \/ Fail(r)
  \/ SecureInputRequested(r) \/ Submit(r) \/ OriginChecked(r)
  \/ Resolve(r) \/ ReadRevision(r) \/ MarkSensitive(r) \/ Settle(r) \/ Perform(r)

Next ==
  \/ Move \/ Commit \/ OnCommitted \/ Install \/ Claim \/ Release
  \/ \E c \in Captures : CaptureStep(c)
  \/ \E r \in Requests, kind \in Kinds, via \in Vias, c \in Captures,
        e \in Elements, s \in Spots : Begin(r, kind, via, c, e, s)
  \/ \E r \in Requests : RequestStep(r)

Spec == Init /\ [][Next]_vars

-----------------------------------------------------------------------------

TypeOK ==
  /\ page.doc \in 1..MaxDocs /\ page.layout \in Layouts
  /\ page.focus \in Connected \cup {None}
  /\ page.sensitive \subseteq Elements
  /\ runtime.no \in 0..runtime.made /\ runtime.made <= MaxRuntimes
  /\ runtime.kept \subseteq Captures /\ tab.store \subseteq Captures
  /\ tab.epoch \in 1..page.doc /\ tab.lease \in 0..tab.leases
  /\ \A c \in tab.store : cap[c].at \in {"stored", "done"}
  /\ \A r \in Requests : req[r].at \in {"reply", "settle"} => req[r].el \in Elements

\* What a request is about to take effect on.
Hits(r) ==
  LET q == req[r] IN
  CASE q.at = "ready" /\ tab.lease # 0 ->
         {IF q.kind = "keys" THEN KeyInput ELSE MouseInput(q)}
    [] q.phase = "perform" /\ Settled(q) /\ SameElement(q) -> {<<page.doc, q.el>>}
    [] OTHER -> {}

\* An action takes effect on the element the caller named, by snapshot or by the
\* locator when it was checked, and in the document it was named in, whatever the
\* page, navigations, releases and evictions did since.  Input that goes through
\* the debugger may miss only if the page changed after the last check, if the
\* element did not take the focus, or, for a point, if another instance of the
\* runtime counted the revisions.
LandsOnTarget ==
  \A r \in Requests : LET q == req[r] IN
    \/ Hits(r) \subseteq {q.want}
    \/ q.kind \in {"pointer", "keys"} /\ (q.disturbed \/ q.loose)

\* A secret goes into the very element the request was made for, and that field
\* is registered as sensitive by then.
SecretStaysBound ==
  \A r \in Requests : req[r].kind = "secure" =>
    \A h \in Hits(r) : h = req[r].want /\ h[2] \in page.sensitive

=============================================================================
