------------------------- MODULE ActionPipelineProofs -------------------------
(***************************************************************************)
(* Input lands where it was meant to, for any page, any number of          *)
(* documents, runtimes, captures and requests that run side by side.       *)
(***************************************************************************)
EXTENDS ActionPipeline, TLAPS

Phases == {"idle", "ask", "preflight", "validate", "prepare", "waiting", "origin", "mark",
           "perform", "dispatch", "over"}
Stages == {"none", "resolve", "settle", "reply", "fresh", "stale", "ready"}

Actions == {"none", "dom", "pointer", "keys", "secure"}
Ways == {"none", "locator", "node", "point"}
ElementsOrNone == Elements \cup {None}
Identities == (Nat \X Elements) \cup {None}
Nodes == (Nat \X (Elements \cup {None})) \cup {None}

Requested ==
  [kind : Actions, via : Ways, cap : Captures \cup {None}, e : ElementsOrNone,
   spot : Spots \cup {None}, rev : Nat, loose : BOOLEAN, phase : Phases, at : Stages,
   el : ElementsOrNone, doc : Nat, rt : Nat, id : Identities, want : Nodes,
   lease : Nat, epoch : Nat, disturbed : BOOLEAN]

Captured ==
  [at : {"idle", "asked", "read", "stored", "done"}, doc : Nat, rt : Nat, epoch : Nat,
   rev : Nat, layout : Layouts \cup {None}, shot : BOOLEAN]

Types ==
  /\ page \in [doc : Nat \ {0}, layout : Layouts, focus : Elements \cup {None}, moves : Nat,
               sensitive : SUBSET Elements]
  /\ runtime \in [no : Nat, rev : Nat, kept : SUBSET Captures, made : Nat]
  /\ tab \in [epoch : Nat, lease : Nat, leases : Nat, store : SUBSET Captures]
  /\ cap \in [Captures -> Captured]
  /\ req \in [Requests -> Requested]

\* The counters are within their bounds and each other's.
Counters ==
  /\ page.doc <= MaxDocs /\ page.focus \in Connected \cup {None}
  /\ runtime.no <= runtime.made /\ runtime.made <= MaxRuntimes
  /\ runtime.no = 0 => runtime.kept = {}
  /\ 1 <= tab.epoch /\ tab.epoch <= page.doc /\ tab.lease <= tab.leases

\* A snapshot and the instance of the runtime that made it: as long as that
\* instance lives the document is the same, and as long as its revision is the
\* same so is the layout.
CapState(c) ==
  /\ cap[c].at \in {"idle", "asked"} => cap[c].rt = 0 /\ c \notin runtime.kept
  /\ cap[c].at = "read" => cap[c].rt # 0
  /\ c \in tab.store => cap[c].at \in {"stored", "done"} /\ cap[c].rt # 0
  /\ cap[c].rt # 0 =>
       /\ cap[c].rt <= runtime.made /\ cap[c].doc \in 1 .. page.doc /\ cap[c].layout \in Layouts
       /\ c \in runtime.kept => cap[c].rt = runtime.no
       /\ cap[c].rt = runtime.no =>
            /\ cap[c].doc = page.doc /\ cap[c].rev <= runtime.rev
            /\ cap[c].rev = runtime.rev => cap[c].layout = page.layout

\* Which phase a request is in at which stage of it, and what it has by then.
PhaseState(q) ==
  /\ q.at \in {"settle", "reply"} => q.phase \in {"preflight", "prepare", "perform", "ask"}
  /\ q.at = "resolve" => q.phase \in {"preflight", "prepare", "perform", "ask", "validate", "mark"}
  /\ q.at \in {"fresh", "stale"} => q.phase = "validate"
  /\ q.at = "ready" <=> q.phase = "dispatch"
  /\ q.phase \in {"preflight", "ask"} => q.id = None
  /\ q.phase \in {"preflight", "ask"} /\ q.via = "locator" => q.want = None
  /\ q.phase \in {"waiting", "origin", "mark", "perform"} => q.id # None
  /\ q.phase \in {"ask", "waiting", "origin", "mark"} => q.kind = "secure"
  /\ q.phase = "validate" => q.kind = "pointer" /\ q.via = "point"
  /\ q.phase = "prepare" /\ q.id = None => q.via = "node"
  /\ q.phase = "dispatch" => q.kind \in {"pointer", "keys"} /\ q.want # None
  /\ q.phase = "perform" => q.kind # "pointer"
  /\ q.via = "point" => q.phase \in {"validate", "dispatch"}
  /\ q.via = "none" => q.phase \in {"idle", "over"}
  /\ q.via \in {"node", "point"} => q.want # None /\ q.cap \in Captures
  /\ q.via \in {"node", "point"} => cap[q.cap].at \in {"stored", "done"}

\* The identity a request insists on is that of the element it is meant for: an
\* instance of the runtime belongs to one document.
Identity(q) ==
  /\ q.want # None => q.want[1] \in 1 .. page.doc
  /\ q.id # None =>
       /\ q.want # None /\ q.id[2] = q.want[2] /\ q.id[1] \in 1 .. runtime.made
       /\ q.id[1] = runtime.no => q.want[1] = page.doc

\* A node of a snapshot the runtime still has is a node of this document.
NodeState(q) ==
  q.via = "node" /\ q.cap \in runtime.kept => q.want = <<page.doc, q.e>>

\* The element in hand is one of the document it was found in.
InHand(q) ==
  q.at \in {"settle", "reply"} =>
    /\ q.el \in Elements /\ q.doc \in 1 .. page.doc /\ q.rt \in 1 .. runtime.made
    /\ q.rt = runtime.no => q.doc = page.doc
    /\ q.via = "node" => q.want = <<q.doc, q.el>>
    /\ q.id # None /\ q.id[1] = q.rt => q.want[1] = q.doc
    /\ q.at = "reply" /\ q.kind = "pointer" /\ ~q.disturbed =>
         q.doc = page.doc /\ page.layout[q.spot] = q.el

\* A point means what its snapshot shows there, and the revision tells whether
\* that is still what the page shows.
PointState(q) ==
  q.phase = "validate" =>
    /\ q.spot \in Spots /\ q.rt \in 1 .. runtime.made
    /\ q.cap \in tab.store => q.want = <<cap[q.cap].doc, cap[q.cap].layout[q.spot]>>
    /\ q.rt = runtime.no =>
         /\ q.rev <= runtime.rev
         /\ q.rev = runtime.rev => q.want = MouseInput(q)
    /\ q.at = "fresh" => q.disturbed \/ q.loose \/ q.want = MouseInput(q)

\* What is ready to be sent goes to the target, or something came in between.
ReadyState(q) ==
  q.at = "ready" =>
    \/ q.disturbed \/ q.loose
    \/ q.want = IF q.kind = "keys" THEN KeyInput ELSE MouseInput(q)

\* The field of a secret that is about to be typed is marked in its document.
SecretState(q) ==
  q.kind = "secure" /\ q.phase = "perform" /\ q.want[1] = page.doc =>
    q.want[2] \in page.sensitive

ReqState(q) ==
  /\ PhaseState(q) /\ Identity(q) /\ NodeState(q) /\ InHand(q)
  /\ PointState(q) /\ ReadyState(q) /\ SecretState(q)

CapInv == \A c \in Captures : CapState(c)
ReqInv == \A r \in Requests : ReqState(req[r])

IInv == Types /\ Counters /\ CapInv /\ ReqInv

-----------------------------------------------------------------------------
(* One request changes and nothing else does.                              *)

\* A layout shows an element at one spot at most.
LEMMA SpotIsRight ==
  ASSUME NEW e \in Connected
  PROVE  SpotOf(e) \in Spots /\ page.layout[SpotOf(e)] = e
BY DEF Connected, On, SpotOf

\* A request stays one when a field of it is given a value of its type.
LEMMA Updates ==
  ASSUME NEW q \in Requested
  PROVE  /\ \A x \in Actions : [q EXCEPT !.kind = x] \in Requested
         /\ \A x \in Ways : [q EXCEPT !.via = x] \in Requested
         /\ \A x \in Captures \cup {None} : [q EXCEPT !.cap = x] \in Requested
         /\ \A x \in ElementsOrNone : [q EXCEPT !.e = x] \in Requested
         /\ \A x \in Spots \cup {None} : [q EXCEPT !.spot = x] \in Requested
         /\ \A x \in Nat : [q EXCEPT !.rev = x] \in Requested
         /\ \A x \in BOOLEAN : [q EXCEPT !.loose = x] \in Requested
         /\ \A x \in Phases : [q EXCEPT !.phase = x] \in Requested
         /\ \A x \in Stages : [q EXCEPT !.at = x] \in Requested
         /\ \A x \in ElementsOrNone : [q EXCEPT !.el = x] \in Requested
         /\ \A x \in Nat : [q EXCEPT !.doc = x] \in Requested
         /\ \A x \in Nat : [q EXCEPT !.rt = x] \in Requested
         /\ \A x \in Identities : [q EXCEPT !.id = x] \in Requested
         /\ \A x \in Nodes : [q EXCEPT !.want = x] \in Requested
         /\ \A x \in Nat : [q EXCEPT !.lease = x] \in Requested
         /\ \A x \in Nat : [q EXCEPT !.epoch = x] \in Requested
         /\ \A x \in BOOLEAN : [q EXCEPT !.disturbed = x] \in Requested
<1>1. \A x \in Actions : [q EXCEPT !.kind = x] \in Requested
  BY DEF Requested
<1>2. \A x \in Ways : [q EXCEPT !.via = x] \in Requested
  BY DEF Requested
<1>3. \A x \in Captures \cup {None} : [q EXCEPT !.cap = x] \in Requested
  BY DEF Requested
<1>4. \A x \in ElementsOrNone : [q EXCEPT !.e = x] \in Requested
  BY DEF Requested
<1>5. \A x \in Spots \cup {None} : [q EXCEPT !.spot = x] \in Requested
  BY DEF Requested
<1>6. \A x \in Nat : [q EXCEPT !.rev = x] \in Requested
  BY DEF Requested
<1>7. \A x \in BOOLEAN : [q EXCEPT !.loose = x] \in Requested
  BY DEF Requested
<1>8. \A x \in Phases : [q EXCEPT !.phase = x] \in Requested
  BY DEF Requested
<1>9. \A x \in Stages : [q EXCEPT !.at = x] \in Requested
  BY DEF Requested
<1>10. \A x \in ElementsOrNone : [q EXCEPT !.el = x] \in Requested
  BY DEF Requested
<1>11. \A x \in Nat : [q EXCEPT !.doc = x] \in Requested
  BY DEF Requested
<1>12. \A x \in Nat : [q EXCEPT !.rt = x] \in Requested
  BY DEF Requested
<1>13. \A x \in Identities : [q EXCEPT !.id = x] \in Requested
  BY DEF Requested
<1>14. \A x \in Nodes : [q EXCEPT !.want = x] \in Requested
  BY DEF Requested
<1>15. \A x \in Nat : [q EXCEPT !.lease = x] \in Requested
  BY DEF Requested
<1>16. \A x \in Nat : [q EXCEPT !.epoch = x] \in Requested
  BY DEF Requested
<1>17. \A x \in BOOLEAN : [q EXCEPT !.disturbed = x] \in Requested
  BY DEF Requested
<1> QED
  BY <1>1, <1>2, <1>3, <1>4, <1>5, <1>6, <1>7, <1>8, <1>9,
     <1>10, <1>11, <1>12, <1>13, <1>14, <1>15, <1>16, <1>17

\* The values the handlers write are of their fields' types.
LEMMA Values ==
  /\ \A x \in {"idle", "ask", "preflight", "validate", "prepare", "waiting", "origin", "mark",
              "perform", "dispatch", "over"} : x \in Phases
  /\ \A x \in {"none", "resolve", "settle", "reply", "fresh", "stale", "ready"} : x \in Stages
  /\ \A x \in {"none", "locator", "node", "point"} : x \in Ways
  /\ None \in ElementsOrNone /\ None \in Identities /\ None \in Nodes
  /\ \A x \in Elements : x \in ElementsOrNone
BY DEF Phases, Stages, Ways, ElementsOrNone, Identities, Nodes

\* A request that is not under way has nothing to be right about.
LEMMA NoRequestState ==
  /\ NoRequest \in Requested /\ Ended \in Requested
  /\ Ended.phase = "over" /\ Ended.at = "none" /\ NoRequest.at = "none"
  /\ ReqState(NoRequest) /\ ReqState(Ended)
<1>1. NoRequest \in Requested /\ Ended \in Requested
  BY DEF NoRequest, Ended, Requested, Phases, Stages, Actions, Ways, ElementsOrNone, Identities, Nodes
<1>2. ASSUME NEW q, q \in {NoRequest, Ended} PROVE ReqState(q)
  <2>1. /\ q.kind = "none" /\ q.via = "none" /\ q.phase \in {"idle", "over"} /\ q.at = "none"
        /\ q.id = None /\ q.want = None
    BY <1>2 DEF NoRequest, Ended
  <2> QED
    BY <2>1 DEF ReqState, PhaseState, Identity, NodeState, InHand, PointState, ReadyState, SecretState
<1> QED
  BY <1>1, <1>2 DEF NoRequest, Ended

\* What is known of a request depends on the page, the runtime, the tab and the snapshots only.
LEMMA ReqFrame ==
  ASSUME NEW q, ReqState(q), UNCHANGED <<page, runtime, tab, cap>>
  PROVE  ReqState(q)'
BY DEF ReqState, PhaseState, Identity, NodeState, InHand, PointState, ReadyState, SecretState,
       MouseInput, KeyInput

\* What is known of a snapshot depends on the page, the runtime, the tab and the snapshots only.
LEMMA CapFrame ==
  ASSUME CapInv, UNCHANGED <<page, runtime, tab, cap>>
  PROVE  CapInv'
BY DEF CapInv, CapState

\* The counters move with the page, the runtime and the tab only.
LEMMA CountersFrame ==
  ASSUME Counters, UNCHANGED <<page, runtime, tab>>
  PROVE  Counters'
BY DEF Counters, Connected, On

\* A step of the service worker that gives one request a record in order keeps the invariant.
LEMMA SetReq ==
  ASSUME IInv, NEW r \in Requests, NEW q \in Requested, ReqState(q), Set(r, q), Service
  PROVE  IInv'
<1>1. /\ req'[r] = q /\ \A x \in Requests \ {r} : req'[x] = req[x]
      /\ req' \in [Requests -> Requested]
  BY DEF Set, IInv, Types
<1>2. UNCHANGED <<page, runtime, tab, cap>>
  BY DEF Service
<1>3. Types'
  BY <1>1, <1>2 DEF IInv, Types
<1>4. Counters' /\ CapInv'
  BY <1>2, CapFrame, CountersFrame DEF IInv
<1>5. ReqInv'
  <2> SUFFICES ASSUME NEW x \in Requests PROVE ReqState(req[x])'
    BY DEF ReqInv
  <2> DEFINE y == req'[x]
  <2>1. ReqState(y)
    BY <1>1 DEF IInv, ReqInv
  <2>2. \A z : ReqState(z) => ReqState(z)'
    BY <1>2, ReqFrame
  <2> QED
    BY <2>1, <2>2
<1> QED
  BY <1>3, <1>4, <1>5 DEF IInv

\* A request ends, answered or failed.
LEMMA DropIInv ==
  ASSUME IInv, NEW r \in Requests, Drop(r), Service
  PROVE  IInv'
BY NoRequestState, SetReq DEF Drop

\* The type of a request and its part of the invariant.
LEMMA ReqFacts ==
  ASSUME IInv, NEW r \in Requests
  PROVE  req[r] \in Requested /\ ReqState(req[r])
BY DEF IInv, Types, ReqInv

\* #prepareTarget is called for a request that knows which element it is meant for.
LEMMA PrepareIInv ==
  ASSUME IInv, NEW r \in Requests, NEW q \in Requested, Prepare(r, q), Service,
         q.via \in {"locator", "node"}, q.id # None, Identity(q), NodeState(q),
         q.via = "node" => q.want # None /\ q.cap \in Captures /\ cap[q.cap].at \in {"stored", "done"}
  PROVE  IInv'
<1> DEFINE n == [q EXCEPT !.phase = "prepare", !.at = "resolve", !.el = None, !.doc = 0, !.rt = 0]
<1>1. CASE Drop(r)
  BY <1>1, DropIInv
<1>2. CASE Set(r, n)
  <2>0. n \in Requested
    BY Updates, Values
  <2>1. /\ n.phase = "prepare" /\ n.at = "resolve" /\ n.kind = q.kind /\ n.via = q.via
        /\ n.id = q.id /\ n.want = q.want /\ n.cap = q.cap /\ n.e = q.e
    BY DEF Requested
  <2> HIDE DEF n
  <2>2. PhaseState(n) /\ Identity(n) /\ NodeState(n)
    BY <2>1 DEF PhaseState, Identity, NodeState
  <2>3. InHand(n) /\ PointState(n) /\ ReadyState(n) /\ SecretState(n)
    BY <2>1 DEF InHand, PointState, ReadyState, SecretState
  <2> QED
    BY <1>2, <2>0, <2>1, <2>2, <2>3, SetReq DEF ReqState
<1> QED
  BY <1>1, <1>2 DEF Prepare

\* The element the page has answered with, as an identity and as what is meant.
LEMMA Answering ==
  ASSUME IInv, NEW r \in Requests, req[r].at = "reply"
  PROVE  LET q == req[r] IN
         /\ Found(q) \in Identities /\ Found(q) # None
         /\ Found(q)[1] = q.rt /\ Found(q)[2] = q.el
         /\ q.rt \in 1 .. runtime.made /\ (q.rt = runtime.no => q.doc = page.doc)
         /\ <<q.doc, q.el>> \in Nodes /\ <<q.doc, q.el>> # None
         /\ q.doc \in 1 .. page.doc
         /\ q.via = "node" => q.want = <<q.doc, q.el>>
         /\ q.via \in {"locator", "node"}
<1>1. req[r] \in Requested /\ InHand(req[r]) /\ PhaseState(req[r])
  BY ReqFacts DEF ReqState
<1>2. /\ req[r].el \in Elements /\ req[r].doc \in Nat /\ req[r].rt \in Nat
      /\ req[r].via \in {"none", "locator", "node", "point"}
  BY <1>1 DEF Requested, InHand, Ways
<1> QED
  BY <1>1, <1>2, ActionsAssumption DEF InHand, PhaseState, Found, Identities, Nodes

\* action.preflight answers: the identity it found is the one the request holds.
LEMMA PreflightDoneIInv ==
  ASSUME IInv, NEW r \in Requests, PreflightDone(r)
  PROVE  IInv'
<1> DEFINE q == req[r]
           n == [q EXCEPT !.id = Found(q), !.want = Named(q)]
<1>1. q.phase = "preflight" /\ q.at = "reply" /\ Prepare(r, n) /\ Service
  BY DEF PreflightDone, Answered
<1>2. q \in Requested /\ PhaseState(q) /\ Identity(q) /\ NodeState(q)
  BY ReqFacts DEF ReqState
<1>3. /\ Found(q) \in Identities /\ Found(q) # None
      /\ Found(q)[1] = q.rt /\ Found(q)[2] = q.el
      /\ q.rt \in 1 .. runtime.made /\ (q.rt = runtime.no => q.doc = page.doc)
      /\ <<q.doc, q.el>> \in Nodes /\ <<q.doc, q.el>> # None
      /\ q.doc \in 1 .. page.doc
      /\ q.via = "node" => q.want = <<q.doc, q.el>>
      /\ q.via \in {"locator", "node"}
  BY <1>1, Answering
<1>4. Named(q) = <<q.doc, q.el>>
  BY <1>1, <1>2, <1>3 DEF PhaseState, Named
<1>5. n \in Requested
  BY <1>2, <1>3, <1>4, Updates
<1>6. /\ n.id = Found(q) /\ n.want = <<q.doc, q.el>>
      /\ n.via = q.via /\ n.cap = q.cap /\ n.e = q.e
  BY <1>2, <1>3, <1>4 DEF Requested
<1> HIDE DEF n
<1>7. Identity(n) /\ NodeState(n)
  BY <1>2, <1>3, <1>6 DEF Identity, NodeState
<1> QED
  BY <1>1, <1>2, <1>3, <1>5, <1>6, <1>7, PrepareIInv DEF PhaseState

\* secureInput.request stores the field it was bound to.
LEMMA SecureInputRequestedIInv ==
  ASSUME IInv, NEW r \in Requests, SecureInputRequested(r)
  PROVE  IInv'
<1> DEFINE q == req[r]
           n == [q EXCEPT !.phase = "waiting", !.at = "none", !.id = Found(q),
                          !.want = Named(q), !.el = None, !.doc = 0, !.rt = 0,
                          !.lease = tab.lease, !.epoch = tab.epoch]
<1>1. q.phase = "ask" /\ q.at = "reply" /\ (Drop(r) \/ Set(r, n)) /\ Service
  BY DEF SecureInputRequested, Answered
<1>2. q \in Requested /\ PhaseState(q) /\ Identity(q) /\ NodeState(q)
  BY ReqFacts DEF ReqState
<1>3. /\ Found(q) \in Identities /\ Found(q) # None
      /\ Found(q)[1] = q.rt /\ Found(q)[2] = q.el
      /\ q.rt \in 1 .. runtime.made /\ (q.rt = runtime.no => q.doc = page.doc)
      /\ <<q.doc, q.el>> \in Nodes /\ <<q.doc, q.el>> # None
      /\ q.doc \in 1 .. page.doc
      /\ q.via = "node" => q.want = <<q.doc, q.el>>
      /\ q.via \in {"locator", "node"}
  BY <1>1, Answering
<1>4. Named(q) = <<q.doc, q.el>>
  BY <1>1, <1>2, <1>3 DEF PhaseState, Named
<1>a. n \in Requested
  <2>1. tab.lease \in Nat /\ tab.epoch \in Nat
    BY DEF IInv, Types
  <2> QED
    BY <1>2, <1>3, <1>4, <2>1, Updates, Values
<1>5. /\ n.id = Found(q) /\ n.want = <<q.doc, q.el>> /\ n.phase = "waiting"
      /\ n.at = "none" /\ n.kind = q.kind /\ n.via = q.via /\ n.cap = q.cap /\ n.e = q.e
  BY <1>2, <1>3, <1>4 DEF Requested
<1> HIDE DEF n
<1>6. PhaseState(n) /\ Identity(n) /\ NodeState(n)
  BY <1>1, <1>2, <1>3, <1>5 DEF PhaseState, Identity, NodeState
<1>7. InHand(n) /\ PointState(n) /\ ReadyState(n) /\ SecretState(n)
  BY <1>5 DEF InHand, PointState, ReadyState, SecretState
<1>8. CASE Drop(r)
  BY <1>1, <1>8, DropIInv
<1>9. CASE Set(r, n)
  BY <1>1, <1>a, <1>5, <1>6, <1>7, <1>9, SetReq DEF ReqState
<1> QED
  BY <1>1, <1>8, <1>9

\* The element prepared is the one found before, or the request ends.
LEMMA PreparedIInv ==
  ASSUME IInv, NEW r \in Requests, Prepared(r)
  PROVE  IInv'
<1> DEFINE q == req[r]
           n == [q EXCEPT !.id = Found(q), !.el = None, !.doc = 0, !.rt = 0,
                          !.at = IF q.kind = "pointer" THEN "ready" ELSE "resolve",
                          !.phase = NextPhase(q.kind)]
<1>1. q.phase = "prepare" /\ q.at = "reply" /\ Service
  BY DEF Prepared, Answered
<1>2. q \in Requested /\ PhaseState(q) /\ Identity(q) /\ NodeState(q) /\ InHand(q)
  BY ReqFacts DEF ReqState
<1>3. /\ Found(q) \in Identities /\ Found(q) # None
      /\ Found(q)[1] = q.rt /\ Found(q)[2] = q.el
      /\ q.rt \in 1 .. runtime.made /\ (q.rt = runtime.no => q.doc = page.doc)
      /\ q.via = "node" => q.want = <<q.doc, q.el>>
      /\ q.via \in {"locator", "node"}
  BY <1>1, Answering
<1>4. CASE ~SameElement(q)
  <2>1. Drop(r)
    BY <1>4, Zenon DEF Prepared
  <2> QED
    BY <1>1, <2>1, DropIInv
<1>5. CASE SameElement(q)
  <2>0. Set(r, n)
    BY <1>5, Zenon DEF Prepared
  <2>1. /\ q.want # None /\ q.want[1] = q.doc /\ q.want[2] = q.el
        /\ q.rt = runtime.no => q.want[1] = page.doc
    BY <1>1, <1>2, <1>3, <1>5 DEF PhaseState, Identity, InHand, SameElement
  <2>2. q.want = <<q.doc, q.el>>
    <3>1. q.want \in Nodes
      BY <1>2 DEF Requested
    <3> QED
      BY <2>1, <3>1 DEF Nodes
  <2>3. /\ NextPhase(q.kind) \in {"dispatch", "mark", "perform"}
        /\ NextPhase(q.kind) = "dispatch" <=> q.kind = "pointer"
        /\ NextPhase(q.kind) = "mark" <=> q.kind = "secure"
    BY DEF NextPhase
  <2>4. n \in Requested
    BY <1>2, <1>3, <2>3, Updates, Values
  <2>5. /\ n.phase = NextPhase(q.kind) /\ n.at = IF q.kind = "pointer" THEN "ready" ELSE "resolve"
        /\ n.kind = q.kind /\ n.via = q.via /\ n.id = Found(q) /\ n.want = q.want /\ n.cap = q.cap
        /\ n.e = q.e /\ n.spot = q.spot /\ n.disturbed = q.disturbed
    BY <1>2 DEF Requested
  <2> HIDE DEF n
  <2>6. PhaseState(n)
    BY <1>1, <1>2, <1>3, <2>1, <2>3, <2>5 DEF PhaseState
  <2>7. Identity(n) /\ NodeState(n)
    BY <1>2, <1>3, <2>1, <2>5 DEF Identity, NodeState
  <2>8. InHand(n) /\ PointState(n) /\ SecretState(n)
    BY <2>3, <2>5 DEF InHand, PointState, SecretState
  <2>9. ReadyState(n)
    BY <1>1, <1>2, <2>2, <2>5 DEF InHand, ReadyState, MouseInput
  <2> QED
    BY <1>1, <2>0, <2>4, <2>6, <2>7, <2>8, <2>9, SetReq DEF ReqState
<1> QED
  BY <1>4, <1>5

\* The user submits the secret.
LEMMA SubmitIInv ==
  ASSUME IInv, NEW r \in Requests, Submit(r)
  PROVE  IInv'
<1> DEFINE q == req[r]
           n == [q EXCEPT !.phase = "origin"]
<1>1. q.phase = "waiting" /\ (Drop(r) \/ Set(r, n)) /\ Service
  BY DEF Submit
<1>2. q \in Requested /\ ReqState(q)
  BY ReqFacts
<1>3. n \in Requested
  BY <1>2, Updates, Values
<1>4. /\ n.phase = "origin" /\ n.at = q.at /\ n.kind = q.kind /\ n.via = q.via /\ n.id = q.id
      /\ n.want = q.want /\ n.cap = q.cap /\ n.e = q.e
  BY <1>2 DEF Requested
<1> HIDE DEF n
<1>5. ReqState(n)
  BY <1>1, <1>2, <1>4 DEF ReqState, PhaseState, Identity, NodeState, InHand, PointState, ReadyState,
                          SecretState
<1> QED
  BY <1>1, <1>3, <1>5, SetReq, DropIInv

\* The submission compares the origin of the page.
LEMMA OriginCheckedIInv ==
  ASSUME IInv, NEW r \in Requests, OriginChecked(r)
  PROVE  IInv'
<1>1. req[r].phase = "origin" /\ (Drop(r) \/ Prepare(r, req[r])) /\ Service
  BY DEF OriginChecked
<1>2. req[r] \in Requested /\ PhaseState(req[r]) /\ Identity(req[r]) /\ NodeState(req[r])
  BY ReqFacts DEF ReqState
<1>3. req[r].via \in {"locator", "node"} /\ req[r].id # None
  BY <1>1, <1>2 DEF PhaseState, Requested, Ways
<1> QED
  BY <1>1, <1>2, <1>3, DropIInv, PrepareIInv DEF PhaseState

\* The revision is compared with the one of the picture.
LEMMA ReadRevisionIInv ==
  ASSUME IInv, NEW r \in Requests, ReadRevision(r)
  PROVE  IInv'
<1> DEFINE q == req[r]
           n == [q EXCEPT !.at = IF runtime.rev = q.rev THEN "fresh" ELSE "stale",
                          !.loose = runtime.no # q.rt, !.disturbed = FALSE]
<1>1. q.phase = "validate" /\ q.at = "resolve" /\ Set(r, n) /\ Service
  BY DEF ReadRevision
<1>2. q \in Requested /\ ReqState(q)
  BY ReqFacts
<1>3. n \in Requested
  BY <1>2, Updates, Values
<1>4. /\ n.phase = q.phase /\ n.at = (IF runtime.rev = q.rev THEN "fresh" ELSE "stale")
      /\ n.loose = (runtime.no # q.rt)
      /\ n.kind = q.kind /\ n.via = q.via /\ n.id = q.id /\ n.want = q.want /\ n.cap = q.cap
      /\ n.e = q.e /\ n.spot = q.spot /\ n.rev = q.rev /\ n.rt = q.rt
  BY <1>2 DEF Requested
<1> HIDE DEF n
<1>5. PhaseState(n) /\ Identity(n) /\ NodeState(n) /\ InHand(n) /\ ReadyState(n) /\ SecretState(n)
  BY <1>1, <1>2, <1>4 DEF ReqState, PhaseState, Identity, NodeState, InHand, ReadyState, SecretState
<1>6. PointState(n)
  BY <1>1, <1>2, <1>4 DEF ReqState, PointState, MouseInput
<1> QED
  BY <1>1, <1>3, <1>5, <1>6, SetReq DEF ReqState

\* The runtime resolves the target, in the page it is in.
LEMMA ResolveIInv ==
  ASSUME IInv, NEW r \in Requests, Resolve(r)
  PROVE  IInv'
<1> DEFINE q == req[r]
<1>1. PICK e \in Targets(q) :
        Set(r, [q EXCEPT !.at = "settle", !.el = e, !.doc = page.doc, !.rt = runtime.no])
  BY DEF Resolve
<1>2. q.at = "resolve" /\ q.phase \notin {"validate", "mark"} /\ runtime.no # 0 /\ Service
  BY DEF Resolve
<1> DEFINE n == [q EXCEPT !.at = "settle", !.el = e, !.doc = page.doc, !.rt = runtime.no]
<1>3. q \in Requested /\ ReqState(q)
  BY ReqFacts
<1>4. /\ page.doc \in Nat \ {0} /\ runtime.no \in Nat /\ runtime.made \in Nat
      /\ runtime.no <= runtime.made /\ page.layout \in Layouts
  BY DEF IInv, Types, Counters
<1>5. Connected \subseteq Elements
  BY <1>4 DEF Connected, On, Layouts
<1>6. e \in Elements /\ (q.via = "node" => e = q.e /\ q.cap \in runtime.kept)
  BY <1>5 DEF Targets
<1>7. n \in Requested
  BY <1>3, <1>4, <1>6, Updates, Values
<1>8. /\ n.phase = q.phase /\ n.at = "settle" /\ n.el = e /\ n.doc = page.doc /\ n.rt = runtime.no
      /\ n.kind = q.kind /\ n.via = q.via /\ n.id = q.id /\ n.want = q.want /\ n.cap = q.cap
      /\ n.e = q.e
  BY <1>3 DEF Requested
<1> HIDE DEF n
<1>9. PhaseState(n) /\ Identity(n) /\ NodeState(n) /\ PointState(n) /\ ReadyState(n) /\ SecretState(n)
  BY <1>2, <1>3, <1>8 DEF ReqState, PhaseState, Identity, NodeState, PointState, ReadyState, SecretState
<1>10. InHand(n)
  BY <1>2, <1>3, <1>4, <1>6, <1>8 DEF ReqState, InHand, Identity, NodeState
<1> QED
  BY <1>1, <1>2, <1>7, <1>9, <1>10, SetReq DEF ReqState, n

\* The element has stood still, or the runtime gives up.
LEMMA SettleIInv ==
  ASSUME IInv, NEW r \in Requests, Settle(r)
  PROVE  IInv'
<1> DEFINE q == req[r]
           n == [q EXCEPT !.at = "reply",
                          !.spot = IF q.kind = "pointer" THEN SpotOf(q.el) ELSE None,
                          !.disturbed = FALSE]
<1>1. /\ q.at = "settle" /\ q.doc = page.doc /\ q.el \in Connected /\ q.phase # "perform"
      /\ Set(r, n) /\ Service
  BY DEF Settle, Settled
<1>2. q \in Requested /\ ReqState(q)
  BY ReqFacts
<1>3. SpotOf(q.el) \in Spots /\ page.layout[SpotOf(q.el)] = q.el
  BY <1>1, SpotIsRight
<1>4. n \in Requested
  BY <1>2, <1>3, Updates, Values
<1>5. /\ n.phase = q.phase /\ n.at = "reply" /\ n.el = q.el /\ n.doc = q.doc /\ n.rt = q.rt
      /\ n.kind = q.kind /\ n.via = q.via /\ n.id = q.id /\ n.want = q.want /\ n.cap = q.cap
      /\ n.e = q.e /\ (q.kind = "pointer" => n.spot = SpotOf(q.el))
  BY <1>2 DEF Requested
<1> HIDE DEF n
<1>6. PhaseState(n) /\ Identity(n) /\ NodeState(n) /\ PointState(n) /\ ReadyState(n) /\ SecretState(n)
  BY <1>1, <1>2, <1>5 DEF ReqState, PhaseState, Identity, NodeState, PointState, ReadyState, SecretState
<1>7. InHand(n)
  BY <1>1, <1>2, <1>3, <1>5 DEF ReqState, InHand
<1> QED
  BY <1>1, <1>4, <1>6, <1>7, SetReq DEF ReqState

\* A request begins with the identity its snapshot gives, or with none.
LEMMA BeginIInv ==
  ASSUME IInv, NEW r \in Requests, NEW kind \in Kinds, NEW via \in Vias, NEW c \in Captures,
         NEW e \in Elements, NEW s \in Spots, Begin(r, kind, via, c, e, s)
  PROVE  IInv'
<1> DEFINE phase == CASE kind = "secure" -> "ask"
                      [] via = "point" -> "validate"
                      [] OTHER -> "preflight"
           want == CASE via = "node" -> <<cap[c].doc, e>>
                     [] via = "point" -> <<cap[c].doc, cap[c].layout[s]>>
                     [] OTHER -> None
           from == IF via = "locator" THEN None ELSE c
           node == IF via = "node" THEN e ELSE None
           spot == IF via = "point" THEN s ELSE None
           rev == IF via = "point" THEN cap[c].rev ELSE 0
           rt == IF via = "point" THEN cap[c].rt ELSE 0
           n == [NoRequest EXCEPT
                   !.kind = kind, !.via = via, !.at = "resolve", !.cap = from, !.e = node,
                   !.spot = spot, !.rev = rev, !.rt = rt, !.phase = phase, !.want = want]
<1>1. /\ via # "locator" => c \in tab.store
      /\ via = "point" => kind = "pointer"
      /\ Set(r, n) /\ Service
  BY DEF Begin, Current, Service
<1>2. kind \in Actions /\ via \in {"locator", "node", "point"} /\ kind # "none"
  BY ActionsAssumption DEF Actions
<1>3. cap[c] \in Captured /\ CapState(c) /\ page.doc \in Nat
  BY DEF IInv, Types, CapInv
<1>4. /\ cap[c].doc \in Nat /\ cap[c].rev \in Nat /\ cap[c].rt \in Nat
  BY <1>3 DEF Captured
<1>5. ASSUME via # "locator"
      PROVE  /\ cap[c].at \in {"stored", "done"} /\ cap[c].rt \in 1 .. runtime.made
             /\ cap[c].doc \in 1 .. page.doc /\ cap[c].layout \in Layouts
             /\ cap[c].layout[s] \in Elements \cup {None}
             /\ c \in runtime.kept => cap[c].doc = page.doc
             /\ cap[c].rt = runtime.no =>
                  /\ cap[c].doc = page.doc /\ cap[c].rev <= runtime.rev
                  /\ cap[c].rev = runtime.rev => cap[c].layout = page.layout
  <2>1. cap[c].rt # 0 /\ cap[c].at \in {"stored", "done"}
    BY <1>1, <1>3, <1>5 DEF CapState
  <2>2. cap[c].layout \in Layouts
    BY <1>3, <2>1 DEF CapState
  <2>3. cap[c].layout[s] \in Elements \cup {None}
    BY <2>2 DEF Layouts
  <2> QED
    BY <1>3, <1>4, <2>1, <2>2, <2>3 DEF CapState
<1>6. /\ phase \in {"ask", "validate", "preflight"}
      /\ phase = "ask" <=> kind = "secure"
      /\ phase = "validate" <=> via = "point"
  BY <1>1
<1>7. /\ want \in Nodes /\ (want = None <=> via = "locator")
      /\ via = "node" => want = <<cap[c].doc, e>>
      /\ via = "point" => want = <<cap[c].doc, cap[c].layout[s]>>
      /\ want # None => want[1] = cap[c].doc
  BY <1>2, <1>4, <1>5, ActionsAssumption DEF Nodes
<1>8. n \in Requested
  <2>1. phase \in Phases /\ want \in Nodes /\ "resolve" \in Stages /\ via \in Ways
    <3> HIDE DEF phase, want
    <3> QED
      BY <1>2, <1>6, <1>7, Values
  <2>2. node \in ElementsOrNone /\ from \in Captures \cup {None} /\ spot \in Spots \cup {None}
    BY Values
  <2>3. rev \in Nat /\ rt \in Nat
    BY <1>4
  <2>4. NoRequest \in Requested
    BY NoRequestState
  <2> HIDE DEF phase, want, from, node, spot, rev, rt
  <2> QED
    BY <1>2, <2>1, <2>2, <2>3, <2>4, Updates
<1>9. /\ n.phase = phase /\ n.at = "resolve" /\ n.kind = kind /\ n.via = via /\ n.id = None
      /\ n.want = want
  BY DEF NoRequest
<1>10. /\ via # "locator" => n.cap = c
       /\ via = "node" => n.e = e
       /\ via = "point" => n.spot = s /\ n.rev = cap[c].rev /\ n.rt = cap[c].rt
  BY DEF NoRequest
<1> HIDE DEF n, phase, want
<1>11. PhaseState(n)
  BY <1>1, <1>2, <1>5, <1>6, <1>7, <1>9, <1>10 DEF PhaseState
<1>12. Identity(n) /\ NodeState(n) /\ InHand(n) /\ ReadyState(n) /\ SecretState(n)
  BY <1>2, <1>5, <1>6, <1>7, <1>9, <1>10
     DEF Identity, NodeState, InHand, ReadyState, SecretState
<1>13. PointState(n)
  BY <1>5, <1>6, <1>7, <1>9, <1>10 DEF PointState, MouseInput
<1> QED
  BY <1>1, <1>8, <1>11, <1>12, <1>13, SetReq DEF ReqState

\* A fresh point is dispatched, a stale one bound to the node of the snapshot.
LEMMA PointCheckedIInv ==
  ASSUME IInv, NEW r \in Requests, PointChecked(r)
  PROVE  IInv'
<1> DEFINE q == req[r]
           f == [q EXCEPT !.phase = "dispatch", !.at = "ready"]
           n == [q EXCEPT !.via = "node", !.e = cap[q.cap].layout[q.spot],
                          !.phase = "prepare", !.at = "resolve", !.rev = 0, !.rt = 0,
                          !.loose = FALSE]
<1>1. /\ q.phase = "validate" /\ Service
      /\ \/ q.at = "fresh" /\ Set(r, f)
         \/ Drop(r)
         \/ q.at = "stale" /\ q.cap \in tab.store /\ Set(r, n)
  BY DEF PointChecked, Rebind, Current
<1>2. q \in Requested /\ ReqState(q)
  BY ReqFacts
<1>3. /\ q.kind = "pointer" /\ q.via = "point" /\ q.cap \in Captures /\ q.want # None
      /\ q.spot \in Spots /\ cap[q.cap].at \in {"stored", "done"}
  BY <1>1, <1>2 DEF ReqState, PhaseState, PointState
<1>4. ASSUME q.at = "fresh", Set(r, f) PROVE IInv'
  <2>1. f \in Requested
    BY <1>2, Updates, Values
  <2>2. /\ f.phase = "dispatch" /\ f.at = "ready" /\ f.kind = q.kind /\ f.via = q.via
        /\ f.id = q.id /\ f.want = q.want /\ f.cap = q.cap /\ f.e = q.e /\ f.spot = q.spot
        /\ f.disturbed = q.disturbed /\ f.loose = q.loose
    BY <1>2 DEF Requested
  <2> HIDE DEF f
  <2>3. PhaseState(f) /\ Identity(f) /\ NodeState(f) /\ InHand(f) /\ PointState(f) /\ SecretState(f)
    BY <1>2, <1>3, <2>2 DEF ReqState, PhaseState, Identity, NodeState, InHand, PointState, SecretState
  <2>4. ReadyState(f)
    BY <1>1, <1>2, <1>3, <1>4, <2>2 DEF ReqState, PointState, ReadyState, MouseInput
  <2> QED
    BY <1>1, <1>4, <2>1, <2>3, <2>4, SetReq DEF ReqState
<1>5. ASSUME q.cap \in tab.store, Set(r, n) PROVE IInv'
  <2>1. CapState(q.cap) /\ q.want = <<cap[q.cap].doc, cap[q.cap].layout[q.spot]>>
    BY <1>1, <1>2, <1>3, <1>5 DEF ReqState, PointState, IInv, CapInv
  <2>2. cap[q.cap].layout \in Layouts /\ (q.cap \in runtime.kept => cap[q.cap].doc = page.doc)
    BY <1>5, <2>1 DEF CapState
  <2>3. cap[q.cap].layout[q.spot] \in ElementsOrNone
    BY <1>3, <2>2 DEF Layouts, ElementsOrNone
  <2>4. n \in Requested
    BY <1>2, <2>3, Updates, Values
  <2>5. /\ n.phase = "prepare" /\ n.at = "resolve" /\ n.kind = q.kind /\ n.via = "node"
        /\ n.id = q.id /\ n.want = q.want /\ n.cap = q.cap /\ n.e = cap[q.cap].layout[q.spot]
    BY <1>2 DEF Requested
  <2> HIDE DEF n
  <2>6. PhaseState(n) /\ InHand(n) /\ PointState(n) /\ SecretState(n) /\ ReadyState(n)
    BY <1>3, <2>5 DEF PhaseState, InHand, PointState, SecretState, ReadyState
  <2>7. Identity(n) /\ NodeState(n)
    BY <1>2, <2>1, <2>2, <2>5 DEF ReqState, Identity, NodeState
  <2> QED
    BY <1>1, <1>5, <2>4, <2>6, <2>7, SetReq DEF ReqState
<1> QED
  BY <1>1, <1>4, <1>5, DropIInv

-----------------------------------------------------------------------------
(* Steps of the page, of Chrome and of captures: what they leave alone.    *)

\* Nothing a request relies on is touched: its snapshot is not replaced, only
\* dropped, and the runtime at most forgets it.
LEMMA SnapshotFrame ==
  ASSUME NEW q, ReqState(q), UNCHANGED page,
         runtime'.no = runtime.no, runtime'.made = runtime.made, runtime'.rev = runtime.rev,
         q.via \in {"node", "point"} /\ q.cap \in Captures /\ cap[q.cap].at \in {"stored", "done"} =>
           /\ cap'[q.cap].at \in {"stored", "done"}
           /\ q.cap \in runtime'.kept => q.cap \in runtime.kept
           /\ q.cap \in tab'.store =>
                /\ q.cap \in tab.store
                /\ cap'[q.cap].doc = cap[q.cap].doc /\ cap'[q.cap].layout = cap[q.cap].layout
  PROVE  ReqState(q)'
<1>1. q.phase = "validate" => q.via = "point"
  BY DEF ReqState, PhaseState
<1>2. PhaseState(q)'
  BY DEF ReqState, PhaseState
<1>3. Identity(q)' /\ NodeState(q)' /\ InHand(q)' /\ ReadyState(q)' /\ SecretState(q)'
  BY DEF ReqState, PhaseState, Identity, NodeState, InHand, ReadyState, SecretState, MouseInput,
         KeyInput
<1>4. PointState(q)'
  BY <1>1 DEF ReqState, PhaseState, PointState, MouseInput
<1> QED
  BY <1>2, <1>3, <1>4 DEF ReqState

\* A step that leaves the requests alone.
LEMMA ReqKept ==
  ASSUME IInv, Types', Counters', CapInv', UNCHANGED req,
         \A q \in Requested : ReqState(q) => ReqState(q)'
  PROVE  IInv'
<1>1. ReqInv'
  <2> SUFFICES ASSUME NEW r \in Requests PROVE ReqState(req[r])'
    BY DEF ReqInv
  <2>1. req[r] \in Requested /\ ReqState(req[r]) /\ req'[r] = req[r]
    BY ReqFacts
  <2>2. ReqState(req[r])' <=> \A q : q = req'[r] => ReqState(q)'
    OBVIOUS
  <2> QED
    BY <2>1, <2>2
<1> QED
  BY <1>1 DEF IInv

\* A capture asks the runtime.
LEMMA CaptureIInv ==
  ASSUME IInv, NEW c \in Captures, Capture(c)
  PROVE  IInv'
<1> USE DEF Capture
<1>1. cap[c].at = "idle" /\ cap \in [Captures -> Captured] /\ cap[c] \in Captured
  BY DEF IInv, Types
<1>2. /\ cap'[c] = [cap[c] EXCEPT !.at = "asked"] /\ cap'[c].at = "asked" /\ cap'[c].rt = cap[c].rt
      /\ cap'[c] \in Captured
      /\ \A d \in Captures \ {c} : cap'[d] = cap[d]
      /\ cap' \in [Captures -> Captured]
  BY <1>1 DEF Captured
<1>3. Types' /\ Counters'
  BY <1>2, CountersFrame DEF IInv, Types
<1>4. CapInv'
  <2> SUFFICES ASSUME NEW d \in Captures PROVE CapState(d)'
    BY DEF CapInv
  <2>1. CapState(d) /\ CapState(c)
    BY DEF IInv, CapInv
  <2>2. CASE d = c
    BY <1>1, <1>2, <2>1, <2>2 DEF CapState
  <2>3. CASE d # c
    BY <1>2, <2>1, <2>3 DEF CapState
  <2> QED
    BY <2>2, <2>3
<1>5. ASSUME NEW q \in Requested, ReqState(q) PROVE ReqState(q)'
  BY <1>1, <1>2, <1>5, SnapshotFrame
<1> QED
  BY <1>3, <1>4, <1>5, ReqKept

\* The runtime reads the page it is in.
LEMMA CaptureInPageIInv ==
  ASSUME IInv, NEW c \in Captures, CaptureInPage(c)
  PROVE  IInv'
<1> USE DEF CaptureInPage
<1>1. /\ cap[c].at = "asked" /\ cap \in [Captures -> Captured] /\ cap[c] \in Captured
      /\ page.doc \in Nat \ {0} /\ page.layout \in Layouts /\ runtime.no \in Nat \ {0}
      /\ runtime.rev \in Nat /\ runtime.made \in Nat /\ runtime.no <= runtime.made
  BY DEF IInv, Types, Counters
<1>2. /\ cap'[c].at = "read" /\ cap'[c].doc = page.doc /\ cap'[c].rt = runtime.no
      /\ cap'[c].rev = runtime.rev /\ cap'[c].layout = page.layout
      /\ \A d \in Captures \ {c} : cap'[d] = cap[d]
      /\ cap' \in [Captures -> Captured]
  BY <1>1 DEF Captured
<1>3. /\ runtime'.no = runtime.no /\ runtime'.made = runtime.made /\ runtime'.rev = runtime.rev
      /\ runtime'.kept = runtime.kept \cup {c}
      /\ runtime' \in [no : Nat, rev : Nat, kept : SUBSET Captures, made : Nat]
  BY DEF IInv, Types
<1>4. Types'
  BY <1>2, <1>3 DEF IInv, Types
<1>5. Counters'
  BY <1>3 DEF IInv, Counters, Connected, On
<1>6. CapInv'
  <2> SUFFICES ASSUME NEW d \in Captures PROVE CapState(d)'
    BY DEF CapInv
  <2>1. CapState(d) /\ CapState(c)
    BY DEF IInv, CapInv
  <2>2. CASE d = c
    BY <1>1, <1>2, <1>3, <2>1, <2>2 DEF CapState
  <2>3. CASE d # c
    BY <1>2, <1>3, <2>1, <2>3 DEF CapState
  <2> QED
    BY <2>2, <2>3
<1>7. ASSUME NEW q \in Requested, ReqState(q) PROVE ReqState(q)'
  BY <1>1, <1>2, <1>3, <1>7, SnapshotFrame
<1> QED
  BY <1>4, <1>5, <1>6, <1>7, ReqKept

\* A snapshot is stored under the epoch of the moment.
LEMMA CaptureStoreIInv ==
  ASSUME IInv, NEW c \in Captures, CaptureStore(c)
  PROVE  IInv'
<1> USE DEF CaptureStore
<1>1. /\ cap[c].at = "read" /\ cap \in [Captures -> Captured] /\ cap[c] \in Captured
      /\ tab.epoch \in Nat
  BY DEF IInv, Types
<1>2. /\ cap'[c].at = "stored" /\ cap'[c].doc = cap[c].doc /\ cap'[c].rt = cap[c].rt
      /\ cap'[c].rev = cap[c].rev /\ cap'[c].layout = cap[c].layout
      /\ \A d \in Captures \ {c} : cap'[d] = cap[d]
      /\ cap' \in [Captures -> Captured]
  BY <1>1 DEF Captured
<1>3. /\ tab'.epoch = tab.epoch /\ tab'.lease = tab.lease /\ tab'.leases = tab.leases
      /\ tab'.store = tab.store \cup {c}
      /\ tab' \in [epoch : Nat, lease : Nat, leases : Nat, store : SUBSET Captures]
  BY DEF IInv, Types
<1>4. Types'
  BY <1>2, <1>3 DEF IInv, Types
<1>5. Counters'
  BY <1>3 DEF IInv, Counters, Connected, On
<1>6. CapInv'
  <2> SUFFICES ASSUME NEW d \in Captures PROVE CapState(d)'
    BY DEF CapInv
  <2>1. CapState(d) /\ CapState(c)
    BY DEF IInv, CapInv
  <2>2. CASE d = c
    BY <1>1, <1>2, <1>3, <2>1, <2>2 DEF CapState
  <2>3. CASE d # c
    BY <1>2, <1>3, <2>1, <2>3 DEF CapState
  <2> QED
    BY <2>2, <2>3
<1>7. ASSUME NEW q \in Requested, ReqState(q) PROVE ReqState(q)'
  BY <1>1, <1>2, <1>3, <1>7, SnapshotFrame
<1> QED
  BY <1>4, <1>5, <1>6, <1>7, ReqKept

\* What dropping snapshots leaves of the captures.
LEMMA Forgetting ==
  ASSUME IInv, NEW cs \in SUBSET Captures, cap' = Forget(cs)
  PROVE  /\ cap' \in [Captures -> Captured]
         /\ \A c \in cs : cap'[c].at = "done" /\ cap'[c].rt = 0
         /\ \A c \in Captures \ cs : cap'[c] = cap[c]
<1>1. Over \in Captured /\ Over.at = "done" /\ Over.rt = 0
  BY DEF Over, NoCapture, Captured
<1> QED
  BY <1>1 DEF IInv, Types, Forget

\* Snapshots are dropped, by the service and perhaps by the runtime as well.
LEMMA DropSnapshots ==
  ASSUME IInv, NEW cs \in SUBSET Captures, cap' = Forget(cs), UNCHANGED page,
         runtime' = runtime, tab'.store \subseteq tab.store \ cs
  PROVE  /\ CapInv'
         /\ \A q \in Requested : ReqState(q) => ReqState(q)'
<1>1. /\ \A c \in cs : cap'[c].at = "done" /\ cap'[c].rt = 0
      /\ \A c \in Captures \ cs : cap'[c] = cap[c]
  BY Forgetting
<1>2. CapInv'
  <2> SUFFICES ASSUME NEW d \in Captures PROVE CapState(d)'
    BY DEF CapInv
  <2>1. CapState(d)
    BY DEF IInv, CapInv
  <2>2. CASE d \in cs
    BY <1>1, <2>1, <2>2 DEF CapState
  <2>3. CASE d \notin cs
    BY <1>1, <2>1, <2>3 DEF CapState
  <2> QED
    BY <2>2, <2>3
<1>3. ASSUME NEW q \in Requested, ReqState(q) PROVE ReqState(q)'
  BY <1>1, <1>3, SnapshotFrame
<1> QED
  BY <1>2, <1>3

\* Dropping a snapshot leaves requests that hold its identity as they are.
LEMMA EvictIInv ==
  ASSUME IInv, NEW c \in Captures, Evict(c)
  PROVE  IInv'
<1>1. CASE runtime' = [runtime EXCEPT !.kept = @ \ {c}] /\ UNCHANGED <<page, tab, cap, req>>
  <2>1. /\ runtime'.no = runtime.no /\ runtime'.made = runtime.made /\ runtime'.rev = runtime.rev
        /\ runtime'.kept = runtime.kept \ {c}
        /\ runtime' \in [no : Nat, rev : Nat, kept : SUBSET Captures, made : Nat]
    BY <1>1 DEF IInv, Types
  <2>2. Types'
    BY <1>1, <2>1 DEF IInv, Types
  <2>3. Counters'
    BY <1>1, <2>1 DEF IInv, Counters, Connected, On
  <2>4. CapInv'
    BY <1>1, <2>1 DEF IInv, CapInv, CapState
  <2>5. ASSUME NEW q \in Requested, ReqState(q) PROVE ReqState(q)'
    BY <1>1, <2>1, <2>5, SnapshotFrame
  <2> QED
    BY <1>1, <2>2, <2>3, <2>4, <2>5, ReqKept
<1>2. CASE /\ tab' = [tab EXCEPT !.store = @ \ {c}] /\ cap' = Forget({c})
           /\ UNCHANGED <<page, runtime, req>>
  <2>1. /\ tab'.epoch = tab.epoch /\ tab'.lease = tab.lease /\ tab'.leases = tab.leases
        /\ tab'.store = tab.store \ {c}
        /\ tab' \in [epoch : Nat, lease : Nat, leases : Nat, store : SUBSET Captures]
    BY <1>2 DEF IInv, Types
  <2>2. Types'
    BY <1>2, <2>1, Forgetting DEF IInv, Types
  <2>3. Counters'
    BY <1>2, <2>1 DEF IInv, Counters, Connected, On
  <2>4. CapInv' /\ \A q \in Requested : ReqState(q) => ReqState(q)'
    BY <1>2, <2>1, DropSnapshots
  <2> QED
    BY <1>2, <2>2, <2>3, <2>4, ReqKept
<1> QED
  BY <1>1, <1>2 DEF Evict

\* A capture whose snapshot is held ends, with or without its picture.
LEMMA CaptureEnds ==
  ASSUME IInv, NEW c \in Captures, NEW shot \in BOOLEAN, cap[c].at = "stored",
         cap' = [cap EXCEPT ![c].at = "done", ![c].shot = shot],
         UNCHANGED <<page, runtime, tab, req>>
  PROVE  IInv'
<1>1. cap \in [Captures -> Captured] /\ cap[c] \in Captured
  BY DEF IInv, Types
<1>2. /\ cap'[c].at = "done" /\ cap'[c].doc = cap[c].doc /\ cap'[c].rt = cap[c].rt
      /\ cap'[c].rev = cap[c].rev /\ cap'[c].layout = cap[c].layout
      /\ \A d \in Captures \ {c} : cap'[d] = cap[d]
      /\ cap' \in [Captures -> Captured]
  BY <1>1 DEF Captured
<1>3. Types' /\ Counters'
  BY <1>2, CountersFrame DEF IInv, Types
<1>4. CapInv'
  <2> SUFFICES ASSUME NEW d \in Captures PROVE CapState(d)'
    BY DEF CapInv
  <2>1. CapState(d) /\ CapState(c)
    BY DEF IInv, CapInv
  <2>2. CASE d = c
    BY <1>1, <1>2, <2>1, <2>2 DEF CapState
  <2>3. CASE d # c
    BY <1>2, <2>1, <2>3 DEF CapState
  <2> QED
    BY <2>2, <2>3
<1>5. ASSUME NEW q \in Requested, ReqState(q) PROVE ReqState(q)'
  BY <1>1, <1>2, <1>5, SnapshotFrame
<1> QED
  BY <1>3, <1>4, <1>5, ReqKept

\* The picture of an observation is taken.
LEMMA ShotIInv ==
  ASSUME IInv, NEW c \in Captures, Shot(c)
  PROVE  IInv'
BY CaptureEnds DEF Shot

\* A capture that fails stores nothing.
LEMMA CaptureFailsIInv ==
  ASSUME IInv, NEW c \in Captures, CaptureFails(c)
  PROVE  IInv'
<1>1. UNCHANGED <<page, runtime, tab, req>>
  BY DEF CaptureFails
<1>2. CASE cap[c].at \in {"asked", "read"} /\ cap' = Forget({c})
  <2>1. Types' /\ Counters'
    BY <1>1, <1>2, Forgetting, CountersFrame DEF IInv, Types
  <2>2. c \notin tab.store
    BY <1>2 DEF IInv, CapInv, CapState
  <2>3. CapInv' /\ \A q \in Requested : ReqState(q) => ReqState(q)'
    BY <1>1, <1>2, <2>2, DropSnapshots
  <2> QED
    BY <1>1, <2>1, <2>3, ReqKept
<1>3. CASE cap[c].at = "stored" /\ cap' = [cap EXCEPT ![c].at = "done"]
  <2>1. cap \in [Captures -> Captured] /\ cap[c].shot \in BOOLEAN
    BY DEF IInv, Types, Captured
  <2>2. cap' = [cap EXCEPT ![c].at = "done", ![c].shot = cap[c].shot]
    BY <1>3, <2>1 DEF Captured
  <2> QED
    BY <1>1, <1>3, <2>1, <2>2, CaptureEnds
<1> QED
  BY <1>2, <1>3 DEF CaptureFails

\* A claim begins a new lease and touches neither page nor snapshots.
LEMMA ClaimIInv ==
  ASSUME IInv, Claim
  PROVE  IInv'
<1>0. tab \in [epoch : Nat, lease : Nat, leases : Nat, store : SUBSET Captures]
  BY DEF IInv, Types
<1>1. /\ tab'.epoch = tab.epoch /\ tab'.lease = tab.leases + 1 /\ tab'.leases = tab.leases + 1
      /\ tab'.store = tab.store /\ tab.leases \in Nat /\ UNCHANGED <<page, runtime, cap, req>>
  BY <1>0 DEF Claim
<1>2. Types'
  <2> DEFINE k == tab.leases + 1
  <2>0. k \in Nat /\ tab' = [tab EXCEPT !.leases = k, !.lease = k]
    BY <1>0 DEF Claim
  <2> HIDE DEF k
  <2>1. tab' \in [epoch : Nat, lease : Nat, leases : Nat, store : SUBSET Captures]
    BY <1>0, <2>0
  <2> QED
    BY <1>1, <2>1 DEF IInv, Types
<1>3. Counters'
  BY <1>1 DEF IInv, Counters, Connected, On
<1>4. CapInv'
  BY <1>1 DEF IInv, CapInv, CapState
<1>5. ASSUME NEW q \in Requested, ReqState(q) PROVE ReqState(q)'
  BY <1>1, <1>5, SnapshotFrame
<1> QED
  BY <1>1, <1>2, <1>3, <1>4, <1>5, ReqKept

\* The commit event moves the epoch on and drops the snapshots of the document before.
LEMMA OnCommittedIInv ==
  ASSUME IInv, OnCommitted
  PROVE  IInv'
<1>0. tab \in [epoch : Nat, lease : Nat, leases : Nat, store : SUBSET Captures] /\ page.doc \in Nat
  BY DEF IInv, Types
<1>1. /\ tab'.epoch = tab.epoch + 1 /\ tab'.lease = tab.lease /\ tab'.leases = tab.leases
      /\ tab'.store = {} /\ tab.epoch \in Nat /\ page.doc \in Nat /\ tab.epoch < page.doc
      /\ UNCHANGED <<page, runtime, req>>
      /\ cap' = Forget(tab.store) /\ tab.store \in SUBSET Captures
  BY <1>0 DEF OnCommitted, MainFrame
<1>2. Types'
  <2> DEFINE k == tab.epoch + 1
  <2>0. k \in Nat /\ tab' = [tab EXCEPT !.epoch = k, !.store = {}]
    BY <1>0 DEF OnCommitted
  <2> HIDE DEF k
  <2>1. tab' \in [epoch : Nat, lease : Nat, leases : Nat, store : SUBSET Captures]
    BY <1>0, <2>0
  <2> QED
    BY <1>1, <2>1, Forgetting DEF IInv, Types
<1>3. Counters'
  BY <1>1 DEF IInv, Counters, Connected, On
<1>4. CapInv' /\ \A q \in Requested : ReqState(q) => ReqState(q)'
  BY <1>1, DropSnapshots
<1> QED
  BY <1>1, <1>2, <1>3, <1>4, ReqKept

\* A new instance of the runtime has a number nobody has seen.
LEMMA InstallIInv ==
  ASSUME IInv, Install
  PROVE  IInv'
<1>1. /\ runtime.no = 0 /\ runtime.made < MaxRuntimes /\ runtime.made \in Nat /\ MaxRuntimes \in Nat
      /\ runtime.kept = {} /\ UNCHANGED <<page, tab, cap, req>>
  BY ActionsAssumption DEF IInv, Types, Counters, Install
<1>0. runtime \in [no : Nat, rev : Nat, kept : SUBSET Captures, made : Nat]
  BY DEF IInv, Types
<1>2. /\ runtime'.no = runtime.made + 1 /\ runtime'.made = runtime.made + 1 /\ runtime'.rev = 1
      /\ runtime'.kept = {}
  BY <1>0, <1>1 DEF Install
<1>3. Types'
  <2> DEFINE k == runtime.made + 1
  <2>0. k \in Nat /\ runtime' = [runtime EXCEPT !.no = k, !.made = k, !.rev = 1]
    BY <1>0 DEF Install
  <2> HIDE DEF k
  <2>1. runtime' \in [no : Nat, rev : Nat, kept : SUBSET Captures, made : Nat]
    BY <1>0, <2>0
  <2> QED
    BY <1>1, <2>1 DEF IInv, Types
<1>4. Counters'
  BY <1>1, <1>2 DEF IInv, Counters, Connected, On
<1>5. CapInv'
  <2> SUFFICES ASSUME NEW c \in Captures PROVE CapState(c)'
    BY DEF CapInv
  <2>1. CapState(c) /\ cap[c].rt \in Nat
    BY DEF IInv, Types, CapInv, Captured
  <2> QED
    BY <1>1, <1>2, <2>1 DEF CapState
<1>6. ASSUME NEW q \in Requested, ReqState(q) PROVE ReqState(q)'
  <2>1. PhaseState(q)' /\ NodeState(q)' /\ ReadyState(q)' /\ SecretState(q)'
    BY <1>1, <1>2, <1>6
       DEF ReqState, PhaseState, NodeState, ReadyState, SecretState, MouseInput, KeyInput
  <2>2. Identity(q)' /\ InHand(q)' /\ PointState(q)'
    BY <1>1, <1>2, <1>6 DEF ReqState, Identity, InHand, PointState, MouseInput
  <2> QED
    BY <2>1, <2>2 DEF ReqState
<1> QED
  BY <1>1, <1>3, <1>4, <1>5, <1>6, ReqKept

\* What Disturbed changes of a request.
LEMMA Disturbing ==
  ASSUME NEW q \in Requested
  PROVE  LET n == Disturbed(q) IN
         /\ n \in Requested
         /\ n.kind = q.kind /\ n.via = q.via /\ n.cap = q.cap /\ n.e = q.e /\ n.spot = q.spot
         /\ n.rev = q.rev /\ n.loose = q.loose /\ n.phase = q.phase /\ n.at = q.at /\ n.el = q.el
         /\ n.doc = q.doc /\ n.rt = q.rt /\ n.id = q.id /\ n.want = q.want
         /\ n.at \in {"reply", "fresh", "ready"} => n.disturbed
<1>1. CASE q.at \in {"reply", "fresh", "ready"}
  <2>1. Disturbed(q) = [q EXCEPT !.disturbed = TRUE]
    BY <1>1 DEF Disturbed
  <2>2. [q EXCEPT !.disturbed = TRUE] \in Requested
    BY Updates
  <2> QED
    BY <2>1, <2>2 DEF Requested
<1>2. CASE q.at \notin {"reply", "fresh", "ready"}
  BY <1>2 DEF Disturbed
<1> QED
  BY <1>1, <1>2

\* A step that disturbs every request that was checked.
LEMMA ReqDisturbed ==
  ASSUME IInv, Types', Counters', CapInv', Disturb,
         \A q \in Requested : ReqState(q) => ReqState(Disturbed(q))'
  PROVE  IInv'
<1>1. ReqInv'
  <2> SUFFICES ASSUME NEW r \in Requests PROVE ReqState(req[r])'
    BY DEF ReqInv
  <2>1. req[r] \in Requested /\ ReqState(req[r]) /\ req'[r] = Disturbed(req[r])
    BY ReqFacts DEF Disturb
  <2>2. PICK q : q = req[r]
    OBVIOUS
  <2>3. req'[r] = Disturbed(q) /\ ReqState(Disturbed(q))'
    BY <2>1, <2>2
  <2>4. Disturbed(q)' = Disturbed(q)
    BY DEF Disturbed
  <2>5. \A n : n = Disturbed(q) => ReqState(n)'
    BY <2>3
  <2> QED
    BY <2>3, <2>5
<1> QED
  BY <1>1 DEF IInv

\* The page changes; the revision tells, and what was checked is disturbed.
LEMMA MoveIInv ==
  ASSUME IInv, Move
  PROVE  IInv'
<1>1. PICK l \in Layouts \ {page.layout} :
        page' = [page EXCEPT !.layout = l, !.moves = @ + 1,
                             !.focus = IF @ \in On(l) THEN @ ELSE None]
  BY DEF Move
<1>2. /\ page \in [doc : Nat \ {0}, layout : Layouts, focus : Elements \cup {None}, moves : Nat,
                   sensitive : SUBSET Elements]
      /\ runtime \in [no : Nat, rev : Nat, kept : SUBSET Captures, made : Nat]
  BY DEF IInv, Types
<1>3. /\ page'.doc = page.doc /\ page'.layout = l /\ page'.sensitive = page.sensitive
      /\ page'.focus \in On(l) \cup {None}
  BY <1>1, <1>2
<1>4. page' \in [doc : Nat \ {0}, layout : Layouts, focus : Elements \cup {None}, moves : Nat,
                 sensitive : SUBSET Elements]
  <2> DEFINE f == IF page.focus \in On(l) THEN page.focus ELSE None
  <2>1. f \in Elements \cup {None} /\ page.moves + 1 \in Nat /\ l \in Layouts
    BY <1>2
  <2>2. page' = [page EXCEPT !.layout = l, !.moves = page.moves + 1, !.focus = f]
    BY <1>1, <1>2
  <2> HIDE DEF f
  <2> QED
    BY <1>2, <2>1, <2>2
<1>5. /\ runtime'.no = runtime.no /\ runtime'.made = runtime.made /\ runtime'.kept = runtime.kept
      /\ runtime.no # 0 => runtime'.rev = runtime.rev + 1
      /\ runtime' \in [no : Nat, rev : Nat, kept : SUBSET Captures, made : Nat]
  BY <1>2 DEF Move
<1>6. UNCHANGED <<tab, cap>> /\ Disturb
  BY DEF Move
<1>7. Types'
  <2>1. req' \in [Requests -> Requested]
    BY <1>6, Disturbing DEF IInv, Types, Disturb
  <2> QED
    BY <1>4, <1>5, <1>6, <2>1 DEF IInv, Types
<1>8. Counters'
  BY <1>3, <1>5, <1>6 DEF IInv, Counters, Connected
<1>9. CapInv'
  <2> SUFFICES ASSUME NEW c \in Captures PROVE CapState(c)'
    BY DEF CapInv
  <2>1. CapState(c) /\ cap[c].rt \in Nat /\ cap[c].rev \in Nat
    BY DEF IInv, Types, CapInv, Captured
  <2> QED
    BY <1>2, <1>3, <1>5, <1>6, <2>1 DEF CapState
<1>10. ASSUME NEW q \in Requested, ReqState(q) PROVE ReqState(Disturbed(q))'
  <2> DEFINE n == Disturbed(q)
  <2>1. /\ n.kind = q.kind /\ n.via = q.via /\ n.cap = q.cap /\ n.e = q.e /\ n.spot = q.spot
        /\ n.rev = q.rev /\ n.loose = q.loose /\ n.phase = q.phase /\ n.at = q.at /\ n.el = q.el
        /\ n.doc = q.doc /\ n.rt = q.rt /\ n.id = q.id /\ n.want = q.want
        /\ n.at \in {"reply", "fresh", "ready"} => n.disturbed
    BY Disturbing
  <2>2. q.rev \in Nat /\ runtime.rev \in Nat
    BY <1>2 DEF Requested
  <2>3. PICK m : m = n
    OBVIOUS
  <2> HIDE DEF n
  <2>4. PhaseState(m)' /\ Identity(m)' /\ NodeState(m)' /\ InHand(m)'
    BY <1>3, <1>5, <1>6, <1>10, <2>1, <2>3
       DEF ReqState, PhaseState, Identity, NodeState, InHand
  <2>5. PointState(m)' /\ ReadyState(m)' /\ SecretState(m)'
    BY <1>3, <1>5, <1>6, <1>10, <2>1, <2>2, <2>3 DEF ReqState, PointState, ReadyState, SecretState
  <2> QED
    BY <2>3, <2>4, <2>5 DEF ReqState, n
<1> QED
  BY <1>6, <1>7, <1>8, <1>9, <1>10, ReqDisturbed

\* A request that was checked against a runtime that is gone, in a document that
\* may be gone as well.
LEMMA RuntimeGone ==
  ASSUME NEW q \in Requested, ReqState(q), NEW n, n = Disturbed(q),
         page.doc \in Nat, page'.doc \in Nat, page.doc <= page'.doc,
         page'.doc = page.doc => page'.sensitive = page.sensitive,
         runtime'.no = 0, runtime'.kept = {}, runtime'.made = runtime.made,
         \A c \in Captures : cap[c].at \in {"stored", "done"} => cap'[c].at \in {"stored", "done"},
         \A c \in Captures :
           c \in tab'.store => c \in tab.store /\ cap'[c] = cap[c]
  PROVE  ReqState(n)'
<1>1. /\ n.kind = q.kind /\ n.via = q.via /\ n.cap = q.cap /\ n.e = q.e /\ n.spot = q.spot
      /\ n.rev = q.rev /\ n.loose = q.loose /\ n.phase = q.phase /\ n.at = q.at /\ n.el = q.el
      /\ n.doc = q.doc /\ n.rt = q.rt /\ n.id = q.id /\ n.want = q.want
      /\ n.at \in {"reply", "fresh", "ready"} => n.disturbed
  BY Disturbing
<1>2. PhaseState(n)' /\ NodeState(n)' /\ ReadyState(n)'
  BY <1>1 DEF ReqState, PhaseState, NodeState, ReadyState
<1>3. Identity(n)' /\ InHand(n)'
  BY <1>1 DEF ReqState, Identity, InHand
<1>4. q.via = "point" => q.cap \in Captures
  BY DEF ReqState, PhaseState
<1>5. PointState(n)'
  BY <1>1, <1>4 DEF ReqState, PhaseState, PointState
<1>6. SecretState(n)'
  BY <1>1 DEF ReqState, PhaseState, Identity, SecretState
<1> QED
  BY <1>2, <1>3, <1>5, <1>6 DEF ReqState

\* Gone is a runtime that is not there.
LEMMA GoneFacts ==
  ASSUME IInv
  PROVE  /\ Gone \in [no : Nat, rev : Nat, kept : SUBSET Captures, made : Nat]
         /\ Gone.no = 0 /\ Gone.kept = {} /\ Gone.made = runtime.made
<1>1. runtime \in [no : Nat, rev : Nat, kept : SUBSET Captures, made : Nat]
  BY DEF IInv, Types
<1>2. Gone \in [no : Nat, rev : Nat, kept : SUBSET Captures, made : Nat]
  BY <1>1 DEF Gone
<1> QED
  BY <1>1, <1>2 DEF Gone

\* A navigation replaces the document; what was checked in the old one is disturbed.
LEMMA CommitIInv ==
  ASSUME IInv, Commit
  PROVE  IInv'
<1>1. PICK l \in FullLayouts : page' = NewPage(page.doc + 1, l, page.moves)
  BY DEF Commit
<1>2. /\ page.doc \in Nat \ {0} /\ page.moves \in Nat /\ page.doc < MaxDocs /\ MaxDocs \in Nat
      /\ l \in Layouts
  BY ActionsAssumption DEF IInv, Types, Commit, FullLayouts
<1>3. /\ page'.doc = page.doc + 1 /\ page'.layout = l /\ page'.focus = None
      /\ page' \in [doc : Nat \ {0}, layout : Layouts, focus : Elements \cup {None}, moves : Nat,
                    sensitive : SUBSET Elements]
  BY <1>1, <1>2 DEF NewPage
<1>4. UNCHANGED <<tab, cap>> /\ Disturb /\ runtime' = Gone
  BY DEF Commit
<1>5. /\ runtime' \in [no : Nat, rev : Nat, kept : SUBSET Captures, made : Nat]
      /\ runtime'.no = 0 /\ runtime'.kept = {} /\ runtime'.made = runtime.made
  BY <1>4, GoneFacts
<1>6. Types'
  <2>1. req' \in [Requests -> Requested]
    BY <1>4, Disturbing DEF IInv, Types, Disturb
  <2> QED
    BY <1>3, <1>4, <1>5, <2>1 DEF IInv, Types
<1>7. Counters'
  <2>1. tab.epoch \in Nat /\ runtime.made \in Nat
    BY DEF IInv, Types
  <2> QED
    BY <1>2, <1>3, <1>4, <1>5, <2>1 DEF IInv, Counters
<1>8. CapInv'
  <2> SUFFICES ASSUME NEW c \in Captures PROVE CapState(c)'
    BY DEF CapInv
  <2>1. CapState(c)
    BY DEF IInv, CapInv
  <2> QED
    BY <1>2, <1>3, <1>4, <1>5, <2>1 DEF CapState
<1>9. ASSUME NEW q \in Requested, ReqState(q) PROVE ReqState(Disturbed(q))'
  <2>1. PICK n : n = Disturbed(q)
    OBVIOUS
  <2>2. ReqState(n)'
    BY <1>2, <1>3, <1>4, <1>5, <1>9, <2>1, RuntimeGone
  <2> QED
    BY <2>1, <2>2
<1> QED
  BY <1>4, <1>6, <1>7, <1>8, <1>9, ReqDisturbed

\* A release forgets the snapshots and may take the runtime with it.
LEMMA ReleaseIInv ==
  ASSUME IInv, Release
  PROVE  IInv'
<1>1. tab \in [epoch : Nat, lease : Nat, leases : Nat, store : SUBSET Captures] /\ page.doc \in Nat
  BY DEF IInv, Types
<1>2. /\ tab'.epoch = tab.epoch /\ tab'.lease = 0 /\ tab'.leases = tab.leases /\ tab'.store = {}
      /\ tab.store \in SUBSET Captures /\ cap' = Forget(tab.store)
      /\ UNCHANGED page /\ Disturb /\ runtime' \in {Gone, runtime}
  BY <1>1 DEF Release
<1>3. Types'
  <2>1. req' \in [Requests -> Requested]
    BY <1>2, Disturbing DEF IInv, Types, Disturb
  <2>2. tab' \in [epoch : Nat, lease : Nat, leases : Nat, store : SUBSET Captures]
    BY <1>1 DEF Release
  <2> QED
    BY <1>2, <2>1, <2>2, Forgetting, GoneFacts DEF IInv, Types
<1>4. Counters'
  <2>1. tab.leases \in Nat /\ runtime.made \in Nat
    BY DEF IInv, Types
  <2> QED
    BY <1>2, <2>1, GoneFacts DEF IInv, Counters, Connected, On
<1>5. /\ \A c \in tab.store : cap'[c].at = "done" /\ cap'[c].rt = 0
      /\ \A c \in Captures \ tab.store : cap'[c] = cap[c]
  BY <1>2, Forgetting
<1>6. CapInv'
  <2> SUFFICES ASSUME NEW c \in Captures PROVE CapState(c)'
    BY DEF CapInv
  <2>1. CapState(c) /\ cap[c].rt \in Nat
    BY DEF IInv, Types, CapInv, Captured
  <2>2. CASE c \in tab.store
    BY <1>2, <1>5, <2>1, <2>2, GoneFacts DEF CapState
  <2>3. CASE c \notin tab.store
    BY <1>2, <1>5, <2>1, <2>3, GoneFacts DEF CapState
  <2> QED
    BY <2>2, <2>3
<1>7. ASSUME NEW q \in Requested, ReqState(q) PROVE ReqState(Disturbed(q))'
  <2>1. PICK n : n = Disturbed(q)
    OBVIOUS
  <2>2. CASE runtime' = Gone
    <3>1. runtime'.no = 0 /\ runtime'.kept = {} /\ runtime'.made = runtime.made
      BY <2>2, GoneFacts
    <3>2. \A c \in Captures : cap[c].at \in {"stored", "done"} => cap'[c].at \in {"stored", "done"}
      BY <1>5
    <3>3. ReqState(n)'
      BY <1>1, <1>2, <1>7, <2>1, <3>1, <3>2, RuntimeGone
    <3> QED
      BY <2>1, <3>3
  <2>3. CASE runtime' = runtime
    <3>1. ReqState(q)'
      BY <1>2, <1>7, <2>3, DropSnapshots
    <3>2. /\ n.kind = q.kind /\ n.via = q.via /\ n.cap = q.cap /\ n.e = q.e /\ n.spot = q.spot
          /\ n.rev = q.rev /\ n.loose = q.loose /\ n.phase = q.phase /\ n.at = q.at /\ n.el = q.el
          /\ n.doc = q.doc /\ n.rt = q.rt /\ n.id = q.id /\ n.want = q.want
          /\ n.at \in {"reply", "fresh", "ready"} => n.disturbed
      BY <2>1, Disturbing
    <3>3. ReqState(n)'
      BY <3>1, <3>2 DEF ReqState, PhaseState, Identity, NodeState, InHand, PointState, ReadyState,
                        SecretState, MouseInput
    <3> QED
      BY <2>1, <3>3
  <2> QED
    BY <1>2, <2>2, <2>3
<1> QED
  BY <1>2, <1>3, <1>4, <1>6, <1>7, ReqDisturbed

-----------------------------------------------------------------------------
(* The two actions of a request that change the page.                      *)

\* Marking a field costs no request what it knows, and no snapshot is newer than
\* the revision that counts it.
LEMMA Marking ==
  ASSUME NEW q \in Requested, ReqState(q), NEW e, runtime.rev \in Nat,
         page'.doc = page.doc, page'.layout = page.layout, page'.focus = page.focus,
         page'.sensitive = page.sensitive \cup {e},
         runtime'.no = runtime.no, runtime'.made = runtime.made, runtime'.kept = runtime.kept,
         runtime'.rev = runtime.rev + 1, UNCHANGED <<tab, cap>>
  PROVE  ReqState(q)'
<1>1. q.rev \in Nat
  BY DEF Requested
<1>2. PhaseState(q)' /\ Identity(q)' /\ NodeState(q)' /\ InHand(q)'
  BY DEF ReqState, PhaseState, Identity, NodeState, InHand
<1>3. PointState(q)' /\ ReadyState(q)' /\ SecretState(q)'
  BY <1>1 DEF ReqState, PointState, ReadyState, SecretState, MouseInput, KeyInput
<1> QED
  BY <1>2, <1>3 DEF ReqState

\* Marking the field moves nothing and counts a revision.
LEMMA MarkSensitiveIInv ==
  ASSUME IInv, NEW r \in Requests, MarkSensitive(r)
  PROVE  IInv'
<1> DEFINE q == req[r]
           n == [q EXCEPT !.phase = "perform"]
<1>1. PICK e \in Targets(q) :
        IF q.id # <<runtime.no, e>> THEN Drop(r) /\ UNCHANGED <<page, runtime>>
        ELSE /\ Set(r, n)
             /\ page' = [page EXCEPT !.sensitive = @ \cup {e}]
             /\ runtime' = [runtime EXCEPT !.rev = @ + 1]
  BY DEF MarkSensitive
<1>2. q.at = "resolve" /\ q.phase = "mark" /\ runtime.no # 0 /\ UNCHANGED <<tab, cap>>
  BY DEF MarkSensitive
<1>3. CASE q.id # <<runtime.no, e>>
  <2>1. Drop(r) /\ Service
    BY <1>1, <1>2, <1>3 DEF Service
  <2> QED
    BY <2>1, DropIInv
<1>4. CASE q.id = <<runtime.no, e>>
  <2>1. /\ req' = [req EXCEPT ![r] = n] /\ page' = [page EXCEPT !.sensitive = @ \cup {e}]
        /\ runtime' = [runtime EXCEPT !.rev = @ + 1]
    BY <1>1, <1>4 DEF Set
  <2>2. q \in Requested /\ ReqState(q) /\ req \in [Requests -> Requested]
    BY ReqFacts DEF IInv, Types
  <2>3. /\ page \in [doc : Nat \ {0}, layout : Layouts, focus : Elements \cup {None}, moves : Nat,
                     sensitive : SUBSET Elements]
        /\ runtime \in [no : Nat, rev : Nat, kept : SUBSET Captures, made : Nat]
    BY DEF IInv, Types
  <2>4. e \in Elements
    <3>1. Connected \subseteq Elements
      BY <2>3 DEF Connected, On, Layouts
    <3> QED
      BY <3>1 DEF Targets
  <2>5. /\ page'.doc = page.doc /\ page'.layout = page.layout /\ page'.focus = page.focus
        /\ page'.sensitive = page.sensitive \cup {e}
        /\ page' \in [doc : Nat \ {0}, layout : Layouts, focus : Elements \cup {None}, moves : Nat,
                      sensitive : SUBSET Elements]
    BY <2>1, <2>3, <2>4
  <2>6. /\ runtime'.no = runtime.no /\ runtime'.made = runtime.made /\ runtime'.kept = runtime.kept
        /\ runtime'.rev = runtime.rev + 1 /\ runtime.rev \in Nat
        /\ runtime' \in [no : Nat, rev : Nat, kept : SUBSET Captures, made : Nat]
    BY <2>1, <2>3
  <2>7. n \in Requested
    BY <2>2, Updates, Values
  <2>8. /\ n.phase = "perform" /\ n.at = q.at /\ n.kind = q.kind /\ n.via = q.via /\ n.id = q.id
        /\ n.want = q.want /\ n.cap = q.cap /\ n.e = q.e
    BY <2>2 DEF Requested
  <2>9. /\ req' \in [Requests -> Requested] /\ req'[r] = n
        /\ \A x \in Requests \ {r} : req'[x] = req[x]
    BY <2>1, <2>2, <2>7
  <2> HIDE DEF n
  <2>10. Types'
    BY <1>2, <2>5, <2>6, <2>9 DEF IInv, Types
  <2>11. Counters'
    BY <1>2, <2>5, <2>6 DEF IInv, Counters, Connected, On
  <2>12. CapInv'
    <3> SUFFICES ASSUME NEW c \in Captures PROVE CapState(c)'
      BY DEF CapInv
    <3>1. CapState(c) /\ cap[c].rev \in Nat
      BY DEF IInv, Types, CapInv, Captured
    <3> QED
      BY <1>2, <2>5, <2>6, <3>1 DEF CapState
  <2>13. PICK m : m = n
    OBVIOUS
  <2>14. ReqState(m)'
    <3>1. q.kind = "secure" /\ q.want # None /\ q.want[2] = e
      BY <1>2, <1>4, <2>2 DEF ReqState, PhaseState, Identity
    <3>2. PhaseState(m)' /\ Identity(m)' /\ NodeState(m)'
      BY <1>2, <2>2, <2>5, <2>6, <2>8, <2>13 DEF ReqState, PhaseState, Identity, NodeState
    <3>3. InHand(m)' /\ PointState(m)' /\ ReadyState(m)' /\ SecretState(m)'
      BY <1>2, <2>5, <2>8, <2>13, <3>1 DEF InHand, PointState, ReadyState, SecretState
    <3> QED
      BY <3>2, <3>3 DEF ReqState
  <2>15. ReqInv'
    <3> SUFFICES ASSUME NEW x \in Requests PROVE ReqState(req[x])'
      BY DEF ReqInv
    <3>1. PICK y : y = req'[x]
      OBVIOUS
    <3>2. ReqState(y)'
      <4>1. CASE x = r
        BY <2>9, <2>13, <2>14, <3>1, <4>1
      <4>2. CASE x # r
        <5>1. y = req[x] /\ y \in Requested /\ ReqState(y)
          BY <2>9, <3>1, <4>2, ReqFacts
        <5> QED
          BY <1>2, <2>5, <2>6, <5>1, Marking
      <4> QED
        BY <4>1, <4>2
    <3> QED
      BY <3>1, <3>2
  <2> QED
    BY <2>10, <2>11, <2>12, <2>15 DEF IInv
<1> QED
  BY <1>3, <1>4

\* The focus moves: nothing but keys about to be sent depends on it.
LEMMA Focusing ==
  ASSUME NEW q \in Requested, ReqState(q), NEW n,
         page'.doc = page.doc, page'.layout = page.layout, page'.sensitive = page.sensitive,
         UNCHANGED <<runtime, tab, cap>>,
         n = Disturbed(q) \/ (n = q /\ page'.focus = page.focus)
  PROVE  ReqState(n)'
<1>1. CASE n = q /\ page'.focus = page.focus
  BY <1>1 DEF ReqState, PhaseState, Identity, NodeState, InHand, PointState, ReadyState, SecretState,
              MouseInput, KeyInput
<1>2. CASE n = Disturbed(q)
  <2>1. /\ n.kind = q.kind /\ n.via = q.via /\ n.cap = q.cap /\ n.e = q.e /\ n.spot = q.spot
        /\ n.rev = q.rev /\ n.loose = q.loose /\ n.phase = q.phase /\ n.at = q.at /\ n.el = q.el
        /\ n.doc = q.doc /\ n.rt = q.rt /\ n.id = q.id /\ n.want = q.want
        /\ n.at \in {"reply", "fresh", "ready"} => n.disturbed
    BY <1>2, Disturbing
  <2> QED
    BY <2>1 DEF ReqState, PhaseState, Identity, NodeState, InHand, PointState, ReadyState,
                SecretState, MouseInput
<1> QED
  BY <1>1, <1>2

\* The runtime acts itself, or leaves the input to the debugger.
LEMMA PerformIInv ==
  ASSUME IInv, NEW r \in Requests, Perform(r)
  PROVE  IInv'
<1> DEFINE q == req[r]
           N(f) == IF q.kind # "keys" THEN Ended
                   ELSE [q EXCEPT !.phase = "dispatch", !.at = "ready", !.disturbed = FALSE,
                                  !.loose = f # q.el, !.el = None, !.doc = 0, !.rt = 0, !.id = None]
<1>1. /\ q.at = "settle" /\ q.doc = page.doc /\ q.el \in Connected /\ q.phase = "perform"
      /\ UNCHANGED <<runtime, tab, cap>>
  BY DEF Perform, Settled
<1>2. q \in Requested /\ ReqState(q) /\ req \in [Requests -> Requested]
  BY ReqFacts DEF IInv, Types
<1>3. CASE ~SameElement(q)
  <2>1. Drop(r) /\ UNCHANGED page
    BY <1>3, Zenon DEF Perform
  <2> QED
    BY <1>1, <2>1, DropIInv DEF Service
<1>4. CASE SameElement(q)
  <2>1. PICK f \in {q.el, page.focus} : DomAction(r, f, N(f))
    BY <1>4, Zenon DEF Perform
  <2>2. PICK n : n = N(f)
    OBVIOUS
  <2>3. /\ page' = [page EXCEPT !.focus = f]
        /\ req' = [x \in Requests |-> IF x = r THEN n
                                      ELSE IF f = page.focus THEN req[x] ELSE Disturbed(req[x])]
    BY <2>1, <2>2 DEF DomAction
  <2>4. page \in [doc : Nat \ {0}, layout : Layouts, focus : Elements \cup {None}, moves : Nat,
                  sensitive : SUBSET Elements]
    BY DEF IInv, Types
  <2>5. q.el \in Elements
    BY <1>1, <2>4 DEF Connected, On, Layouts
  <2>6. /\ page'.doc = page.doc /\ page'.layout = page.layout /\ page'.focus = f
        /\ page'.sensitive = page.sensitive
        /\ page' \in [doc : Nat \ {0}, layout : Layouts, focus : Elements \cup {None}, moves : Nat,
                      sensitive : SUBSET Elements]
    BY <2>3, <2>4, <2>5
  <2>7. /\ q.want = <<page.doc, q.el>> /\ q.want # None
    <3>1. q.want # None /\ q.want[1] = q.doc /\ q.want[2] = q.el
      BY <1>1, <1>2, <1>4 DEF ReqState, PhaseState, Identity, InHand, SameElement, Found
    <3>2. q.want \in Nodes
      BY <1>2 DEF Requested
    <3> QED
      BY <1>1, <3>1, <3>2 DEF Nodes
  <2>8. n \in Requested /\ ReqState(n)'
    <3>1. CASE q.kind # "keys"
      <4>1. n = Ended
        BY <2>2, <3>1
      <4>2. Ended \in Requested /\ Ended.phase = "over" /\ Ended.at = "none" /\ Ended.via = "none"
            /\ Ended.id = None /\ Ended.want = None
        BY NoRequestState DEF Ended, NoRequest
      <4> QED
        BY <4>1, <4>2 DEF ReqState, PhaseState, Identity, NodeState, InHand, PointState, ReadyState,
                          SecretState
    <3>2. CASE q.kind = "keys"
      <4> DEFINE k == [q EXCEPT !.phase = "dispatch", !.at = "ready", !.disturbed = FALSE,
                                !.loose = f # q.el, !.el = None, !.doc = 0, !.rt = 0, !.id = None]
      <4>1. n = k
        BY <2>2, <3>2
      <4>2. k \in Requested
        BY <1>2, Updates, Values
      <4>3. /\ k.phase = "dispatch" /\ k.at = "ready" /\ k.loose = (f # q.el) /\ k.id = None
            /\ k.kind = "keys" /\ k.via = q.via /\ k.cap = q.cap /\ k.want = q.want /\ k.e = q.e
        BY <1>2, <3>2 DEF Requested
      <4> HIDE DEF k
      <4>4. PhaseState(n)' /\ Identity(n)' /\ NodeState(n)'
        BY <1>1, <1>2, <2>6, <2>7, <4>1, <4>3 DEF ReqState, PhaseState, Identity, NodeState
      <4>5. InHand(n)' /\ PointState(n)' /\ SecretState(n)'
        BY <4>1, <4>3 DEF InHand, PointState, SecretState
      <4>6. ReadyState(n)'
        BY <2>6, <2>7, <4>1, <4>3 DEF ReadyState, KeyInput
      <4> QED
        BY <4>1, <4>2, <4>4, <4>5, <4>6 DEF ReqState
    <3> QED
      BY <3>1, <3>2
  <2>9. Types'
    <3>1. req' \in [Requests -> Requested]
      BY <1>2, <2>3, <2>8, Disturbing
    <3> QED
      BY <1>1, <2>6, <3>1 DEF IInv, Types
  <2>10. Counters'
    BY <1>1, <2>6 DEF IInv, Counters, Connected, On
  <2>11. CapInv'
    BY <1>1, <2>6 DEF IInv, CapInv, CapState
  <2>12. ReqInv'
    <3> SUFFICES ASSUME NEW x \in Requests PROVE ReqState(req[x])'
      BY DEF ReqInv
    <3>1. PICK y : y = req'[x]
      OBVIOUS
    <3>2. ReqState(y)'
      <4>1. CASE x = r
        BY <2>3, <2>8, <3>1, <4>1
      <4>2. CASE x # r
        <5>1. PICK z : z = req[x]
          OBVIOUS
        <5>2. z \in Requested /\ ReqState(z)
          BY <5>1, ReqFacts
        <5>3. y = Disturbed(z) \/ (y = z /\ page'.focus = page.focus)
          BY <2>3, <2>6, <3>1, <4>2, <5>1
        <5> QED
          BY <1>1, <2>6, <5>2, <5>3, Focusing
      <4> QED
        BY <4>1, <4>2
    <3> QED
      BY <3>1, <3>2
  <2> QED
    BY <2>9, <2>10, <2>11, <2>12 DEF IInv
<1> QED
  BY <1>3, <1>4

-----------------------------------------------------------------------------

\* The invariant holds at the start.
LEMMA InitIInv ==
  Init => IInv
<1> SUFFICES ASSUME Init PROVE IInv
  OBVIOUS
<1>1. PICK l \in FullLayouts : page = NewPage(1, l, 0)
  BY DEF Init
<1>2. /\ page.doc = 1 /\ page.layout = l /\ page.focus = None
      /\ page \in [doc : Nat \ {0}, layout : Layouts, focus : Elements \cup {None}, moves : Nat,
                   sensitive : SUBSET Elements]
  BY <1>1 DEF NewPage, FullLayouts
<1>3. /\ runtime = [no |-> 1, rev |-> 1, kept |-> {}, made |-> 1]
      /\ tab = [epoch |-> 1, lease |-> 1, leases |-> 1, store |-> {}]
      /\ cap = [c \in Captures |-> NoCapture] /\ req = [r \in Requests |-> NoRequest]
  BY DEF Init
<1>4. NoCapture \in Captured /\ NoCapture.at = "idle" /\ NoCapture.rt = 0
  BY DEF NoCapture, Captured
<1>5. Types
  BY <1>2, <1>3, <1>4, NoRequestState DEF Types
<1>6. Counters
  BY <1>2, <1>3, ActionsAssumption DEF Counters
<1>7. CapInv
  BY <1>3, <1>4 DEF CapInv, CapState
<1>8. ReqInv
  BY <1>3, NoRequestState DEF ReqInv
<1> QED
  BY <1>5, <1>6, <1>7, <1>8 DEF IInv

\* Every step keeps the invariant.
LEMMA NextIInv ==
  IInv /\ [Next]_vars => IInv'
<1> SUFFICES ASSUME IInv, [Next]_vars PROVE IInv'
  OBVIOUS
<1>1. CASE Move \/ Commit \/ OnCommitted \/ Install \/ Claim \/ Release
  BY <1>1, MoveIInv, CommitIInv, OnCommittedIInv, InstallIInv, ClaimIInv, ReleaseIInv
<1>2. ASSUME NEW c \in Captures, CaptureStep(c) PROVE IInv'
  BY <1>2, CaptureIInv, CaptureInPageIInv, CaptureStoreIInv, EvictIInv, ShotIInv, CaptureFailsIInv
     DEF CaptureStep
<1>3. ASSUME NEW r \in Requests, NEW kind \in Kinds, NEW via \in Vias, NEW c \in Captures,
             NEW e \in Elements, NEW s \in Spots, Begin(r, kind, via, c, e, s)
      PROVE  IInv'
  BY <1>3, BeginIInv
<1>4. ASSUME NEW r \in Requests, RequestStep(r) PROVE IInv'
  <2>1. CASE Dispatch(r) \/ Fail(r)
    BY <2>1, DropIInv DEF Dispatch, Fail
  <2>2. CASE PreflightDone(r) \/ PointChecked(r) \/ Prepared(r)
    BY <2>2, PreflightDoneIInv, PointCheckedIInv, PreparedIInv
  <2>3. CASE SecureInputRequested(r) \/ Submit(r) \/ OriginChecked(r)
    BY <2>3, SecureInputRequestedIInv, SubmitIInv, OriginCheckedIInv
  <2>4. CASE Resolve(r) \/ ReadRevision(r) \/ MarkSensitive(r) \/ Settle(r) \/ Perform(r)
    BY <2>4, ResolveIInv, ReadRevisionIInv, MarkSensitiveIInv, SettleIInv, PerformIInv
  <2> QED
    BY <1>4, <2>1, <2>2, <2>3, <2>4 DEF RequestStep
<1>5. CASE UNCHANGED vars
  <2>1. UNCHANGED <<page, runtime, tab, cap, req>>
    BY <1>5 DEF vars
  <2>2. Types' /\ Counters' /\ CapInv'
    BY <2>1, CountersFrame, CapFrame DEF IInv, Types
  <2>3. \A q \in Requested : ReqState(q) => ReqState(q)'
    BY <2>1, ReqFrame
  <2> QED
    BY <2>1, <2>2, <2>3, ReqKept
<1> QED
  BY <1>1, <1>2, <1>3, <1>4, <1>5 DEF Next

\* The page, the runtime, the tab, the captures and the requests stay in the
\* relation IInv states, however many of them there are.
THEOREM Invariance == Spec => []IInv
BY InitIInv, NextIInv, PTL DEF Spec

\* Documents, epochs, leases and runtimes are counted within their bounds, only a
\* complete snapshot is held, and a request that was answered has an element.
THEOREM TypeCorrect == Spec => []TypeOK
<1>1. IInv => TypeOK
  <2> SUFFICES ASSUME IInv PROVE TypeOK
    OBVIOUS
  <2>1. /\ page.doc \in 1 .. MaxDocs /\ page.layout \in Layouts
        /\ page.focus \in Connected \cup {None} /\ page.sensitive \subseteq Elements
    BY ActionsAssumption DEF IInv, Types, Counters
  <2>2. /\ runtime.no \in 0 .. runtime.made /\ runtime.made <= MaxRuntimes
        /\ runtime.kept \subseteq Captures /\ tab.store \subseteq Captures
        /\ tab.epoch \in 1 .. page.doc /\ tab.lease \in 0 .. tab.leases
    BY DEF IInv, Types, Counters
  <2>3. \A c \in tab.store : cap[c].at \in {"stored", "done"}
    BY <2>2 DEF IInv, CapInv, CapState
  <2>4. \A r \in Requests : req[r].at \in {"reply", "settle"} => req[r].el \in Elements
    BY DEF IInv, ReqInv, ReqState, InHand
  <2> QED
    BY <2>1, <2>2, <2>3, <2>4 DEF TypeOK
<1> QED
  BY <1>1, Invariance, PTL

\* What a settled request in its last phase has in hand is what it was meant for:
\* SameElement compares the identity, and the identity belongs to one document.
LEMMA InPlace ==
  ASSUME IInv, NEW r \in Requests, req[r].phase = "perform", Settled(req[r]), SameElement(req[r])
  PROVE  req[r].want = <<page.doc, req[r].el>>
<1> DEFINE q == req[r]
<1>1. q \in Requested /\ ReqState(q)
  BY ReqFacts
<1>2. q.want # None /\ q.want[1] = q.doc /\ q.want[2] = q.el /\ q.doc = page.doc
  BY <1>1 DEF ReqState, PhaseState, Identity, InHand, SameElement, Settled, Found
<1>3. q.want \in Nodes
  BY <1>1 DEF Requested
<1> QED
  BY <1>2, <1>3 DEF Nodes

\* Whatever the page, navigations, releases, evictions and other requests do
\* between the awaits of a request, what it does in the page it does to the
\* element it was meant for, in the document that element was named in; input sent
\* through the debugger misses only for one of the stated reasons.
THEOREM Lands == Spec => []LandsOnTarget
<1>1. IInv => LandsOnTarget
  <2> SUFFICES ASSUME IInv, NEW r \in Requests
               PROVE  \/ Hits(r) \subseteq {req[r].want}
                      \/ /\ req[r].kind \in {"pointer", "keys"}
                         /\ req[r].disturbed \/ req[r].loose
    BY DEF LandsOnTarget
  <2> DEFINE q == req[r]
  <2>1. PhaseState(q) /\ ReadyState(q)
    BY ReqFacts DEF ReqState
  <2>2. CASE q.at = "ready" /\ tab.lease # 0
    <3>1. \A h \in Hits(r) : h = IF q.kind = "keys" THEN KeyInput ELSE MouseInput(q)
      BY <2>1, <2>2 DEF Hits, PhaseState
    <3>2. q.kind \in {"pointer", "keys"}
      BY <2>1, <2>2 DEF PhaseState
    <3> QED
      BY <2>1, <2>2, <3>1, <3>2 DEF ReadyState
  <2>3. CASE ~(q.at = "ready" /\ tab.lease # 0) /\ q.phase = "perform" /\ Settled(q) /\ SameElement(q)
    <3>1. Hits(r) = {<<page.doc, q.el>>}
      BY <2>3 DEF Hits
    <3> QED
      BY <2>3, <3>1, InPlace
  <2>4. CASE ~(q.at = "ready" /\ tab.lease # 0) /\ ~(q.phase = "perform" /\ Settled(q) /\ SameElement(q))
    <3>1. ASSUME NEW h \in Hits(r) PROVE FALSE
      BY <2>4, <3>1 DEF Hits
    <3> QED
      BY <3>1
  <2> QED
    BY <2>2, <2>3, <2>4 DEF Settled, SameElement
<1> QED
  BY <1>1, Invariance, PTL

\* A secret is typed into the very element its request was made for, in the
\* document it was made in, and that element is registered as sensitive by then.
THEOREM SecretBound == Spec => []SecretStaysBound
<1>1. IInv => SecretStaysBound
  <2> SUFFICES ASSUME IInv, NEW r \in Requests, req[r].kind = "secure", NEW h \in Hits(r)
               PROVE  h = req[r].want /\ h[2] \in page.sensitive
    BY DEF SecretStaysBound
  <2> DEFINE q == req[r]
  <2>1. ReqState(q)
    BY ReqFacts
  <2>2. q.at # "ready"
    BY <2>1 DEF ReqState, PhaseState
  <2>3. q.phase = "perform" /\ Settled(q) /\ SameElement(q) /\ h = <<page.doc, q.el>>
    BY <2>2 DEF Hits
  <2>4. q.want = <<page.doc, q.el>>
    BY <2>3, InPlace
  <2> QED
    BY <2>1, <2>3, <2>4 DEF ReqState, SecretState
<1> QED
  BY <1>1, Invariance, PTL

=============================================================================
