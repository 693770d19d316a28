-------------------------- MODULE TabControlProofs --------------------------
(***************************************************************************)
(* Daemon and extension agree on who controls the tab, for any number of   *)
(* sessions, leases and calls, as long as one handler at a time changes it.*)
(***************************************************************************)
EXTENDS TabControl, TLAPS

Stages == {"ok", "error", "none", "claimed", "attaching", "installing", "undoing", "revoked",
           "releasing", "acting", "closing"}
CallKinds == {"claim", "release", "notice", "local", "op", "close", "none"}
CallRecords ==
  [kind : CallKinds, lease : Leases \cup {None}, force : BOOLEAN,
   at : {"idle", "ready", "sent", "ended"}, ext : Stages]

Types ==
  /\ closed \subseteq Sessions
  /\ lease \in Leases \cup {None}
  /\ owner \in [Leases -> Sessions \cup {None}]
  /\ call \in [Calls -> CallRecords]
  /\ claim \in Leases \cup {None}
  /\ attached \in BOOLEAN
  /\ tab \in {"open", "gone"}

\* A request on the wire was sent and has not been received; it is there once.
OnWire(r) == r.at \in {"sent", "ended"} /\ r.ext = "none" /\ r.kind # "none"

Wired ==
  /\ wire \in Seq(Calls)
  /\ \A i \in 1 .. Len(wire) : OnWire(call[wire[i]])
  /\ \A i, j \in 1 .. Len(wire) : wire[i] = wire[j] => i = j

\* What the extension is at tells which request it is.
Staged(r) ==
  /\ r.kind = "none" => r.ext = "none" /\ r.at = "idle"
  /\ r.at = "idle" => r.kind = "none"
  /\ r.at = "ready" => r.ext = "none"
  /\ r.kind \in Control => r.lease # None
  /\ r.kind = "local" => r.at = "ended" /\ r.ext \in {"revoked", "releasing"}
  /\ r.ext \in {"claimed", "attaching", "installing", "undoing"} => r.kind = "claim"
  /\ r.ext = "revoked" => r.kind = "local"
  /\ r.ext = "releasing" => r.kind \in {"release", "notice", "local"}
  /\ r.ext = "acting" => r.kind = "op"
  /\ r.ext = "closing" => r.kind = "close"
  /\ r.kind = "close" /\ r.ext = "ok" => tab = "gone"

\* The daemon waits for the answer to a call that changes who controls the tab.
Calm(r) == r.kind \in {"claim", "release", "notice"} => r.at \in {"ready", "sent"}

\* How far a claim has come, and what daemon and extension think by then.
ClaimState(r) ==
  r.kind = "claim" =>
    /\ lease = r.lease
    /\ r.ext = "none" => (attached <=> claim # None) /\ (claim \in {None, r.lease} \/ r.force)
    /\ r.ext \in {"claimed", "attaching", "installing", "ok"} => claim = r.lease
    /\ r.ext \in {"installing", "ok"} => attached
    /\ r.ext \in {"undoing", "error"} => claim = None
    /\ r.ext = "error" => ~attached

\* The same for a release, a notice that the lease is gone, and the popup.
ReleaseState(r) ==
  r.kind \in {"release", "notice", "local"} =>
    /\ lease = IF r.kind = "release" THEN r.lease ELSE None
    /\ r.ext \in {"none", "revoked", "releasing", "ok"}
    /\ r.ext = "ok" => claim = None
    /\ r.ext # "ok" => claim = r.lease
    /\ attached <=> r.ext \in {"none", "revoked"}

Alone == \A c, d \in Calls : call[c].kind \in Control /\ call[d].kind \in Control => c = d

InStep ==
  tab = "open" =>
    /\ \A c \in Calls : ClaimState(call[c]) /\ ReleaseState(call[c])
    /\ Quiet => claim = lease /\ (attached <=> claim # None)

Ordered == Alone /\ (\A c \in Calls : Calm(call[c])) /\ InStep

IInv ==
  /\ Types /\ Wired
  /\ \A c \in Calls : Staged(call[c])
  /\ Orderly => Ordered

-----------------------------------------------------------------------------
(* One call changes.                                                       *)

\* A call that both ends are done with is forgotten, any other is left as it is.
LEMMA Settling ==
  ASSUME NEW r \in CallRecords
  PROVE  /\ Settled(r) \in CallRecords
         /\ r.at = "ended" /\ r.ext \in {"ok", "error"} => Settled(r) = NoCall
         /\ r.at # "ended" \/ r.ext \notin {"ok", "error"} => Settled(r) = r
<1>1. NoCall \in CallRecords
  BY DEF NoCall, CallRecords, CallKinds, Stages
<1> QED
  BY <1>1 DEF Settled, Answers

\* What a call that is not there looks like.
LEMMA NoCallFacts ==
  /\ NoCall \in CallRecords /\ NoCall.kind = "none" /\ NoCall.ext = "none" /\ NoCall.at = "idle"
  /\ Staged(NoCall) /\ Staged(NoCall)' /\ Calm(NoCall) /\ ~OnWire(NoCall) /\ NoCall.kind \notin Control
<1>1. NoCall \in CallRecords /\ NoCall.kind = "none" /\ NoCall.ext = "none" /\ NoCall.at = "idle"
  BY DEF NoCall, CallRecords, CallKinds, Stages
<1> QED
  BY <1>1 DEF Staged, Calm, OnWire, Control

\* A handler of the extension goes on.
LEMMA Moving ==
  ASSUME IInv, NEW c \in Calls, NEW from, NEW to \in Stages, Moves(c, from, to)
  PROVE  /\ call[c].ext = from
         /\ \E n \in CallRecords :
              /\ call' = [call EXCEPT ![c] = n]
              /\ \/ call[c].at = "ended" /\ to \in {"ok", "error"} /\ n = NoCall
                 \/ /\ call[c].at # "ended" \/ to \notin {"ok", "error"}
                    /\ n.kind = call[c].kind /\ n.lease = call[c].lease /\ n.force = call[c].force
                    /\ n.at = call[c].at /\ n.ext = to
<1> DEFINE r == [call[c] EXCEPT !.ext = to]
<1>1. call[c] \in CallRecords
  BY DEF IInv, Types
<1>2. /\ r \in CallRecords /\ r.kind = call[c].kind /\ r.lease = call[c].lease
      /\ r.force = call[c].force /\ r.at = call[c].at /\ r.ext = to
  BY <1>1 DEF CallRecords
<1>3. call[c].ext = from /\ call' = [call EXCEPT ![c] = Settled(r)]
  BY DEF Moves, Put
<1> HIDE DEF r
<1> QED
  BY <1>2, <1>3, Settling

\* The daemon's side of a call goes on.
LEMMA Handling ==
  ASSUME IInv, NEW c \in Calls, NEW to \in {"sent", "ended"}, Put(c, [call[c] EXCEPT !.at = to])
  PROVE  \E n \in CallRecords :
           /\ call' = [call EXCEPT ![c] = n]
           /\ \/ to = "ended" /\ call[c].ext \in {"ok", "error"} /\ n = NoCall
              \/ /\ to # "ended" \/ call[c].ext \notin {"ok", "error"}
                 /\ n.kind = call[c].kind /\ n.lease = call[c].lease /\ n.force = call[c].force
                 /\ n.at = to /\ n.ext = call[c].ext
<1> DEFINE r == [call[c] EXCEPT !.at = to]
<1>1. call[c] \in CallRecords
  BY DEF IInv, Types
<1>2. /\ r \in CallRecords /\ r.kind = call[c].kind /\ r.lease = call[c].lease
      /\ r.force = call[c].force /\ r.at = to /\ r.ext = call[c].ext
  BY <1>1 DEF CallRecords
<1>3. call' = [call EXCEPT ![c] = Settled(r)]
  BY DEF Put
<1> HIDE DEF r
<1> QED
  BY <1>2, <1>3, Settling

\* A new call is one the daemon has to send.
LEMMA Starting ==
  ASSUME IInv, NEW c \in Calls, NEW kind \in CallKinds, NEW l \in Leases \cup {None},
         NEW force \in BOOLEAN, NewCall(c, kind, l, force)
  PROVE  /\ call[c] = NoCall
         /\ \E n \in CallRecords :
              /\ call' = [call EXCEPT ![c] = n]
              /\ n.kind = kind /\ n.lease = l /\ n.force = force /\ n.at = "ready" /\ n.ext = "none"
<1> DEFINE r == [kind |-> kind, lease |-> l, force |-> force, at |-> "ready", ext |-> "none"]
<1>1. r \in CallRecords
  BY DEF CallRecords, Stages
<1>2. Settled(r) = r
  BY <1>1, Settling
<1> QED
  BY <1>1, <1>2 DEF NewCall, Put

\* A new call other than a claim takes nothing over.
LEMMA Requesting ==
  ASSUME IInv, NEW c \in Calls, NEW kind \in CallKinds, NEW l \in Leases \cup {None},
         NewCall(c, kind, l, FALSE)
  PROVE  /\ call[c] = NoCall
         /\ \E n \in CallRecords :
              /\ call' = [call EXCEPT ![c] = n]
              /\ n.kind = kind /\ n.lease = l /\ n.at = "ready" /\ n.ext = "none"
<1>1. PICK force \in BOOLEAN : force = FALSE
  OBVIOUS
<1>2. NewCall(c, kind, l, force)
  BY <1>1 DEF NewCall
<1> QED
  BY <1>2, Starting

\* The wire, when a call changes that is not on it, is put on it or is taken off it.
LEMMA WireKept ==
  ASSUME IInv, NEW c \in Calls, NEW n, call' = [call EXCEPT ![c] = n], wire' = wire,
         ~OnWire(call[c]) \/ OnWire(n)
  PROVE  Wired'
<1>1. call \in [Calls -> CallRecords] /\ Wired
  BY DEF IInv, Types
<1>2. \A d \in Calls : OnWire(call[d]) => OnWire(call'[d])
  BY <1>1
<1>3. \A i \in 1 .. Len(wire) : wire[i] \in Calls
  BY <1>1 DEF Wired
<1>4. \A d \in Calls : OnWire(call[d])' <=> OnWire(call'[d])
  BY DEF OnWire
<1> QED
  BY <1>1, <1>2, <1>3, <1>4 DEF Wired

\* A call that is written joins the end of the wire.
LEMMA WireSend ==
  ASSUME IInv, NEW c \in Calls, NEW n, call' = [call EXCEPT ![c] = n], wire' = Append(wire, c),
         ~OnWire(call[c]), OnWire(n)
  PROVE  Wired'
<1>1. call \in [Calls -> CallRecords] /\ wire \in Seq(Calls)
  BY DEF IInv, Types, Wired
<1>2. \A d \in Calls : OnWire(call[d]) => OnWire(call'[d])
  BY <1>1
<1>3. OnWire(call'[c])
  BY <1>1
<1>4. /\ wire' \in Seq(Calls) /\ Len(wire') = Len(wire) + 1 /\ Len(wire) \in Nat
      /\ wire'[Len(wire) + 1] = c
      /\ \A i \in 1 .. Len(wire) : wire'[i] = wire[i] /\ wire[i] \in Calls
  BY <1>1
<1>5. \A i \in 1 .. Len(wire) : OnWire(call[wire[i]]) /\ wire[i] # c
  BY DEF IInv, Wired
<1>6. \A i \in 1 .. Len(wire') : OnWire(call'[wire'[i]])
  BY <1>2, <1>3, <1>4, <1>5
<1>7. \A i, j \in 1 .. Len(wire') : wire'[i] = wire'[j] => i = j
  BY <1>4, <1>5 DEF IInv, Wired
<1> QED
  BY <1>4, <1>6, <1>7 DEF Wired, OnWire

\* A call that is read was the first on the wire and is on it no more.
LEMMA WireReceive ==
  ASSUME IInv, NEW c \in Calls, NEW n, call' = [call EXCEPT ![c] = n], FromWire(c)
  PROVE  Wired' /\ OnWire(call[c])
<1>1. call \in [Calls -> CallRecords] /\ wire \in Seq(Calls) /\ wire # <<>>
  BY DEF IInv, Types, Wired, FromWire
<1>2. /\ c = wire[1] /\ wire' \in Seq(Calls) /\ Len(wire) \in Nat \ {0} /\ Len(wire') = Len(wire) - 1
      /\ \A i \in 1 .. Len(wire') : wire'[i] = wire[i + 1] /\ i + 1 \in 1 .. Len(wire)
  BY <1>1 DEF FromWire
<1>3. \A i \in 1 .. Len(wire') : wire'[i] # c /\ wire'[i] \in Calls /\ OnWire(call[wire'[i]])
  BY <1>1, <1>2 DEF IInv, Wired
<1>4. \A i \in 1 .. Len(wire') : OnWire(call'[wire'[i]])
  BY <1>1, <1>3
<1>5. \A i, j \in 1 .. Len(wire') : wire'[i] = wire'[j] => i = j
  BY <1>2 DEF IInv, Wired
<1>6. OnWire(call[c])
  BY <1>2 DEF IInv, Wired
<1> QED
  BY <1>2, <1>4, <1>5, <1>6 DEF Wired, OnWire

-----------------------------------------------------------------------------
(* The invariant, when one call changes.                                   *)

\* What has to be shown of a step that changes one call.
LEMMA StepIInv ==
  ASSUME IInv, NEW c \in Calls, NEW n \in CallRecords, call' = [call EXCEPT ![c] = n],
         hazards' = hazards, closed' \subseteq Sessions, lease' \in Leases \cup {None},
         owner' \in [Leases -> Sessions \cup {None}], claim' \in Leases \cup {None},
         attached' \in BOOLEAN, tab' \in {"open", "gone"}, tab = "gone" => tab' = "gone",
         Wired', Staged(n)', Orderly => Ordered'
  PROVE  IInv'
<1>1. call' \in [Calls -> CallRecords] /\ \A d \in Calls : call'[d] = IF d = c THEN n ELSE call[d]
  BY DEF IInv, Types
<1>2. Types'
  BY <1>1 DEF Types
<1>3. ASSUME NEW d \in Calls PROVE Staged(call[d])'
  <2>1. CASE d = c
    <3>1. call'[d] = n
      BY <1>1, <2>1
    <3> QED
      BY <3>1 DEF Staged
  <2>2. CASE d # c
    <3>1. call'[d] = call[d]
      BY <1>1, <2>2
    <3>2. Staged(call[d])
      BY DEF IInv
    <3> QED
      BY <3>1, <3>2 DEF Staged
  <2> QED
    BY <2>1, <2>2
<1>4. Orderly' => Ordered'
  BY DEF Orderly
<1> QED
  BY <1>2, <1>3, <1>4 DEF IInv

\* Work on the tab changes nothing of who controls it.
LEMMA WorkStep ==
  ASSUME IInv, Ordered, NEW c \in Calls, NEW n \in CallRecords, call' = [call EXCEPT ![c] = n],
         call[c].kind \notin Control, n.kind \notin Control,
         lease' = lease, claim' = claim, attached' = attached, tab' = tab
  PROVE  Ordered'
<1>1. \A d \in Calls : call'[d] = IF d = c THEN n ELSE call[d]
  BY DEF IInv, Types
<1>2. \A d \in Calls : /\ call'[d].kind \in Control => call'[d] = call[d]
                       /\ call'[d].kind \in Control <=> call[d].kind \in Control
  BY <1>1
<1>3. Alone'
  BY <1>2 DEF Ordered, Alone
<1>4. \A d \in Calls : Calm(call[d])'
  BY <1>2 DEF Ordered, Calm, Control
<1>5. \A d \in Calls : tab = "open" => ClaimState(call[d])' /\ ReleaseState(call[d])'
  <2> SUFFICES ASSUME NEW d \in Calls, tab = "open"
               PROVE  ClaimState(call[d])' /\ ReleaseState(call[d])'
    OBVIOUS
  <2>1. ClaimState(call[d]) /\ ReleaseState(call[d])
    BY DEF Ordered, InStep
  <2>2. CASE call'[d] = call[d]
    BY <2>1, <2>2, Zenon DEF ClaimState, ReleaseState
  <2>3. CASE call'[d].kind \notin Control
    BY <2>3 DEF ClaimState, ReleaseState, Control
  <2> QED
    BY <1>2, <2>2, <2>3
<1>6. Quiet' => Quiet
  BY <1>2 DEF Quiet
<1>7. tab = "open" /\ Quiet' => claim' = lease' /\ (attached' <=> claim' # None)
  BY <1>6, Zenon DEF Ordered, InStep
<1>8. InStep'
  BY <1>5, <1>7, Zenon DEF InStep
<1> QED
  BY <1>3, <1>4, <1>8 DEF Ordered

\* The call that changes who controls the tab is the only one of its kind.
LEMMA ControlStep ==
  ASSUME IInv, Ordered, NEW c \in Calls, NEW n \in CallRecords, call' = [call EXCEPT ![c] = n],
         call[c].kind \in Control \/ Quiet, Calm(n),
         tab' = "open" /\ n.kind \in Control => ClaimState(n)' /\ ReleaseState(n)',
         tab' = "open" /\ n.kind \notin Control => claim' = lease' /\ (attached' <=> claim' # None)
  PROVE  Ordered'
<1>1. \A d \in Calls : call'[d] = IF d = c THEN n ELSE call[d]
  BY DEF IInv, Types
<1>2. \A d \in Calls : d # c => call'[d].kind \notin Control
  BY <1>1 DEF Ordered, Alone, Quiet
<1>3. Alone'
  BY <1>2 DEF Alone
<1>4. call'[c] = n
  BY <1>1
<1>5. ASSUME NEW d \in Calls PROVE Calm(call[d])'
  <2>1. CASE d = c
    BY <1>4, <2>1 DEF Calm
  <2>2. CASE d # c
    BY <1>2, <2>2 DEF Calm, Control
  <2> QED
    BY <2>1, <2>2
<1>6. ASSUME NEW d \in Calls, tab' = "open" PROVE ClaimState(call[d])' /\ ReleaseState(call[d])'
  <2>1. CASE d = c /\ n.kind \in Control
    <3>1. ClaimState(n)' /\ ReleaseState(n)'
      BY <1>6, <2>1
    <3> QED
      BY <1>4, <2>1, <3>1, Zenon DEF ClaimState, ReleaseState
  <2>2. CASE call'[d].kind \notin Control
    BY <2>2 DEF ClaimState, ReleaseState, Control
  <2> QED
    BY <1>2, <1>4, <2>1, <2>2
<1>7. Quiet' => n.kind \notin Control
  BY <1>4 DEF Quiet
<1>8. tab' = "open" /\ Quiet' => claim' = lease' /\ (attached' <=> claim' # None)
  BY <1>7, Zenon
<1>9. InStep'
  BY <1>6, <1>8, Zenon DEF InStep
<1> QED
  BY <1>3, <1>5, <1>9 DEF Ordered

\* Once the tab is gone, there is nothing to agree on.
LEMMA GoneStep ==
  ASSUME IInv, Ordered, NEW c \in Calls, NEW n \in CallRecords, call' = [call EXCEPT ![c] = n],
         call[c].kind \notin Control, n.kind \notin Control, tab' = "gone"
  PROVE  Ordered'
<1>1. \A d \in Calls : call'[d] = IF d = c THEN n ELSE call[d]
  BY DEF IInv, Types
<1>2. \A d \in Calls : call'[d].kind \in Control => call'[d] = call[d]
  BY <1>1
<1>3. Alone'
  BY <1>2 DEF Ordered, Alone
<1>4. \A d \in Calls : Calm(call[d])'
  BY <1>2 DEF Ordered, Calm, Control
<1>5. InStep'
  BY DEF InStep
<1> QED
  BY <1>3, <1>4, <1>5 DEF Ordered

-----------------------------------------------------------------------------
(* The daemon.                                                             *)

\* With takeovers only, a handler starts to change who controls the tab when
\* nobody else does.
LEMMA QuietStart ==
  ASSUME Orderly, Undisturbed
  PROVE  Quiet
BY DEF Orderly, Undisturbed, Quiet

\* When nobody changes who controls the tab, daemon and extension agree.
LEMMA QuietFacts ==
  ASSUME Ordered, Quiet, tab = "open"
  PROVE  claim = lease /\ (attached <=> claim # None)
BY Zenon DEF Ordered, InStep

\* tab.claim takes the lease before it calls the extension.
LEMMA TabClaimIInv ==
  ASSUME IInv, NEW c \in Calls, NEW s \in Sessions, NEW force \in BOOLEAN, NEW l \in Leases,
         TabClaim(c, s, force, l)
  PROVE  IInv'
<1>1. call[c] = NoCall /\ \E n \in CallRecords :
        /\ call' = [call EXCEPT ![c] = n]
        /\ n.kind = "claim" /\ n.lease = l /\ n.force = force /\ n.at = "ready" /\ n.ext = "none"
  BY Starting DEF TabClaim, CallKinds
<1>2. PICK n \in CallRecords :
        /\ call' = [call EXCEPT ![c] = n]
        /\ n.kind = "claim" /\ n.lease = l /\ n.force = force /\ n.at = "ready" /\ n.ext = "none"
  BY <1>1
<1>3. /\ hazards' = hazards /\ closed' = closed /\ wire' = wire /\ claim' = claim
      /\ attached' = attached /\ tab' = tab
  BY DEF TabClaim, extensionVars
<1>4. lease' = l /\ owner' \in [Leases -> Sessions \cup {None}] /\ (lease = l \/ lease = None \/ force)
  BY DEF TabClaim, IInv, Types
<1>5. Wired'
  BY <1>1, <1>2, <1>3, WireKept, NoCallFacts
<1>6. Staged(n)'
  BY <1>2, PastsAssumption DEF Staged, Control
<1>7. ASSUME Orderly PROVE Ordered'
  <2>1. Quiet
    BY <1>7, QuietStart DEF TabClaim
  <2>2. Ordered
    BY <1>7 DEF IInv
  <2>3. Calm(n) /\ n.kind \in Control
    BY <1>2 DEF Calm, Control
  <2>4. ASSUME tab' = "open" PROVE ClaimState(n)' /\ ReleaseState(n)'
    <3>1. claim = lease /\ (attached <=> claim # None)
      BY <1>3, <2>1, <2>2, <2>4, QuietFacts, Zenon
    <3>2. (attached' <=> claim' # None) /\ (claim' \in {None, l} \/ force)
      BY <1>3, <1>4, <3>1, Zenon
    <3>3. ClaimState(n)'
      BY <1>2, <1>4, <3>2 DEF ClaimState
    <3> QED
      BY <1>2, <3>3 DEF ReleaseState
  <2> QED
    BY <1>2, <2>1, <2>2, <2>3, <2>4, ControlStep
<1> QED
  BY <1>2, <1>3, <1>4, <1>5, <1>6, <1>7, StepIInv DEF IInv, Types

\* tab.release calls the extension while the daemon still has the lease.
LEMMA TabReleaseIInv ==
  ASSUME IInv, NEW c \in Calls, TabRelease(c)
  PROVE  IInv'
<1>1. /\ hazards' = hazards /\ closed' = closed /\ wire' = wire /\ claim' = claim
      /\ attached' = attached /\ tab' = tab /\ lease' = lease /\ owner' = owner /\ lease # None
      /\ lease \in Leases
  BY DEF TabRelease, extensionVars, daemonVars, IInv, Types
<1>2. call[c] = NoCall /\ \E n \in CallRecords :
        /\ call' = [call EXCEPT ![c] = n]
        /\ n.kind = "release" /\ n.lease = lease /\ n.at = "ready" /\ n.ext = "none"
  <2>1. NewCall(c, "release", lease, FALSE) /\ "release" \in CallKinds /\ lease \in Leases \cup {None}
    BY <1>1 DEF TabRelease, CallKinds
  <2> QED
    BY <2>1, Requesting DEF NewCall
<1>3. PICK n \in CallRecords :
        /\ call' = [call EXCEPT ![c] = n]
        /\ n.kind = "release" /\ n.lease = lease /\ n.at = "ready" /\ n.ext = "none"
  BY <1>2
<1>4. Wired'
  BY <1>1, <1>2, <1>3, WireKept, NoCallFacts
<1>5. Staged(n)'
  BY <1>1, <1>3 DEF Staged, Control
<1>6. ASSUME Orderly PROVE Ordered'
  <2>1. Quiet
    BY <1>6, QuietStart DEF TabRelease
  <2>2. Ordered
    BY <1>6 DEF IInv
  <2>3. Calm(n) /\ n.kind \in Control
    BY <1>3 DEF Calm, Control
  <2>4. ASSUME tab' = "open" PROVE ClaimState(n)' /\ ReleaseState(n)'
    <3>1. claim = lease /\ (attached <=> claim # None)
      BY <1>1, <2>1, <2>2, <2>4, QuietFacts, Zenon
    <3>2. claim' = n.lease /\ attached' /\ lease' = n.lease
      BY <1>1, <1>3, <3>1, Zenon
    <3>3. ReleaseState(n)'
      BY <1>3, <3>2 DEF ReleaseState
    <3> QED
      BY <1>3, <3>3 DEF ClaimState
  <2> QED
    BY <1>3, <2>1, <2>2, <2>3, <2>4, ControlStep
<1> QED
  BY <1>1, <1>3, <1>4, <1>5, <1>6, StepIInv DEF IInv, Types

\* Ordinary work is done under the lease of its session.
LEMMA ForwardIInv ==
  ASSUME IInv, NEW c \in Calls, NEW kind \in Work, Forward(c, kind)
  PROVE  IInv'
<1>1. /\ hazards' = hazards /\ closed' = closed /\ wire' = wire /\ claim' = claim
      /\ attached' = attached /\ tab' = tab /\ lease' = lease /\ owner' = owner
      /\ lease \in Leases \cup {None}
  BY DEF Forward, extensionVars, daemonVars, IInv, Types
<1>2. call[c] = NoCall /\ \E n \in CallRecords :
        /\ call' = [call EXCEPT ![c] = n]
        /\ n.kind = kind /\ n.lease = lease /\ n.at = "ready" /\ n.ext = "none"
  <2>1. NewCall(c, kind, lease, FALSE) /\ kind \in CallKinds /\ lease \in Leases \cup {None}
    BY <1>1 DEF Forward, CallKinds, Work
  <2> QED
    BY <2>1, Requesting DEF NewCall
<1>3. PICK n \in CallRecords :
        /\ call' = [call EXCEPT ![c] = n]
        /\ n.kind = kind /\ n.lease = lease /\ n.at = "ready" /\ n.ext = "none"
  BY <1>2
<1>4. Wired'
  BY <1>1, <1>2, <1>3, WireKept, NoCallFacts
<1>5. Staged(n)'
  BY <1>1, <1>3 DEF Staged, Control, Work
<1>6. ASSUME Orderly PROVE Ordered'
  <2>1. Ordered
    BY <1>6 DEF IInv
  <2>2. n.kind \notin Control
    BY <1>3 DEF Control, Work
  <2> QED
    BY <1>1, <1>2, <1>3, <2>1, <2>2, WorkStep, NoCallFacts
<1> QED
  BY <1>1, <1>3, <1>4, <1>5, <1>6, StepIInv DEF IInv, Types

\* The lease is dropped and the extension is told: a closed session, an expired lease.
LEMMA NoticeIInv ==
  ASSUME IInv, NEW c \in Calls, Undisturbed, lease # None, NewCall(c, "notice", lease, FALSE),
         lease' = None, closed' \subseteq Sessions, hazards' = hazards, owner' = owner,
         wire' = wire, claim' = claim, attached' = attached, tab' = tab
  PROVE  IInv'
<1>1. lease \in Leases
  BY DEF IInv, Types
<1>2. call[c] = NoCall /\ \E n \in CallRecords :
        /\ call' = [call EXCEPT ![c] = n]
        /\ n.kind = "notice" /\ n.lease = lease /\ n.at = "ready" /\ n.ext = "none"
  <2>1. NewCall(c, "notice", lease, FALSE) /\ "notice" \in CallKinds /\ lease \in Leases \cup {None}
    BY <1>1 DEF CallKinds
  <2> QED
    BY <2>1, Requesting DEF NewCall
<1>3. PICK n \in CallRecords :
        /\ call' = [call EXCEPT ![c] = n]
        /\ n.kind = "notice" /\ n.lease = lease /\ n.at = "ready" /\ n.ext = "none"
  BY <1>2
<1>4. Wired'
  BY <1>2, <1>3, WireKept, NoCallFacts
<1>5. Staged(n)'
  BY <1>3 DEF Staged, Control
<1>6. ASSUME Orderly PROVE Ordered'
  <2>1. Quiet
    BY <1>6, QuietStart
  <2>2. Ordered
    BY <1>6 DEF IInv
  <2>3. Calm(n) /\ n.kind \in Control
    BY <1>3 DEF Calm, Control
  <2>4. ASSUME tab' = "open" PROVE ClaimState(n)' /\ ReleaseState(n)'
    <3>1. claim = lease /\ (attached <=> claim # None)
      BY <2>1, <2>2, <2>4, QuietFacts, Zenon
    <3>2. claim' = n.lease /\ attached'
      BY <1>3, <3>1, Zenon
    <3>3. ReleaseState(n)'
      BY <1>3, <3>2 DEF ReleaseState
    <3> QED
      BY <1>3, <3>3 DEF ClaimState
  <2> QED
    BY <1>3, <2>1, <2>2, <2>3, <2>4, ControlStep
<1> QED
  BY <1>3, <1>4, <1>5, <1>6, StepIInv DEF IInv, Types

\* Closing a session takes its lease and asks the extension to release.
LEMMA SessionCloseIInv ==
  ASSUME IInv, NEW c \in Calls, NEW s \in Sessions, SessionClose(c, s)
  PROVE  IInv'
<1>1. /\ hazards' = hazards /\ owner' = owner /\ wire' = wire /\ claim' = claim
      /\ attached' = attached /\ tab' = tab /\ Undisturbed /\ closed' \subseteq Sessions
  BY DEF SessionClose, extensionVars, IInv, Types
<1>2. CASE Holds(s) /\ NewCall(c, "notice", lease, FALSE) /\ lease' = None
  BY <1>1, <1>2, NoticeIInv DEF Holds
<1>3. CASE lease' = lease /\ call' = call
  <2>1. Types'
    BY <1>1, <1>3 DEF IInv, Types
  <2>2. Wired' /\ (\A d \in Calls : Staged(call[d])')
    BY <1>1, <1>3 DEF IInv, Wired, OnWire, Staged
  <2>3. Ordered => Ordered'
    BY <1>1, <1>3, Zenon DEF Ordered, Alone, Calm, InStep, ClaimState, ReleaseState, Quiet
  <2>4. Orderly' => Orderly
    BY <1>1 DEF Orderly
  <2> QED
    BY <2>1, <2>2, <2>3, <2>4 DEF IInv
<1> QED
  BY <1>2, <1>3 DEF SessionClose

\* The lease expires and the hook asks the extension to release.
LEMMA ExpireIInv ==
  ASSUME IInv, NEW c \in Calls, Expire(c)
  PROVE  IInv'
<1>1. /\ hazards' = hazards /\ owner' = owner /\ wire' = wire /\ claim' = claim
      /\ attached' = attached /\ tab' = tab /\ closed' \subseteq Sessions
  BY DEF Expire, extensionVars, IInv, Types
<1> QED
  BY <1>1, NoticeIInv DEF Expire

\* The user releases the tab from the popup.
LEMMA PopupReleaseIInv ==
  ASSUME IInv, NEW c \in Calls, PopupRelease(c)
  PROVE  IInv'
<1> DEFINE n == [kind |-> "local", lease |-> lease, force |-> FALSE, at |-> "ended", ext |-> "revoked"]
<1>1. /\ hazards' = hazards /\ closed' = closed /\ owner' = owner /\ wire' = wire /\ claim' = claim
      /\ attached' = attached /\ tab' = tab /\ lease' = None /\ lease # None /\ lease \in Leases
      /\ call[c] = NoCall /\ Undisturbed
  BY DEF PopupRelease, extensionVars, IInv, Types
<1>2. /\ n \in CallRecords
      /\ n.kind = "local" /\ n.lease = lease /\ n.at = "ended" /\ n.ext = "revoked"
  BY <1>1 DEF CallRecords, Stages, CallKinds
<1>3. call' = [call EXCEPT ![c] = Settled(n)]
  BY DEF PopupRelease, Put
<1> HIDE DEF n
<1>4. PICK m \in CallRecords :
        /\ call' = [call EXCEPT ![c] = m]
        /\ m.kind = "local" /\ m.lease = lease /\ m.at = "ended" /\ m.ext = "revoked"
  BY <1>2, <1>3, Settling
<1>5. Wired'
  BY <1>1, <1>4, WireKept, NoCallFacts
<1>6. Staged(m)'
  BY <1>1, <1>4 DEF Staged, Control
<1>7. ASSUME Orderly PROVE Ordered'
  <2>1. Quiet
    BY <1>1, <1>7, QuietStart
  <2>2. Ordered
    BY <1>7 DEF IInv
  <2>3. Calm(m) /\ m.kind \in Control
    BY <1>4 DEF Calm, Control
  <2>4. ASSUME tab' = "open" PROVE ClaimState(m)' /\ ReleaseState(m)'
    <3>1. claim = lease /\ (attached <=> claim # None)
      BY <1>1, <2>1, <2>2, <2>4, QuietFacts, Zenon
    <3>2. claim' = m.lease /\ attached'
      BY <1>1, <1>4, <3>1, Zenon
    <3>3. ReleaseState(m)'
      BY <1>1, <1>4, <3>2 DEF ReleaseState
    <3> QED
      BY <1>4, <3>3 DEF ClaimState
  <2> QED
    BY <1>4, <2>1, <2>2, <2>3, <2>4, ControlStep
<1> QED
  BY <1>1, <1>4, <1>5, <1>6, <1>7, StepIInv DEF IInv, Types

\* A call is written to the bridge.
LEMMA SendIInv ==
  ASSUME IInv, NEW c \in Calls, Send(c)
  PROVE  IInv'
<1>1. /\ hazards' = hazards /\ closed' = closed /\ wire' = Append(wire, c) /\ claim' = claim
      /\ attached' = attached /\ tab' = tab /\ lease' = lease /\ owner' = owner
      /\ call[c].at = "ready" /\ Put(c, [call[c] EXCEPT !.at = "sent"])
  BY DEF Send, extensionVars, daemonVars
<1>2. Staged(call[c]) /\ call[c].ext = "none" /\ call[c].kind # "none" /\ call[c].kind # "local"
  BY <1>1 DEF IInv, Staged
<1>3. PICK n \in CallRecords :
        /\ call' = [call EXCEPT ![c] = n]
        /\ n.kind = call[c].kind /\ n.lease = call[c].lease /\ n.force = call[c].force
        /\ n.at = "sent" /\ n.ext = "none"
  <2>1. "sent" \in {"sent", "ended"} /\ "sent" # "ended"
    OBVIOUS
  <2>2. \E n \in CallRecords :
          /\ call' = [call EXCEPT ![c] = n]
          /\ n.kind = call[c].kind /\ n.lease = call[c].lease /\ n.force = call[c].force
          /\ n.at = "sent" /\ n.ext = call[c].ext
    BY <1>1, <2>1, Handling
  <2> QED
    BY <1>2, <2>2
<1>4. Wired'
  BY <1>1, <1>2, <1>3, WireSend DEF OnWire
<1>5. Staged(n)'
  BY <1>1, <1>2, <1>3 DEF Staged
<1>6. ASSUME Orderly PROVE Ordered'
  <2>1. Ordered
    BY <1>6 DEF IInv
  <2>2. CASE call[c].kind \notin Control
    BY <1>1, <1>3, <2>1, <2>2, WorkStep
  <2>3. CASE call[c].kind \in Control
    <3>1. Calm(n) /\ n.kind \in Control
      BY <1>3, <2>3 DEF Calm
    <3>2. ASSUME tab' = "open" PROVE ClaimState(n)' /\ ReleaseState(n)'
      <4>1. ClaimState(call[c]) /\ ReleaseState(call[c])
        BY <1>1, <2>1, <3>2 DEF Ordered, InStep
      <4> QED
        BY <1>1, <1>2, <1>3, <4>1, Zenon DEF ClaimState, ReleaseState
    <3> QED
      BY <1>3, <2>1, <2>3, <3>1, <3>2, ControlStep
  <2> QED
    BY <2>2, <2>3
<1> QED
  BY <1>1, <1>3, <1>4, <1>5, <1>6, StepIInv DEF IInv, Types

\* A call is cancelled before it is written.
LEMMA WithdrawIInv ==
  ASSUME IInv, NEW c \in Calls, Withdraw(c)
  PROVE  IInv'
<1>1. /\ hazards' = hazards /\ closed' = closed /\ wire' = wire /\ claim' = claim
      /\ attached' = attached /\ tab' = tab /\ lease' = lease /\ owner' = owner
      /\ call[c].at = "ready" /\ call[c].kind \in {"op", "close", "claim"} /\ lease # call[c].lease
  BY DEF Withdraw, Work, extensionVars, daemonVars
<1>2. PICK n \in CallRecords : call' = [call EXCEPT ![c] = n] /\ n = NoCall
  BY NoCallFacts DEF Withdraw
<1>3. Wired'
  BY <1>1, <1>2, WireKept DEF OnWire
<1>4. Staged(n)' /\ Calm(n) /\ n.kind \notin Control
  BY <1>2, NoCallFacts DEF Staged, Calm, Control
<1>5. ASSUME Orderly PROVE Ordered'
  <2>1. Ordered
    BY <1>5 DEF IInv
  <2>2. CASE call[c].kind # "claim"
    <3>1. call[c].kind \notin Control
      BY <1>1, <2>2 DEF Control
    <3> QED
      BY <1>1, <1>2, <1>4, <2>1, <3>1, WorkStep
  <2>3. CASE call[c].kind = "claim"
    <3>1. tab' # "open"
      BY <1>1, <2>1, <2>3 DEF Ordered, InStep, ClaimState
    <3>2. call[c].kind \in Control
      BY <2>3 DEF Control
    <3> QED
      BY <1>2, <1>4, <2>1, <3>1, <3>2, ControlStep
  <2> QED
    BY <2>2, <2>3
<1> QED
  BY <1>1, <1>2, <1>3, <1>4, <1>5, StepIInv DEF IInv, Types

\* The reply arrives while its handler waits for it.
LEMMA ReplyIInv ==
  ASSUME IInv, NEW c \in Calls, Reply(c)
  PROVE  IInv'
<1>1. /\ hazards' = hazards /\ closed' = closed /\ wire' = wire /\ claim' = claim
      /\ attached' = attached /\ tab' = tab /\ owner' = owner /\ call[c].at = "sent"
      /\ call[c].ext \in {"ok", "error"} /\ Put(c, [call[c] EXCEPT !.at = "ended"])
      /\ lease' = IF lease = call[c].lease
                     /\ <<call[c].kind, call[c].ext>> \in
                          {<<"claim", "error">>, <<"release", "ok">>, <<"close", "ok">>}
                  THEN None ELSE lease
  BY DEF Reply, Answered, Answers, extensionVars
<1>2. Staged(call[c])
  BY DEF IInv
<1>3. PICK n \in CallRecords : call' = [call EXCEPT ![c] = n] /\ n = NoCall
  BY <1>1, Handling
<1>4. Wired'
  BY <1>1, <1>3, WireKept DEF OnWire
<1>5. Staged(n)' /\ Calm(n) /\ n.kind \notin Control
  BY <1>3, NoCallFacts DEF Staged, Calm, Control
<1>6. lease' \in Leases \cup {None}
  BY <1>1 DEF IInv, Types
<1>7. ASSUME Orderly PROVE Ordered'
  <2>1. Ordered
    BY <1>7 DEF IInv
  <2>2. CASE call[c].kind \notin Control
    <3>1. CASE call[c].kind = "close" /\ call[c].ext = "ok"
      <4>1. tab' = "gone"
        BY <1>1, <1>2, <3>1 DEF Staged
      <4> QED
        BY <1>3, <1>5, <2>1, <2>2, <4>1, GoneStep
    <3>2. CASE call[c].kind # "close" \/ call[c].ext # "ok"
      <4>1. lease' = lease
        BY <1>1, <2>2, <3>2 DEF Control
      <4> QED
        BY <1>1, <1>3, <1>5, <2>1, <2>2, <4>1, WorkStep
    <3> QED
      BY <3>1, <3>2
  <2>3. CASE call[c].kind \in Control
    <3>1. ASSUME tab' = "open" PROVE claim' = lease' /\ (attached' <=> claim' # None)
      <4>1. ClaimState(call[c]) /\ ReleaseState(call[c])
        BY <1>1, <2>1, <3>1 DEF Ordered, InStep
      <4>2. call[c].lease # None /\ call[c].kind # "local"
        BY <1>1, <1>2, <2>3 DEF Staged
      <4>3. CASE call[c].kind = "claim" /\ call[c].ext = "ok"
        <5>1. lease' = lease /\ lease = call[c].lease /\ claim = lease /\ attached
          BY <1>1, <4>1, <4>3 DEF ClaimState
        <5> QED
          BY <1>1, <4>2, <5>1, Zenon
      <4>4. CASE call[c].kind = "claim" /\ call[c].ext = "error"
        <5>1. lease' = None /\ claim = None /\ ~attached
          BY <1>1, <4>1, <4>4 DEF ClaimState
        <5> QED
          BY <1>1, <5>1, Zenon
      <4>5. CASE call[c].kind \in {"release", "notice"}
        <5>1. call[c].ext = "ok" /\ claim = None /\ ~attached
          BY <1>1, <4>1, <4>5 DEF ReleaseState
        <5>2. lease' = None
          BY <1>1, <4>1, <4>5, <5>1 DEF ReleaseState
        <5> QED
          BY <1>1, <5>1, <5>2, Zenon
      <4> QED
        BY <1>1, <2>3, <4>2, <4>3, <4>4, <4>5 DEF Control
    <3> QED
      BY <1>3, <1>5, <2>1, <2>3, <3>1, ControlStep
  <2> QED
    BY <2>2, <2>3
<1> QED
  BY <1>1, <1>3, <1>4, <1>5, <1>6, <1>7, StepIInv DEF IInv, Types

\* The handler stops waiting; the extension may still be at it.
LEMMA GiveUpIInv ==
  ASSUME IInv, NEW c \in Calls, GiveUp(c)
  PROVE  IInv'
<1>1. /\ hazards' = hazards /\ closed' = closed /\ wire' = wire /\ claim' = claim
      /\ attached' = attached /\ tab' = tab /\ owner' = owner /\ call[c].at = "sent"
      /\ call[c].ext \notin {"ok", "error"} /\ Put(c, [call[c] EXCEPT !.at = "ended"])
      /\ call[c].kind \in Work \/ "timeout" \in hazards
      /\ lease' = IF lease = call[c].lease
                     /\ <<call[c].kind, "error">> \in
                          {<<"claim", "error">>, <<"release", "ok">>, <<"close", "ok">>}
                  THEN None ELSE lease
  BY DEF GiveUp, Answered, Answers, extensionVars
<1>2. Staged(call[c])
  BY DEF IInv
<1>3. PICK n \in CallRecords :
        /\ call' = [call EXCEPT ![c] = n]
        /\ n.kind = call[c].kind /\ n.lease = call[c].lease /\ n.force = call[c].force
        /\ n.at = "ended" /\ n.ext = call[c].ext
  BY <1>1, Handling
<1>4. Wired'
  BY <1>1, <1>3, WireKept DEF OnWire
<1>5. Staged(n)'
  BY <1>1, <1>2, <1>3 DEF Staged
<1>6. lease' \in Leases \cup {None}
  BY <1>1 DEF IInv, Types
<1>7. ASSUME Orderly PROVE Ordered'
  <2>1. Ordered
    BY <1>7 DEF IInv
  <2>2. call[c].kind \in Work
    BY <1>1, <1>7 DEF Orderly
  <2>3. call[c].kind \notin Control /\ lease' = lease
    BY <1>1, <2>2 DEF Work, Control
  <2> QED
    BY <1>1, <1>3, <2>1, <2>3, WorkStep
<1> QED
  BY <1>1, <1>3, <1>4, <1>5, <1>6, <1>7, StepIInv DEF IInv, Types

-----------------------------------------------------------------------------
(* The extension.                                                          *)

\* A handler that goes on has started, and leaves the wire in order.
LEMMA MovingWire ==
  ASSUME IInv, NEW c \in Calls, NEW n, call' = [call EXCEPT ![c] = n],
         FromWire(c) \/ (call[c].ext # "none" /\ wire' = wire)
  PROVE  Wired' /\ call[c].at \in {"sent", "ended"} /\ call[c].kind # "none"
<1>1. CASE FromWire(c)
  BY <1>1, WireReceive DEF OnWire
<1>2. CASE call[c].ext # "none" /\ wire' = wire
  <2>1. Wired'
    BY <1>2, WireKept DEF OnWire
  <2>2. Staged(call[c]) /\ call[c] \in CallRecords
    BY DEF IInv, Types
  <2> QED
    BY <1>2, <2>1, <2>2 DEF Staged, CallRecords
<1> QED
  BY <1>1, <1>2

\* A request for work on the tab goes on: an operation, or the tab is closed.
LEMMA MoveWork ==
  ASSUME IInv, NEW c \in Calls, NEW from, NEW to \in Stages, Moves(c, from, to),
         FromWire(c) \/ (from # "none" /\ wire' = wire),
         \/ call[c].kind = "op" /\ to \in {"acting", "ok", "error"}
         \/ call[c].kind = "close" /\ to \in {"closing", "ok", "error"},
         call[c].kind = "close" /\ to = "ok" => tab' = "gone",
         hazards' = hazards, closed' = closed, lease' = lease, owner' = owner,
         \/ claim' = claim /\ attached' = attached /\ tab' = tab
         \/ claim' = None /\ attached' = FALSE /\ tab' = "gone"
  PROVE  IInv'
<1>1. PICK n \in CallRecords :
        /\ call' = [call EXCEPT ![c] = n]
        /\ \/ n = NoCall
           \/ /\ n.kind = call[c].kind /\ n.lease = call[c].lease /\ n.force = call[c].force
              /\ n.at = call[c].at /\ n.ext = to
  BY Moving
<1>2. call[c].ext = from
  BY DEF Moves
<1>3. Wired' /\ call[c].at \in {"sent", "ended"}
  BY <1>1, <1>2, MovingWire
<1>4. Staged(n)'
  <2>1. CASE n = NoCall
    BY <2>1, NoCallFacts DEF Staged, Control
  <2>2. CASE n.kind = call[c].kind /\ n.lease = call[c].lease /\ n.at = call[c].at /\ n.ext = to
    BY <1>3, <2>2 DEF Staged, Control
  <2> QED
    BY <1>1, <2>1, <2>2
<1>5. call[c].kind \notin Control /\ n.kind \notin Control
  BY <1>1, NoCallFacts DEF Control
<1>6. ASSUME Orderly PROVE Ordered'
  <2>1. Ordered
    BY <1>6 DEF IInv
  <2>2. CASE claim' = claim /\ attached' = attached /\ tab' = tab
    BY <1>1, <1>5, <2>1, <2>2, WorkStep
  <2>3. CASE tab' = "gone"
    BY <1>1, <1>5, <2>1, <2>3, GoneStep
  <2> QED
    BY <2>2, <2>3
<1>7. /\ claim' \in Leases \cup {None} /\ attached' \in BOOLEAN /\ tab' \in {"open", "gone"}
      /\ tab = "gone" => tab' = "gone"
  BY DEF IInv, Types
<1> QED
  BY <1>1, <1>3, <1>4, <1>6, <1>7, StepIInv DEF IInv, Types

\* A request that changes who controls the tab goes on.
LEMMA MoveControl ==
  ASSUME IInv, NEW c \in Calls, NEW from, NEW to \in Stages, Moves(c, from, to),
         FromWire(c) \/ (from # "none" /\ wire' = wire),
         \/ call[c].kind = "claim" /\ to \in {"claimed", "attaching", "installing", "undoing", "ok", "error"}
         \/ call[c].kind \in {"release", "notice", "local"} /\ to \in {"releasing", "ok", "error"},
         hazards' = hazards, closed' = closed, lease' = lease, owner' = owner, tab' = tab,
         claim' \in Leases \cup {None}, attached' \in BOOLEAN,
         Orderly /\ tab = "open" =>
           \A n \in CallRecords :
             n.kind = call[c].kind /\ n.lease = call[c].lease /\ n.force = call[c].force /\ n.ext = to
             => ClaimState(n)' /\ ReleaseState(n)',
         Orderly /\ tab = "open" /\ call[c].kind = "local" /\ to \in {"ok", "error"} =>
           claim' = lease' /\ (attached' <=> claim' # None)
  PROVE  IInv'
<1>1. PICK n \in CallRecords :
        /\ call' = [call EXCEPT ![c] = n]
        /\ \/ call[c].at = "ended" /\ to \in {"ok", "error"} /\ n = NoCall
           \/ /\ call[c].at # "ended" \/ to \notin {"ok", "error"}
              /\ n.kind = call[c].kind /\ n.lease = call[c].lease /\ n.force = call[c].force
              /\ n.at = call[c].at /\ n.ext = to
  BY Moving
<1>2. call[c].ext = from
  BY DEF Moves
<1>3. Wired' /\ call[c].at \in {"sent", "ended"}
  BY <1>1, <1>2, MovingWire
<1>4. Staged(call[c]) /\ call[c].kind \in Control
  BY DEF IInv, Control
<1>5. Staged(n)'
  <2>1. CASE n = NoCall
    BY <2>1, NoCallFacts DEF Staged, Control
  <2>2. CASE /\ call[c].at # "ended" \/ to \notin {"ok", "error"}
             /\ n.kind = call[c].kind /\ n.lease = call[c].lease /\ n.at = call[c].at /\ n.ext = to
    BY <1>3, <1>4, <2>2 DEF Staged, Control
  <2> QED
    BY <1>1, <2>1, <2>2
<1>6. ASSUME Orderly PROVE Ordered'
  <2>1. Ordered /\ Calm(call[c])
    BY <1>6 DEF IInv, Ordered
  <2>2. CASE n = NoCall /\ call[c].at = "ended" /\ to \in {"ok", "error"}
    <3>1. call[c].kind = "local"
      BY <2>1, <2>2 DEF Calm
    <3>2. Calm(n) /\ n.kind \notin Control
      BY <2>2, NoCallFacts
    <3>3. tab' = "open" => claim' = lease' /\ (attached' <=> claim' # None)
      BY <1>6, <2>2, <3>1, Zenon
    <3> QED
      BY <1>1, <1>4, <2>1, <3>2, <3>3, ControlStep
  <2>3. CASE /\ n.kind = call[c].kind /\ n.lease = call[c].lease /\ n.force = call[c].force
             /\ n.at = call[c].at /\ n.ext = to
    <3>1. Calm(n) /\ n.kind \in Control
      BY <1>4, <2>1, <2>3 DEF Calm
    <3>2. tab' = "open" => ClaimState(n)' /\ ReleaseState(n)'
      BY <1>6, <2>3, Zenon
    <3> QED
      BY <1>1, <1>4, <2>1, <3>1, <3>2, ControlStep
  <2> QED
    BY <1>1, <2>2, <2>3
<1> QED
  BY <1>1, <1>3, <1>5, <1>6, StepIInv DEF IInv, Types

\* How far the one call has come that changes who controls the tab.
LEMMA ControlFacts ==
  ASSUME IInv, Orderly, tab = "open", NEW c \in Calls
  PROVE  ClaimState(call[c]) /\ ReleaseState(call[c])
BY DEF IInv, Ordered, InStep

\* The extension notes the claim or refuses it.
LEMMA ReceiveClaimIInv ==
  ASSUME IInv, NEW c \in Calls, ReceiveClaim(c)
  PROVE  IInv'
<1>1. /\ hazards' = hazards /\ closed' = closed /\ owner' = owner /\ lease' = lease
      /\ attached' = attached /\ tab' = tab /\ FromWire(c) /\ call[c].kind = "claim"
      /\ attached' \in BOOLEAN /\ call[c].lease \in Leases \cup {None}
  BY DEF ReceiveClaim, daemonVars, IInv, Types, CallRecords
<1>2. CASE /\ tab = "gone" \/ (claim \notin {None, call[c].lease} /\ ~call[c].force)
           /\ Moves(c, "none", "error") /\ claim' = claim
  <2>1. ASSUME Orderly, tab = "open" PROVE FALSE
    <3>1. ClaimState(call[c]) /\ call[c].ext = "none"
      BY <1>2, <2>1, ControlFacts DEF Moves
    <3> QED
      BY <1>1, <1>2, <2>1, <3>1 DEF ClaimState
  <2>2. "error" \in Stages /\ claim' \in Leases \cup {None}
    BY <1>2 DEF Stages, IInv, Types
  <2> QED
    BY <1>1, <1>2, <2>1, <2>2, MoveControl
<1>3. CASE Moves(c, "none", "claimed") /\ claim' = call[c].lease
  <2>1. ASSUME Orderly, tab = "open", NEW n \in CallRecords,
               n.kind = call[c].kind, n.lease = call[c].lease, n.ext = "claimed"
        PROVE  ClaimState(n)' /\ ReleaseState(n)'
    <3>1. ClaimState(call[c])
      BY <2>1, ControlFacts
    <3> QED
      BY <1>1, <1>3, <2>1, <3>1 DEF ClaimState, ReleaseState
  <2>2. "claimed" \in Stages
    BY DEF Stages
  <2> QED
    BY <1>1, <1>3, <2>1, <2>2, MoveControl
<1> QED
  BY <1>2, <1>3 DEF ReceiveClaim

\* A tab that is attached is not attached again.
LEMMA AttachStartIInv ==
  ASSUME IInv, NEW c \in Calls, AttachStart(c)
  PROVE  IInv'
<1>1. /\ hazards' = hazards /\ closed' = closed /\ owner' = owner /\ lease' = lease /\ wire' = wire
      /\ attached' = attached /\ tab' = tab /\ claim' = claim
      /\ attached' \in BOOLEAN /\ claim' \in Leases \cup {None}
  BY DEF AttachStart, daemonVars, extensionVars, IInv, Types
<1>2. PICK to \in Stages :
        Moves(c, "claimed", to) /\ ((to = "installing" /\ attached) \/ (to = "attaching" /\ ~attached))
  BY Zenon DEF AttachStart, Stages
<1>3. call[c].ext = "claimed" /\ call[c].kind = "claim"
  BY <1>2 DEF Moves, IInv, Staged
<1>4. ASSUME Orderly, tab = "open", NEW n \in CallRecords,
             n.kind = call[c].kind, n.lease = call[c].lease, n.ext = to
      PROVE  ClaimState(n)' /\ ReleaseState(n)'
  <2>1. ClaimState(call[c])
    BY <1>4, ControlFacts
  <2> QED
    BY <1>1, <1>2, <1>3, <1>4, <2>1 DEF ClaimState, ReleaseState
<1>5. to \in {"installing", "attaching"}
  BY <1>2
<1> QED
  BY <1>1, <1>2, <1>3, <1>4, <1>5, MoveControl

\* A claim that fails is undone.
LEMMA UnclaimIInv ==
  ASSUME IInv, NEW c \in Calls, NEW from \in {"attaching", "installing"}, Unclaim(c, from),
         hazards' = hazards, closed' = closed, owner' = owner, lease' = lease, wire' = wire,
         attached' = attached, tab' = tab
  PROVE  IInv'
<1>1. call[c].ext = from /\ call[c].kind = "claim"
  BY DEF Unclaim, Moves, IInv, Staged
<1>2. attached' \in BOOLEAN
  BY DEF IInv, Types
<1>3. CASE tab = "gone" /\ Moves(c, from, "error") /\ claim' = claim
  <2>1. "error" \in Stages /\ claim' \in Leases \cup {None}
    BY <1>3 DEF Stages, IInv, Types
  <2> QED
    BY <1>1, <1>2, <1>3, <2>1, MoveControl
<1>4. CASE Moves(c, from, "undoing") /\ claim' = None
  <2>1. ASSUME Orderly, tab = "open", NEW n \in CallRecords,
               n.kind = call[c].kind, n.lease = call[c].lease, n.ext = "undoing"
        PROVE  ClaimState(n)' /\ ReleaseState(n)'
    <3>1. ClaimState(call[c])
      BY <2>1, ControlFacts
    <3> QED
      BY <1>1, <1>4, <2>1, <3>1 DEF ClaimState, ReleaseState
  <2>2. "undoing" \in Stages
    BY DEF Stages
  <2> QED
    BY <1>1, <1>2, <1>4, <2>1, <2>2, MoveControl
<1> QED
  BY <1>3, <1>4 DEF Unclaim

\* The debugger is attached, or the claim undone.
LEMMA AttachIInv ==
  ASSUME IInv, NEW c \in Calls, Attach(c)
  PROVE  IInv'
<1>1. /\ hazards' = hazards /\ closed' = closed /\ owner' = owner /\ lease' = lease /\ wire' = wire
      /\ tab' = tab
  BY DEF Attach, daemonVars
<1>2. CASE Moves(c, "attaching", "installing") /\ attached' = TRUE /\ claim' = claim
  <2>1. call[c].ext = "attaching" /\ call[c].kind = "claim"
    BY <1>2 DEF Moves, IInv, Staged
  <2>2. ASSUME Orderly, tab = "open", NEW n \in CallRecords,
               n.kind = call[c].kind, n.lease = call[c].lease, n.ext = "installing"
        PROVE  ClaimState(n)' /\ ReleaseState(n)'
    <3>1. ClaimState(call[c])
      BY <2>2, ControlFacts
    <3> QED
      BY <1>1, <1>2, <2>1, <2>2, <3>1 DEF ClaimState, ReleaseState
  <2>3. "installing" \in Stages /\ claim' \in Leases \cup {None} /\ attached' \in BOOLEAN
    BY <1>2 DEF Stages, IInv, Types
  <2> QED
    BY <1>1, <1>2, <2>1, <2>2, <2>3, MoveControl
<1>3. CASE Unclaim(c, "attaching") /\ attached' = attached
  BY <1>1, <1>3, UnclaimIInv
<1> QED
  BY <1>2, <1>3 DEF Attach

\* The runtime is installed, or the claim undone.
LEMMA InstallIInv ==
  ASSUME IInv, NEW c \in Calls, Install(c)
  PROVE  IInv'
<1>1. /\ hazards' = hazards /\ closed' = closed /\ owner' = owner /\ lease' = lease /\ wire' = wire
      /\ tab' = tab /\ attached' = attached /\ attached' \in BOOLEAN
  BY DEF Install, daemonVars, IInv, Types
<1>2. CASE Moves(c, "installing", "ok") /\ claim' = claim
  <2>1. call[c].ext = "installing" /\ call[c].kind = "claim"
    BY <1>2 DEF Moves, IInv, Staged
  <2>2. ASSUME Orderly, tab = "open", NEW n \in CallRecords,
               n.kind = call[c].kind, n.lease = call[c].lease, n.ext = "ok"
        PROVE  ClaimState(n)' /\ ReleaseState(n)'
    <3>1. ClaimState(call[c])
      BY <2>2, ControlFacts
    <3> QED
      BY <1>1, <1>2, <2>1, <2>2, <3>1 DEF ClaimState, ReleaseState
  <2>3. "ok" \in Stages /\ claim' \in Leases \cup {None}
    BY <1>2 DEF Stages, IInv, Types
  <2> QED
    BY <1>1, <1>2, <2>1, <2>2, <2>3, MoveControl
<1>3. CASE Unclaim(c, "installing")
  BY <1>1, <1>3, UnclaimIInv
<1> QED
  BY <1>2, <1>3 DEF Install

\* A claim that is undone is detached.
LEMMA UndoIInv ==
  ASSUME IInv, NEW c \in Calls, Undo(c)
  PROVE  IInv'
<1>1. /\ hazards' = hazards /\ closed' = closed /\ owner' = owner /\ lease' = lease /\ wire' = wire
      /\ tab' = tab /\ attached' = FALSE /\ claim' = claim /\ claim' \in Leases \cup {None}
      /\ Moves(c, "undoing", "error")
  BY DEF Undo, daemonVars, IInv, Types
<1>2. call[c].ext = "undoing" /\ call[c].kind = "claim"
  BY <1>1 DEF Moves, IInv, Staged
<1>3. ASSUME Orderly, tab = "open", NEW n \in CallRecords,
             n.kind = call[c].kind, n.lease = call[c].lease, n.ext = "error"
      PROVE  ClaimState(n)' /\ ReleaseState(n)'
  <2>1. ClaimState(call[c])
    BY <1>3, ControlFacts
  <2> QED
    BY <1>1, <1>2, <1>3, <2>1 DEF ClaimState, ReleaseState
<1>4. "error" \in Stages /\ attached' \in BOOLEAN
  BY <1>1 DEF Stages
<1> QED
  BY <1>1, <1>2, <1>3, <1>4, MoveControl

\* The debugger is detached from a tab that is going to be released.
LEMMA ReleasingIInv ==
  ASSUME IInv, NEW c \in Calls, NEW from \in {"none", "revoked"}, Moves(c, from, "releasing"),
         FromWire(c) \/ (from # "none" /\ wire' = wire),
         call[c].kind \in {"release", "notice", "local"},
         hazards' = hazards, closed' = closed, owner' = owner, lease' = lease,
         attached' = FALSE, claim' = claim, tab' = tab
  PROVE  IInv'
<1>1. call[c].ext = from
  BY DEF Moves
<1>2. ASSUME Orderly, tab = "open", NEW n \in CallRecords,
             n.kind = call[c].kind, n.lease = call[c].lease, n.ext = "releasing"
      PROVE  ClaimState(n)' /\ ReleaseState(n)'
  <2>1. ReleaseState(call[c])
    BY <1>2, ControlFacts
  <2>2. /\ lease = IF n.kind = "release" THEN n.lease ELSE None
        /\ claim = n.lease
    BY <1>1, <1>2, <2>1 DEF ReleaseState
  <2> QED
    BY <1>2, <2>2 DEF ClaimState, ReleaseState
<1>3. "releasing" \in Stages /\ attached' \in BOOLEAN /\ claim' \in Leases \cup {None}
  BY DEF Stages, IInv, Types
<1> QED
  BY <1>2, <1>3, MoveControl

\* The extension begins a release.
LEMMA ReceiveReleaseIInv ==
  ASSUME IInv, NEW c \in Calls, ReceiveRelease(c)
  PROVE  IInv'
<1>1. /\ hazards' = hazards /\ closed' = closed /\ owner' = owner /\ lease' = lease
      /\ claim' = claim /\ tab' = tab /\ FromWire(c) /\ call[c].kind \in {"release", "notice"}
  BY DEF ReceiveRelease, daemonVars
<1>2. CASE /\ tab = "gone" \/ claim # call[c].lease
           /\ Moves(c, "none", "error") /\ attached' = attached
  <2>1. ASSUME Orderly, tab = "open" PROVE FALSE
    <3>1. ReleaseState(call[c]) /\ call[c].ext = "none"
      BY <1>2, <2>1, ControlFacts DEF Moves
    <3> QED
      BY <1>1, <1>2, <2>1, <3>1 DEF ReleaseState
  <2>2. "error" \in Stages /\ claim' \in Leases \cup {None} /\ attached' \in BOOLEAN
    BY <1>1, <1>2 DEF Stages, IInv, Types
  <2> QED
    BY <1>1, <1>2, <2>1, <2>2, MoveControl
<1>3. CASE Moves(c, "none", "releasing") /\ attached' = FALSE
  BY <1>1, <1>3, ReleasingIInv
<1> QED
  BY <1>2, <1>3 DEF ReceiveRelease

\* The extension releases the tab when it has the answer of the daemon.
LEMMA LocalReleaseIInv ==
  ASSUME IInv, NEW c \in Calls, LocalRelease(c)
  PROVE  IInv'
<1>1. /\ hazards' = hazards /\ closed' = closed /\ owner' = owner /\ lease' = lease
      /\ claim' = claim /\ tab' = tab /\ wire' = wire /\ call[c].ext = "revoked"
  BY DEF LocalRelease, daemonVars, Moves
<1>2. call[c].kind = "local" /\ call[c].lease # None
  BY <1>1 DEF IInv, Staged, Control
<1>3. CASE /\ tab = "gone" \/ claim = None
           /\ Moves(c, "revoked", "ok") /\ attached' = attached
  <2>1. ASSUME Orderly, tab = "open" PROVE FALSE
    <3>1. ReleaseState(call[c])
      BY <2>1, ControlFacts
    <3> QED
      BY <1>1, <1>2, <1>3, <2>1, <3>1 DEF ReleaseState
  <2>2. "ok" \in Stages /\ claim' \in Leases \cup {None} /\ attached' \in BOOLEAN
    BY <1>1, <1>3 DEF Stages, IInv, Types
  <2> QED
    BY <1>1, <1>2, <1>3, <2>1, <2>2, MoveControl
<1>4. CASE Moves(c, "revoked", "releasing") /\ attached' = FALSE
  BY <1>1, <1>2, <1>4, ReleasingIInv
<1> QED
  BY <1>3, <1>4 DEF LocalRelease

\* The claim is dropped, after the debugger.
LEMMA FinishReleaseIInv ==
  ASSUME IInv, NEW c \in Calls, FinishRelease(c)
  PROVE  IInv'
<1>1. /\ hazards' = hazards /\ closed' = closed /\ owner' = owner /\ lease' = lease
      /\ attached' = attached /\ tab' = tab /\ wire' = wire /\ call[c].ext = "releasing"
      /\ attached' \in BOOLEAN
  BY DEF FinishRelease, daemonVars, Moves, IInv, Types
<1>2. call[c].kind \in {"release", "notice", "local"}
  BY <1>1 DEF IInv, Staged
<1>3. CASE tab = "gone" /\ Moves(c, "releasing", "error") /\ claim' = claim
  <2>1. "error" \in Stages /\ claim' \in Leases \cup {None}
    BY <1>3 DEF Stages, IInv, Types
  <2> QED
    BY <1>1, <1>2, <1>3, <2>1, MoveControl
<1>4. CASE Moves(c, "releasing", "ok") /\ claim' = None
  <2>1. ASSUME Orderly, tab = "open"
        PROVE  ~attached /\ lease = IF call[c].kind = "release" THEN call[c].lease ELSE None
    <3>1. ReleaseState(call[c])
      BY <2>1, ControlFacts
    <3> QED
      BY <1>1, <1>2, <3>1 DEF ReleaseState
  <2>2. ASSUME Orderly, tab = "open", NEW n \in CallRecords,
               n.kind = call[c].kind, n.lease = call[c].lease, n.ext = "ok"
        PROVE  ClaimState(n)' /\ ReleaseState(n)'
    <3>1. ~attached' /\ lease' = IF n.kind = "release" THEN n.lease ELSE None
      BY <1>1, <2>1, <2>2
    <3> QED
      BY <1>2, <1>4, <2>2, <3>1 DEF ClaimState, ReleaseState
  <2>3. Orderly /\ tab = "open" /\ call[c].kind = "local" => claim' = lease' /\ (attached' <=> claim' # None)
    BY <1>1, <1>4, <2>1
  <2>4. "ok" \in Stages /\ claim' \in Leases \cup {None}
    BY <1>4 DEF Stages
  <2> QED
    BY <1>1, <1>2, <1>4, <2>2, <2>3, <2>4, MoveControl
<1> QED
  BY <1>3, <1>4 DEF FinishRelease

\* Ordinary work is done in the tab.
LEMMA WorkIInv ==
  ASSUME IInv, NEW c \in Calls, ReceiveOp(c) \/ Act(c) \/ ReceiveClose(c) \/ CloseTab(c)
  PROVE  IInv'
<1>1. CASE ReceiveOp(c)
  <2>1. /\ hazards' = hazards /\ closed' = closed /\ owner' = owner /\ lease' = lease
        /\ claim' = claim /\ attached' = attached /\ tab' = tab /\ FromWire(c) /\ call[c].kind = "op"
    BY <1>1 DEF ReceiveOp, daemonVars, extensionVars
  <2>2. PICK to \in {"error", "acting"} : Moves(c, "none", to)
    BY <1>1 DEF ReceiveOp
  <2>3. to \in Stages
    BY DEF Stages
  <2> QED
    BY <2>1, <2>2, <2>3, MoveWork
<1>2. CASE Act(c)
  <2>1. /\ hazards' = hazards /\ closed' = closed /\ owner' = owner /\ lease' = lease
        /\ claim' = claim /\ attached' = attached /\ tab' = tab /\ wire' = wire
    BY <1>2 DEF Act, daemonVars, extensionVars
  <2>2. PICK to \in {"ok", "error"} : Moves(c, "acting", to)
    BY <1>2 DEF Act, Answers
  <2>3. to \in Stages /\ call[c].kind = "op"
    BY <2>2 DEF Stages, Moves, IInv, Staged
  <2> QED
    BY <2>1, <2>2, <2>3, MoveWork
<1>3. CASE ReceiveClose(c)
  <2>1. /\ hazards' = hazards /\ closed' = closed /\ owner' = owner /\ lease' = lease
        /\ claim' = claim /\ attached' = attached /\ tab' = tab /\ FromWire(c) /\ call[c].kind = "close"
    BY <1>3 DEF ReceiveClose, daemonVars, extensionVars
  <2>2. PICK to \in {"error", "closing"} : Moves(c, "none", to)
    BY <1>3 DEF ReceiveClose
  <2>3. to \in Stages
    BY DEF Stages
  <2> QED
    BY <2>1, <2>2, <2>3, MoveWork
<1>4. CASE CloseTab(c)
  <2>1. /\ hazards' = hazards /\ closed' = closed /\ owner' = owner /\ lease' = lease /\ wire' = wire
        /\ call[c].ext = "closing"
    BY <1>4 DEF CloseTab, daemonVars, Moves
  <2>2. call[c].kind = "close" /\ "ok" \in Stages /\ "error" \in Stages
    BY <2>1 DEF Stages, IInv, Staged
  <2>3. CASE Moves(c, "closing", "error") /\ claim' = claim /\ attached' = attached /\ tab' = tab
    BY <2>1, <2>2, <2>3, MoveWork
  <2>4. CASE Moves(c, "closing", "ok") /\ claim' = None /\ attached' = FALSE /\ tab' = "gone"
    BY <2>1, <2>2, <2>4, MoveWork
  <2> QED
    BY <1>4, <2>3, <2>4 DEF CloseTab, RemoveTab, extensionVars
<1> QED
  BY <1>1, <1>2, <1>3, <1>4

\* The tab goes without a call, or Chrome ends the debugging session.
LEMMA OutsideIInv ==
  ASSUME IInv, UserClosesTab \/ DebuggerDetached
  PROVE  IInv'
<1>1. /\ hazards' = hazards /\ closed' = closed /\ owner' = owner /\ lease' = lease /\ wire' = wire
      /\ call' = call /\ claim' = None /\ attached' = FALSE
      /\ tab' = "gone" \/ ("detach" \in hazards /\ tab' = tab)
  BY DEF UserClosesTab, DebuggerDetached, RemoveTab, daemonVars
<1>2. Types'
  BY <1>1 DEF IInv, Types
<1>3. Wired' /\ (\A d \in Calls : Staged(call[d])')
  BY <1>1 DEF IInv, Wired, OnWire, Staged
<1>4. ASSUME Orderly PROVE Ordered'
  <2>1. tab' = "gone" /\ Ordered
    BY <1>1, <1>4 DEF Orderly, IInv
  <2>2. InStep'
    BY <2>1 DEF InStep
  <2> QED
    BY <1>1, <2>1, <2>2 DEF Ordered, Alone, Calm
<1>5. Orderly' => Orderly
  BY <1>1 DEF Orderly
<1> QED
  BY <1>2, <1>3, <1>4, <1>5 DEF IInv

-----------------------------------------------------------------------------

\* The invariant holds at the start, whatever the past.
LEMMA InitIInv == Init => IInv
<1> SUFFICES ASSUME Init PROVE IInv
  OBVIOUS
<1>1. /\ lease = None /\ call = [c \in Calls |-> NoCall] /\ wire = <<>> /\ claim = None
      /\ attached = FALSE /\ tab = "open"
  BY DEF Init
<1>2. closed \subseteq Sessions /\ owner \in [Leases -> Sessions \cup {None}]
  BY PastsAssumption DEF Init
<1>3. call \in [Calls -> CallRecords] /\ \A c \in Calls : call[c] = NoCall
  BY <1>1, NoCallFacts
<1>4. Types
  BY <1>1, <1>2, <1>3 DEF Types
<1>5. Wired
  BY <1>1 DEF Wired
<1>6. \A c \in Calls : /\ call[c].kind = "none" /\ call[c].kind \notin Control
                       /\ Staged(call[c]) /\ Calm(call[c])
  BY <1>3, NoCallFacts
<1>7. Alone /\ InStep
  BY <1>1, <1>6 DEF Alone, InStep, ClaimState, ReleaseState
<1> QED
  BY <1>4, <1>5, <1>6, <1>7 DEF IInv, Ordered

\* Every step keeps the invariant.
LEMMA NextIInv == IInv /\ [Next]_vars => IInv'
<1> SUFFICES ASSUME IInv, [Next]_vars PROVE IInv'
  OBVIOUS
<1>1. ASSUME NEW c \in Calls, DaemonStep(c) PROVE IInv'
  BY <1>1, SendIInv, WithdrawIInv, ReplyIInv, GiveUpIInv DEF DaemonStep
<1>2. ASSUME NEW c \in Calls, ExtensionStep(c) PROVE IInv'
  BY <1>2, ReceiveClaimIInv, AttachStartIInv, AttachIInv, InstallIInv, UndoIInv, ReceiveReleaseIInv,
     LocalReleaseIInv, FinishReleaseIInv, WorkIInv DEF ExtensionStep
<1>3. CASE UNCHANGED vars
  <2>1. /\ hazards' = hazards /\ closed' = closed /\ owner' = owner /\ lease' = lease /\ wire' = wire
        /\ call' = call /\ claim' = claim /\ attached' = attached /\ tab' = tab
    BY <1>3 DEF vars, daemonVars, extensionVars
  <2>2. Types'
    BY <2>1 DEF IInv, Types
  <2>3. Wired' /\ (\A d \in Calls : Staged(call[d])')
    BY <2>1 DEF IInv, Wired, OnWire, Staged
  <2>4. Ordered => Ordered'
    BY <2>1, Zenon DEF Ordered, Alone, Calm, InStep, ClaimState, ReleaseState, Quiet
  <2>5. Orderly' => Orderly
    BY <2>1 DEF Orderly
  <2> QED
    BY <2>2, <2>3, <2>4, <2>5 DEF IInv
<1> QED
  BY <1>1, <1>2, <1>3, TabClaimIInv, TabReleaseIInv, ForwardIInv, SessionCloseIInv, ExpireIInv,
     PopupReleaseIInv, OutsideIInv DEF Next

\* The invariant holds in every reachable state.
THEOREM Invariance == Spec => []IInv
BY InitIInv, NextIInv, PTL DEF Spec

\* Every variable keeps its type, and a request on the wire is one the extension
\* has not seen yet.
THEOREM TypeCorrect == Spec => []TypeOK
<1>1. IInv => TypeOK
  <2> SUFFICES ASSUME IInv PROVE TypeOK
    OBVIOUS
  <2>1. CallRecords = [kind : Control \cup Work \cup {"none"}, lease : Leases \cup {None}, force : BOOLEAN,
                       at : {"idle", "ready", "sent", "ended"},
                       ext : Answers \cup
                             {"none", "claimed", "attaching", "installing", "undoing",
                              "revoked", "releasing", "acting", "closing"}]
    <3>1. CallKinds = Control \cup Work \cup {"none"}
      BY DEF CallKinds, Control, Work
    <3>2. Stages = Answers \cup {"none", "claimed", "attaching", "installing", "undoing",
                                 "revoked", "releasing", "acting", "closing"}
      BY DEF Stages, Answers
    <3> QED
      BY <3>1, <3>2 DEF CallRecords
  <2>2. \A i \in DOMAIN wire : call[wire[i]].kind # "none" /\ call[wire[i]].ext = "none"
    BY DEF IInv, Wired, OnWire
  <2> QED
    BY <2>1, <2>2 DEF TypeOK, IInv, Types, Wired
<1> QED
  BY <1>1, Invariance, PTL

\* Whenever no handler is changing who controls an open tab, the daemon's lease is
\* the extension's claim and the debugger is attached exactly when there is one:
\* for any number of sessions and leases, any number of calls under way, takeovers
\* included, as long as handlers that change it do not overlap or time out.
THEOREM AgreementSafety == Spec => []Agreement
<1>1. IInv => Agreement
  BY Zenon DEF IInv, Ordered, InStep, Agreement
<1> QED
  BY <1>1, Invariance, PTL

=============================================================================
