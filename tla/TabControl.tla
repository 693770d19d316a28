----------------------------- MODULE TabControl -----------------------------
(***************************************************************************)
(* Who controls a tab, according to the daemon and according to the        *)
(* extension.  The daemon keeps a lease (Manager.leases), the extension a  *)
(* claim (TabRegistry's state.claim) and a debugger attachment; the two    *)
(* are kept in step by the request handlers of internal/server/server.go,  *)
(* which change the lease and call the extension, and by the handlers of   *)
(* apps/extension/src/service.ts, which run concurrently and give up the   *)
(* processor at every await.                                               *)
(*                                                                         *)
(* One tab of one browser.  The lease table is Manager's, reduced to the   *)
(* tab: a lease that is dropped cancels the operations done under it.  The *)
(* bridge delivers requests in the order they are written.  A lease id     *)
(* names its session, so that the extension's check of both is a check of  *)
(* the lease.  A call is forgotten when both ends are done with it.        *)
(***************************************************************************)
EXTENDS Naturals, Sequences

CONSTANTS
  Sessions, Leases, Calls,
  Pasts,     \* what may lie behind: the troubles to come, see below, the
             \* sessions closed before and the leases already spent
  None

\* force:   a session may take the tab over from another one
\* overlap: handlers that change who controls the tab may run side by side
\* timeout: the daemon may give up on such a call before the extension answers
\* detach:  Chrome may end the debugging session (the user, DevTools)
Hazards == {"force", "overlap", "timeout", "detach"}

ASSUME PastsAssumption ==
  /\ Pasts \subseteq [hazards : SUBSET Hazards, closed : SUBSET Sessions, spent : SUBSET Leases]
  /\ None \notin Sessions \cup Leases

VARIABLES
  hazards,   \* the troubles the environment makes in this behaviour
  closed,    \* sessions that were closed
  lease,     \* the daemon's lease on the tab
  owner,     \* the session each lease was issued to
  call,      \* the calls of the extension: what for, and where each end is
  wire,      \* requests written and not yet delivered
  claim,     \* the extension's claim: the lease it is for
  attached,  \* DebuggerManager has the tab in #states
  tab        \* "open" | "gone"

daemonVars == <<hazards, closed, lease, owner>>
extensionVars == <<claim, attached, tab>>
vars == <<daemonVars, call, wire, extensionVars>>

\* at is where the daemon's handler is, ext where the extension's is.
NoCall == [kind |-> "none", lease |-> None, force |-> FALSE, at |-> "idle", ext |-> "none"]
Answers == {"ok", "error"}

Init ==
  /\ \E p \in Pasts :
       /\ hazards = p.hazards
       /\ closed = p.closed
       /\ owner \in [Leases -> p.closed \cup {None}]
       /\ \A l \in Leases : l \in p.spent <=> owner[l] # None
  /\ lease = None
  /\ call = [c \in Calls |-> NoCall]
  /\ wire = <<>>
  /\ claim = None
  /\ attached = FALSE
  /\ tab = "open"

Settled(r) == IF r.at = "ended" /\ r.ext \in Answers THEN NoCall ELSE r

Put(c, r) == call' = [call EXCEPT ![c] = Settled(r)]

NewCall(c, kind, l, force) ==
  /\ call[c] = NoCall
  /\ Put(c, [kind |-> kind, lease |-> l, force |-> force, at |-> "ready", ext |-> "none"])

Moves(c, from, to) == call[c].ext = from /\ Put(c, [call[c] EXCEPT !.ext = to])

\* The handlers that change who controls the tab, and the work done on it.
Control == {"claim", "release", "notice", "local"}
Work == {"op", "close"}

Undisturbed == "overlap" \in hazards \/ \A c \in Calls : call[c].kind \notin Control

-----------------------------------------------------------------------------
(* The daemon.                                                             *)

Holds(s) == lease # None /\ owner[lease] = s

\* Ids are never issued twice; which one comes next does not matter.
Fresh == CHOOSE l \in Leases : owner[l] = None

\* tabClaim, up to the call: ClaimTabForce renews the caller's own lease or
\* issues a new one, and BindLeaseBrowser accepts it (see also Withdraw).
TabClaim(c, s, force, l) ==
  /\ Undisturbed
  /\ s \notin closed
  /\ force => "force" \in hazards
  /\ NewCall(c, "claim", l, force)
  /\ \/ /\ Holds(s) /\ l = lease
        /\ UNCHANGED <<lease, owner>>
     \/ /\ lease # None => force /\ ~Holds(s)
        /\ owner[l] = None /\ l = Fresh
        /\ owner' = [owner EXCEPT ![l] = s]
        /\ lease' = l
  /\ UNCHANGED <<hazards, closed, wire, extensionVars>>

\* tabRelease, up to the call: RenewLease accepts the lease.
TabRelease(c) ==
  /\ Undisturbed
  /\ lease # None
  /\ NewCall(c, "release", lease, FALSE)
  /\ UNCHANGED <<daemonVars, wire, extensionVars>>

\* forward and tabClose, up to the call: ValidateLease and RenewLease accept.
Forward(c, kind) ==
  /\ lease # None
  /\ NewCall(c, kind, lease, FALSE)
  /\ UNCHANGED <<daemonVars, wire, extensionVars>>

\* sessionClose: CloseSession, then releaseLeasesOnExtension.
SessionClose(c, s) ==
  /\ Undisturbed
  /\ s \notin closed
  /\ closed' = closed \cup {s}
  /\ \/ /\ Holds(s)
        /\ NewCall(c, "notice", lease, FALSE)
        /\ lease' = None
     \/ ~Holds(s) /\ UNCHANGED <<lease, call>>
  /\ UNCHANGED <<hazards, owner, wire, extensionVars>>

\* Faulty: no hook is started.
ExpireUnannounced(c) ==
  /\ Undisturbed
  /\ lease # None
  /\ call[c] = NoCall
  /\ lease' = None
  /\ UNCHANGED <<hazards, closed, owner, call, wire, extensionVars>>

\* The lease expires: it is dropped and the hook goroutine calls the extension.
Expire(c) ==
  /\ Undisturbed
  /\ lease # None
  /\ NewCall(c, "notice", lease, FALSE)
  /\ lease' = None
  /\ UNCHANGED <<hazards, closed, owner, wire, extensionVars>>

\* The user releases the tab in the popup: the daemon revokes the lease first
\* (adminRevoke) and the extension releases the tab when it has the answer.
PopupRelease(c) ==
  /\ Undisturbed
  /\ tab = "open" /\ lease # None
  /\ call[c] = NoCall
  /\ Put(c, [kind |-> "local", lease |-> lease, force |-> FALSE, at |-> "ended", ext |-> "revoked"])
  /\ lease' = None
  /\ UNCHANGED <<hazards, closed, owner, wire, extensionVars>>

\* Faulty: the request is written twice.
SendTwice(c) ==
  /\ call[c].at = "ready"
  /\ Put(c, [call[c] EXCEPT !.at = "sent"])
  /\ wire' = wire \o <<c, c>>
  /\ UNCHANGED <<daemonVars, extensionVars>>

\* The request is written.  Work goes through the tab's queue (RunTab), one at a
\* time; the calls that change who controls the tab do not.
Send(c) ==
  /\ call[c].at = "ready"
  /\ call[c].kind \in Work =>
       ~\E d \in Calls : call[d].kind \in Work /\ call[d].at = "sent"
  /\ Put(c, [call[c] EXCEPT !.at = "sent"])
  /\ wire' = Append(wire, c)
  /\ UNCHANGED <<daemonVars, extensionVars>>

\* Work whose lease is gone is cancelled while it is queued, if it is queued, and
\* a claim whose lease is gone by then is refused by BindLeaseBrowser.
Withdraw(c) ==
  /\ call[c].at = "ready" /\ call[c].kind \in Work \cup {"claim"}
  /\ lease # call[c].lease
  /\ call' = [call EXCEPT ![c] = NoCall]
  /\ UNCHANGED <<daemonVars, wire, extensionVars>>

\* Faulty: a rejected claim keeps the lease.
AnsweredKeepsLease(c, answer) ==
  /\ call[c].at = "sent"
  /\ lease' = IF lease = call[c].lease
                 /\ <<call[c].kind, answer>> \in {<<"release", "ok">>, <<"close", "ok">>}
              THEN None ELSE lease
  /\ Put(c, [call[c] EXCEPT !.at = "ended"])
  /\ UNCHANGED <<hazards, closed, owner, wire, extensionVars>>

\* What the handler does with the answer: a rejected claim gives the lease back,
\* a release or a close that succeeded ends it (ReleaseTab).
Answered(c, answer) ==
  /\ call[c].at = "sent"
  /\ lease' = IF lease = call[c].lease
                 /\ <<call[c].kind, answer>> \in
                      {<<"claim", "error">>, <<"release", "ok">>, <<"close", "ok">>}
              THEN None ELSE lease
  /\ Put(c, [call[c] EXCEPT !.at = "ended"])
  /\ UNCHANGED <<hazards, closed, owner, wire, extensionVars>>

Reply(c) == call[c].ext \in Answers /\ Answered(c, call[c].ext)

\* Registry.Call returns TIMEOUT at its deadline, or at once for work that is
\* cancelled; the extension is not told.
GiveUp(c) ==
  /\ call[c].ext \notin Answers
  /\ call[c].kind \in Work \/ "timeout" \in hazards
  /\ Answered(c, "error")

-----------------------------------------------------------------------------
(* The extension.  Each action is a handler's code up to its next await.   *)

FromWire(c) == wire # <<>> /\ c = Head(wire) /\ wire' = Tail(wire)

\* #tabClaim, TabRegistry.claim.
ReceiveClaim(c) ==
  /\ FromWire(c) /\ call[c].kind = "claim"
  /\ IF tab = "gone" \/ (claim \notin {None, call[c].lease} /\ ~call[c].force)
     THEN Moves(c, "none", "error") /\ UNCHANGED claim
     ELSE Moves(c, "none", "claimed") /\ claim' = call[c].lease
  /\ UNCHANGED <<daemonVars, attached, tab>>

\* DebuggerManager.attach returns at once if the tab is attached.
AttachStart(c) ==
  /\ Moves(c, "claimed", IF attached THEN "installing" ELSE "attaching")
  /\ UNCHANGED <<daemonVars, wire, extensionVars>>

\* TabRegistry.release in the error path of #tabClaim.
Unclaim(c, from) ==
  IF tab = "gone"
  THEN Moves(c, from, "error") /\ UNCHANGED claim
  ELSE Moves(c, from, "undoing") /\ claim' = None

\* Chrome attaches the debugger, unless something is attached already.
Attach(c) ==
  /\ \/ /\ tab = "open" /\ ~attached
        /\ Moves(c, "attaching", "installing")
        /\ attached' = TRUE
        /\ UNCHANGED claim
     \/ Unclaim(c, "attaching") /\ UNCHANGED attached
  /\ UNCHANGED <<daemonVars, wire, tab>>

\* ensureRuntime succeeds or fails.
Install(c) ==
  /\ \/ Moves(c, "installing", "ok") /\ UNCHANGED claim
     \/ Unclaim(c, "installing")
  /\ UNCHANGED <<daemonVars, wire, attached, tab>>

Undo(c) ==
  /\ Moves(c, "undoing", "error")
  /\ attached' = FALSE
  /\ UNCHANGED <<daemonVars, wire, claim, tab>>

\* Faulty: a release of a tab that is not claimed is not answered.
ReceiveReleaseMute(c) ==
  /\ FromWire(c) /\ call[c].kind \in {"release", "notice"}
  /\ IF tab = "gone" \/ claim # call[c].lease
     THEN UNCHANGED <<call, attached>>
     ELSE Moves(c, "none", "releasing") /\ attached' = FALSE
  /\ UNCHANGED <<daemonVars, claim, tab>>

\* #tabRelease: assertClaimed, then detach, whose first part is synchronous.
ReceiveRelease(c) ==
  /\ FromWire(c) /\ call[c].kind \in {"release", "notice"}
  /\ IF tab = "gone" \/ claim # call[c].lease
     THEN Moves(c, "none", "error") /\ UNCHANGED attached
     ELSE Moves(c, "none", "releasing") /\ attached' = FALSE
  /\ UNCHANGED <<daemonVars, claim, tab>>

\* The popup has the daemon's answer: #releaseLocal if there is a claim.
LocalRelease(c) ==
  /\ IF tab = "gone" \/ claim = None
     THEN Moves(c, "revoked", "ok") /\ UNCHANGED attached
     ELSE Moves(c, "revoked", "releasing") /\ attached' = FALSE
  /\ UNCHANGED <<daemonVars, wire, claim, tab>>

\* The runtime is removed and TabRegistry.release clears whatever claim there is.
FinishRelease(c) ==
  /\ IF tab = "gone"
     THEN Moves(c, "releasing", "error") /\ UNCHANGED claim
     ELSE Moves(c, "releasing", "ok") /\ claim' = None
  /\ UNCHANGED <<daemonVars, wire, attached, tab>>

\* The methods that go through #claimed.
ReceiveOp(c) ==
  /\ FromWire(c) /\ call[c].kind = "op"
  /\ Moves(c, "none", IF tab = "gone" \/ claim # call[c].lease THEN "error" ELSE "acting")
  /\ UNCHANGED <<daemonVars, extensionVars>>

Act(c) ==
  /\ \E answer \in Answers : Moves(c, "acting", answer)
  /\ UNCHANGED <<daemonVars, wire, extensionVars>>

\* #tabClose: the tab must be claimed.
ReceiveClose(c) ==
  /\ FromWire(c) /\ call[c].kind = "close"
  /\ Moves(c, "none", IF tab = "gone" \/ claim = None THEN "error" ELSE "closing")
  /\ UNCHANGED <<daemonVars, extensionVars>>

\* The tab is removed and onRemoved forgets it.
RemoveTab ==
  /\ tab' = "gone"
  /\ claim' = None
  /\ attached' = FALSE

CloseTab(c) ==
  /\ IF tab = "gone"
     THEN Moves(c, "closing", "error") /\ UNCHANGED extensionVars
     ELSE Moves(c, "closing", "ok") /\ RemoveTab
  /\ UNCHANGED <<daemonVars, wire>>

UserClosesTab ==
  /\ tab = "open"
  /\ RemoveTab
  /\ UNCHANGED <<daemonVars, call, wire>>

\* #onDetach, then the service's handler of debugger.detached.
DebuggerDetached ==
  /\ "detach" \in hazards
  /\ attached
  /\ attached' = FALSE
  /\ claim' = None
  /\ UNCHANGED <<daemonVars, call, wire, tab>>

-----------------------------------------------------------------------------

DaemonStep(c) == Send(c) \/ Withdraw(c) \/ Reply(c) \/ GiveUp(c)

ExtensionStep(c) ==
  \/ ReceiveClaim(c) \/ AttachStart(c) \/ Attach(c) \/ Install(c) \/ Undo(c)
  \/ ReceiveRelease(c) \/ LocalRelease(c) \/ FinishRelease(c)
  \/ ReceiveOp(c) \/ Act(c)
  \/ ReceiveClose(c) \/ CloseTab(c)

Next ==
  \/ \E c \in Calls :
       \/ \E s \in Sessions, force \in BOOLEAN, l \in Leases : TabClaim(c, s, force, l)
       \/ TabRelease(c)
       \/ \E kind \in Work : Forward(c, kind)
       \/ \E s \in Sessions : SessionClose(c, s)
       \/ Expire(c)
       \/ PopupRelease(c)
       \/ DaemonStep(c)
       \/ ExtensionStep(c)
  \/ UserClosesTab
  \/ DebuggerDetached

\* Goroutines run, Chrome answers the extension's calls, and the tab's queue is
\* first come, first served (TabQueue): nobody waits in it for ever.
Fairness ==
  \A c \in Calls :
    /\ WF_vars(DaemonStep(c)) /\ SF_vars(Send(c))
    /\ WF_vars(ExtensionStep(c))

Spec == Init /\ [][Next]_vars
FairSpec == Spec /\ Fairness

-----------------------------------------------------------------------------

TypeOK ==
  /\ closed \subseteq Sessions
  /\ lease \in Leases \cup {None}
  /\ owner \in [Leases -> Sessions \cup {None}]
  /\ call \in [Calls -> [kind : Control \cup Work \cup {"none"},
                         lease : Leases \cup {None},
                         force : BOOLEAN,
                         at : {"idle", "ready", "sent", "ended"},
                         ext : Answers \cup
                               {"none", "claimed", "attaching", "installing", "undoing",
                                "revoked", "releasing", "acting", "closing"}]]
  /\ wire \in Seq(Calls)
  /\ \A i \in DOMAIN wire : call[wire[i]].kind # "none" /\ call[wire[i]].ext = "none"
  /\ claim \in Leases \cup {None}
  /\ attached \in BOOLEAN
  /\ tab \in {"open", "gone"}

\* Nobody is changing who controls the tab.
Quiet == \A c \in Calls : call[c].kind \notin Control

\* The only trouble is that sessions take the tab over.
Orderly == hazards \subseteq {"force"}

\* When nobody is changing it, daemon and extension agree on who controls the
\* tab, and the debugger is attached to it exactly then: after every mix of
\* claims, takeovers, rejected claims, releases, expiries, closed sessions and
\* revocations, each carried through before the next one, and with work running
\* all the time.
Agreement ==
  Orderly /\ Quiet /\ tab = "open" => claim = lease /\ (attached <=> claim # None)

\* A lease the daemon has dropped does not keep the tab controlled in Chrome.
\* (A lease is issued and dropped once, so this settles for good.)
ControlIsGivenUp == <>[](Orderly => claim \in {None, lease})

\* Every call comes to its end at both ends, whatever else happens meanwhile: no
\* handler of the daemon waits for ever and none of the extension's is stuck
\* half way through a claim or a release.
EveryCallEnds ==
  \A c \in Calls : call[c] # NoCall ~> call[c] = NoCall

\* The debugger is attached, and the runtime injected, only into claimed tabs:
\* once nobody is changing it, an attached tab has a lease.
AttachedOnlyWhenClaimed ==
  Quiet /\ attached => lease # None

\* A late release does not clear the claim that replaced the one it is for.
ReleaseClearsOwnClaim ==
  [][\A c \in Calls :
       (/\ call[c].kind \in {"release", "notice"}
        /\ call[c].ext = "releasing" /\ call'[c].ext # "releasing")
       => claim \in {None, call[c].lease}]_vars

=============================================================================
