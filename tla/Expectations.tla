---------------------------- MODULE Expectations ----------------------------
(***************************************************************************)
(* What a call waits for: the event and download waiters of                *)
(* apps/extension/src/service.ts.  A call of action.perform arms a waiter  *)
(* for each of its expectations before it acts and then waits for all of   *)
(* them; condition.wait and download.wait arm one, or poll until a         *)
(* deadline.  Chrome's events and its downloads arrive in between, caused  *)
(* by a call's input or by the page and the user alone.                    *)
(*                                                                         *)
(* "event" stands for navigation, dialog and fileChooser, which are        *)
(* matched by the tab of the event, and for popup, matched by the tab that *)
(* opened it.  A claim may be lost at any time, which only polls notice.   *)
(***************************************************************************)
EXTENDS Naturals, FiniteSets

CONSTANTS
  Tabs, Calls, Downloads, None,
  Places        \* which calls are made in which tabs: functions from Calls to Tabs

ASSUME PlacesAssumption ==
  /\ Places \subseteq [Calls -> Tabs]
  /\ None \notin Calls \cup Downloads

Types == {"event", "download"}
Kinds == {"action", "media", "wait", "poll"}

VARIABLES
  call,     \* the calls: kind, tab, expectations, where they are, and what
            \* their input makes Chrome do (caused)
  waiter,   \* #waiters and #downloadWaiters, by call and type
  given,    \* the downloadId of a call's download waiter
  down,     \* Chrome's downloads: stage and the call that caused them
  owner     \* #downloadOwners

vars == <<call, waiter, given, down, owner>>

NoCall == [kind |-> "none", tab |-> None, expects |-> {}, at |-> "idle", caused |-> {}]

Init ==
  /\ \E f \in Places : call = [c \in Calls |-> [NoCall EXCEPT !.tab = f[c]]]
  /\ waiter = [c \in Calls |-> [y \in Types |-> "none"]]
  /\ given = [c \in Calls |-> None]
  /\ down = [d \in Downloads |-> [at |-> "none", by |-> None]]
  /\ owner = [d \in Downloads |-> None]

Downloading == UNCHANGED <<given, down, owner>>

\* The waiters of some pairs of call and type leave their set with an outcome.
Settle(ps, how) == [c \in Calls |-> [y \in Types |->
  IF <<c, y>> \in ps /\ waiter[c][y] = "armed" THEN how ELSE waiter[c][y]]]

AllOf(cs) == cs \X Types
InTab(t) == {c \in Calls : call[c].tab = t}
At(c, a) == call' = [call EXCEPT ![c].at = a]

\* The call is answered; what its input still causes is like any other event, and
\* a waiter for an event that it leaves behind can only time out.
End(c) == call' = [call EXCEPT ![c].at = "over", ![c].kind = IF @ = "media" THEN @ ELSE "none",
                               ![c].expects = {}, ![c].caused = {}]
Left(c, w) == [w EXCEPT ![c]["event"] = "none"]

-----------------------------------------------------------------------------
(* Calls.                                                                  *)

\* A handler starts: #claimed, then the preflight of an action is awaited.
Start(c, kind, es) ==
  /\ call[c].at = "idle"
  /\ CASE kind = "poll" -> es = {}
       [] kind = "wait" -> Cardinality(es) = 1
       [] OTHER -> es # {}
  /\ call' = [call EXCEPT ![c].kind = kind, ![c].expects = es,
                           ![c].at = IF kind = "poll" THEN "turn" ELSE "preflight"]
  /\ UNCHANGED waiter /\ Downloading

\* Faulty: the waiters are armed when the action is done.
ArmAfter(from) == from = "performed"

\* The waiters are armed when the preflight is over.
ArmBefore(from) == from = "preflight"

\* Faulty: a waiter of every type.
AnyType(c) == Types

Wanted(c) == call[c].expects

Armed(c, from) ==
  IF ArmBefore(from)
  THEN [waiter EXCEPT ![c] = [y \in Types |-> IF y \in Wanted(c) THEN "armed" ELSE @[y]]]
  ELSE waiter

\* #waitForExpectation for each expectation; a pure wait has nothing else to do.
Arm(c) ==
  /\ call[c].at = "preflight"
  /\ IF call[c].kind = "wait"
     THEN call' = [call EXCEPT ![c].at = "await", ![c].kind = "action"]
     ELSE At(c, "input")
  /\ waiter' = Armed(c, "preflight")
  /\ Downloading

\* The input reaches the page, which will do some of what is expected of it, and
\* maybe more; chrome.downloads.download starts a download.
Input(c, es) ==
  /\ call[c].at = "input"
  /\ es = {"download"} \/ call[c].kind = "action"
  /\ call' = [call EXCEPT ![c].at = "performed", ![c].caused = es]
  /\ UNCHANGED waiter /\ Downloading

\* #associateDownload: the call knows which download it has started.
Associate(c, d) ==
  /\ given' = [w \in Calls |->
       IF /\ call[w].tab = call[c].tab /\ waiter[w]["download"] = "armed" /\ given[w] = None
          /\ \A v \in InTab(call[c].tab) \ {w} : waiter[v]["download"] = "armed" => given[v] # None
       THEN d ELSE given[w]]
  /\ owner' = [owner EXCEPT ![d] = call[c].tab]

\* The action's promise resolves.
Performed(c) ==
  /\ call[c].at = "performed"
  /\ At(c, "await")
  /\ IF call[c].kind = "media"
     THEN \E d \in Downloads : down[d].by = c /\ Associate(c, d)
     ELSE UNCHANGED <<given, owner>>
  /\ waiter' = Armed(c, "performed")
  /\ UNCHANGED down

\* What the download waiters that are taken away had got goes with them.
GivenUp(cs) == [c \in Calls |-> IF c \in cs /\ waiter[c]["download"] = "armed" THEN None ELSE given[c]]

\* The action fails, before or after it has an effect: every waiter of the tab is
\* cancelled, those of other calls too.
ActionFails(c) ==
  /\ call[c].at \in {"preflight", "input", "performed"}
  /\ IF call[c].at = "preflight" THEN UNCHANGED <<waiter, given>>
     ELSE LET cs == InTab(call[c].tab) IN
          /\ waiter' = Left(c, Settle(AllOf(cs), "rejected"))
          /\ given' = GivenUp(cs)
  /\ End(c)
  /\ UNCHANGED <<down, owner>>

\* stopSession cancels the waiters of the session's tab.
StopSession(t) ==
  /\ waiter' = Settle(AllOf(InTab(t)), "rejected")
  /\ given' = GivenUp(InTab(t))
  /\ UNCHANGED <<call, down, owner>>

\* stopAll cancels all waiters and forgets whose the downloads are.
StopAll ==
  /\ waiter' = Settle(AllOf(Calls), "rejected")
  /\ given' = GivenUp(Calls)
  /\ owner' = [d \in Downloads |-> None]
  /\ UNCHANGED <<call, down>>

\* Promise.all: the first rejection ends the call and leaves its other waiters.
Return(c) ==
  /\ call[c].at = "await"
  /\ \/ \A y \in call[c].expects : waiter[c][y] = "resolved"
     \/ \E y \in call[c].expects : waiter[c][y] = "rejected"
  /\ End(c)
  /\ waiter' = Left(c, waiter)
  /\ Downloading

\* condition.wait on an address or a locator, download.wait on an id: at each
\* turn the claim is asserted, the answer awaited, and 100 or 200 ms slept.
Poll(c) ==
  /\ \/ call[c].at = "turn" /\ At(c, "asked")
     \/ call[c].at = "asked" /\ At(c, "turn")
     \/ call[c].at \in {"turn", "asked", "last"} /\ End(c)
  /\ UNCHANGED waiter /\ Downloading

\* The deadline of a polling loop passes: there is no other turn.
Deadline(c) ==
  /\ \/ call[c].at = "turn" /\ End(c)
     \/ call[c].at = "asked" /\ At(c, "last")
  /\ UNCHANGED waiter /\ Downloading

\* The timer of a waiter.
Timeout(c, y) ==
  /\ waiter[c][y] = "armed"
  /\ waiter' = Settle({<<c, y>>}, "rejected")
  /\ given' = IF y = "download" THEN [given EXCEPT ![c] = None] ELSE given
  /\ UNCHANGED <<call, down, owner>>

-----------------------------------------------------------------------------
(* Events.                                                                 *)

\* #emit for an event that a call's input has caused.
Emit(c) ==
  /\ "event" \in call[c].caused
  /\ waiter' = Settle(InTab(call[c].tab) \X {"event"}, "resolved")
  /\ call' = [call EXCEPT ![c].caused = @ \ {"event"}]
  /\ Downloading

\* An event nobody asked for: the page's, a child frame's or the user's own.
EmitOther(t) ==
  /\ waiter' = Settle(InTab(t) \X {"event"}, "resolved")
  /\ UNCHANGED call /\ Downloading

\* Chrome starts a download, for a call or without one.
Begin(d, by) ==
  /\ down[d].at = "none"
  /\ by # None => "download" \in call[by].caused
  /\ down' = [down EXCEPT ![d] = [at |-> "new", by |-> by]]
  /\ call' = IF by = None THEN call ELSE [call EXCEPT ![by].caused = @ \ {"download"}]
  /\ UNCHANGED <<waiter, given, owner>>

\* Faulty: the first free waiter takes the download when there are several.
FirstFree(ws) == IF ws = {} THEN {} ELSE {CHOOSE c \in ws : TRUE}

\* The waiter that takes a new download: the only free one.
OnlyFree(ws) == {c \in ws : ws = {c}}

\* downloads.onCreated, #noteDownloadCreated: the only free waiter of any tab gets
\* the download; if there are several, all of them are rejected.
OnCreated(d) ==
  LET free == {c \in Calls : waiter[c]["download"] = "armed" /\ given[c] = None}
      takes == OnlyFree(free)
  IN /\ down[d].at = "new"
     /\ down' = [down EXCEPT ![d].at = "running"]
     /\ given' = [c \in Calls |-> IF c \in takes THEN d ELSE given[c]]
     /\ owner' = [owner EXCEPT ![d] = IF takes = {} THEN @ ELSE call[CHOOSE c \in takes : TRUE].tab]
     /\ waiter' = IF takes = {} THEN Settle(free \X {"download"}, "rejected") ELSE waiter
     /\ UNCHANGED call

\* Faulty: the waiter of an interrupted download is taken away unanswered.
EndsUnanswered == {"resolved", "lost"}

\* #completeDownloadWaiter resolves on "complete" and rejects on "interrupted".
Ends == {"resolved", "rejected"}

\* downloads.onChanged and the search it starts: the download has ended; the first
\* waiter that has it is settled and the owner forgotten.
OnChanged(d) ==
  LET ws == {c \in Calls : waiter[c]["download"] = "armed" /\ given[c] = d}
  IN /\ down[d].at = "running"
     /\ down' = [down EXCEPT ![d].at = "ended"]
     /\ owner' = [owner EXCEPT ![d] = None]
     /\ IF ws = {} THEN waiter' = waiter
        ELSE \E c \in ws, how \in Ends : waiter' = Settle({<<c, "download">>}, how)
     /\ UNCHANGED <<call, given>>

-----------------------------------------------------------------------------

Step(c) == Arm(c) \/ Performed(c) \/ ActionFails(c) \/ Return(c) \/ Poll(c)

Next ==
  \/ \E c \in Calls, kind \in Kinds, es \in SUBSET Types : Start(c, kind, es)
  \/ \E c \in Calls : Step(c) \/ Deadline(c) \/ Emit(c)
  \/ \E c \in Calls, es \in SUBSET Types : Input(c, es)
  \/ \E c \in Calls, y \in Types : Timeout(c, y)
  \/ StopAll \/ \E t \in Tabs : StopSession(t) \/ EmitOther(t)
  \/ \E d \in Downloads, by \in Calls \cup {None} : Begin(d, by)
  \/ \E d \in Downloads : OnCreated(d) \/ OnChanged(d)

\* Handlers run on, timers fire and deadlines pass.
Fairness ==
  \A c \in Calls : /\ WF_vars(Step(c)) /\ WF_vars(Deadline(c))
                  /\ WF_vars(\E y \in Types : Timeout(c, y))

Spec == Init /\ [][Next]_vars
FairSpec == Spec /\ Fairness

-----------------------------------------------------------------------------

TypeOK ==
  /\ \A c \in Calls : /\ call[c].expects \subseteq Types /\ given[c] \in Downloads \cup {None}
                      /\ \A y \in Types : waiter[c][y] # "none" =>
                           call[c].at = "over" \/ y \in call[c].expects
  /\ \A d \in Downloads : owner[d] # None => down[d].at # "none"

\* The event that an action causes reaches the action's own waiter, unless that
\* was settled before: it never comes too early, since #actionPerform arms its
\* waiters before the input is sent and not when it has been acknowledged.
CausedEventIsSeen ==
  [][\A c \in Calls : Emit(c) /\ "event" \in call[c].expects =>
       waiter'[c]["event"] \in {"resolved", "rejected"}]_vars

\* A download that an action expects goes to that action or to nobody, however
\* many tabs wait: to another call only if the action's own waiter was settled or
\* had got another download before, or if it was started by downloadMedia, whose
\* association may come before or after onCreated.
DownloadIsNotStolen ==
  \A c \in Calls : waiter[c]["download"] = "resolved" =>
    LET by == down[given[c]].by IN
    \/ by \in {None, c}
    \/ call[by].kind = "media" \/ waiter[by]["download"] = "none"
    \/ waiter[by]["download"] = "rejected" \/ given[by] # None

\* Every call comes to its end: by its events, a failure, a timer or a deadline.
\* (A call is made once, so from some moment on all that were made are over.)
EveryCallReturns == <>[](\A c \in Calls : call[c].at \in {"idle", "over"})

=============================================================================
