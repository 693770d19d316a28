------------------------------- MODULE Manager -------------------------------
(***************************************************************************)
(* The daemon's core state, internal/core/manager.go: sessions, tab        *)
(* leases, idempotent operations and action confirmations.  Every method   *)
(* holds Manager.mu for its whole critical section and is one action;      *)
(* ExecuteOperation, which runs fn without the lock, is several.           *)
(*                                                                         *)
(* Time is abstracted to what the code asks of it.  A lease past its       *)
(* ExpiresAt, a confirmation past its ExpiresAt and an operation completed *)
(* more than an hour ago are flags that the environment may raise at any   *)
(* moment; a renewal of a live lease therefore changes nothing.            *)
(*                                                                         *)
(* Identifiers are drawn from crypto/rand (newID): a fresh one is any one  *)
(* not used before.  The tab queue appears as the SerialExecutor that      *)
(* TabQueue implements.  Events and the confirmation-resolved notices are  *)
(* reports and are left out.                                               *)
(***************************************************************************)
EXTENDS Naturals, Sequences

CONSTANTS
  Sessions, Tabs, Browsers, LeaseIds, OpIds, ConfIds,
  Calls,          \* calls of ExecuteOperation by request handlers
  Fingerprints,   \* hashes of the request parameters
  None            \* the zero value of a map entry, a pointer or a string

ASSUME NoneAssumption ==
  None \notin Sessions \cup Tabs \cup Browsers \cup LeaseIds \cup OpIds \cup Calls

VARIABLES
  session,      \* Session.Status per id; "none" before session.open
  lease,        \* Manager.leases: tab -> lease id
  leaseOf,      \* what each lease id was issued for (session, tab, browser)
  expired,      \* leases past ExpiresAt
  hooks,        \* leases whose leaseExpiredHook goroutine has not run yet
  operations,   \* Manager.operations: operation id -> the call that made it
  status,       \* the status of the operation object each call created
  pc,           \* where each call of ExecuteOperation is
  req,          \* what each call asks for
  stopped,      \* calls whose innermost context is cancelled
  waitsFor,     \* the object whose done channel a duplicate waits on
  reply,        \* what each call returned
  queue,        \* the tab queue's waiting calls
  active,       \* the call that runs on the tab
  conf,         \* Manager.confirmations
  confExpired,  \* confirmations past ExpiresAt
  aged,         \* operation objects completed more than an hour ago
  under,        \* history: the lease a call's tab had for its session at its start
  sent,         \* history: calls whose fn ran
  pruned        \* history: objects the janitor dropped

sessionVars == <<session>>
leaseVars == <<lease, leaseOf, expired, hooks>>
opVars == <<operations, status, aged, pruned>>
callVars == <<pc, req, stopped, waitsFor, reply, under, sent>>
queueVars == <<queue, active>>
confVars == <<conf, confExpired>>
vars == <<sessionVars, leaseVars, opVars, callVars, queueVars, confVars>>

Terminal == {"completed", "failed", "cancelled"}
Statuses == Terminal \cup {"none", "running", "awaiting_confirmation"}
NoRequest == [id |-> None, session |-> None, tab |-> None, fp |-> None]
NoLeaseInfo == [session |-> None, tab |-> None, browser |-> None]
NoConf == [status |-> "none", session |-> None, tab |-> None, browser |-> None, op |-> None]
NoReply == [of |-> None, status |-> "none"]

Init ==
  /\ session = [s \in Sessions |-> "none"]
  /\ lease = [t \in Tabs |-> None]
  /\ leaseOf = [l \in LeaseIds |-> NoLeaseInfo]
  /\ expired = {}
  /\ hooks = {}
  /\ operations = [o \in OpIds |-> None]
  /\ status = [c \in Calls |-> "none"]
  /\ req = [c \in Calls |-> NoRequest]
  /\ aged = {}
  /\ pruned = {}
  /\ pc = [c \in Calls |-> "idle"]
  /\ stopped = {}
  /\ waitsFor = [c \in Calls |-> None]
  /\ reply = [c \in Calls |-> NoReply]
  /\ under = [c \in Calls |-> None]
  /\ sent = {}
  /\ queue = [t \in Tabs |-> <<>>]
  /\ active = [t \in Tabs |-> None]
  /\ conf = [f \in ConfIds |-> NoConf]
  /\ confExpired = {}

Open(s) == session[s] = "open"

-----------------------------------------------------------------------------
(* What several methods do under the lock.                                 *)

\* The object registered under an operation id is c's.
Registered(c) == status[c] # "none" /\ operations[req[c].id] = c

\* cancelTabQueue for every tab of T, together with cancelOperationsLocked for
\* the operations in C: queued calls leave the queue with CANCELLED, the call
\* that runs and the running operations have their context cancelled, and the
\* operations that await a confirmation are finished.
CancelWork(T, C) ==
  /\ queue' = [t \in Tabs |-> IF t \in T THEN <<>> ELSE queue[t]]
  /\ LET dropped == {c \in Calls : pc[c] = "queued" /\ req[c].tab \in T}
         waiting == {c \in C : Registered(c) /\ status[c] = "awaiting_confirmation"}
         running == {c \in C : Registered(c) /\ status[c] = "running"}
     IN  /\ pc' = [c \in Calls |-> IF c \in dropped THEN "cancelled" ELSE pc[c]]
         /\ stopped' = stopped \cup running
                         \cup ({active[t] : t \in T} \ {None})
         /\ status' = [c \in Calls |-> IF c \in waiting THEN "cancelled" ELSE status[c]]
         /\ aged' = aged \ waiting
  /\ UNCHANGED <<active, operations, pruned, req, waitsFor, reply, under, sent>>

NoWorkCancelled == UNCHANGED <<queueVars, opVars, callVars>>

\* The operations cancelOperationsLocked finds for the lease of each tab in T.
WorkUnder(T) ==
  {c \in Calls : /\ req[c].tab \in T
                 /\ lease[req[c].tab] # None
                 /\ req[c].session = leaseOf[lease[req[c].tab]].session}

\* Faulty: only the queue is cancelled, not the operations.
DropLeasesOnly(T) ==
  /\ lease' = [t \in Tabs |-> IF t \in T THEN None ELSE lease[t]]
  /\ CancelWork(T, {})

\* The leases of T are deleted and the work done under them is cancelled.
DropLeases(T) ==
  /\ lease' = [t \in Tabs |-> IF t \in T THEN None ELSE lease[t]]
  /\ CancelWork(T, WorkUnder(T))

\* The pending confirmations in F are cancelled.
CancelConfirmations(F) ==
  conf' = [f \in ConfIds |->
             IF f \in F /\ conf[f].status = "pending"
             THEN [conf[f] EXCEPT !.status = "cancelled"] ELSE conf[f]]

\* finishAwaitingOperationLocked for the operation ids in O.
FinishAwaiting(O, final) ==
  LET done == {c \in Calls : /\ Registered(c)
                             /\ req[c].id \in O
                             /\ status[c] = "awaiting_confirmation"}
  IN  /\ status' = [c \in Calls |-> IF c \in done THEN final ELSE status[c]]
      /\ aged' = aged \ done

-----------------------------------------------------------------------------
(* Sessions and leases.                                                    *)

OpenSession(s) ==
  /\ session[s] = "none"
  /\ session' = [session EXCEPT ![s] = "open"]
  /\ UNCHANGED <<leaseVars, opVars, callVars, queueVars, confVars>>

LeasesOf(s) == {t \in Tabs : lease[t] # None /\ leaseOf[lease[t]].session = s}

\* Faulty: only the work on the session's tabs is cancelled.
CloseSessionTabsOnly(s) ==
  /\ Open(s)
  /\ session' = [session EXCEPT ![s] = "closed"]
  /\ lease' = [t \in Tabs |-> IF t \in LeasesOf(s) THEN None ELSE lease[t]]
  /\ CancelWork(LeasesOf(s), WorkUnder(LeasesOf(s)))
  /\ CancelConfirmations({f \in ConfIds : conf[f].session = s})
  /\ UNCHANGED <<leaseOf, expired, hooks, confExpired>>

CloseSession(s) ==
  /\ Open(s)
  /\ session' = [session EXCEPT ![s] = "closed"]
  /\ lease' = [t \in Tabs |-> IF t \in LeasesOf(s) THEN None ELSE lease[t]]
  /\ CancelWork(LeasesOf(s), {c \in Calls : req[c].session = s})
  /\ CancelConfirmations({f \in ConfIds : conf[f].session = s})
  /\ UNCHANGED <<leaseOf, expired, hooks, confExpired>>

\* Only the queues of leased tabs are cancelled, but every operation is.
StopAll ==
  /\ session' = [s \in Sessions |-> IF Open(s) THEN "closed" ELSE session[s]]
  /\ lease' = [t \in Tabs |-> None]
  /\ CancelWork({t \in Tabs : lease[t] # None}, Calls)
  /\ CancelConfirmations(ConfIds)
  /\ UNCHANGED <<leaseOf, expired, hooks, confExpired>>

Live(t) == lease[t] # None /\ lease[t] \notin expired

\* A new lease for the tab, under an identifier never used before.
Issue(s, t, l) ==
  /\ leaseOf[l] = NoLeaseInfo
  /\ leaseOf' = [leaseOf EXCEPT ![l] = [session |-> s, tab |-> t, browser |-> None]]
  /\ lease' = [lease EXCEPT ![t] = l]

\* Faulty: the session is not looked up.
ClaimTabUnchecked(s, t, force, l) ==
  /\ lease[t] = None
  /\ Issue(s, t, l)
  /\ NoWorkCancelled
  /\ UNCHANGED <<sessionVars, expired, hooks, confVars>>

\* ClaimTabForce where it issues a lease.  A live lease of another session is
\* only replaced by force, and then without the expiry hook; an expired one is
\* replaced whoever held it, and its hook is started.  (A live lease of the
\* same session is renewed and a conflict refused: neither changes anything.)
ClaimTabForce(s, t, force, l) ==
  /\ Open(s)
  /\ Issue(s, t, l)
  /\ \/ /\ lease[t] = None
        /\ NoWorkCancelled
        /\ UNCHANGED hooks
     \/ /\ Live(t) /\ leaseOf[lease[t]].session # s /\ force
        /\ CancelWork({t}, WorkUnder({t}))
        /\ UNCHANGED hooks
     \/ /\ lease[t] # None /\ ~Live(t)
        /\ CancelWork({t}, WorkUnder({t}))
        /\ hooks' = hooks \cup {lease[t]}
  /\ UNCHANGED <<sessionVars, expired, confVars>>

\* validLeaseLocked accepts the caller's lease.
ValidLease(s, t, l) == Live(t) /\ lease[t] = l /\ leaseOf[l].session = s

\* Faulty: the hook gets what is in the table after the deletion.
ExpireOnUseLate(s, t, requireOpenSession) ==
  /\ requireOpenSession => Open(s)
  /\ lease[t] # None /\ ~Live(t)
  /\ DropLeases({t})
  /\ hooks' = hooks \cup {lease'[t]}
  /\ UNCHANGED <<sessionVars, leaseOf, expired, confVars>>

\* Faulty: the hook runs but the lease stays.
ExpireOnUseKeeps(s, t, requireOpenSession) ==
  /\ requireOpenSession => Open(s)
  /\ lease[t] # None /\ ~Live(t)
  /\ CancelWork({t}, WorkUnder({t}))
  /\ hooks' = hooks \cup {lease[t]}
  /\ UNCHANGED <<sessionVars, lease, leaseOf, expired, confVars>>

\* validLeaseLocked finds the tab's lease expired, whoever asks.
ExpireOnUse(s, t, requireOpenSession) ==
  /\ requireOpenSession => Open(s)
  /\ lease[t] # None /\ ~Live(t)
  /\ DropLeases({t})
  /\ hooks' = hooks \cup {lease[t]}
  /\ UNCHANGED <<sessionVars, leaseOf, expired, confVars>>

BindLeaseBrowser(s, t, l, b) ==
  /\ Open(s)
  /\ ValidLease(s, t, l)
  /\ leaseOf[l].browser = None
  /\ leaseOf' = [leaseOf EXCEPT ![l].browser = b]
  /\ UNCHANGED <<sessionVars, lease, expired, hooks, opVars, callVars, queueVars, confVars>>

ReleaseTab(s, t, l) ==
  /\ ValidLease(s, t, l)
  /\ DropLeases({t})
  /\ UNCHANGED <<sessionVars, leaseOf, expired, hooks, confVars>>

RevokeTab(t) ==
  /\ lease[t] # None
  /\ DropLeases({t})
  /\ UNCHANGED <<sessionVars, leaseOf, expired, hooks, confVars>>

\* The confirmations of the browser are cancelled, but an operation that waits
\* for one of them is only finished if its lease goes too.
RevokeBrowser(b) ==
  /\ DropLeases({t \in Tabs : lease[t] # None /\ leaseOf[lease[t]].browser = b})
  /\ CancelConfirmations({f \in ConfIds : conf[f].browser = b})
  /\ UNCHANGED <<sessionVars, leaseOf, expired, hooks, confExpired>>

\* The hook goroutine runs (its effect on the extension is in TabControl).
LeaseExpiredHook(l) ==
  /\ l \in hooks
  /\ hooks' = hooks \ {l}
  /\ UNCHANGED <<sessionVars, lease, leaseOf, expired, opVars, callVars, queueVars, confVars>>

-----------------------------------------------------------------------------
(* Idempotent operations.  The object of an operation is named by the call *)
(* that created it, since a duplicate waits on an object, not on an id.    *)

Existing(o) == operations[o]

\* ExecuteOperation, its first critical section.
Ask(c, s, t, o, f) ==
  /\ pc[c] = "idle"
  /\ req' = [req EXCEPT ![c] = [id |-> o, session |-> s, tab |-> t, fp |-> f]]
  /\ UNCHANGED <<sessionVars, leaseVars, queueVars, confVars, pruned, sent, stopped>>

\* Faulty: the fingerprint is not compared.
SameSession(x, s, f) == req[x].session = s

SameRequest(x, s, f) == req[x].session = s /\ req[x].fp = f

\* ... the session is gone, or the id was used for a different request.
ExecuteRefused(c, s, t, o, f) ==
  /\ Ask(c, s, t, o, f)
  /\ \/ ~Open(s)
     \/ Existing(o) # None /\ ~SameRequest(Existing(o), s, f)
  /\ pc' = [pc EXCEPT ![c] = "returned"]
  /\ reply' = [reply EXCEPT ![c] = [of |-> None, status |-> "refused"]]
  /\ UNCHANGED <<operations, status, aged, waitsFor, under>>

\* ... an exact retry of a finished operation gets the recorded result.
ExecuteReplay(c, s, t, o, f) ==
  /\ Ask(c, s, t, o, f)
  /\ Open(s)
  /\ Existing(o) # None /\ SameRequest(Existing(o), s, f)
  /\ status[Existing(o)] \in Terminal
  /\ pc' = [pc EXCEPT ![c] = "returned"]
  /\ reply' = [reply EXCEPT ![c] = [of |-> Existing(o), status |-> status[Existing(o)]]]
  /\ UNCHANGED <<operations, status, aged, waitsFor, under>>

\* ... an exact retry of a running operation waits for it.
ExecuteJoin(c, s, t, o, f) ==
  /\ Ask(c, s, t, o, f)
  /\ Open(s)
  /\ Existing(o) # None /\ SameRequest(Existing(o), s, f)
  /\ status[Existing(o)] = "running"
  /\ pc' = [pc EXCEPT ![c] = "waiting"]
  /\ waitsFor' = [waitsFor EXCEPT ![c] = Existing(o)]
  /\ UNCHANGED <<operations, status, aged, reply, under>>

\* Faulty: a retry of a running operation starts it again.
ExecuteStartAnyway(c, s, t, o, f) ==
  /\ Ask(c, s, t, o, f)
  /\ Open(s)
  /\ operations' = [operations EXCEPT ![o] = c]
  /\ status' = [status EXCEPT ![c] = "running"]
  /\ pc' = [pc EXCEPT ![c] = "begun"]
  /\ UNCHANGED <<aged, reply, waitsFor, under>>

\* ... a new operation, or one that awaited a confirmation, is started.
ExecuteStart(c, s, t, o, f) ==
  /\ Ask(c, s, t, o, f)
  /\ Open(s)
  /\ \/ Existing(o) = None
     \/ /\ Existing(o) # None /\ SameRequest(Existing(o), s, f)
        /\ status[Existing(o)] = "awaiting_confirmation"
  /\ operations' = [operations EXCEPT ![o] = c]
  /\ status' = [status EXCEPT ![c] = "running"]
  /\ pc' = [pc EXCEPT ![c] = "begun"]
  /\ under' = [under EXCEPT ![c] =
                 IF t # None /\ lease[t] # None /\ leaseOf[lease[t]].session = s
                 THEN lease[t] ELSE None]
  /\ UNCHANGED <<aged, reply, waitsFor>>

\* fn calls RunTab: without a tab the work runs at once, else it is queued.
RunTab(c) ==
  /\ pc[c] = "begun"
  /\ \/ /\ req[c].tab = None
        /\ pc' = [pc EXCEPT ![c] = "sent"]
        /\ sent' = sent \cup {c}
        /\ UNCHANGED queue
     \/ /\ req[c].tab # None
        /\ pc' = [pc EXCEPT ![c] = "queued"]
        /\ queue' = [queue EXCEPT ![req[c].tab] = Append(@, c)]
        /\ UNCHANGED sent
  /\ UNCHANGED <<sessionVars, leaseVars, opVars, req, stopped, waitsFor, reply, under, active, confVars>>

\* The head of the queue gets the tab, even if its context is cancelled.
QueueStart(t) ==
  /\ active[t] = None /\ queue[t] # <<>>
  /\ LET c == Head(queue[t]) IN
       /\ active' = [active EXCEPT ![t] = c]
       /\ queue' = [queue EXCEPT ![t] = Tail(@)]
       /\ pc' = [pc EXCEPT ![c] = "sent"]
       /\ sent' = sent \cup {c}
  /\ UNCHANGED <<sessionVars, leaseVars, opVars, req, stopped, waitsFor, reply, under, confVars>>

\* A sequence without its element at position i.
RemoveAt(q, i) == [j \in 1 .. Len(q) - 1 |-> IF j < i THEN q[j] ELSE q[j + 1]]

\* A queued call whose context is cancelled may leave the queue.
QueueWithdraw(c) ==
  /\ pc[c] = "queued" /\ c \in stopped
  /\ pc' = [pc EXCEPT ![c] = "cancelled"]
  /\ \E i \in DOMAIN queue[req[c].tab] :
       /\ queue[req[c].tab][i] = c
       /\ queue' = [queue EXCEPT ![req[c].tab] = RemoveAt(@, i)]
  /\ UNCHANGED <<sessionVars, leaseVars, opVars, req, stopped, waitsFor, reply, under, sent, active, confVars>>

\* The bridge call ends and the tab is free again.
BridgeEnds(c, outcome) ==
  /\ pc[c] = "sent"
  /\ pc' = [pc EXCEPT ![c] = outcome]
  /\ active' = [t \in Tabs |-> IF active[t] = c THEN None ELSE active[t]]
  /\ UNCHANGED <<sessionVars, leaseVars, opVars, req, stopped, waitsFor, reply, under, sent, queue, confVars>>

\* ExecuteOperation, its last critical section: the result is recorded and done
\* is closed.
Complete(c) ==
  /\ pc[c] \in Terminal \cup {"awaiting_confirmation"}
  /\ status' = [status EXCEPT ![c] = pc[c]]
  /\ pc' = [pc EXCEPT ![c] = "returned"]
  /\ reply' = [reply EXCEPT ![c] = [of |-> c, status |-> pc[c]]]
  /\ UNCHANGED <<sessionVars, leaseVars, operations, aged, pruned, req, stopped, waitsFor, under, sent, queueVars, confVars>>

\* Faulty: a duplicate does not notice an operation that awaits a confirmation.
JoinReturnsTerminal(c) ==
  /\ pc[c] = "waiting"
  /\ status[waitsFor[c]] \in Terminal
  /\ reply' = [reply EXCEPT ![c] = [of |-> waitsFor[c], status |-> status[waitsFor[c]]]]
  /\ pc' = [pc EXCEPT ![c] = "returned"]
  /\ UNCHANGED <<sessionVars, leaseVars, opVars, req, stopped, waitsFor, under, sent, queueVars, confVars>>

\* A duplicate wakes up when the operation is done, or gives up with its caller.
JoinReturns(c) ==
  /\ pc[c] = "waiting"
  /\ \/ /\ status[waitsFor[c]] # "running"
        /\ reply' = [reply EXCEPT ![c] = [of |-> waitsFor[c], status |-> status[waitsFor[c]]]]
     \/ /\ c \in stopped
        /\ reply' = [reply EXCEPT ![c] = [of |-> None, status |-> "cancelled"]]
  /\ pc' = [pc EXCEPT ![c] = "returned"]
  /\ UNCHANGED <<sessionVars, leaseVars, opVars, req, stopped, waitsFor, under, sent, queueVars, confVars>>

\* The client that made the call is gone: its request context is cancelled, and
\* with it the context of the operation derived from it.
CallerGone(c) ==
  /\ pc[c] \notin {"idle", "returned"}
  /\ c \notin stopped
  /\ stopped' = stopped \cup {c}
  /\ UNCHANGED <<sessionVars, leaseVars, opVars, pc, req, waitsFor, reply, under, sent, queueVars, confVars>>

CancelOperation(s, o) ==
  /\ operations[o] # None /\ req[operations[o]].session = s
  /\ \/ /\ status[operations[o]] = "awaiting_confirmation"
        /\ FinishAwaiting({o}, "cancelled")
        /\ CancelConfirmations({f \in ConfIds : conf[f].op = o /\ conf[f].session = s})
        /\ UNCHANGED stopped
     \/ /\ status[operations[o]] = "running"
        /\ stopped' = stopped \cup {operations[o]}
        /\ UNCHANGED <<status, aged, conf>>
  /\ UNCHANGED <<sessionVars, leaseVars, operations, pruned, pc, req, waitsFor, reply, under, sent, queueVars, confExpired>>

-----------------------------------------------------------------------------
(* Action confirmations.                                                   *)

\* CreateActionConfirmation: a pending one with the same binding is reused.
CreateActionConfirmation(f, s, t, b, o) ==
  LET binding == [status |-> "pending", session |-> s, tab |-> t, browser |-> b, op |-> o]
  IN  /\ Open(s)
      /\ conf[f] = NoConf
      /\ \A g \in ConfIds : conf[g] # binding
      /\ conf' = [conf EXCEPT ![f] = binding]
      /\ UNCHANGED <<sessionVars, leaseVars, opVars, callVars, queueVars, confExpired>>

\* ResolveConfirmation: only a pending one changes; past its time it expires
\* whatever the decision, and a denial fails the operation that waits for it.
ResolveConfirmation(f, decision) ==
  /\ conf[f].status = "pending"
  /\ LET final == IF f \in confExpired THEN "expired" ELSE decision
     IN  /\ conf' = [conf EXCEPT ![f].status = final]
         /\ \/ final = "approved" /\ UNCHANGED <<status, aged>>
            \/ final # "approved" /\ FinishAwaiting({conf[f].op}, "failed")
  /\ UNCHANGED <<sessionVars, leaseVars, operations, pruned, callVars, queueVars, confExpired>>

\* AuthorizeActionConfirmation marks an expired one, whatever became of it.
AuthorizeActionConfirmation(f) ==
  /\ conf[f].status # "none"
  /\ f \in confExpired
  /\ conf' = [conf EXCEPT ![f].status = "expired"]
  /\ FinishAwaiting({conf[f].op}, "failed")
  /\ UNCHANGED <<sessionVars, leaseVars, operations, pruned, callVars, queueVars, confExpired>>

ConsumeActionConfirmation(f) ==
  /\ conf[f].status = "approved"
  /\ conf' = [conf EXCEPT ![f].status = "consumed"]
  /\ UNCHANGED <<sessionVars, leaseVars, opVars, callVars, queueVars, confExpired>>

-----------------------------------------------------------------------------
(* Time and the janitor.                                                   *)

LeaseTimesOut(t) ==
  /\ Live(t)
  /\ expired' = expired \cup {lease[t]}
  /\ UNCHANGED <<sessionVars, lease, leaseOf, hooks, opVars, callVars, queueVars, confVars>>

ConfirmationTimesOut(f) ==
  /\ conf[f].status # "none" /\ f \notin confExpired
  /\ confExpired' = confExpired \cup {f}
  /\ UNCHANGED <<sessionVars, leaseVars, opVars, callVars, queueVars, conf>>

OperationAges(c) ==
  /\ status[c] \notin {"none", "running"} /\ Registered(c) /\ c \notin aged
  /\ aged' = aged \cup {c}
  /\ UNCHANGED <<sessionVars, leaseVars, operations, status, pruned, callVars, queueVars, confVars>>

\* One tick: expired leases are dropped, aged operations forgotten, pending
\* confirmations past their time expired and the operations behind them failed.
\* An awaiting operation can be in both of the last two: it is forgotten first.
Janitor ==
  LET T == {t \in Tabs : lease[t] # None /\ ~Live(t)}
      F == {f \in ConfIds : conf[f].status = "pending" /\ f \in confExpired}
      forgotten == {c \in Calls : Registered(c) /\ c \in aged}
      cancelled == {c \in WorkUnder(T) : Registered(c) /\ status[c] = "awaiting_confirmation"}
      failed == {c \in Calls : /\ Registered(c) /\ c \notin forgotten \ cancelled
                               /\ status[c] = "awaiting_confirmation"
                               /\ \E f \in F : conf[f].op = req[c].id}
  IN  /\ T # {} \/ F # {} \/ forgotten # {}
      /\ lease' = [t \in Tabs |-> IF t \in T THEN None ELSE lease[t]]
      /\ hooks' = hooks \cup {lease[t] : t \in T}
      /\ queue' = [t \in Tabs |-> IF t \in T THEN <<>> ELSE queue[t]]
      /\ pc' = [c \in Calls |-> IF pc[c] = "queued" /\ req[c].tab \in T
                                THEN "cancelled" ELSE pc[c]]
      /\ stopped' = stopped \cup {c \in WorkUnder(T) : Registered(c) /\ status[c] = "running"}
                            \cup ({active[t] : t \in T} \ {None})
      /\ status' = [c \in Calls |-> IF c \in cancelled THEN "cancelled"
                                    ELSE IF c \in failed THEN "failed" ELSE status[c]]
      /\ operations' = [o \in OpIds |-> IF operations[o] \in forgotten \ cancelled
                                        THEN None ELSE operations[o]]
      /\ pruned' = pruned \cup (forgotten \ cancelled)
      /\ aged' = aged \ (forgotten \cup cancelled \cup failed)
      /\ conf' = [f \in ConfIds |-> IF f \in F THEN [conf[f] EXCEPT !.status = "expired"]
                                    ELSE conf[f]]
      /\ UNCHANGED <<sessionVars, leaseOf, expired, confExpired, active, req, waitsFor, reply, under, sent>>

-----------------------------------------------------------------------------

Execute(c, s, t, o, f) ==
  \/ ExecuteRefused(c, s, t, o, f)
  \/ ExecuteReplay(c, s, t, o, f)
  \/ ExecuteJoin(c, s, t, o, f)
  \/ ExecuteStart(c, s, t, o, f)

SessionNext ==
  \/ \E s \in Sessions : OpenSession(s) \/ CloseSession(s)
  \/ StopAll

LeaseNext ==
  \/ \E s \in Sessions, t \in Tabs, l \in LeaseIds :
       \/ \E force \in BOOLEAN : ClaimTabForce(s, t, force, l)
       \/ \E b \in Browsers : BindLeaseBrowser(s, t, l, b)
       \/ ReleaseTab(s, t, l)
  \/ \E s \in Sessions, t \in Tabs, r \in BOOLEAN : ExpireOnUse(s, t, r)
  \/ \E t \in Tabs : RevokeTab(t) \/ LeaseTimesOut(t)
  \/ \E b \in Browsers : RevokeBrowser(b)
  \/ \E l \in LeaseIds : LeaseExpiredHook(l)

CallStep(c) ==
  \/ RunTab(c)
  \/ QueueWithdraw(c)
  \/ \E outcome \in Terminal \cup {"awaiting_confirmation"} : BridgeEnds(c, outcome)
  \/ Complete(c)
  \/ JoinReturns(c)

OperationNext ==
  \/ \E c \in Calls, s \in Sessions, t \in Tabs \cup {None}, o \in OpIds,
        f \in Fingerprints : Execute(c, s, t, o, f)
  \/ \E c \in Calls : CallStep(c) \/ CallerGone(c) \/ OperationAges(c)
  \/ \E t \in Tabs : QueueStart(t)
  \/ \E s \in Sessions, o \in OpIds : CancelOperation(s, o)

ConfirmationNext ==
  \/ \E f \in ConfIds, s \in Sessions, t \in Tabs, b \in Browsers, o \in OpIds :
       CreateActionConfirmation(f, s, t, b, o)
  \/ \E f \in ConfIds :
       \/ \E d \in {"approved", "denied"} : ResolveConfirmation(f, d)
       \/ AuthorizeActionConfirmation(f)
       \/ ConsumeActionConfirmation(f)
       \/ ConfirmationTimesOut(f)

Next ==
  \/ SessionNext
  \/ LeaseNext
  \/ OperationNext
  \/ ConfirmationNext
  \/ Janitor

\* Go runs every runnable goroutine, and callBridge bounds a bridge call by a
\* deadline.
Fairness ==
  /\ \A c \in Calls : WF_vars(CallStep(c))
  /\ \A t \in Tabs : WF_vars(QueueStart(t))

Spec == Init /\ [][Next]_vars
FairSpec == Spec /\ Fairness

-----------------------------------------------------------------------------

CallLocations ==
  {"idle", "begun", "queued", "sent", "waiting", "returned", "awaiting_confirmation"}
    \cup Terminal

TypeOK ==
  /\ session \in [Sessions -> {"none", "open", "closed"}]
  /\ lease \in [Tabs -> LeaseIds \cup {None}]
  /\ leaseOf \in [LeaseIds -> [session : Sessions \cup {None}, tab : Tabs \cup {None},
                               browser : Browsers \cup {None}]]
  /\ expired \subseteq LeaseIds /\ hooks \subseteq LeaseIds
  /\ operations \in [OpIds -> Calls \cup {None}]
  /\ status \in [Calls -> Statuses]
  /\ aged \subseteq Calls /\ pruned \subseteq Calls
  /\ stopped \subseteq Calls /\ sent \subseteq Calls
  /\ pc \in [Calls -> CallLocations]
  /\ req \in [Calls -> [id : OpIds \cup {None}, session : Sessions \cup {None},
                        tab : Tabs \cup {None}, fp : Fingerprints \cup {None}]]
  /\ waitsFor \in [Calls -> Calls \cup {None}]
  /\ reply \in [Calls -> [of : Calls \cup {None}, status : Statuses \cup {"refused"}]]
  /\ under \in [Calls -> LeaseIds \cup {None}]
  /\ queue \in [Tabs -> Seq(Calls)]
  /\ active \in [Tabs -> Calls \cup {None}]
  /\ conf \in [ConfIds -> [status : {"none", "pending", "approved", "denied", "expired",
                                     "cancelled", "consumed"},
                           session : Sessions \cup {None}, tab : Tabs \cup {None},
                           browser : Browsers \cup {None}, op : OpIds \cup {None}]]
  /\ confExpired \subseteq ConfIds

\* A tab is only ever controlled for a session that is open: whatever closes a
\* session takes its leases with it (CloseSession, StopAll), and no lease is
\* issued to a closed one.
LeaseHolderIsOpen ==
  \A t \in Tabs : lease[t] # None =>
    /\ leaseOf[lease[t]].tab = t
    /\ leaseOf[lease[t]].session # None
    /\ Open(leaseOf[lease[t]].session)

\* Losing a lease stops the work done under it: an operation that runs although
\* the lease its tab had when it started is gone has had its context cancelled,
\* however the lease was lost (release, takeover, expiry, revocation, session end
\* or stop) and wherever the operation was at that moment.
LostLeaseStopsWork ==
  \A c \in Calls :
    (status[c] = "running" /\ under[c] # None) =>
      \/ lease[req[c].tab] = under[c]
      \/ c \in stopped

\* A closed session is quiet: nothing of it runs with a live context and none of
\* its confirmations is pending, also when the session closes while an operation
\* is between two critical sections.
ClosedSessionIsQuiet ==
  \A s \in Sessions : session[s] = "closed" =>
    /\ \A c \in Calls : status[c] = "running" /\ req[c].session = s => c \in stopped
    /\ \A f \in ConfIds : conf[f].session = s => conf[f].status # "pending"

\* A retry never runs the action again as long as the operation is remembered:
\* of two runs under one operation id, one was only asked to wait for a
\* confirmation or has been forgotten by the janitor.
OnceWhileRemembered ==
  \A c, d \in Calls :
    c # d /\ {c, d} \subseteq sent /\ req[c].id = req[d].id =>
      \E x \in {c, d} : x \in pruned \/ status[x] = "awaiting_confirmation"

\* An exact retry gets what the operation it repeats ended with, and never the
\* result of another session's or of a different request.
ReplayIsFaithful ==
  \A c \in Calls : reply[c].of # None =>
    LET x == reply[c].of IN
      /\ req[x].id = req[c].id
      /\ req[x].session = req[c].session /\ req[x].fp = req[c].fp
      /\ reply[c].status \in Terminal => status[x] = reply[c].status

\* An expiry hook only ever concerns a lease that is no longer current, so its
\* release cannot be addressed to the lease that replaced it.
HookLeaseIsGone ==
  \A l \in hooks : \A t \in Tabs : lease[t] # l

\* Every call returns, duplicates included.
EveryCallReturns ==
  \A c \in Calls : pc[c] # "idle" ~> pc[c] = "returned"

=============================================================================
