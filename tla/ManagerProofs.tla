---------------------------- MODULE ManagerProofs ----------------------------
(***************************************************************************)
(* Safety of the daemon's core state for any number of sessions, tabs,     *)
(* leases, operations, confirmations and concurrent calls.                 *)
(***************************************************************************)
EXTENDS Manager, TLAPS

\* A call that owns an operation object and has not recorded its result.
Working == {"begun", "queued", "sent", "awaiting_confirmation"} \cup Terminal

\* A lease that is or was in the table was issued, so no fresh id is equal to it.
Issued(l) == leaseOf[l].session # None

\* What is known of a call by where it is: its request is complete once it was
\* made, its object runs exactly while it is at work, and only what has an object
\* was sent or can have aged.
CallState ==
  \A c \in Calls :
    /\ pc[c] = "idle" => status[c] = "none" /\ reply[c] = NoReply /\ under[c] = None
    /\ pc[c] # "idle" => req[c].id \in OpIds
    /\ pc[c] = "waiting" => waitsFor[c] \in Calls
    /\ status[c] = "running" <=> pc[c] \in Working
    /\ c \in sent => status[c] # "none"
    /\ c \in aged => status[c] \notin {"none", "running"}

\* The queue of a tab holds calls that are queued for it, each once.
QueueState ==
  \A t \in Tabs :
    /\ \A i \in DOMAIN queue[t] : pc[queue[t][i]] = "queued" /\ req[queue[t][i]].tab = t
    /\ \A i, j \in DOMAIN queue[t] : queue[t][i] = queue[t][j] => i = j

\* The table maps an id to an object made under it.  An object that is not in the
\* table was forgotten, or replaced after it had asked for a confirmation.
Remembered ==
  /\ \A o \in OpIds : operations[o] # None =>
       status[operations[o]] # "none" /\ req[operations[o]].id = o
  /\ \A c \in Calls : status[c] # "none" =>
       \/ operations[req[c].id] = c
       \/ c \in pruned \/ status[c] = "awaiting_confirmation"
  /\ \A c \in Calls : status[c] = "running" => operations[req[c].id] = c

\* What a call waits for, and what it was answered from, is an object made for
\* the same request.
Joined(c, x) ==
  /\ status[x] # "none"
  /\ req[x].id = req[c].id /\ req[x].session = req[c].session /\ req[x].fp = req[c].fp

Answers ==
  \A c \in Calls :
    /\ pc[c] = "waiting" => Joined(c, waitsFor[c])
    /\ reply[c].of # None =>
         /\ Joined(c, reply[c].of)
         /\ reply[c].status \in Terminal => status[reply[c].of] = reply[c].status

\* The lease noted when a call started was issued to the call's session.
UnderIssued ==
  \A c \in Calls : under[c] # None =>
    /\ req[c].tab \in Tabs
    /\ req[c].session # None
    /\ leaseOf[under[c]].session = req[c].session

HooksIssued == \A l \in hooks : Issued(l)

LeaseInv == LeaseHolderIsOpen /\ HookLeaseIsGone /\ HooksIssued
OpInv == CallState /\ QueueState /\ Remembered /\ Answers
WorkInv == UnderIssued /\ LostLeaseStopsWork /\ ClosedSessionIsQuiet

IInv == TypeOK /\ LeaseInv /\ OpInv /\ WorkInv

-----------------------------------------------------------------------------
(* What a step that leaves a group of variables alone preserves.           *)

\* The invariant holds at the start.
LEMMA InitIInv == Init => IInv
<1> SUFFICES ASSUME Init PROVE IInv
  OBVIOUS
<1> USE DEF Init
<1>1. TypeOK
  <2>1. queue \in [Tabs -> Seq(Calls)]
    OBVIOUS
  <2>2. /\ pc \in [Calls -> CallLocations]
        /\ status \in [Calls -> Statuses]
        /\ reply \in [Calls -> [of : Calls \cup {None}, status : Statuses \cup {"refused"}]]
    BY DEF CallLocations, Statuses, Terminal, NoReply
  <2> QED
    BY <2>1, <2>2 DEF TypeOK, NoRequest, NoLeaseInfo, NoConf
<1>2. LeaseInv
  BY DEF LeaseInv, LeaseHolderIsOpen, HookLeaseIsGone, HooksIssued
<1>3. CallState
  BY DEF CallState, Working, Terminal
<1>4. QueueState /\ Remembered /\ Answers
  BY DEF QueueState, Remembered, Answers, NoReply
<1>5. WorkInv
  BY DEF WorkInv, UnderIssued, LostLeaseStopsWork, ClosedSessionIsQuiet
<1> QED
  BY <1>1, <1>2, <1>3, <1>4, <1>5 DEF IInv, OpInv

\* A step that leaves operations and calls alone keeps what is known of them.
LEMMA OpFrame ==
  ASSUME OpInv, UNCHANGED <<opVars, pc, req, waitsFor, reply, under, sent, queue>>
  PROVE  OpInv'
BY DEF opVars, OpInv, CallState, QueueState, Remembered, Answers, Joined, NoReply

\* A step that leaves sessions, leases and hooks alone keeps what is known of them.
LEMMA LeaseFrame ==
  ASSUME LeaseInv, UNCHANGED <<session, lease, leaseOf, hooks>>
  PROVE  LeaseInv'
BY DEF LeaseInv, LeaseHolderIsOpen, HookLeaseIsGone, HooksIssued, Issued, Open

\* Stopping more calls and settling confirmations disturbs nothing.
LEMMA WorkFrame ==
  ASSUME WorkInv, UNCHANGED <<session, lease, leaseOf, under>>,
         stopped \subseteq stopped',
         \A c \in Calls : status'[c] = "running" => status[c] = "running" /\ req'[c] = req[c],
         \A c \in Calls : under[c] # None => req'[c] = req[c],
         \A f \in ConfIds : conf'[f].status = "pending" => conf'[f] = conf[f]
  PROVE  WorkInv'
BY DEF WorkInv, UnderIssued, LostLeaseStopsWork, ClosedSessionIsQuiet

-----------------------------------------------------------------------------
(* Cancelling work.                                                        *)

\* The part of the type invariant that the operations' critical sections touch.
OpTypes ==
  /\ operations \in [OpIds -> Calls \cup {None}]
  /\ status \in [Calls -> Statuses]
  /\ aged \subseteq Calls /\ pruned \subseteq Calls
  /\ stopped \subseteq Calls /\ sent \subseteq Calls
  /\ pc \in [Calls -> CallLocations]
  /\ req \in [Calls -> [id : OpIds \cup {None}, session : Sessions \cup {None},
                        tab : Tabs \cup {None}, fp : Fingerprints \cup {None}]]
  /\ waitsFor \in [Calls -> Calls \cup {None}]
  /\ reply \in [Calls -> [of : Calls \cup {None}, status : Statuses \cup {"refused"}]]
  /\ under \in [Calls -> LeaseIds \cup {None}]
  /\ queue \in [Tabs -> Seq(Calls)]
  /\ active \in [Tabs -> Calls \cup {None}]

\* An operation that only waits for a confirmation may be finished.
LEMMA FinishOps ==
  ASSUME TypeOK, OpInv, NEW D, NEW final \in Terminal,
         \A c \in D : Registered(c) /\ status[c] = "awaiting_confirmation",
         status' = [c \in Calls |-> IF c \in D THEN final ELSE status[c]],
         aged' = aged \ D,
         UNCHANGED <<operations, pruned, pc, req, waitsFor, reply, under, sent, queue>>
  PROVE  /\ OpInv'
         /\ status' \in [Calls -> Statuses] /\ aged' \subseteq Calls
         /\ \A c \in Calls : status'[c] = "running" <=> status[c] = "running"
<1>1. /\ status' \in [Calls -> Statuses] /\ aged' \subseteq Calls
      /\ \A c \in Calls : /\ status'[c] = "running" <=> status[c] = "running"
                          /\ status'[c] = "none" <=> status[c] = "none"
                          /\ status[c] \in Terminal => status'[c] = status[c]
  BY DEF TypeOK, Statuses, Terminal
<1>2. CallState'
  BY <1>1 DEF OpInv, CallState
<1>3. QueueState'
  BY DEF OpInv, QueueState
<1>4. Remembered'
  BY <1>1 DEF OpInv, Remembered, Registered, TypeOK, CallState
<1>5. Answers'
  BY <1>1 DEF OpInv, CallState, Answers, Joined, TypeOK
<1> QED
  BY <1>1, <1>2, <1>3, <1>4, <1>5 DEF OpInv

\* Calls that are queued for some tabs leave with CANCELLED as the queues of these
\* tabs are emptied.
LEMMA DropQueued ==
  ASSUME TypeOK, OpInv, NEW T \in SUBSET Tabs,
         queue' = [t \in Tabs |-> IF t \in T THEN <<>> ELSE queue[t]],
         pc' = [c \in Calls |-> IF pc[c] = "queued" /\ req[c].tab \in T
                                THEN "cancelled" ELSE pc[c]],
         UNCHANGED req
  PROVE  /\ queue' \in [Tabs -> Seq(Calls)] /\ pc' \in [Calls -> CallLocations]
         /\ QueueState'
         /\ \A c \in Calls : /\ pc'[c] = "idle" <=> pc[c] = "idle"
                             /\ pc'[c] = "waiting" <=> pc[c] = "waiting"
                             /\ pc'[c] \in Working <=> pc[c] \in Working
<1>1. queue' \in [Tabs -> Seq(Calls)] /\ pc' \in [Calls -> CallLocations]
  BY DEF TypeOK, CallLocations, Terminal
<1>2. \A c \in Calls : /\ pc'[c] = "idle" <=> pc[c] = "idle"
                       /\ pc'[c] = "waiting" <=> pc[c] = "waiting"
                       /\ pc'[c] \in Working <=> pc[c] \in Working
  BY DEF Working, Terminal
<1>3. QueueState'
  <2> SUFFICES ASSUME NEW t \in Tabs
               PROVE  /\ \A i \in DOMAIN queue'[t] :
                           pc'[queue'[t][i]] = "queued" /\ req[queue'[t][i]].tab = t
                      /\ \A i, j \in DOMAIN queue'[t] : queue'[t][i] = queue'[t][j] => i = j
    BY DEF QueueState
  <2>1. CASE t \in T
    <3>1. queue'[t] = <<>> /\ DOMAIN queue'[t] = {}
      BY <2>1
    <3> QED
      BY <3>1
  <2>2. CASE t \notin T
    <3>1. queue'[t] = queue[t]
      BY <2>2
    <3>2. \A i \in DOMAIN queue[t] : queue[t][i] \in Calls
      BY DEF TypeOK
    <3> QED
      BY <2>2, <3>1, <3>2 DEF OpInv, QueueState
  <2> QED
    BY <2>1, <2>2
<1> QED
  BY <1>1, <1>2, <1>3

\* Cancelling stops the running operations it is asked to stop and finishes none.
LEMMA CancelWorkOps ==
  ASSUME TypeOK, OpInv, NEW T \in SUBSET Tabs, NEW C \in SUBSET Calls, CancelWork(T, C)
  PROVE  /\ OpInv' /\ OpTypes'
         /\ \A c \in Calls : status'[c] = "running" <=> status[c] = "running"
         /\ stopped \subseteq stopped'
         /\ \A c \in C : status[c] = "running" => c \in stopped'
         /\ UNCHANGED <<req, under>>
<1> DEFINE waiting == {c \in C : Registered(c) /\ status[c] = "awaiting_confirmation"}
<1> DEFINE running == {c \in C : Registered(c) /\ status[c] = "running"}
<1>1. /\ status' = [c \in Calls |-> IF c \in waiting THEN "cancelled" ELSE status[c]]
      /\ aged' = aged \ waiting
      /\ stopped' = stopped \cup running \cup ({active[t] : t \in T} \ {None})
      /\ queue' = [t \in Tabs |-> IF t \in T THEN <<>> ELSE queue[t]]
      /\ UNCHANGED <<active, operations, pruned, req, waitsFor, reply, under, sent>>
  BY DEF CancelWork
<1>2. pc' = [c \in Calls |-> IF pc[c] = "queued" /\ req[c].tab \in T THEN "cancelled" ELSE pc[c]]
  BY DEF CancelWork
<1>3. /\ queue' \in [Tabs -> Seq(Calls)] /\ pc' \in [Calls -> CallLocations]
      /\ QueueState'
      /\ \A c \in Calls : /\ pc'[c] = "idle" <=> pc[c] = "idle"
                          /\ pc'[c] = "waiting" <=> pc[c] = "waiting"
                          /\ pc'[c] \in Working <=> pc[c] \in Working
  BY <1>1, <1>2, DropQueued
<1>4. \A c \in waiting : Registered(c) /\ status[c] = "awaiting_confirmation"
  OBVIOUS
<1> HIDE DEF waiting
<1>5. /\ status' \in [Calls -> Statuses] /\ aged' \subseteq Calls
      /\ \A c \in Calls : /\ status'[c] = "running" <=> status[c] = "running"
                          /\ status'[c] = "none" <=> status[c] = "none"
                          /\ status[c] \in Terminal => status'[c] = status[c]
  BY <1>1, <1>4 DEF TypeOK, Statuses, Terminal
<1>6. stopped' \subseteq Calls /\ stopped \subseteq stopped'
  BY <1>1 DEF TypeOK
<1>7. \A c \in C : status[c] = "running" => c \in stopped'
  BY <1>1 DEF OpInv, Remembered, Registered
<1>8. CallState'
  BY <1>1, <1>3, <1>5 DEF OpInv, CallState
<1>9. Remembered'
  BY <1>1, <1>4, <1>5 DEF OpInv, Remembered, Registered, TypeOK, CallState
<1>10. Answers'
  BY <1>1, <1>3, <1>5 DEF OpInv, CallState, Answers, Joined, TypeOK
<1>11. OpTypes'
  BY <1>1, <1>3, <1>5, <1>6 DEF OpTypes, TypeOK
<1> QED
  BY <1>1, <1>3, <1>5, <1>6, <1>7, <1>8, <1>9, <1>10, <1>11 DEF OpInv

-----------------------------------------------------------------------------
(* Leases.                                                                 *)

ConfTypes ==
  conf \in [ConfIds -> [status : {"none", "pending", "approved", "denied", "expired",
                                  "cancelled", "consumed"},
                        session : Sessions \cup {None}, tab : Tabs \cup {None},
                        browser : Browsers \cup {None}, op : OpIds \cup {None}]]

\* Whatever happens to the leases of some tabs, the work under them is stopped.
LEMMA LosingStopsWork ==
  ASSUME IInv, NEW T \in SUBSET Tabs, NEW C \in SUBSET Calls,
         WorkUnder(T) \subseteq C, CancelWork(T, C),
         \A t \in Tabs \ T : lease'[t] = lease[t],
         \A l \in LeaseIds : Issued(l) => leaseOf'[l].session = leaseOf[l].session
  PROVE  UnderIssued' /\ LostLeaseStopsWork'
<1>1. /\ \A c \in Calls : status'[c] = "running" <=> status[c] = "running"
      /\ stopped \subseteq stopped'
      /\ \A c \in C : status[c] = "running" => c \in stopped'
      /\ UNCHANGED <<req, under>>
  BY CancelWorkOps DEF IInv
<1>2. \A c \in Calls : under[c] # None =>
        /\ under[c] \in LeaseIds /\ req[c].tab \in Tabs /\ req[c].session # None
        /\ leaseOf[under[c]].session = req[c].session
  BY DEF IInv, TypeOK, WorkInv, UnderIssued
<1>3. UnderIssued'
  BY <1>1, <1>2 DEF UnderIssued, Issued
<1>4. ASSUME NEW c \in Calls, status'[c] = "running", under'[c] # None, c \notin stopped'
      PROVE  lease'[req'[c].tab] = under'[c]
  <2>1. status[c] = "running" /\ under[c] # None /\ c \notin stopped
    BY <1>1, <1>4
  <2>2. lease[req[c].tab] = under[c]
    BY <2>1 DEF IInv, WorkInv, LostLeaseStopsWork
  <2>3. req[c].tab \notin T
    BY <1>1, <1>2, <1>4, <2>1, <2>2 DEF WorkUnder
  <2> QED
    BY <1>1, <1>2, <2>1, <2>2, <2>3
<1> QED
  BY <1>3, <1>4 DEF LostLeaseStopsWork

\* The leases of some tabs go; a hook may be started for them.
LEMMA LeasesGo ==
  ASSUME IInv, NEW T \in SUBSET Tabs,
         UNCHANGED leaseOf,
         lease' = [t \in Tabs |-> IF t \in T THEN None ELSE lease[t]],
         \A l \in hooks' : l \in hooks \/ \E t \in T : lease[t] # None /\ l = lease[t],
         \A t \in Tabs \ T : lease[t] # None => session'[leaseOf[lease[t]].session] = "open"
  PROVE  /\ LeaseInv'
         /\ lease' \in [Tabs -> LeaseIds \cup {None}] /\ hooks' \subseteq LeaseIds
<1>1. lease' \in [Tabs -> LeaseIds \cup {None}] /\ hooks' \subseteq LeaseIds
  BY DEF IInv, TypeOK
<1>2. LeaseHolderIsOpen'
  BY DEF IInv, LeaseInv, LeaseHolderIsOpen, Open
<1>3. HooksIssued'
  BY DEF IInv, LeaseInv, LeaseHolderIsOpen, HooksIssued, Issued, TypeOK
<1>4. HookLeaseIsGone'
  <2> SUFFICES ASSUME NEW l \in hooks', NEW t \in Tabs, lease'[t] = l PROVE FALSE
    BY DEF HookLeaseIsGone
  <2>1. l # None /\ t \notin T /\ lease[t] = l
    BY <1>1, NoneAssumption
  <2>2. CASE l \in hooks
    BY <2>1, <2>2 DEF IInv, LeaseInv, HookLeaseIsGone
  <2>3. CASE \E u \in T : l = lease[u]
    BY <2>1, <2>3 DEF IInv, LeaseInv, LeaseHolderIsOpen
  <2> QED
    BY <2>2, <2>3
<1> QED
  BY <1>1, <1>2, <1>3, <1>4 DEF LeaseInv

\* DropLeases with or without the hooks, and nothing else.
LEMMA DropLeasesIInv ==
  ASSUME IInv, NEW T \in SUBSET Tabs, DropLeases(T),
         \A l \in hooks' : l \in hooks \/ \E t \in T : lease[t] # None /\ l = lease[t],
         \A f \in ConfIds : conf'[f].status = "pending" => conf'[f] = conf[f],
         ConfTypes',
         UNCHANGED <<session, leaseOf, expired, confExpired>>
  PROVE  IInv'
<1> DEFINE C == WorkUnder(T)
<1>1. /\ C \in SUBSET Calls /\ CancelWork(T, C)
      /\ lease' = [t \in Tabs |-> IF t \in T THEN None ELSE lease[t]]
  BY DEF DropLeases, WorkUnder
<1>2. /\ OpInv' /\ OpTypes'
      /\ \A c \in Calls : status'[c] = "running" <=> status[c] = "running"
      /\ stopped \subseteq stopped' /\ UNCHANGED <<req, under>>
  BY <1>1, CancelWorkOps DEF IInv
<1>3. /\ LeaseInv'
      /\ lease' \in [Tabs -> LeaseIds \cup {None}] /\ hooks' \subseteq LeaseIds
  <2>1. \A t \in Tabs \ T : lease[t] # None => session'[leaseOf[lease[t]].session] = "open"
    BY DEF IInv, LeaseInv, LeaseHolderIsOpen, Open
  <2> QED
    BY <1>1, <2>1, LeasesGo
<1>4. UnderIssued' /\ LostLeaseStopsWork'
  <2>1. \A t \in Tabs \ T : lease'[t] = lease[t]
    BY <1>1
  <2> QED
    BY <1>1, <2>1, LosingStopsWork
<1>5. ClosedSessionIsQuiet'
  BY <1>2 DEF IInv, WorkInv, ClosedSessionIsQuiet
<1>6. TypeOK'
  BY <1>2, <1>3 DEF IInv, TypeOK, OpTypes, ConfTypes
<1> QED
  BY <1>2, <1>3, <1>4, <1>5, <1>6 DEF IInv, WorkInv

\* Confirmations that are cancelled are no longer pending, the others stay.
LEMMA CancelledConfirmations ==
  ASSUME TypeOK, NEW F, CancelConfirmations(F)
  PROVE  /\ ConfTypes'
         /\ \A f \in ConfIds : conf'[f].status = "pending" => conf'[f] = conf[f] /\ f \notin F
<1>1. ASSUME NEW f \in ConfIds
      PROVE  /\ conf'[f] = IF f \in F /\ conf[f].status = "pending"
                           THEN [conf[f] EXCEPT !.status = "cancelled"] ELSE conf[f]
             /\ conf'[f] \in [status : {"none", "pending", "approved", "denied", "expired",
                                        "cancelled", "consumed"},
                              session : Sessions \cup {None}, tab : Tabs \cup {None},
                              browser : Browsers \cup {None}, op : OpIds \cup {None}]
             /\ conf'[f].status = "pending" => conf'[f] = conf[f] /\ f \notin F
  <2>1. conf'[f] = IF f \in F /\ conf[f].status = "pending"
                   THEN [conf[f] EXCEPT !.status = "cancelled"] ELSE conf[f]
    BY DEF CancelConfirmations
  <2> QED
    BY <2>1 DEF TypeOK
<1> QED
  BY <1>1 DEF CancelConfirmations, ConfTypes

\* The common part of a release, a revocation and an expiry: one lease goes, with its work.
LEMMA OneLeaseGoes ==
  ASSUME NEW t \in Tabs, IInv, DropLeases({t}),
         hooks' = hooks \/ (lease[t] # None /\ hooks' = hooks \cup {lease[t]}),
         UNCHANGED <<session, leaseOf, expired, conf, confExpired>>
  PROVE  IInv'
<1>1. \A l \in hooks' : l \in hooks \/ \E u \in {t} : lease[u] # None /\ l = lease[u]
  OBVIOUS
<1>2. ConfTypes'
  BY DEF IInv, TypeOK, ConfTypes
<1> QED
  BY <1>1, <1>2, DropLeasesIInv

\* All the leases of a browser go at once.
LEMMA RevokeBrowserIInv ==
  ASSUME NEW b \in Browsers, IInv, RevokeBrowser(b)
  PROVE  IInv'
<1> DEFINE T == {t \in Tabs : lease[t] # None /\ leaseOf[lease[t]].browser = b}
           F == {f \in ConfIds : conf[f].browser = b}
<1>1. /\ T \in SUBSET Tabs /\ DropLeases(T) /\ CancelConfirmations(F)
      /\ UNCHANGED <<session, leaseOf, expired, hooks, confExpired>>
  BY DEF RevokeBrowser, sessionVars
<1>2. /\ ConfTypes'
      /\ \A f \in ConfIds : conf'[f].status = "pending" => conf'[f] = conf[f]
  BY <1>1, CancelledConfirmations DEF IInv
<1> QED
  BY <1>1, <1>2, DropLeasesIInv

\* session.open makes a session with no lease and no work.
LEMMA OpenSessionIInv ==
  ASSUME NEW s \in Sessions, IInv, OpenSession(s)
  PROVE  IInv'
<1> USE DEF OpenSession, leaseVars, opVars, callVars, queueVars, confVars
<1>1. TypeOK'
  BY DEF IInv, TypeOK
<1>2. LeaseInv'
  BY DEF IInv, TypeOK, LeaseInv, LeaseHolderIsOpen, HookLeaseIsGone, HooksIssued, Issued, Open
<1>3. OpInv'
  BY OpFrame DEF IInv
<1>4. WorkInv'
  BY DEF IInv, TypeOK, WorkInv, UnderIssued, LostLeaseStopsWork, ClosedSessionIsQuiet
<1> QED
  BY <1>1, <1>2, <1>3, <1>4 DEF IInv

\* Sessions are closed together with all that is theirs.
LEMMA SessionsClose ==
  ASSUME IInv, NEW S \in SUBSET Sessions, NEW T \in SUBSET Tabs, NEW C \in SUBSET Calls, NEW F,
         session' = [s \in Sessions |-> IF s \in S THEN "closed" ELSE session[s]],
         \A t \in Tabs : lease[t] # None /\ leaseOf[lease[t]].session \in S => t \in T,
         \A c \in Calls : req[c].session \in S => c \in C,
         \A f \in ConfIds : conf[f].session \in S => f \in F,
         WorkUnder(T) \subseteq C,
         lease' = [t \in Tabs |-> IF t \in T THEN None ELSE lease[t]],
         CancelWork(T, C), CancelConfirmations(F),
         UNCHANGED <<leaseOf, expired, hooks, confExpired>>
  PROVE  IInv'
<1>1. /\ OpInv' /\ OpTypes'
      /\ \A c \in Calls : status'[c] = "running" <=> status[c] = "running"
      /\ stopped \subseteq stopped' /\ UNCHANGED <<req, under>>
      /\ \A c \in C : status[c] = "running" => c \in stopped'
  BY CancelWorkOps DEF IInv
<1>2. /\ ConfTypes'
      /\ \A f \in ConfIds : conf'[f].status = "pending" => conf'[f] = conf[f] /\ f \notin F
  BY CancelledConfirmations DEF IInv
<1>3. /\ LeaseInv'
      /\ lease' \in [Tabs -> LeaseIds \cup {None}] /\ hooks' \subseteq LeaseIds
  <2>1. \A t \in Tabs \ T : lease[t] # None => session'[leaseOf[lease[t]].session] = "open"
    BY DEF IInv, LeaseInv, LeaseHolderIsOpen, Open, TypeOK
  <2> QED
    BY <2>1, LeasesGo
<1>4. UnderIssued' /\ LostLeaseStopsWork'
  BY LosingStopsWork
<1>5. ClosedSessionIsQuiet'
  BY <1>1, <1>2 DEF IInv, TypeOK, WorkInv, ClosedSessionIsQuiet
<1>6. TypeOK'
  BY <1>1, <1>2, <1>3 DEF IInv, TypeOK, OpTypes, ConfTypes
<1> QED
  BY <1>1, <1>3, <1>4, <1>5, <1>6 DEF IInv, WorkInv

\* Closing a session takes its leases, stops its work and cancels its confirmations.
LEMMA CloseSessionIInv ==
  ASSUME NEW s \in Sessions, IInv, CloseSession(s)
  PROVE  IInv'
<1> DEFINE C == {c \in Calls : req[c].session = s}
           F == {f \in ConfIds : conf[f].session = s}
<1>1. session' = [x \in Sessions |-> IF x \in {s} THEN "closed" ELSE session[x]]
  BY DEF CloseSession, IInv, TypeOK
<1>2. WorkUnder(LeasesOf(s)) \subseteq C
  BY DEF WorkUnder, LeasesOf
<1>3. /\ LeasesOf(s) \in SUBSET Tabs /\ C \in SUBSET Calls /\ {s} \in SUBSET Sessions
      /\ \A t \in Tabs : lease[t] # None /\ leaseOf[lease[t]].session \in {s} => t \in LeasesOf(s)
      /\ \A c \in Calls : req[c].session \in {s} => c \in C
      /\ \A f \in ConfIds : conf[f].session \in {s} => f \in F
  BY DEF LeasesOf
<1> QED
  BY <1>1, <1>2, <1>3, SessionsClose DEF CloseSession

\* StopAll does so for every session.
LEMMA StopAllIInv ==
  ASSUME IInv, StopAll
  PROVE  IInv'
<1> DEFINE S == {s \in Sessions : Open(s)}
           T == {t \in Tabs : lease[t] # None}
<1>1. /\ session' = [s \in Sessions |-> IF s \in S THEN "closed" ELSE session[s]]
      /\ lease' = [t \in Tabs |-> IF t \in T THEN None ELSE lease[t]]
  BY DEF StopAll, Open, IInv, TypeOK
<1>2. /\ S \in SUBSET Sessions /\ T \in SUBSET Tabs /\ Calls \in SUBSET Calls
      /\ WorkUnder(T) \subseteq Calls
      /\ \A t \in Tabs : lease[t] # None /\ leaseOf[lease[t]].session \in S => t \in T
  BY DEF WorkUnder
<1> HIDE DEF S
<1> QED
  BY <1>1, <1>2, SessionsClose DEF StopAll

\* A lease that was issued before is not the fresh one, so the new lease disturbs
\* neither the other tabs' leases nor the hooks.
LEMMA IssueLease ==
  ASSUME IInv, NEW s \in Sessions, NEW t \in Tabs, NEW l \in LeaseIds, Open(s), Issue(s, t, l),
         \A h \in hooks' : h \in hooks \/ (lease[t] # None /\ h = lease[t]),
         UNCHANGED session
  PROVE  /\ LeaseInv'
         /\ lease' \in [Tabs -> LeaseIds \cup {None}] /\ hooks' \subseteq LeaseIds
         /\ leaseOf' \in [LeaseIds -> [session : Sessions \cup {None}, tab : Tabs \cup {None},
                                       browser : Browsers \cup {None}]]
         /\ \A k \in LeaseIds : Issued(k) => leaseOf'[k] = leaseOf[k]
         /\ \A u \in Tabs \ {t} : lease'[u] = lease[u]
<1>1. /\ lease' = [lease EXCEPT ![t] = l] /\ ~Issued(l)
      /\ leaseOf' = [leaseOf EXCEPT ![l] = [session |-> s, tab |-> t, browser |-> None]]
  BY DEF Issue, Issued, NoLeaseInfo
<1>2. lease \in [Tabs -> LeaseIds \cup {None}] /\ l # None /\ s # None
  BY NoneAssumption DEF IInv, TypeOK
<1>3. /\ lease' \in [Tabs -> LeaseIds \cup {None}] /\ hooks' \subseteq LeaseIds
      /\ leaseOf' \in [LeaseIds -> [session : Sessions \cup {None}, tab : Tabs \cup {None},
                                    browser : Browsers \cup {None}]]
  BY <1>1, <1>2 DEF IInv, TypeOK
<1>4. /\ leaseOf'[l] = [session |-> s, tab |-> t, browser |-> None]
      /\ \A k \in LeaseIds : k # l => leaseOf'[k] = leaseOf[k]
      /\ lease'[t] = l /\ \A u \in Tabs \ {t} : lease'[u] = lease[u]
  BY <1>1 DEF IInv, TypeOK
<1>5. \A u \in Tabs : lease[u] # None =>
        /\ lease[u] \in LeaseIds /\ Issued(lease[u]) /\ lease[u] # l
        /\ leaseOf[lease[u]].tab = u /\ Open(leaseOf[lease[u]].session)
  BY <1>1, <1>2 DEF IInv, LeaseInv, LeaseHolderIsOpen, Issued
<1>6. LeaseHolderIsOpen'
  <2> SUFFICES ASSUME NEW u \in Tabs, lease'[u] # None
               PROVE  /\ leaseOf'[lease'[u]].tab = u
                      /\ leaseOf'[lease'[u]].session # None
                      /\ session[leaseOf'[lease'[u]].session] = "open"
    BY DEF LeaseHolderIsOpen, Open
  <2>1. CASE u = t
    <3>1. leaseOf'[lease'[u]].tab = t /\ leaseOf'[lease'[u]].session = s
      BY <1>4, <2>1
    <3> QED
      BY <1>2, <2>1, <3>1 DEF Open
  <2>2. CASE u # t
    BY <1>4, <1>5, <2>2 DEF Open, Issued
  <2> QED
    BY <2>1, <2>2
<1>7. \A h \in hooks' : h \in LeaseIds /\ Issued(h) /\ h # l
  BY <1>1, <1>3, <1>5 DEF IInv, LeaseInv, HooksIssued
<1>8. HooksIssued'
  BY <1>4, <1>7 DEF HooksIssued, Issued
<1>9. HookLeaseIsGone'
  BY <1>4, <1>5, <1>7 DEF IInv, LeaseInv, HookLeaseIsGone
<1> QED
  BY <1>1, <1>3, <1>4, <1>6, <1>8, <1>9 DEF LeaseInv

\* A takeover stops the work of the lease it replaces before it issues a new one.
LEMMA ClaimTabForceIInv ==
  ASSUME NEW s \in Sessions, NEW t \in Tabs, NEW l \in LeaseIds, NEW force \in BOOLEAN,
         IInv, ClaimTabForce(s, t, force, l)
  PROVE  IInv'
<1>1. Open(s) /\ Issue(s, t, l) /\ UNCHANGED <<session, expired, conf, confExpired>>
  BY DEF ClaimTabForce, sessionVars, confVars
<1>2. \A h \in hooks' : h \in hooks \/ (lease[t] # None /\ h = lease[t])
  BY DEF ClaimTabForce
<1>3. /\ LeaseInv'
      /\ lease' \in [Tabs -> LeaseIds \cup {None}] /\ hooks' \subseteq LeaseIds
      /\ leaseOf' \in [LeaseIds -> [session : Sessions \cup {None}, tab : Tabs \cup {None},
                                    browser : Browsers \cup {None}]]
      /\ \A k \in LeaseIds : Issued(k) => leaseOf'[k] = leaseOf[k]
      /\ \A u \in Tabs \ {t} : lease'[u] = lease[u]
  BY <1>1, <1>2, IssueLease
<1>4. CASE lease[t] = None /\ NoWorkCancelled
  <2> USE <1>4 DEF NoWorkCancelled, queueVars, opVars, callVars
  <2>1. OpInv'
    BY OpFrame DEF IInv
  <2>2. UnderIssued'
    BY <1>3 DEF IInv, TypeOK, WorkInv, UnderIssued, Issued
  <2>3. LostLeaseStopsWork'
    BY <1>3 DEF IInv, WorkInv, LostLeaseStopsWork, UnderIssued
  <2>4. ClosedSessionIsQuiet'
    BY <1>1 DEF IInv, WorkInv, ClosedSessionIsQuiet
  <2>5. TypeOK'
    BY <1>1, <1>3 DEF IInv, TypeOK
  <2> QED
    BY <1>3, <2>1, <2>2, <2>3, <2>4, <2>5 DEF IInv, WorkInv
<1>5. CASE CancelWork({t}, WorkUnder({t}))
  <2>1. {t} \in SUBSET Tabs /\ WorkUnder({t}) \in SUBSET Calls
    BY DEF WorkUnder
  <2>2. /\ OpInv' /\ OpTypes'
        /\ \A c \in Calls : status'[c] = "running" <=> status[c] = "running"
        /\ stopped \subseteq stopped' /\ UNCHANGED <<req, under>>
    BY <1>5, <2>1, CancelWorkOps DEF IInv
  <2>3. UnderIssued' /\ LostLeaseStopsWork'
    BY <1>3, <1>5, <2>1, LosingStopsWork
  <2>4. ClosedSessionIsQuiet'
    BY <1>1, <2>2 DEF IInv, WorkInv, ClosedSessionIsQuiet
  <2>5. TypeOK'
    BY <1>1, <1>3, <2>2 DEF IInv, TypeOK, OpTypes
  <2> QED
    BY <1>3, <2>2, <2>3, <2>4, <2>5 DEF IInv, WorkInv
<1> QED
  BY <1>4, <1>5 DEF ClaimTabForce

\* A lease learns its browser.
LEMMA BindLeaseBrowserIInv ==
  ASSUME NEW s \in Sessions, NEW t \in Tabs, NEW l \in LeaseIds, NEW b \in Browsers,
         IInv, BindLeaseBrowser(s, t, l, b)
  PROVE  IInv'
<1>1. /\ leaseOf' = [leaseOf EXCEPT ![l].browser = b]
      /\ UNCHANGED <<session, lease, expired, hooks, opVars, callVars, queueVars, confVars>>
  BY DEF BindLeaseBrowser, sessionVars
<1>2. /\ leaseOf' \in [LeaseIds -> [session : Sessions \cup {None}, tab : Tabs \cup {None},
                                    browser : Browsers \cup {None}]]
      /\ \A k \in LeaseIds : leaseOf'[k].session = leaseOf[k].session
                             /\ leaseOf'[k].tab = leaseOf[k].tab
  <2>1. leaseOf \in [LeaseIds -> [session : Sessions \cup {None}, tab : Tabs \cup {None},
                                  browser : Browsers \cup {None}]]
    BY DEF IInv, TypeOK
  <2>2. /\ leaseOf'[l] = [leaseOf[l] EXCEPT !.browser = b]
        /\ \A k \in LeaseIds \ {l} : leaseOf'[k] = leaseOf[k]
        /\ DOMAIN leaseOf' = LeaseIds
        /\ leaseOf' = [k \in LeaseIds |-> leaseOf'[k]]
    BY <1>1, <2>1
  <2>3. /\ leaseOf'[l] \in [session : Sessions \cup {None}, tab : Tabs \cup {None},
                            browser : Browsers \cup {None}]
        /\ leaseOf'[l].session = leaseOf[l].session /\ leaseOf'[l].tab = leaseOf[l].tab
    BY <2>1, <2>2
  <2> QED
    BY <2>1, <2>2, <2>3
<1> USE DEF opVars, callVars, queueVars, confVars
<1>3. TypeOK'
  BY <1>1, <1>2 DEF IInv, TypeOK
<1>4. LeaseInv'
  BY <1>1, <1>2 DEF IInv, TypeOK, LeaseInv, LeaseHolderIsOpen, HookLeaseIsGone, HooksIssued,
                    Issued, Open
<1>5. OpInv'
  BY <1>1, OpFrame DEF IInv
<1>6. WorkInv'
  BY <1>1, <1>2 DEF IInv, TypeOK, WorkInv, UnderIssued, LostLeaseStopsWork, ClosedSessionIsQuiet
<1> QED
  BY <1>3, <1>4, <1>5, <1>6 DEF IInv

\* Steps of time and of the hooks, which change neither work nor leases.
LEMMA HookOrClockIInv ==
  ASSUME IInv, hooks' \subseteq hooks, expired' \subseteq LeaseIds, confExpired' \subseteq ConfIds,
         UNCHANGED <<sessionVars, lease, leaseOf, opVars, callVars, queueVars, conf>>
  PROVE  IInv'
<1> USE DEF sessionVars, opVars, callVars, queueVars
<1>1. TypeOK'
  BY DEF IInv, TypeOK
<1>2. LeaseInv'
  BY DEF IInv, LeaseInv, LeaseHolderIsOpen, HookLeaseIsGone, HooksIssued, Issued, Open
<1>3. OpInv'
  BY OpFrame DEF IInv
<1>4. WorkInv'
  BY WorkFrame DEF IInv
<1> QED
  BY <1>1, <1>2, <1>3, <1>4 DEF IInv

\* Every step on sessions and leases keeps the invariant.
LEMMA LeaseNextIInv ==
  ASSUME IInv, LeaseNext
  PROVE  IInv'
<1>1. ASSUME NEW s \in Sessions, NEW t \in Tabs, NEW l \in LeaseIds, NEW force \in BOOLEAN,
             ClaimTabForce(s, t, force, l)
      PROVE  IInv'
  BY <1>1, ClaimTabForceIInv
<1>2. ASSUME NEW s \in Sessions, NEW t \in Tabs, NEW l \in LeaseIds, NEW b \in Browsers,
             BindLeaseBrowser(s, t, l, b)
      PROVE  IInv'
  BY <1>2, BindLeaseBrowserIInv
<1>3. ASSUME NEW s \in Sessions, NEW t \in Tabs, NEW l \in LeaseIds, ReleaseTab(s, t, l)
      PROVE  IInv'
  BY <1>3, OneLeaseGoes DEF ReleaseTab, sessionVars, confVars
<1>4. ASSUME NEW s \in Sessions, NEW t \in Tabs, NEW r \in BOOLEAN, ExpireOnUse(s, t, r)
      PROVE  IInv'
  BY <1>4, OneLeaseGoes DEF ExpireOnUse, sessionVars, confVars
<1>5. ASSUME NEW t \in Tabs, RevokeTab(t) PROVE IInv'
  BY <1>5, OneLeaseGoes DEF RevokeTab, sessionVars, confVars
<1>6. ASSUME NEW t \in Tabs, LeaseTimesOut(t) PROVE IInv'
  <2>1. expired' \subseteq LeaseIds /\ confExpired' \subseteq ConfIds
    BY <1>6 DEF LeaseTimesOut, Live, IInv, TypeOK, confVars
  <2> QED
    BY <1>6, <2>1, HookOrClockIInv DEF LeaseTimesOut, confVars
<1>7. ASSUME NEW b \in Browsers, RevokeBrowser(b) PROVE IInv'
  BY <1>7, RevokeBrowserIInv
<1>8. ASSUME NEW l \in LeaseIds, LeaseExpiredHook(l) PROVE IInv'
  <2>1. expired' \subseteq LeaseIds /\ confExpired' \subseteq ConfIds
    BY <1>8 DEF LeaseExpiredHook, IInv, TypeOK, confVars
  <2> QED
    BY <1>8, <2>1, HookOrClockIInv DEF LeaseExpiredHook, confVars
<1> QED
  BY <1>1, <1>2, <1>3, <1>4, <1>5, <1>6, <1>7, <1>8 DEF LeaseNext

-----------------------------------------------------------------------------
(* Operations.                                                             *)

\* Who stays queued stays where it is.
LEMMA QueueFrame ==
  ASSUME TypeOK, QueueState, UNCHANGED queue,
         \A x \in Calls : pc[x] = "queued" => pc'[x] = "queued" /\ req'[x].tab = req[x].tab
  PROVE  QueueState'
<1>1. \A t \in Tabs : \A i \in DOMAIN queue[t] : queue[t][i] \in Calls
  BY DEF TypeOK
<1> QED
  BY <1>1 DEF QueueState

\* What is known of a call that asks, and of the others.
LEMMA AskFacts ==
  ASSUME IInv, NEW c \in Calls, NEW s \in Sessions, NEW t \in Tabs \cup {None}, NEW o \in OpIds,
         NEW f \in Fingerprints, Ask(c, s, t, o, f)
  PROVE  /\ pc[c] = "idle" /\ status[c] = "none" /\ reply[c] = NoReply /\ under[c] = None
         /\ c \notin sent /\ c \notin aged
         /\ req' \in [Calls -> [id : OpIds \cup {None}, session : Sessions \cup {None},
                                tab : Tabs \cup {None}, fp : Fingerprints \cup {None}]]
         /\ req'[c].id = o /\ req'[c].session = s /\ req'[c].tab = t /\ req'[c].fp = f
         /\ \A x \in Calls \ {c} : req'[x] = req[x]
         /\ \A x \in Calls : status[x] # "none" => req'[x] = req[x]
         /\ UNCHANGED <<session, leaseVars, queue, active, conf, confExpired, pruned, sent, stopped>>
<1>1. /\ pc[c] = "idle" /\ status[c] = "none" /\ reply[c] = NoReply /\ under[c] = None
      /\ c \notin sent /\ c \notin aged
  BY DEF Ask, IInv, OpInv, CallState
<1>2. req' = [req EXCEPT ![c] = [id |-> o, session |-> s, tab |-> t, fp |-> f]]
  BY DEF Ask
<1>3. /\ req'[c] = [id |-> o, session |-> s, tab |-> t, fp |-> f]
      /\ \A x \in Calls \ {c} : req'[x] = req[x]
      /\ req' \in [Calls -> [id : OpIds \cup {None}, session : Sessions \cup {None},
                             tab : Tabs \cup {None}, fp : Fingerprints \cup {None}]]
  BY <1>2 DEF IInv, TypeOK
<1> QED
  BY <1>1, <1>3 DEF Ask, sessionVars, queueVars, confVars

\* Without an object of its own: refused, answered from the table, or waiting.
LEMMA AskWithoutObject ==
  ASSUME IInv, NEW c \in Calls, NEW s \in Sessions, NEW t \in Tabs \cup {None}, NEW o \in OpIds,
         NEW f \in Fingerprints, Ask(c, s, t, o, f),
         NEW where \in {"returned", "waiting"}, pc' = [pc EXCEPT ![c] = where],
         waitsFor' = waitsFor \/ (where = "waiting" /\ waitsFor' = [waitsFor EXCEPT ![c] = Existing(o)]),
         where = "waiting" => waitsFor'[c] = Existing(o),
         NEW r, reply' = reply \/ (where = "returned" /\ reply' = [reply EXCEPT ![c] = r]),
         r = [of |-> None, status |-> "refused"]
           \/ r = [of |-> Existing(o), status |-> status[Existing(o)]],
         (where = "waiting" \/ (reply' # reply /\ r # [of |-> None, status |-> "refused"])) =>
           Existing(o) # None /\ SameRequest(Existing(o), s, f),
         UNCHANGED <<operations, status, aged, under>>
  PROVE  IInv'
<1>1. /\ pc[c] = "idle" /\ status[c] = "none" /\ reply[c] = NoReply /\ under[c] = None
      /\ c \notin sent /\ c \notin aged
      /\ req' \in [Calls -> [id : OpIds \cup {None}, session : Sessions \cup {None},
                             tab : Tabs \cup {None}, fp : Fingerprints \cup {None}]]
      /\ req'[c].id = o /\ req'[c].session = s /\ req'[c].tab = t /\ req'[c].fp = f
      /\ \A x \in Calls \ {c} : req'[x] = req[x]
      /\ \A x \in Calls : status[x] # "none" => req'[x] = req[x]
      /\ UNCHANGED <<session, leaseVars, queue, active, conf, confExpired, pruned, sent, stopped>>
  BY AskFacts
<1>2. /\ pc'[c] = where /\ \A x \in Calls \ {c} : pc'[x] = pc[x]
      /\ pc' \in [Calls -> CallLocations]
  BY DEF IInv, TypeOK, CallLocations
<1>3. Existing(o) # None =>
        Existing(o) \in Calls /\ status[Existing(o)] # "none" /\ req[Existing(o)].id = o
  BY DEF Existing, IInv, TypeOK, OpInv, Remembered
<1>4. /\ reply' \in [Calls -> [of : Calls \cup {None}, status : Statuses \cup {"refused"}]]
      /\ \A x \in Calls \ {c} : reply'[x] = reply[x]
      /\ reply'[c] \in {NoReply, r}
      /\ waitsFor' \in [Calls -> Calls \cup {None}]
      /\ \A x \in Calls \ {c} : waitsFor'[x] = waitsFor[x]
  <2>1. /\ reply \in [Calls -> [of : Calls \cup {None}, status : Statuses \cup {"refused"}]]
        /\ waitsFor \in [Calls -> Calls \cup {None}] /\ status \in [Calls -> Statuses]
        /\ Existing(o) \in Calls \cup {None}
    BY DEF IInv, TypeOK, Existing
  <2>2. reply' # reply => r \in [of : Calls \cup {None}, status : Statuses \cup {"refused"}]
    <3>1. CASE r = [of |-> None, status |-> "refused"]
      BY <3>1
    <3>2. CASE r = [of |-> Existing(o), status |-> status[Existing(o)]] /\ Existing(o) \in Calls
      BY <2>1, <3>2
    <3> QED
      BY <2>1, <3>1, <3>2
  <2>3. /\ reply' \in [Calls -> [of : Calls \cup {None}, status : Statuses \cup {"refused"}]]
        /\ \A x \in Calls \ {c} : reply'[x] = reply[x]
        /\ reply'[c] \in {NoReply, r}
    BY <1>1, <2>1, <2>2
  <2>4. /\ waitsFor' \in [Calls -> Calls \cup {None}]
        /\ \A x \in Calls \ {c} : waitsFor'[x] = waitsFor[x]
    BY <2>1
  <2> QED
    BY <2>3, <2>4
<1>5. TypeOK'
  BY <1>1, <1>2, <1>4 DEF IInv, TypeOK, leaseVars
<1>6. LeaseInv'
  BY <1>1, LeaseFrame DEF IInv, leaseVars
<1>7. CallState'
  BY <1>1, <1>2, <1>3, <1>4 DEF IInv, OpInv, CallState, Working, Terminal
<1>8. QueueState'
  BY <1>1, <1>2, QueueFrame DEF IInv, OpInv
<1>9. Remembered'
  <2>1. \A x \in OpIds : operations[x] # None => operations[x] \in Calls
    BY DEF IInv, TypeOK
  <2>2. \A x \in Calls : status[x] # "none" => req'[x] = req[x]
    BY <1>1
  <2>3. pruned' = pruned
    BY <1>1
  <2> QED
    BY <2>1, <2>2, <2>3 DEF IInv, OpInv, Remembered
<1>10. Answers'
  <2> SUFFICES ASSUME NEW x \in Calls
               PROVE  /\ pc'[x] = "waiting" => Joined(x, waitsFor[x])'
                      /\ reply'[x].of # None =>
                           /\ Joined(x, reply[x].of)'
                           /\ reply'[x].status \in Terminal => status[reply'[x].of] = reply'[x].status
    BY DEF Answers
  <2>1. CASE x # c
    BY <1>1, <1>2, <1>4, <2>1 DEF IInv, TypeOK, OpInv, CallState, Answers, Joined
  <2>2. CASE x = c
    <3>1. pc'[c] = "waiting" => Joined(c, waitsFor[c])'
      BY <1>1, <1>2, <1>3 DEF Joined, SameRequest
    <3>2. CASE reply'[c].of # None
      <4>1. r = [of |-> Existing(o), status |-> status[Existing(o)]] /\ reply'[c] = r
            /\ reply' # reply
        BY <1>1, <1>4, <3>2 DEF NoReply
      <4>2. Existing(o) # None /\ SameRequest(Existing(o), s, f)
        BY <3>2, <4>1
      <4>3. reply'[c].of = Existing(o) /\ reply'[c].status = status[Existing(o)]
        BY <4>1
      <4> QED
        BY <1>1, <1>3, <2>2, <3>1, <4>2, <4>3 DEF Joined, SameRequest
    <3> QED
      BY <2>2, <3>1, <3>2
  <2> QED
    BY <2>1, <2>2
<1>11. WorkInv'
  <2>1. \A x \in Calls : status'[x] = "running" => status[x] = "running" /\ req'[x] = req[x]
    BY <1>1
  <2>2. \A x \in Calls : under[x] # None => req'[x] = req[x]
    BY <1>1
  <2> QED
    BY <1>1, <2>1, <2>2, WorkFrame DEF IInv, leaseVars
<1> QED
  BY <1>5, <1>6, <1>7, <1>8, <1>9, <1>10, <1>11 DEF IInv, OpInv

\* A first call creates the operation and remembers it under its id.
LEMMA ExecuteStartIInv ==
  ASSUME IInv, NEW c \in Calls, NEW s \in Sessions, NEW t \in Tabs \cup {None}, NEW o \in OpIds,
         NEW f \in Fingerprints, ExecuteStart(c, s, t, o, f)
  PROVE  IInv'
<1>1. /\ pc[c] = "idle" /\ status[c] = "none" /\ reply[c] = NoReply /\ under[c] = None
      /\ c \notin sent /\ c \notin aged
      /\ req' \in [Calls -> [id : OpIds \cup {None}, session : Sessions \cup {None},
                             tab : Tabs \cup {None}, fp : Fingerprints \cup {None}]]
      /\ req'[c].id = o /\ req'[c].session = s /\ req'[c].tab = t /\ req'[c].fp = f
      /\ \A x \in Calls \ {c} : req'[x] = req[x]
      /\ \A x \in Calls : status[x] # "none" => req'[x] = req[x]
      /\ UNCHANGED <<session, leaseVars, queue, active, conf, confExpired, pruned, sent, stopped>>
  BY AskFacts DEF ExecuteStart
<1> DEFINE u == IF t # None /\ lease[t] # None /\ leaseOf[lease[t]].session = s
                THEN lease[t] ELSE None
<1>2. /\ Open(s)
      /\ operations' = [operations EXCEPT ![o] = c]
      /\ status' = [status EXCEPT ![c] = "running"]
      /\ pc' = [pc EXCEPT ![c] = "begun"]
      /\ under' = [under EXCEPT ![c] = u]
      /\ UNCHANGED <<aged, reply, waitsFor>>
      /\ operations[o] = None \/ status[operations[o]] = "awaiting_confirmation"
  BY DEF ExecuteStart, Existing
<1>3. u \in LeaseIds \cup {None} /\ s # None /\ c # None
  BY NoneAssumption DEF IInv, TypeOK
<1>4. u # None => t \in Tabs /\ lease[t] = u /\ leaseOf[u].session = s
  OBVIOUS
<1> HIDE DEF u
<1>5. /\ operations' \in [OpIds -> Calls \cup {None}] /\ status' \in [Calls -> Statuses]
      /\ pc' \in [Calls -> CallLocations] /\ under' \in [Calls -> LeaseIds \cup {None}]
  BY <1>2, <1>3 DEF IInv, TypeOK, Statuses, CallLocations
<1>6. /\ operations'[o] = c /\ \A x \in OpIds \ {o} : operations'[x] = operations[x]
      /\ status'[c] = "running" /\ \A x \in Calls \ {c} : status'[x] = status[x]
      /\ pc'[c] = "begun" /\ \A x \in Calls \ {c} : pc'[x] = pc[x]
      /\ under'[c] = u /\ \A x \in Calls \ {c} : under'[x] = under[x]
  BY <1>2 DEF IInv, TypeOK
<1>7. TypeOK'
  BY <1>1, <1>2, <1>5 DEF IInv, TypeOK, leaseVars
<1>8. LeaseInv'
  BY <1>1, LeaseFrame DEF IInv, leaseVars
<1>9. CallState'
  BY <1>1, <1>2, <1>6 DEF IInv, OpInv, CallState, Working
<1>10. QueueState'
  BY <1>1, <1>6, QueueFrame DEF IInv, OpInv
<1>11. Remembered'
  <2>1. ASSUME NEW x \in OpIds, operations'[x] # None
        PROVE  status'[operations'[x]] # "none" /\ req'[operations'[x]].id = x
    <3>1. CASE x = o
      BY <1>1, <1>6, <3>1
    <3>2. CASE x # o
      <4>1. operations'[x] = operations[x] /\ operations[x] \in Calls
        BY <1>6, <2>1, <3>2 DEF IInv, TypeOK
      <4>2. status[operations[x]] # "none" /\ req[operations[x]].id = x
        BY <2>1, <4>1 DEF IInv, OpInv, Remembered
      <4> QED
        BY <1>1, <1>6, <4>1, <4>2
    <3> QED
      BY <3>1, <3>2
  <2>2. ASSUME NEW x \in Calls, x # c, status[x] # "none"
        PROVE  /\ req'[x] = req[x] /\ req[x].id \in OpIds /\ status'[x] = status[x]
               /\ req[x].id # o => operations'[req[x].id] = operations[req[x].id]
               /\ req[x].id = o /\ operations[o] = x => status[x] = "awaiting_confirmation"
    BY <1>1, <1>2, <1>3, <1>6, <2>2, NoneAssumption DEF IInv, OpInv, CallState
  <2>3. ASSUME NEW x \in Calls, status'[x] # "none"
        PROVE  operations'[req'[x].id] = x \/ x \in pruned \/ status'[x] = "awaiting_confirmation"
    <3>1. CASE x = c
      BY <1>1, <1>6, <3>1
    <3>2. CASE x # c
      <4>1. status[x] # "none"
        BY <1>6, <2>3, <3>2
      <4>2. operations[req[x].id] = x \/ x \in pruned \/ status[x] = "awaiting_confirmation"
        BY <4>1 DEF IInv, OpInv, Remembered
      <4> QED
        BY <2>2, <3>2, <4>1, <4>2
    <3> QED
      BY <3>1, <3>2
  <2>4. ASSUME NEW x \in Calls, status'[x] = "running"
        PROVE  operations'[req'[x].id] = x
    <3>1. CASE x = c
      BY <1>1, <1>6, <3>1
    <3>2. CASE x # c
      <4>1. status[x] = "running"
        BY <1>6, <2>4, <3>2
      <4>2. operations[req[x].id] = x
        BY <4>1 DEF IInv, OpInv, Remembered
      <4> QED
        BY <2>2, <3>2, <4>1, <4>2
    <3> QED
      BY <3>1, <3>2
  <2> QED
    BY <1>1, <2>1, <2>3, <2>4 DEF Remembered
<1>12. Answers'
  <2> SUFFICES ASSUME NEW x \in Calls
               PROVE  /\ pc'[x] = "waiting" => Joined(x, waitsFor[x])'
                      /\ reply[x].of # None =>
                           /\ Joined(x, reply[x].of)'
                           /\ reply[x].status \in Terminal => status'[reply[x].of] = reply[x].status
    BY <1>2 DEF Answers
  <2>1. CASE x = c
    BY <1>1, <1>6, <2>1 DEF NoReply
  <2>2. CASE x # c
    BY <1>1, <1>2, <1>6, <2>2 DEF IInv, TypeOK, OpInv, CallState, Answers, Joined
  <2> QED
    BY <2>1, <2>2
<1>13. UnderIssued'
  BY <1>1, <1>3, <1>4, <1>6 DEF IInv, WorkInv, UnderIssued, leaseVars
<1>14. LostLeaseStopsWork'
  BY <1>1, <1>4, <1>6 DEF IInv, WorkInv, LostLeaseStopsWork, leaseVars
<1>15. ClosedSessionIsQuiet'
  BY <1>1, <1>2, <1>6 DEF IInv, WorkInv, ClosedSessionIsQuiet, Open
<1> QED
  BY <1>7, <1>8, <1>9, <1>10, <1>11, <1>12, <1>13, <1>14, <1>15 DEF IInv, OpInv, WorkInv

\* The first critical section of ExecuteOperation, whatever its outcome.
LEMMA ExecuteIInv ==
  ASSUME IInv, NEW c \in Calls, NEW s \in Sessions, NEW t \in Tabs \cup {None}, NEW o \in OpIds,
         NEW f \in Fingerprints, Execute(c, s, t, o, f)
  PROVE  IInv'
<1> DEFINE refused == [of |-> None, status |-> "refused"]
           recorded == [of |-> Existing(o), status |-> status[Existing(o)]]
<1>1. CASE ExecuteRefused(c, s, t, o, f)
  <2>1. /\ Ask(c, s, t, o, f) /\ pc' = [pc EXCEPT ![c] = "returned"]
        /\ reply' = [reply EXCEPT ![c] = refused]
        /\ UNCHANGED <<operations, status, aged, waitsFor, under>>
    BY <1>1 DEF ExecuteRefused
  <2> QED
    BY <2>1, AskWithoutObject
<1>2. CASE ExecuteReplay(c, s, t, o, f)
  <2>1. /\ Ask(c, s, t, o, f) /\ pc' = [pc EXCEPT ![c] = "returned"]
        /\ Existing(o) # None /\ SameRequest(Existing(o), s, f)
        /\ reply' = [reply EXCEPT ![c] = recorded]
        /\ UNCHANGED <<operations, status, aged, waitsFor, under>>
    BY <1>2 DEF ExecuteReplay
  <2> QED
    BY <2>1, AskWithoutObject
<1>3. CASE ExecuteJoin(c, s, t, o, f)
  <2>1. /\ Ask(c, s, t, o, f) /\ pc' = [pc EXCEPT ![c] = "waiting"]
        /\ Existing(o) # None /\ SameRequest(Existing(o), s, f)
        /\ waitsFor' = [waitsFor EXCEPT ![c] = Existing(o)]
        /\ waitsFor'[c] = Existing(o)
        /\ UNCHANGED <<operations, status, aged, reply, under>>
    BY <1>3 DEF ExecuteJoin, IInv, TypeOK
  <2>2. reply' = reply /\ refused = [of |-> None, status |-> "refused"]
    BY <2>1
  <2> HIDE DEF refused
  <2> QED
    BY <2>1, <2>2, AskWithoutObject
<1>4. CASE ExecuteStart(c, s, t, o, f)
  BY <1>4, ExecuteStartIInv
<1> QED
  BY <1>1, <1>2, <1>3, <1>4 DEF Execute

\* A call that is at work moves on, in or out of a queue.
LEMMA WorkMoves ==
  ASSUME IInv, NEW c \in Calls, pc[c] \in Working,
         NEW p \in Working, pc' = [pc EXCEPT ![c] = p],
         sent' = sent \/ sent' = sent \cup {c},
         QueueState', queue' \in [Tabs -> Seq(Calls)], active' \in [Tabs -> Calls \cup {None}],
         UNCHANGED <<sessionVars, leaseVars, opVars, req, stopped, waitsFor, reply, under, confVars>>
  PROVE  IInv'
<1> USE DEF sessionVars, opVars, confVars
<1>1. /\ pc'[c] = p /\ \A x \in Calls \ {c} : pc'[x] = pc[x]
      /\ pc' \in [Calls -> CallLocations] /\ sent' \subseteq Calls
  BY DEF IInv, TypeOK, CallLocations, Working
<1>2. TypeOK'
  BY <1>1 DEF IInv, TypeOK, leaseVars
<1>3. LeaseInv'
  BY LeaseFrame DEF IInv, leaseVars
<1>4. CallState'
  BY <1>1 DEF IInv, OpInv, CallState, Working, Terminal
<1>5. Remembered'
  BY DEF IInv, OpInv, Remembered
<1>6. Answers'
  BY <1>1 DEF IInv, OpInv, Answers, Joined, Working, Terminal
<1>7. WorkInv'
  BY WorkFrame DEF IInv, leaseVars
<1> QED
  BY <1>2, <1>3, <1>4, <1>5, <1>6, <1>7 DEF IInv, OpInv

\* An operation goes to the bridge, or into the queue of its tab.
LEMMA RunTabIInv ==
  ASSUME NEW c \in Calls, IInv, RunTab(c)
  PROVE  IInv'
<1>1. /\ pc[c] = "begun" /\ pc[c] \in Working /\ "sent" \in Working /\ "queued" \in Working
      /\ UNCHANGED <<sessionVars, leaseVars, opVars, req, stopped, waitsFor, reply, under,
                     active, confVars>>
      /\ active' \in [Tabs -> Calls \cup {None}] /\ queue \in [Tabs -> Seq(Calls)]
      /\ pc \in [Calls -> CallLocations]
  BY DEF RunTab, Working, IInv, TypeOK
<1>2. CASE /\ pc' = [pc EXCEPT ![c] = "sent"] /\ sent' = sent \cup {c} /\ UNCHANGED queue
  <2>1. QueueState'
    BY <1>1, <1>2, QueueFrame DEF IInv, OpInv
  <2> QED
    BY <1>1, <1>2, <2>1, WorkMoves
<1>3. CASE /\ req[c].tab # None /\ pc' = [pc EXCEPT ![c] = "queued"]
           /\ queue' = [queue EXCEPT ![req[c].tab] = Append(@, c)] /\ UNCHANGED sent
  <2> DEFINE t == req[c].tab
             q == queue[t]
  <2>1. t \in Tabs /\ q \in Seq(Calls) /\ queue' \in [Tabs -> Seq(Calls)]
    BY <1>1, <1>3 DEF IInv, TypeOK
  <2>2. /\ queue'[t] = Append(q, c) /\ \A u \in Tabs \ {t} : queue'[u] = queue[u]
        /\ pc'[c] = "queued" /\ \A x \in Calls \ {c} : pc'[x] = pc[x]
        /\ req' = req
    BY <1>1, <1>3, <2>1
  <2>3. \A u \in Tabs : \A i \in DOMAIN queue[u] :
          /\ queue[u][i] \in Calls /\ queue[u][i] # c
          /\ pc[queue[u][i]] = "queued" /\ req[queue[u][i]].tab = u
    BY <1>1 DEF IInv, OpInv, QueueState
  <2>4. /\ Len(q) \in Nat /\ DOMAIN q = 1 .. Len(q) /\ DOMAIN Append(q, c) = 1 .. Len(q) + 1
        /\ \A i \in DOMAIN q : Append(q, c)[i] = q[i]
        /\ Append(q, c)[Len(q) + 1] = c
    BY <2>1
  <2>5. \A i, j \in DOMAIN q : q[i] = q[j] => i = j
    BY <2>1 DEF IInv, OpInv, QueueState
  <2>6. /\ \A i \in DOMAIN queue'[t] : pc'[queue'[t][i]] = "queued" /\ req'[queue'[t][i]].tab = t
        /\ \A i, j \in DOMAIN queue'[t] : queue'[t][i] = queue'[t][j] => i = j
    <3> HIDE DEF q, t
    <3>1. ASSUME NEW i \in DOMAIN queue'[t]
          PROVE  i \in DOMAIN q \/ i = Len(q) + 1
      BY <2>2, <2>4
    <3>2. \A i \in DOMAIN q : q[i] \in Calls /\ q[i] # c /\ pc[q[i]] = "queued" /\ req[q[i]].tab = t
      BY <2>1, <2>3 DEF q
    <3>3. req[c].tab = t
      BY DEF t
    <3>4. \A i \in DOMAIN queue'[t] : pc'[queue'[t][i]] = "queued" /\ req'[queue'[t][i]].tab = t
      BY <2>2, <2>4, <3>1, <3>2, <3>3
    <3>5. \A i, j \in DOMAIN queue'[t] : queue'[t][i] = queue'[t][j] => i = j
      BY <2>2, <2>4, <2>5, <3>1, <3>2
    <3> QED
      BY <3>4, <3>5
  <2>7. QueueState'
    <3> HIDE DEF t
    <3>1. ASSUME NEW u \in Tabs, u # t
          PROVE  /\ \A i \in DOMAIN queue'[u] : pc'[queue'[u][i]] = "queued" /\ req'[queue'[u][i]].tab = u
                 /\ \A i, j \in DOMAIN queue'[u] : queue'[u][i] = queue'[u][j] => i = j
      BY <2>2, <2>3, <3>1 DEF IInv, OpInv, QueueState
    <3> QED
      BY <2>6, <3>1 DEF QueueState
  <2> QED
    BY <1>1, <1>3, <2>1, <2>7, WorkMoves
<1> QED
  BY <1>2, <1>3 DEF RunTab

\* The head of the queue gets the tab.
LEMMA QueueStartIInv ==
  ASSUME NEW t \in Tabs, IInv, QueueStart(t)
  PROVE  IInv'
<1> DEFINE q == queue[t]
           c == Head(q)
<1>1. /\ q # <<>> /\ q \in Seq(Calls) /\ queue \in [Tabs -> Seq(Calls)]
      /\ active' = [active EXCEPT ![t] = c] /\ queue' = [queue EXCEPT ![t] = Tail(q)]
      /\ pc' = [pc EXCEPT ![c] = "sent"] /\ sent' = sent \cup {c}
      /\ UNCHANGED <<sessionVars, leaseVars, opVars, req, stopped, waitsFor, reply, under, confVars>>
      /\ pc \in [Calls -> CallLocations]
  BY DEF QueueStart, IInv, TypeOK
<1>2. /\ 1 \in DOMAIN q /\ c = q[1] /\ c \in Calls /\ Tail(q) \in Seq(Calls)
      /\ DOMAIN q = 1 .. Len(q) /\ Len(q) \in Nat
      /\ DOMAIN Tail(q) = 1 .. Len(q) - 1
      /\ \A i \in 1 .. Len(q) - 1 : Tail(q)[i] = q[i + 1]
  BY <1>1
<1>3. \A u \in Tabs :
        /\ \A i \in DOMAIN queue[u] : /\ queue[u][i] \in Calls /\ pc[queue[u][i]] = "queued"
                                      /\ req[queue[u][i]].tab = u
        /\ \A i, j \in DOMAIN queue[u] : queue[u][i] = queue[u][j] => i = j
  BY <1>1 DEF IInv, OpInv, QueueState
<1>4. pc[c] = "queued" /\ req[c].tab = t /\ req' = req
  BY <1>1, <1>2, <1>3
<1>5. /\ queue' \in [Tabs -> Seq(Calls)] /\ active' \in [Tabs -> Calls \cup {None}]
      /\ queue'[t] = Tail(q) /\ \A u \in Tabs \ {t} : queue'[u] = queue[u]
      /\ \A x \in Calls \ {c} : pc'[x] = pc[x]
  BY <1>1, <1>2 DEF IInv, TypeOK
<1>6. \A i \in DOMAIN Tail(q) : i + 1 \in DOMAIN q /\ Tail(q)[i] = q[i + 1] /\ q[i + 1] # c
  <2> SUFFICES ASSUME NEW i \in DOMAIN Tail(q)
               PROVE  i + 1 \in DOMAIN q /\ Tail(q)[i] = q[i + 1] /\ q[i + 1] # c
    OBVIOUS
  <2>1. i \in Nat /\ i >= 1 /\ i + 1 \in DOMAIN q /\ Tail(q)[i] = q[i + 1] /\ i + 1 # 1
    BY <1>2
  <2>2. q[i + 1] = q[1] => i + 1 = 1
    BY <1>2, <1>3, <2>1
  <2> QED
    BY <1>2, <2>1, <2>2
<1>7. QueueState'
  <2>1. ASSUME NEW u \in Tabs, u # t
        PROVE  /\ \A i \in DOMAIN queue'[u] : pc'[queue'[u][i]] = "queued" /\ req'[queue'[u][i]].tab = u
               /\ \A i, j \in DOMAIN queue'[u] : queue'[u][i] = queue'[u][j] => i = j
    <3>1. queue'[u] = queue[u]
      BY <1>5, <2>1
    <3>2. \A i \in DOMAIN queue[u] : queue[u][i] \in Calls \ {c}
      BY <1>3, <1>4, <2>1
    <3> HIDE DEF c
    <3> QED
      BY <1>3, <1>4, <1>5, <3>1, <3>2
  <2>2. \A i \in DOMAIN queue'[t] : pc'[queue'[t][i]] = "queued" /\ req'[queue'[t][i]].tab = t
    BY <1>3, <1>4, <1>5, <1>6
  <2>3. ASSUME NEW i \in DOMAIN queue'[t], NEW j \in DOMAIN queue'[t], queue'[t][i] = queue'[t][j]
        PROVE  i = j
    <3>1. i + 1 \in DOMAIN q /\ j + 1 \in DOMAIN q /\ q[i + 1] = q[j + 1] /\ i \in Nat /\ j \in Nat
      BY <1>2, <1>5, <1>6, <2>3
    <3>2. i + 1 = j + 1
      BY <1>3, <3>1
    <3> QED
      BY <3>1, <3>2
  <2> QED
    BY <2>1, <2>2, <2>3 DEF QueueState
<1>8. pc[c] \in Working /\ "sent" \in Working
  BY <1>4 DEF Working
<1> HIDE DEF c
<1> QED
  BY <1>1, <1>2, <1>5, <1>7, <1>8, WorkMoves

\* A stopped request leaves the queue, which stays in order.
LEMMA QueueWithdrawIInv ==
  ASSUME NEW c \in Calls, IInv, QueueWithdraw(c)
  PROVE  IInv'
<1> DEFINE t == req[c].tab
           q == queue[t]
<1>1. /\ pc[c] = "queued" /\ pc' = [pc EXCEPT ![c] = "cancelled"]
      /\ UNCHANGED <<sessionVars, leaseVars, opVars, req, stopped, waitsFor, reply, under, sent,
                     active, confVars>>
      /\ queue \in [Tabs -> Seq(Calls)] /\ active' \in [Tabs -> Calls \cup {None}]
      /\ pc \in [Calls -> CallLocations]
  BY DEF QueueWithdraw, IInv, TypeOK
<1>2. PICK i \in DOMAIN q : q[i] = c /\ queue' = [queue EXCEPT ![t] = RemoveAt(q, i)]
  BY DEF QueueWithdraw
<1>3. \A u \in Tabs :
        /\ \A j \in DOMAIN queue[u] : /\ queue[u][j] \in Calls /\ pc[queue[u][j]] = "queued"
                                      /\ req[queue[u][j]].tab = u
        /\ \A j, k \in DOMAIN queue[u] : queue[u][j] = queue[u][k] => j = k
  BY <1>1 DEF IInv, OpInv, QueueState
<1>4. CASE t \notin Tabs
  <2>1. queue' = queue
    BY <1>1, <1>2, <1>4
  <2>2. \A u \in Tabs : \A j \in DOMAIN queue[u] : queue[u][j] # c
    BY <1>3, <1>4
  <2>3. QueueState'
    BY <1>1, <1>3, <2>1, <2>2 DEF QueueState
  <2> QED
    BY <1>1, <2>1, <2>3, WorkMoves DEF Working, Terminal
<1>5. CASE t \in Tabs
  <2>1. q \in Seq(Calls) /\ Len(q) \in Nat /\ DOMAIN q = 1 .. Len(q) /\ i \in 1 .. Len(q)
    BY <1>1, <1>2, <1>5
  <2> DEFINE r == RemoveAt(q, i)
             at(j) == IF j < i THEN j ELSE j + 1
  <2>2. /\ DOMAIN r = 1 .. Len(q) - 1
        /\ \A j \in DOMAIN r : at(j) \in DOMAIN q /\ r[j] = q[at(j)] /\ at(j) # i
        /\ \A j, k \in DOMAIN r : at(j) = at(k) => j = k
    BY <2>1 DEF RemoveAt
  <2>3. r \in Seq(Calls)
    <3>1. Len(q) - 1 \in Nat
      BY <2>1
    <3>2. r \in [1 .. Len(q) - 1 -> Calls]
      BY <1>3, <1>5, <2>1 DEF RemoveAt
    <3> QED
      BY <3>1, <3>2
  <2> HIDE DEF r, at
  <2>4. /\ queue' \in [Tabs -> Seq(Calls)] /\ queue'[t] = r
        /\ \A u \in Tabs \ {t} : queue'[u] = queue[u]
        /\ \A x \in Calls \ {c} : pc'[x] = pc[x]
        /\ req' = req
    BY <1>1, <1>2, <1>5, <2>3 DEF r
  <2>5. \A j \in DOMAIN r : q[at(j)] # c
    BY <1>2, <1>3, <1>5, <2>2
  <2>6. QueueState'
    <3>1. ASSUME NEW u \in Tabs, u # t
          PROVE  /\ \A j \in DOMAIN queue'[u] : pc'[queue'[u][j]] = "queued" /\ req'[queue'[u][j]].tab = u
                 /\ \A j, k \in DOMAIN queue'[u] : queue'[u][j] = queue'[u][k] => j = k
      BY <1>3, <2>4, <3>1
    <3>2. \A j \in DOMAIN queue'[t] : pc'[queue'[t][j]] = "queued" /\ req'[queue'[t][j]].tab = t
      BY <1>3, <1>5, <2>2, <2>4, <2>5
    <3>3. ASSUME NEW j \in DOMAIN r, NEW k \in DOMAIN r, r[j] = r[k]
          PROVE  j = k
      <4>1. q[at(j)] = q[at(k)] /\ at(j) \in DOMAIN q /\ at(k) \in DOMAIN q
        BY <2>2, <3>3
      <4>2. at(j) = at(k)
        BY <1>3, <1>5, <4>1
      <4> QED
        BY <2>2, <4>2
    <3> QED
      BY <2>4, <3>1, <3>2, <3>3 DEF QueueState
  <2> QED
    BY <1>1, <2>4, <2>6, WorkMoves DEF Working, Terminal
<1> QED
  BY <1>4, <1>5

\* The bridge call of an operation ends.
LEMMA BridgeEndsIInv ==
  ASSUME NEW c \in Calls, NEW outcome \in Terminal \cup {"awaiting_confirmation"}, IInv,
         BridgeEnds(c, outcome)
  PROVE  IInv'
<1>1. /\ pc[c] \in Working /\ outcome \in Working
      /\ active' \in [Tabs -> Calls \cup {None}] /\ queue' \in [Tabs -> Seq(Calls)]
  BY DEF BridgeEnds, Working, IInv, TypeOK
<1>2. QueueState'
  <2>1. \A x \in Calls : pc[x] = "queued" => pc'[x] = "queued" /\ req'[x].tab = req[x].tab
    BY DEF BridgeEnds, IInv, TypeOK
  <2> QED
    BY <2>1, QueueFrame DEF BridgeEnds, IInv, OpInv
<1> QED
  BY <1>1, <1>2, WorkMoves DEF BridgeEnds

\* The last critical section of ExecuteOperation records what duplicates will be told.
LEMMA CompleteIInv ==
  ASSUME NEW c \in Calls, IInv, Complete(c)
  PROVE  IInv'
<1>1. /\ pc[c] \in Terminal \cup {"awaiting_confirmation"}
      /\ status' = [status EXCEPT ![c] = pc[c]]
      /\ pc' = [pc EXCEPT ![c] = "returned"]
      /\ reply' = [reply EXCEPT ![c] = [of |-> c, status |-> pc[c]]]
      /\ UNCHANGED <<session, leaseVars, operations, aged, pruned, req, stopped, waitsFor, under,
                     sent, queue, active, conf, confExpired>>
  BY DEF Complete, sessionVars, queueVars, confVars
<1>2. /\ status' \in [Calls -> Statuses] /\ pc' \in [Calls -> CallLocations]
      /\ reply' \in [Calls -> [of : Calls \cup {None}, status : Statuses \cup {"refused"}]]
      /\ status'[c] = pc[c] /\ \A x \in Calls \ {c} : status'[x] = status[x]
      /\ pc'[c] = "returned" /\ \A x \in Calls \ {c} : pc'[x] = pc[x]
      /\ reply'[c] = [of |-> c, status |-> pc[c]] /\ \A x \in Calls \ {c} : reply'[x] = reply[x]
      /\ reply'[c].of = c /\ reply'[c].status = pc[c]
  BY <1>1 DEF IInv, TypeOK, Statuses, CallLocations
<1>3. /\ status[c] = "running" /\ operations[req[c].id] = c
      /\ status'[c] \notin {"none", "running"}
  BY <1>1, <1>2 DEF IInv, OpInv, CallState, Remembered, Working, Terminal
<1>4. TypeOK'
  BY <1>1, <1>2 DEF IInv, TypeOK, leaseVars
<1>5. LeaseInv'
  BY <1>1, LeaseFrame DEF IInv, leaseVars
<1>6. CallState'
  BY <1>1, <1>2, <1>3 DEF IInv, OpInv, CallState, Working, Terminal
<1>7. QueueState'
  <2>1. \A x \in Calls : pc[x] = "queued" => pc'[x] = "queued" /\ req'[x].tab = req[x].tab
    BY <1>1, <1>2 DEF Terminal
  <2> QED
    BY <1>1, <2>1, QueueFrame DEF IInv, OpInv
<1>8. Remembered'
  BY <1>1, <1>2, <1>3 DEF IInv, TypeOK, OpInv, Remembered
<1>9. Answers'
  <2> SUFFICES ASSUME NEW x \in Calls
               PROVE  /\ pc'[x] = "waiting" => Joined(x, waitsFor[x])'
                      /\ reply'[x].of # None =>
                           /\ Joined(x, reply[x].of)'
                           /\ reply'[x].status \in Terminal => status'[reply'[x].of] = reply'[x].status
    BY DEF Answers
  <2>1. CASE x = c
    BY <1>1, <1>2, <1>3, <2>1 DEF Joined
  <2>2. CASE x # c
    BY <1>1, <1>2, <1>3, <2>2 DEF IInv, TypeOK, OpInv, CallState, Answers, Joined, Terminal
  <2> QED
    BY <2>1, <2>2
<1>10. WorkInv'
  BY <1>1, <1>2, <1>3, WorkFrame DEF IInv, leaseVars
<1> QED
  BY <1>4, <1>5, <1>6, <1>7, <1>8, <1>9, <1>10 DEF IInv, OpInv

\* A duplicate returns what the operation it joined was completed with.
LEMMA JoinReturnsIInv ==
  ASSUME NEW c \in Calls, IInv, JoinReturns(c)
  PROVE  IInv'
<1> DEFINE x == waitsFor[c]
<1>1. PICK r \in {[of |-> x, status |-> status[x]], [of |-> None, status |-> "cancelled"]} :
        reply' = [reply EXCEPT ![c] = r]
  BY DEF JoinReturns
<1>2. /\ pc[c] = "waiting" /\ pc' = [pc EXCEPT ![c] = "returned"]
      /\ UNCHANGED <<session, leaseVars, opVars, req, stopped, waitsFor, under,
                     sent, queue, active, conf, confExpired>>
  BY DEF JoinReturns, sessionVars, queueVars, confVars
<1>3. x \in Calls /\ Joined(c, x)
  BY <1>2 DEF IInv, OpInv, CallState, Answers
<1>4. /\ r.of \in {x, None} /\ (r.of = x => r.status = status[x] \/ x = None)
      /\ r \in [of : Calls \cup {None}, status : Statuses \cup {"refused"}]
  BY <1>1, <1>3, NoneAssumption DEF IInv, TypeOK, Statuses, Terminal
<1>5. /\ pc' \in [Calls -> CallLocations]
      /\ reply' \in [Calls -> [of : Calls \cup {None}, status : Statuses \cup {"refused"}]]
      /\ pc'[c] = "returned" /\ \A y \in Calls \ {c} : pc'[y] = pc[y]
      /\ reply'[c] = r /\ \A y \in Calls \ {c} : reply'[y] = reply[y]
  BY <1>1, <1>2, <1>4 DEF IInv, TypeOK, CallLocations
<1>6. TypeOK'
  BY <1>2, <1>5 DEF IInv, TypeOK, leaseVars, opVars
<1>7. LeaseInv'
  BY <1>2, LeaseFrame DEF IInv, leaseVars
<1>8. CallState'
  BY <1>2, <1>5 DEF IInv, OpInv, CallState, Working, Terminal, opVars
<1>9. QueueState'
  <2>1. \A y \in Calls : pc[y] = "queued" => pc'[y] = "queued" /\ req'[y].tab = req[y].tab
    BY <1>2, <1>5
  <2> QED
    BY <1>2, <2>1, QueueFrame DEF IInv, OpInv
<1>10. Remembered'
  BY <1>2 DEF IInv, OpInv, Remembered, opVars
<1>11. Answers'
  <2> SUFFICES ASSUME NEW y \in Calls
               PROVE  /\ pc'[y] = "waiting" => Joined(y, waitsFor[y])'
                      /\ reply'[y].of # None =>
                           /\ Joined(y, reply[y].of)'
                           /\ reply'[y].status \in Terminal => status'[reply'[y].of] = reply'[y].status
    BY DEF Answers
  <2>1. CASE y = c
    BY <1>2, <1>3, <1>4, <1>5, <2>1, NoneAssumption DEF Joined, opVars
  <2>2. CASE y # c
    BY <1>2, <1>5, <2>2 DEF IInv, OpInv, Answers, Joined, opVars
  <2> QED
    BY <2>1, <2>2
<1>12. WorkInv'
  BY <1>2, WorkFrame DEF IInv, leaseVars, opVars
<1> QED
  BY <1>6, <1>7, <1>8, <1>9, <1>10, <1>11, <1>12 DEF IInv, OpInv

\* Only contexts are cancelled.
LEMMA StopsIInv ==
  ASSUME IInv, NEW S \in SUBSET Calls, stopped' = stopped \cup S,
         UNCHANGED <<sessionVars, leaseVars, opVars, pc, req, waitsFor, reply, under, sent,
                     queueVars, confVars>>
  PROVE  IInv'
<1> USE DEF sessionVars, queueVars, confVars
<1>1. TypeOK'
  BY DEF IInv, TypeOK, leaseVars, opVars
<1>2. LeaseInv'
  BY LeaseFrame DEF IInv, leaseVars
<1>3. OpInv'
  BY OpFrame DEF IInv
<1>4. WorkInv'
  BY WorkFrame DEF IInv, leaseVars, opVars
<1> QED
  BY <1>1, <1>2, <1>3, <1>4 DEF IInv

\* An operation that is over passes its time.
LEMMA OperationAgesIInv ==
  ASSUME NEW c \in Calls, IInv, OperationAges(c)
  PROVE  IInv'
<1> USE DEF OperationAges, sessionVars, queueVars, confVars, callVars
<1>1. TypeOK'
  BY DEF IInv, TypeOK, leaseVars
<1>2. LeaseInv'
  BY LeaseFrame DEF IInv, leaseVars
<1>3. CallState'
  BY DEF IInv, OpInv, CallState
<1>4. QueueState' /\ Remembered' /\ Answers'
  BY DEF IInv, OpInv, QueueState, Remembered, Answers, Joined
<1>5. WorkInv'
  BY WorkFrame DEF IInv, leaseVars
<1> QED
  BY <1>1, <1>2, <1>3, <1>4, <1>5 DEF IInv, OpInv

\* Confirmations are settled, made for an open session or left alone, and the
\* operations that wait for them may be finished.
LEMMA SettleIInv ==
  ASSUME IInv, NEW O, NEW final \in Terminal, FinishAwaiting(O, final), ConfTypes',
         \A f \in ConfIds : conf'[f].status = "pending" => conf'[f] = conf[f],
         UNCHANGED <<sessionVars, leaseVars, operations, pruned, callVars, queueVars, confExpired>>
  PROVE  IInv'
<1> DEFINE D == {c \in Calls : Registered(c) /\ req[c].id \in O /\ status[c] = "awaiting_confirmation"}
<1> USE DEF sessionVars, queueVars, callVars
<1>1. /\ OpInv'
      /\ status' \in [Calls -> Statuses] /\ aged' \subseteq Calls
      /\ \A c \in Calls : status'[c] = "running" <=> status[c] = "running"
  <2>1. /\ status' = [c \in Calls |-> IF c \in D THEN final ELSE status[c]]
        /\ aged' = aged \ D
        /\ \A c \in D : Registered(c) /\ status[c] = "awaiting_confirmation"
    BY DEF FinishAwaiting
  <2> HIDE DEF D
  <2> QED
    BY <2>1, FinishOps DEF IInv
<1>2. TypeOK'
  BY <1>1 DEF IInv, TypeOK, ConfTypes, leaseVars
<1>3. LeaseInv'
  BY LeaseFrame DEF IInv, leaseVars
<1>4. WorkInv'
  BY <1>1, WorkFrame DEF IInv, leaseVars
<1> QED
  BY <1>1, <1>2, <1>3, <1>4 DEF IInv

\* operation.cancel stops the context of the operation.
LEMMA CancelOperationIInv ==
  ASSUME NEW s \in Sessions, NEW o \in OpIds, IInv, CancelOperation(s, o)
  PROVE  IInv'
<1> DEFINE F == {f \in ConfIds : conf[f].op = o /\ conf[f].session = s}
<1>1. UNCHANGED <<sessionVars, leaseVars, operations, pruned, pc, req, waitsFor, reply, under,
                  sent, queueVars, confExpired>>
  BY DEF CancelOperation
<1>2. CASE FinishAwaiting({o}, "cancelled") /\ CancelConfirmations(F) /\ UNCHANGED stopped
  <2>1. /\ ConfTypes'
        /\ \A f \in ConfIds : conf'[f].status = "pending" => conf'[f] = conf[f]
    BY <1>2, CancelledConfirmations DEF IInv
  <2>2. "cancelled" \in Terminal
    BY DEF Terminal
  <2> QED
    BY <1>1, <1>2, <2>1, <2>2, SettleIInv DEF callVars
<1>3. CASE stopped' = stopped \cup {operations[o]} /\ UNCHANGED <<status, aged, conf>>
  <2>1. {operations[o]} \in SUBSET Calls
    BY DEF CancelOperation, IInv, TypeOK
  <2> QED
    BY <1>1, <1>3, <2>1, StopsIInv DEF opVars, confVars
<1> QED
  BY <1>2, <1>3 DEF CancelOperation

\* Every step on operations keeps the invariant.
LEMMA OperationNextIInv ==
  ASSUME IInv, OperationNext
  PROVE  IInv'
<1>1. ASSUME NEW c \in Calls, NEW s \in Sessions, NEW t \in Tabs \cup {None}, NEW o \in OpIds,
             NEW f \in Fingerprints, Execute(c, s, t, o, f)
      PROVE  IInv'
  BY <1>1, ExecuteIInv
<1>2. ASSUME NEW c \in Calls, CallStep(c) PROVE IInv'
  BY <1>2, RunTabIInv, QueueWithdrawIInv, BridgeEndsIInv, CompleteIInv, JoinReturnsIInv
     DEF CallStep
<1>3. ASSUME NEW c \in Calls, CallerGone(c) PROVE IInv'
  BY <1>3, StopsIInv DEF CallerGone
<1>4. ASSUME NEW c \in Calls, OperationAges(c) PROVE IInv'
  BY <1>4, OperationAgesIInv
<1>5. ASSUME NEW t \in Tabs, QueueStart(t) PROVE IInv'
  BY <1>5, QueueStartIInv
<1>6. ASSUME NEW s \in Sessions, NEW o \in OpIds, CancelOperation(s, o) PROVE IInv'
  BY <1>6, CancelOperationIInv
<1> QED
  BY <1>1, <1>2, <1>3, <1>4, <1>5, <1>6 DEF OperationNext

-----------------------------------------------------------------------------
(* Confirmations and the janitor.                                          *)

\* Every step on confirmations keeps the invariant.
LEMMA ConfirmationNextIInv ==
  ASSUME IInv, ConfirmationNext
  PROVE  IInv'
<1> DEFINE Rec == [status : {"none", "pending", "approved", "denied", "expired",
                             "cancelled", "consumed"},
                   session : Sessions \cup {None}, tab : Tabs \cup {None},
                   browser : Browsers \cup {None}, op : OpIds \cup {None}]
<1>1. conf \in [ConfIds -> Rec]
  BY DEF IInv, TypeOK
\* Another status for one confirmation.
<1>2. ASSUME NEW f \in ConfIds, NEW st \in {"approved", "denied", "expired", "consumed"},
             conf' = [conf EXCEPT ![f].status = st]
      PROVE  /\ ConfTypes'
             /\ \A g \in ConfIds : conf'[g].status = "pending" => conf'[g] = conf[g]
  <2>1. /\ conf'[f] = [conf[f] EXCEPT !.status = st]
        /\ \A g \in ConfIds \ {f} : conf'[g] = conf[g]
        /\ conf' = [g \in ConfIds |-> conf'[g]]
    BY <1>1, <1>2
  <2>2. conf'[f] \in Rec /\ conf'[f].status = st
    BY <1>1, <2>1
  <2>3. conf' \in [ConfIds -> Rec]
    BY <1>1, <2>1, <2>2
  <2> QED
    BY <2>1, <2>2, <2>3 DEF ConfTypes
\* ... without a consequence for any operation.
<1>3. ASSUME ConfTypes', \A g \in ConfIds : conf'[g].status = "pending" => conf'[g] = conf[g],
             UNCHANGED <<sessionVars, leaseVars, opVars, callVars, queueVars, confExpired>>
      PROVE  IInv'
  <2> USE <1>3 DEF sessionVars, queueVars, callVars, opVars
  <2>1. TypeOK'
    BY DEF IInv, TypeOK, ConfTypes, leaseVars
  <2>2. LeaseInv'
    BY LeaseFrame DEF IInv, leaseVars
  <2>3. OpInv'
    BY OpFrame DEF IInv
  <2>4. WorkInv'
    BY WorkFrame DEF IInv, leaseVars
  <2> QED
    BY <2>1, <2>2, <2>3, <2>4 DEF IInv
<1> HIDE DEF Rec
<1>4. ASSUME NEW f \in ConfIds, NEW s \in Sessions, NEW t \in Tabs, NEW b \in Browsers,
             NEW o \in OpIds, CreateActionConfirmation(f, s, t, b, o)
      PROVE  IInv'
  <2> DEFINE new == [status |-> "pending", session |-> s, tab |-> t, browser |-> b, op |-> o]
  <2>1. /\ Open(s) /\ conf' = [conf EXCEPT ![f] = new]
        /\ UNCHANGED <<sessionVars, leaseVars, opVars, callVars, queueVars, confExpired>>
    BY <1>4 DEF CreateActionConfirmation
  <2>2. /\ conf' \in [ConfIds -> Rec] /\ conf'[f].session = s
        /\ \A g \in ConfIds \ {f} : conf'[g] = conf[g]
    BY <1>1, <2>1 DEF Rec
  <2> USE <2>1 DEF sessionVars, queueVars, callVars, opVars
  <2>3. TypeOK'
    BY <2>2 DEF IInv, TypeOK, leaseVars, Rec
  <2>4. LeaseInv'
    BY LeaseFrame DEF IInv, leaseVars
  <2>5. OpInv'
    BY OpFrame DEF IInv
  <2>6. UnderIssued' /\ LostLeaseStopsWork'
    BY DEF IInv, WorkInv, UnderIssued, LostLeaseStopsWork, leaseVars
  <2>7. ClosedSessionIsQuiet'
    BY <2>2 DEF IInv, WorkInv, ClosedSessionIsQuiet, Open
  <2> QED
    BY <2>3, <2>4, <2>5, <2>6, <2>7 DEF IInv, WorkInv
<1>5. ASSUME NEW f \in ConfIds, NEW d \in {"approved", "denied"}, ResolveConfirmation(f, d)
      PROVE  IInv'
  <2> DEFINE final == IF f \in confExpired THEN "expired" ELSE d
  <2>1. /\ conf' = [conf EXCEPT ![f].status = final]
        /\ \/ UNCHANGED <<status, aged>>
           \/ FinishAwaiting({conf[f].op}, "failed")
        /\ UNCHANGED <<sessionVars, leaseVars, operations, pruned, callVars, queueVars, confExpired>>
    BY <1>5 DEF ResolveConfirmation
  <2>2. final \in {"approved", "denied", "expired", "consumed"} /\ "failed" \in Terminal
    BY DEF Terminal
  <2> HIDE DEF final
  <2>3. /\ ConfTypes'
        /\ \A g \in ConfIds : conf'[g].status = "pending" => conf'[g] = conf[g]
    BY <1>2, <2>1, <2>2
  <2>4. CASE UNCHANGED <<status, aged>>
    BY <1>3, <2>1, <2>3, <2>4 DEF opVars
  <2>5. CASE FinishAwaiting({conf[f].op}, "failed")
    BY <2>1, <2>2, <2>3, <2>5, SettleIInv
  <2> QED
    BY <2>1, <2>4, <2>5
<1>6. ASSUME NEW f \in ConfIds, AuthorizeActionConfirmation(f) PROVE IInv'
  <2>1. /\ ConfTypes'
        /\ \A g \in ConfIds : conf'[g].status = "pending" => conf'[g] = conf[g]
    BY <1>2, <1>6 DEF AuthorizeActionConfirmation
  <2>2. "failed" \in Terminal
    BY DEF Terminal
  <2> QED
    BY <1>6, <2>1, <2>2, SettleIInv DEF AuthorizeActionConfirmation
<1>7. ASSUME NEW f \in ConfIds, ConsumeActionConfirmation(f) PROVE IInv'
  <2>1. /\ ConfTypes'
        /\ \A g \in ConfIds : conf'[g].status = "pending" => conf'[g] = conf[g]
    BY <1>2, <1>7 DEF ConsumeActionConfirmation
  <2> QED
    BY <1>3, <1>7, <2>1 DEF ConsumeActionConfirmation
<1>8. ASSUME NEW f \in ConfIds, ConfirmationTimesOut(f) PROVE IInv'
  <2>1. /\ hooks' \subseteq hooks /\ expired' \subseteq LeaseIds /\ confExpired' \subseteq ConfIds
        /\ UNCHANGED <<lease, leaseOf>>
    BY <1>8 DEF ConfirmationTimesOut, IInv, TypeOK, leaseVars
  <2> QED
    BY <1>8, <2>1, HookOrClockIInv DEF ConfirmationTimesOut
<1> QED
  BY <1>4, <1>5, <1>6, <1>7, <1>8 DEF ConfirmationNext

\* The janitor drops expired leases with their work, forgets aged operations and
\* expires confirmations, in one critical section.
LEMMA JanitorIInv ==
  ASSUME IInv, Janitor
  PROVE  IInv'
<1> DEFINE T == {t \in Tabs : lease[t] # None /\ ~Live(t)}
           F == {f \in ConfIds : conf[f].status = "pending" /\ f \in confExpired}
           forgotten == {c \in Calls : Registered(c) /\ c \in aged}
           cancelled == {c \in WorkUnder(T) : Registered(c) /\ status[c] = "awaiting_confirmation"}
           failed == {c \in Calls : /\ Registered(c) /\ c \notin forgotten \ cancelled
                                    /\ status[c] = "awaiting_confirmation"
                                    /\ \E f \in F : conf[f].op = req[c].id}
           dropped == forgotten \ cancelled
<1>1. /\ lease' = [t \in Tabs |-> IF t \in T THEN None ELSE lease[t]]
      /\ hooks' = hooks \cup {lease[t] : t \in T}
      /\ queue' = [t \in Tabs |-> IF t \in T THEN <<>> ELSE queue[t]]
      /\ pc' = [c \in Calls |-> IF pc[c] = "queued" /\ req[c].tab \in T
                                THEN "cancelled" ELSE pc[c]]
      /\ stopped' = stopped \cup {c \in WorkUnder(T) : Registered(c) /\ status[c] = "running"}
                            \cup ({active[t] : t \in T} \ {None})
      /\ status' = [c \in Calls |-> IF c \in cancelled THEN "cancelled"
                                    ELSE IF c \in failed THEN "failed" ELSE status[c]]
      /\ operations' = [o \in OpIds |-> IF operations[o] \in dropped THEN None ELSE operations[o]]
      /\ pruned' = pruned \cup dropped
      /\ aged' = aged \ (forgotten \cup cancelled \cup failed)
      /\ conf' = [f \in ConfIds |-> IF f \in F THEN [conf[f] EXCEPT !.status = "expired"]
                                    ELSE conf[f]]
      /\ UNCHANGED <<session, leaseOf, expired, confExpired, active, req, waitsFor, reply, under, sent>>
  BY DEF Janitor, sessionVars
<1>2. /\ T \in SUBSET Tabs /\ \A t \in T : lease[t] # None
      /\ dropped \subseteq Calls /\ \A c \in dropped : Registered(c) /\ c \in aged
      /\ \A c \in cancelled \cup failed :
           /\ c \in Calls /\ Registered(c) /\ status[c] = "awaiting_confirmation"
           /\ c \notin dropped
  BY DEF WorkUnder
<1> HIDE DEF T, forgotten, cancelled, failed, dropped
<1>3. /\ status' \in [Calls -> Statuses] /\ aged' \subseteq aged
      /\ \A c \in Calls : /\ status'[c] = "running" <=> status[c] = "running"
                          /\ status'[c] = "none" <=> status[c] = "none"
                          /\ status[c] \in Terminal => status'[c] = status[c]
                          /\ status'[c] = status[c] \/ c \in cancelled \cup failed
  BY <1>1, <1>2 DEF IInv, TypeOK, Statuses, Terminal
<1>4. /\ queue' \in [Tabs -> Seq(Calls)] /\ pc' \in [Calls -> CallLocations]
      /\ QueueState'
      /\ \A c \in Calls : /\ pc'[c] = "idle" <=> pc[c] = "idle"
                          /\ pc'[c] = "waiting" <=> pc[c] = "waiting"
                          /\ pc'[c] \in Working <=> pc[c] \in Working
  BY <1>1, <1>2, DropQueued DEF IInv
<1>5. /\ LeaseInv'
      /\ lease' \in [Tabs -> LeaseIds \cup {None}] /\ hooks' \subseteq LeaseIds
  <2>1. \A t \in Tabs \ T : lease[t] # None => session'[leaseOf[lease[t]].session] = "open"
    BY <1>1 DEF IInv, LeaseInv, LeaseHolderIsOpen, Open
  <2>2. \A l \in hooks' : l \in hooks \/ \E t \in T : lease[t] # None /\ l = lease[t]
    BY <1>1, <1>2
  <2> QED
    BY <1>1, <1>2, <2>1, <2>2, LeasesGo
<1>6. stopped' \subseteq Calls /\ stopped \subseteq stopped'
  BY <1>1, <1>2 DEF IInv, TypeOK, WorkUnder
<1>7. /\ ConfTypes'
      /\ \A f \in ConfIds : conf'[f].status = "pending" => conf'[f] = conf[f]
  <2>1. ASSUME NEW f \in ConfIds
        PROVE  /\ conf'[f] \in [status : {"none", "pending", "approved", "denied", "expired",
                                         "cancelled", "consumed"},
                               session : Sessions \cup {None}, tab : Tabs \cup {None},
                               browser : Browsers \cup {None}, op : OpIds \cup {None}]
               /\ conf'[f].status = "pending" => conf'[f] = conf[f]
    <3>1. conf'[f] = IF f \in F THEN [conf[f] EXCEPT !.status = "expired"] ELSE conf[f]
      BY <1>1
    <3> HIDE DEF F
    <3> QED
      BY <3>1 DEF IInv, TypeOK
  <2> QED
    BY <1>1, <2>1 DEF ConfTypes
<1>8. CallState'
  BY <1>1, <1>3, <1>4 DEF IInv, OpInv, CallState
<1>9. operations' \in [OpIds -> Calls \cup {None}] /\ pruned' \subseteq Calls /\ aged' \subseteq Calls
  BY <1>1, <1>2, <1>3 DEF IInv, TypeOK
<1>10. Remembered'
  <2>1. ASSUME NEW o \in OpIds, operations'[o] # None
        PROVE  status'[operations'[o]] # "none" /\ req'[operations'[o]].id = o
    BY <1>1, <1>3, <2>1 DEF IInv, OpInv, TypeOK, Remembered
  <2>2. ASSUME NEW c \in Calls, status'[c] # "none"
        PROVE  operations'[req'[c].id] = c \/ c \in pruned' \/ status'[c] = "awaiting_confirmation"
    <3>1. /\ status[c] # "none" /\ req[c].id \in OpIds
          /\ operations[req[c].id] = c \/ c \in pruned \/ status[c] = "awaiting_confirmation"
      BY <1>3, <2>2 DEF IInv, OpInv, CallState, Remembered
    <3>2. CASE operations[req[c].id] = c
      BY <1>1, <3>1, <3>2
    <3>3. CASE operations[req[c].id] # c
      BY <1>1, <1>2, <1>3, <3>1, <3>3 DEF Registered
    <3> QED
      BY <3>2, <3>3
  <2>3. ASSUME NEW c \in Calls, status'[c] = "running"
        PROVE  operations'[req'[c].id] = c
    <3>1. /\ status[c] = "running" /\ req[c].id \in OpIds
          /\ operations[req[c].id] = c /\ c \notin aged
      BY <1>3, <2>3 DEF IInv, OpInv, CallState, Remembered, Working, Terminal
    <3> QED
      BY <1>1, <1>2, <3>1
  <2> QED
    BY <2>1, <2>2, <2>3 DEF Remembered
<1>11. Answers'
  BY <1>1, <1>3, <1>4 DEF IInv, OpInv, CallState, Answers, Joined, TypeOK
<1>12. UnderIssued'
  BY <1>1 DEF IInv, WorkInv, UnderIssued
<1>13. LostLeaseStopsWork'
  <2> SUFFICES ASSUME NEW c \in Calls, status'[c] = "running", under'[c] # None, c \notin stopped'
               PROVE  lease'[req'[c].tab] = under'[c]
    BY DEF LostLeaseStopsWork
  <2>1. /\ status[c] = "running" /\ under[c] # None /\ c \notin stopped
        /\ operations[req[c].id] = c /\ req[c].tab \in Tabs
        /\ leaseOf[under[c]].session = req[c].session
    BY <1>1, <1>3, <1>6 DEF IInv, OpInv, Remembered, WorkInv, UnderIssued
  <2>2. lease[req[c].tab] = under[c]
    BY <2>1 DEF IInv, WorkInv, LostLeaseStopsWork
  <2>3. req[c].tab \notin T
    BY <1>1, <2>1, <2>2 DEF WorkUnder, Registered
  <2> QED
    BY <1>1, <2>1, <2>2, <2>3
<1>14. ClosedSessionIsQuiet'
  BY <1>1, <1>3, <1>6, <1>7 DEF IInv, WorkInv, ClosedSessionIsQuiet
<1>15. TypeOK'
  BY <1>1, <1>3, <1>4, <1>5, <1>6, <1>7, <1>9 DEF IInv, TypeOK, ConfTypes
<1> QED
  BY <1>4, <1>5, <1>8, <1>10, <1>11, <1>12, <1>13, <1>14, <1>15 DEF IInv, OpInv, WorkInv

-----------------------------------------------------------------------------

\* The inductive invariant holds in every state the manager can be in.
THEOREM Invariance == Spec => []IInv
<1>1. IInv /\ [Next]_vars => IInv'
  <2> SUFFICES ASSUME IInv, [Next]_vars PROVE IInv'
    OBVIOUS
  <2>1. ASSUME NEW s \in Sessions, OpenSession(s) \/ CloseSession(s) PROVE IInv'
    BY <2>1, OpenSessionIInv, CloseSessionIInv
  <2>2. CASE StopAll
    BY <2>2, StopAllIInv
  <2>3. CASE LeaseNext
    BY <2>3, LeaseNextIInv
  <2>4. CASE OperationNext
    BY <2>4, OperationNextIInv
  <2>5. CASE ConfirmationNext
    BY <2>5, ConfirmationNextIInv
  <2>6. CASE Janitor
    BY <2>6, JanitorIInv
  <2>7. CASE UNCHANGED vars
    <3>1. /\ hooks' \subseteq hooks /\ expired' \subseteq LeaseIds /\ confExpired' \subseteq ConfIds
          /\ UNCHANGED <<sessionVars, lease, leaseOf, opVars, callVars, queueVars, conf>>
      BY <2>7 DEF vars, leaseVars, confVars, IInv, TypeOK
    <3> QED
      BY <3>1, HookOrClockIInv
  <2> QED
    BY <2>1, <2>2, <2>3, <2>4, <2>5, <2>6, <2>7 DEF Next, SessionNext
<1> QED
  BY InitIInv, <1>1, PTL DEF Spec

\* The manager's tables are well typed.
THEOREM TypeCorrect == Spec => []TypeOK
<1>1. IInv => TypeOK
  BY DEF IInv
<1> QED
  BY <1>1, Invariance, PTL

\* Only open sessions hold tabs, whatever closes, expires or takes over in between.
THEOREM LeaseSafety == Spec => []LeaseHolderIsOpen
<1>1. IInv => LeaseHolderIsOpen
  BY DEF IInv, LeaseInv
<1> QED
  BY <1>1, Invariance, PTL

\* An expiry hook, which runs in a goroutine of its own, never concerns the lease that
\* replaced the one it was started for.
THEOREM HookSafety == Spec => []HookLeaseIsGone
<1>1. IInv => HookLeaseIsGone
  BY DEF IInv, LeaseInv
<1> QED
  BY <1>1, Invariance, PTL

\* Whatever takes a lease away stops the operations done under it.
THEOREM LostLeaseSafety == Spec => []LostLeaseStopsWork
<1>1. IInv => LostLeaseStopsWork
  BY DEF IInv, WorkInv
<1> QED
  BY <1>1, Invariance, PTL

\* A closed session has no operation with a live context and nothing to confirm.
THEOREM ClosedSessionSafety == Spec => []ClosedSessionIsQuiet
<1>1. IInv => ClosedSessionIsQuiet
  BY DEF IInv, WorkInv
<1> QED
  BY <1>1, Invariance, PTL

\* A retry never runs an action again while the operation is remembered.
THEOREM OnceSafety == Spec => []OnceWhileRemembered
<1>1. IInv => OnceWhileRemembered
  <2> SUFFICES ASSUME IInv, NEW c \in Calls, NEW d \in Calls, c # d, {c, d} \subseteq sent,
                      req[c].id = req[d].id
               PROVE  \E x \in {c, d} : x \in pruned \/ status[x] = "awaiting_confirmation"
    BY DEF OnceWhileRemembered
  <2>1. \A x \in {c, d} : operations[req[x].id] = x \/ x \in pruned
                          \/ status[x] = "awaiting_confirmation"
    BY DEF IInv, OpInv, CallState, Remembered
  <2> QED
    BY <2>1
<1> QED
  BY <1>1, Invariance, PTL

\* A retry gets the result of the operation it repeats, and of no other.
THEOREM ReplaySafety == Spec => []ReplayIsFaithful
<1>1. IInv => ReplayIsFaithful
  BY DEF IInv, OpInv, Answers, Joined, ReplayIsFaithful
<1> QED
  BY <1>1, Invariance, PTL

=============================================================================
