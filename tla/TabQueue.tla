------------------------------ MODULE TabQueue ------------------------------
(***************************************************************************)
(* The per-tab FIFO executor of the daemon, internal/core/tab_queue.go.    *)
(*                                                                         *)
(* A request is one call of tabQueue.run by a handler goroutine.  Every    *)
(* critical section of q.mu is one action; what a goroutine does between   *)
(* two critical sections (blocking in the select, running fn) is a value   *)
(* of pc.  run calls release() outside the lock it held before, so the     *)
(* decision to give the slot up and the release itself are two actions     *)
(* between which any other goroutine may run.                              *)
(*                                                                         *)
(* The fn a request runs is abstract: it ends, because callBridge puts a   *)
(* deadline on every call, in success or in an error.                      *)
(***************************************************************************)
EXTENDS Naturals, Sequences

CONSTANTS
  Requests,       \* calls of run on this tab
  NoRequest,      \* the nil activeCancel
  MaxGeneration   \* bound on the number of cancelAll calls

ASSUME NoRequestAssumption == NoRequest \notin Requests
ASSUME MaxGenerationAssumption == MaxGeneration \in Nat

VARIABLES
  running,        \* tabQueue.running
  generation,     \* tabQueue.generation
  activeCancel,   \* tabQueue.activeCancel: whose runCtx it cancels
  waiters,        \* tabQueue.waiters
  pc,             \* where each request's goroutine is
  gen,            \* tabWaiter.generation
  granted,        \* tabWaiter.granted
  err,            \* tabWaiter.err # nil
  ctxDone,        \* the caller's context is cancelled or past its deadline
  runDone,        \* the runCtx handed to fn is cancelled by cancelAll
  outcome         \* what run returned, or is about to return

queueVars == <<running, generation, activeCancel, waiters>>
waiterVars == <<gen, granted, err>>
callerVars == <<ctxDone, runDone, outcome>>
vars == <<queueVars, pc, waiterVars, callerVars>>

Locations == {"idle", "select", "dispatch", "fn", "release", "returned"}
Outcomes == {"none", "result", "error", "CANCELLED"}

\* waiter.ready is closed by release (a grant) or by cancelAll (an error).
Ready(r) == granted[r] \/ err[r]

-----------------------------------------------------------------------------

Init ==
  /\ running = FALSE
  /\ generation = 0
  /\ activeCancel = NoRequest
  /\ waiters = <<>>
  /\ pc = [r \in Requests |-> "idle"]
  /\ gen = [r \in Requests |-> 0]
  /\ granted = [r \in Requests |-> FALSE]
  /\ err = [r \in Requests |-> FALSE]
  /\ ctxDone = [r \in Requests |-> FALSE]
  /\ runDone = [r \in Requests |-> FALSE]
  /\ outcome = [r \in Requests |-> "none"]

\* run, first critical section: take the free slot or join the queue.
Enter(r) ==
  /\ pc[r] = "idle"
  /\ gen' = [gen EXCEPT ![r] = generation]
  /\ \/ /\ ~running
        /\ running' = TRUE
        /\ granted' = [granted EXCEPT ![r] = TRUE]
        /\ pc' = [pc EXCEPT ![r] = "dispatch"]
        /\ UNCHANGED waiters
     \/ /\ running
        /\ waiters' = Append(waiters, r)
        /\ pc' = [pc EXCEPT ![r] = "select"]
        /\ UNCHANGED <<running, granted>>
  /\ UNCHANGED <<generation, activeCancel, err, callerVars>>

\* Faulty: the tail is shifted down and the cleared last slot is kept.
RemoveAtKeepsLast(i) ==
  [j \in 1 .. Len(waiters) |-> IF j < i THEN waiters[j]
                                ELSE IF j < Len(waiters) THEN waiters[j + 1] ELSE NoRequest]

\* waiters without position i (removeWaiterLocked shifts the tail down).
RemoveAt(i) ==
  [j \in 1 .. Len(waiters) - 1 |-> IF j < i THEN waiters[j] ELSE waiters[j + 1]]

\* Faulty: the grant that raced the cancellation is not given back.
SelectCtxDoneLeaks(r) ==
  /\ pc[r] = "select"
  /\ ctxDone[r]
  /\ outcome' = [outcome EXCEPT ![r] = "CANCELLED"]
  /\ pc' = [pc EXCEPT ![r] = "returned"]
  /\ \/ \E i \in DOMAIN waiters : waiters[i] = r /\ waiters' = RemoveAt(i)
     \/ (\A i \in DOMAIN waiters : waiters[i] # r) /\ UNCHANGED waiters
  /\ UNCHANGED <<running, generation, activeCancel, waiterVars, ctxDone, runDone>>

\* The ctx.Done branch of the select, up to the end of its critical section.
\* A waiter that cancelAll already took out of the queue is not found there.
SelectCtxDone(r) ==
  /\ pc[r] = "select"
  /\ ctxDone[r]
  /\ outcome' = [outcome EXCEPT ![r] = "CANCELLED"]
  /\ \/ /\ granted[r]
        /\ pc' = [pc EXCEPT ![r] = "release"]
        /\ UNCHANGED waiters
     \/ /\ ~granted[r]
        /\ pc' = [pc EXCEPT ![r] = "returned"]
        /\ \/ \E i \in DOMAIN waiters : waiters[i] = r /\ waiters' = RemoveAt(i)
           \/ (\A i \in DOMAIN waiters : waiters[i] # r) /\ UNCHANGED waiters
  /\ UNCHANGED <<running, generation, activeCancel, waiterVars, ctxDone, runDone>>

\* The waiter.ready branch of the select.
SelectReady(r) ==
  /\ pc[r] = "select"
  /\ Ready(r)
  /\ \/ /\ err[r]
        /\ pc' = [pc EXCEPT ![r] = "returned"]
        /\ outcome' = [outcome EXCEPT ![r] = "CANCELLED"]
     \/ /\ ~err[r]
        /\ pc' = [pc EXCEPT ![r] = "dispatch"]
        /\ UNCHANGED outcome
  /\ UNCHANGED <<queueVars, waiterVars, ctxDone, runDone>>

\* Faulty: the generation is not compared.
DispatchUnchecked(r) ==
  /\ pc[r] = "dispatch"
  /\ pc' = [pc EXCEPT ![r] = "fn"]
  /\ activeCancel' = r
  /\ UNCHANGED <<running, generation, waiters, waiterVars, callerVars>>

\* run, second critical section: a request that waited through a cancelAll
\* gives the slot up, any other one publishes its cancel function and runs.
Dispatch(r) ==
  /\ pc[r] = "dispatch"
  /\ \/ /\ gen[r] # generation
        /\ pc' = [pc EXCEPT ![r] = "release"]
        /\ outcome' = [outcome EXCEPT ![r] = "CANCELLED"]
        /\ UNCHANGED activeCancel
     \/ /\ gen[r] = generation
        /\ pc' = [pc EXCEPT ![r] = "fn"]
        /\ activeCancel' = r
        /\ UNCHANGED outcome
  /\ UNCHANGED <<running, generation, waiters, waiterVars, ctxDone, runDone>>

\* fn returns; its runCtx is cancelled by the caller's own cancel().
FnReturn(r) ==
  /\ pc[r] = "fn"
  /\ pc' = [pc EXCEPT ![r] = "release"]
  /\ \E o \in {"result", "error"} : outcome' = [outcome EXCEPT ![r] = o]
  /\ UNCHANGED <<queueVars, waiterVars, ctxDone, runDone>>

\* Faulty: the latest waiter instead of the first.
LastLive ==
  IF \E i \in DOMAIN waiters : ~err[waiters[i]]
  THEN CHOOSE i \in DOMAIN waiters :
         /\ ~err[waiters[i]]
         /\ \A j \in i + 1 .. Len(waiters) : err[waiters[j]]
  ELSE 0

\* The index of the first waiter that release would grant, 0 if there is none.
FirstLive ==
  IF \E i \in DOMAIN waiters : ~err[waiters[i]]
  THEN CHOOSE i \in DOMAIN waiters :
         /\ ~err[waiters[i]]
         /\ \A j \in 1 .. i - 1 : err[waiters[j]]
  ELSE 0

\* Faulty: running is cleared although the slot is handed on.
ReleaseClearsRunning(r) ==
  /\ pc[r] = "release"
  /\ pc' = [pc EXCEPT ![r] = "returned"]
  /\ activeCancel' = NoRequest
  /\ running' = FALSE
  /\ \/ /\ FirstLive # 0
        /\ granted' = [granted EXCEPT ![waiters[FirstLive]] = TRUE]
        /\ waiters' = SubSeq(waiters, FirstLive + 1, Len(waiters))
     \/ /\ FirstLive = 0
        /\ waiters' = <<>>
        /\ UNCHANGED granted
  /\ UNCHANGED <<generation, gen, err, callerVars>>

\* release: hand the slot to the first waiter without an error, or free it.
Release(r) ==
  /\ pc[r] = "release"
  /\ pc' = [pc EXCEPT ![r] = "returned"]
  /\ activeCancel' = NoRequest
  /\ \/ /\ FirstLive # 0
        /\ granted' = [granted EXCEPT ![waiters[FirstLive]] = TRUE]
        /\ waiters' = SubSeq(waiters, FirstLive + 1, Len(waiters))
        /\ UNCHANGED running
     \/ /\ FirstLive = 0
        /\ waiters' = <<>>
        /\ running' = FALSE
        /\ UNCHANGED granted
  /\ UNCHANGED <<generation, gen, err, callerVars>>

\* The caller gives up: operation.cancel, its deadline, or a closed peer.
CallerCancels(r) ==
  /\ pc[r] # "returned"
  /\ ~ctxDone[r]
  /\ ctxDone' = [ctxDone EXCEPT ![r] = TRUE]
  /\ UNCHANGED <<queueVars, pc, waiterVars, runDone, outcome>>

\* Faulty: the request that runs is not cancelled.
CancelAllSparesActive ==
  /\ generation < MaxGeneration
  /\ generation' = generation + 1
  /\ err' = [r \in Requests |-> err[r] \/ \E i \in DOMAIN waiters : waiters[i] = r]
  /\ waiters' = <<>>
  /\ UNCHANGED <<running, activeCancel, pc, gen, granted, callerVars>>

\* Faulty: the generation stays.
CancelAllSameGeneration ==
  /\ runDone' = [r \in Requests |-> runDone[r] \/ r = activeCancel]
  /\ err' = [r \in Requests |-> err[r] \/ \E i \in DOMAIN waiters : waiters[i] = r]
  /\ waiters' = <<>>
  /\ UNCHANGED <<running, generation, activeCancel, pc, gen, granted, ctxDone, outcome>>

\* Faulty: the cancelled waiters stay in the queue.
CancelAllKeepsWaiters ==
  /\ generation < MaxGeneration
  /\ generation' = generation + 1
  /\ runDone' = [r \in Requests |-> runDone[r] \/ r = activeCancel]
  /\ err' = [r \in Requests |-> err[r] \/ \E i \in DOMAIN waiters : waiters[i] = r]
  /\ UNCHANGED <<running, activeCancel, waiters, pc, gen, granted, ctxDone, outcome>>

\* cancelAll: the tab's control was revoked.
CancelAll ==
  /\ generation < MaxGeneration
  /\ generation' = generation + 1
  /\ runDone' = [r \in Requests |-> runDone[r] \/ r = activeCancel]
  /\ err' = [r \in Requests |-> err[r] \/ \E i \in DOMAIN waiters : waiters[i] = r]
  /\ waiters' = <<>>
  /\ UNCHANGED <<running, activeCancel, pc, gen, granted, ctxDone, outcome>>

Step(r) ==
  \/ Enter(r)
  \/ SelectCtxDone(r)
  \/ SelectReady(r)
  \/ Dispatch(r)
  \/ FnReturn(r)
  \/ Release(r)

Next ==
  \/ \E r \in Requests : Step(r) \/ CallerCancels(r)
  \/ CancelAll

\* A goroutine that can run is run by the Go scheduler, a select with a ready
\* case takes one, and fn ends because callBridge bounds every bridge call by a
\* deadline.  Callers need neither arrive nor give up, and nobody need revoke.
Fairness ==
  \A r \in Requests :
    /\ WF_vars(SelectCtxDone(r) \/ SelectReady(r))
    /\ WF_vars(Dispatch(r))
    /\ WF_vars(FnReturn(r))
    /\ WF_vars(Release(r))

Spec == Init /\ [][Next]_vars
FairSpec == Spec /\ Fairness

-----------------------------------------------------------------------------

TypeOK ==
  /\ running \in BOOLEAN
  /\ generation \in 0 .. MaxGeneration
  /\ activeCancel \in Requests \cup {NoRequest}
  /\ waiters \in Seq(Requests)
  /\ pc \in [Requests -> Locations]
  /\ gen \in [Requests -> Nat]
  /\ granted \in [Requests -> BOOLEAN]
  /\ err \in [Requests -> BOOLEAN]
  /\ ctxDone \in [Requests -> BOOLEAN]
  /\ runDone \in [Requests -> BOOLEAN]
  /\ outcome \in [Requests -> Outcomes]

\* r has the slot: from the grant until its release() has run.
Holds(r) == granted[r] /\ pc[r] \in {"select", "dispatch", "fn", "release"}

\* Requests for one tab never overlap and no slot is lost: at most one request
\* holds the slot, the running flag is set exactly while one does, and nobody
\* queues for a free slot (tab_queue.go run and release).
SlotHeldOnce ==
  /\ \A r, s \in Requests : Holds(r) /\ Holds(s) => r = s
  /\ running <=> \E r \in Requests : Holds(r)
  /\ waiters # <<>> => running

\* A revocation reaches every request it finds: one that still runs has its
\* context cancelled, one that still waits without the slot has its error, so
\* neither can go on as if it had control (tab_queue.go cancelAll).
RevocationReaches ==
  \A r \in Requests :
    gen[r] # generation =>
      /\ pc[r] = "fn" => runDone[r]
      /\ pc[r] = "select" => Ready(r)

\* A request that arrived after the latest revocation is not hit by it: a
\* cancel function left behind by an earlier holder is never called for it.
OnlyRevokedAreCancelled ==
  \A r \in Requests :
    (pc[r] # "idle" /\ gen[r] = generation) => ~err[r] /\ ~runDone[r]

\* The ready channel of a queued waiter is still open and the waiter is queued
\* once, so neither release nor cancelAll closes a closed channel (a Go panic
\* while q.mu is held, which would block the tab for good).
ReadyClosedOnce ==
  /\ \A i \in DOMAIN waiters : ~Ready(waiters[i]) /\ pc[waiters[i]] = "select"
  /\ \A i, j \in DOMAIN waiters : waiters[i] = waiters[j] => i = j

\* Every call of run returns, whatever is cancelled or revoked meanwhile.
EveryRunReturns ==
  \A r \in Requests : pc[r] # "idle" ~> pc[r] = "returned"

-----------------------------------------------------------------------------
(***************************************************************************)
(* The inductive invariant: TypeOK, the safety properties above and what   *)
(* makes them inductive.                                                   *)
(***************************************************************************)
Queued(r) == \E i \in DOMAIN waiters : waiters[i] = r

\* How a goroutine's position determines its tabWaiter.
WaiterState ==
  \A r \in Requests :
    /\ pc[r] = "idle" => ~Ready(r) /\ ~runDone[r]
    /\ pc[r] = "select" /\ ~Ready(r) => Queued(r)
    /\ pc[r] \in {"dispatch", "fn", "release"} => granted[r]
    /\ ~(granted[r] /\ err[r])
    /\ gen[r] <= generation

\* activeCancel belongs to the request in fn, and to nobody else but one that
\* has left fn and not yet released.
CancelTarget ==
  \A r \in Requests :
    /\ pc[r] = "fn" => activeCancel = r
    /\ activeCancel = r => pc[r] \in {"fn", "release"}

IInv ==
  /\ TypeOK
  /\ WaiterState
  /\ ReadyClosedOnce
  /\ SlotHeldOnce
  /\ CancelTarget
  /\ RevocationReaches
  /\ OnlyRevokedAreCancelled

-----------------------------------------------------------------------------
(***************************************************************************)
(* The refinement of SerialExecutor.  A request is pending from its        *)
(* arrival until it runs fn or can no longer do so; the slot holder that   *)
(* has not reached fn yet is the head of the abstract queue, unless a      *)
(* revocation has already doomed it.                                       *)
(***************************************************************************)
PendingHolder ==
  {r \in Requests : /\ granted[r]
                    /\ pc[r] \in {"select", "dispatch"}
                    /\ gen[r] = generation}

Pending ==
  IF PendingHolder = {} THEN waiters
  ELSE <<CHOOSE r \in PendingHolder : TRUE>> \o waiters

\* r runs fn, or has run it and still has the slot.
Runs(r) == pc[r] = "fn" \/ (pc[r] = "release" /\ outcome[r] \in {"result", "error"})

Active ==
  IF \E r \in Requests : Runs(r)
  THEN CHOOSE r \in Requests : Runs(r)
  ELSE NoRequest

Serial == INSTANCE SerialExecutor WITH
  submitted   <- {r \in Requests : pc[r] # "idle"},
  pending     <- Pending,
  active      <- Active,
  interrupted <- {r \in Requests : runDone[r]}

\* The queue implements the serial executor: first come, first served, one at
\* a time, and nothing that waited through a revocation starts afterwards.
ImplementsSerialExecutor == Serial!Spec

=============================================================================
