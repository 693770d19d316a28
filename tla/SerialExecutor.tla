--------------------------- MODULE SerialExecutor ---------------------------
(***************************************************************************)
(* What the comment on tabQueue (internal/core/tab_queue.go) promises for  *)
(* one tab: submitted requests run one at a time, in the order they were   *)
(* submitted; a caller may withdraw a request that has not started; and a  *)
(* revocation empties the queue and interrupts the request that runs, so   *)
(* that nothing submitted before it can start after it.                    *)
(***************************************************************************)
EXTENDS Naturals, Sequences

CONSTANTS Requests, NoRequest

VARIABLES
  submitted,    \* requests that ever arrived
  pending,      \* the ones that may still start, in arrival order
  active,       \* the one that runs, or NoRequest
  interrupted   \* the ones a revocation hit while they ran

vars == <<submitted, pending, active, interrupted>>

Init ==
  /\ submitted = {}
  /\ pending = <<>>
  /\ active = NoRequest
  /\ interrupted = {}

Submit(r) ==
  /\ r \notin submitted
  /\ submitted' = submitted \cup {r}
  /\ pending' = Append(pending, r)
  /\ UNCHANGED <<active, interrupted>>

Start ==
  /\ active = NoRequest
  /\ pending # <<>>
  /\ active' = Head(pending)
  /\ pending' = Tail(pending)
  /\ UNCHANGED <<submitted, interrupted>>

Withdraw(i) ==
  /\ pending' = [j \in 1 .. Len(pending) - 1 |->
                   IF j < i THEN pending[j] ELSE pending[j + 1]]
  /\ UNCHANGED <<submitted, active, interrupted>>

Finish ==
  /\ active # NoRequest
  /\ active' = NoRequest
  /\ UNCHANGED <<submitted, pending, interrupted>>

Revoke ==
  /\ pending' = <<>>
  /\ interrupted' = interrupted \cup ({active} \ {NoRequest})
  /\ UNCHANGED <<submitted, active>>

Next ==
  \/ \E r \in Requests : Submit(r)
  \/ Start
  \/ \E i \in DOMAIN pending : Withdraw(i)
  \/ Finish
  \/ Revoke

Spec == Init /\ [][Next]_vars

=============================================================================
