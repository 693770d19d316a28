--------------------------- MODULE TabQueueProofs ---------------------------
(***************************************************************************)
(* Safety of the per-tab executor for any set of requests and any number   *)
(* of revocations.                                                         *)
(***************************************************************************)
EXTENDS TabQueue, TLAPS

\* Under the invariant nobody in the queue carries an error, so release never
\* skips a waiter: it grants the first one, or frees the slot.
LEMMA FirstLiveIsHead ==
  ASSUME TypeOK, ReadyClosedOnce
  PROVE  FirstLive = IF waiters = <<>> THEN 0 ELSE 1
<1>1. CASE waiters = <<>>
  BY <1>1 DEF FirstLive
<1>2. CASE waiters # <<>>
  <2>1. 1 \in DOMAIN waiters
    BY <1>2 DEF TypeOK
  <2>2. \A i \in DOMAIN waiters : ~err[waiters[i]]
    BY DEF ReadyClosedOnce, Ready
  <2>3. \A i \in DOMAIN waiters :
          (\A j \in 1 .. i - 1 : err[waiters[j]]) <=> i = 1
    <3> SUFFICES ASSUME NEW i \in DOMAIN waiters
                 PROVE  (\A j \in 1 .. i - 1 : err[waiters[j]]) <=> i = 1
      OBVIOUS
    <3>1. i \in Nat /\ i >= 1 /\ (i # 1 => 1 \in 1 .. i - 1)
      BY DEF TypeOK
    <3> QED
      BY <2>1, <2>2, <3>1
  <2> QED
    BY <1>2, <2>1, <2>2, <2>3 DEF FirstLive
<1> QED
  BY <1>1, <1>2

\* The empty queue satisfies the invariant.
LEMMA InitIInv == Init => IInv
<1> SUFFICES ASSUME Init PROVE IInv
  OBVIOUS
<1>1. TypeOK
  <2>1. generation \in 0 .. MaxGeneration /\ waiters \in Seq(Requests)
    BY MaxGenerationAssumption DEF Init
  <2>2. /\ pc \in [Requests -> Locations]
        /\ outcome \in [Requests -> Outcomes]
        /\ gen \in [Requests -> Nat]
    BY DEF Init, Locations, Outcomes
  <2>3. /\ running \in BOOLEAN
        /\ activeCancel \in Requests \cup {NoRequest}
        /\ granted \in [Requests -> BOOLEAN]
        /\ err \in [Requests -> BOOLEAN]
        /\ ctxDone \in [Requests -> BOOLEAN]
        /\ runDone \in [Requests -> BOOLEAN]
    BY DEF Init
  <2> QED
    BY <2>1, <2>2, <2>3 DEF TypeOK
<1>2. WaiterState /\ ReadyClosedOnce /\ SlotHeldOnce
  BY DEF Init, WaiterState, ReadyClosedOnce, SlotHeldOnce, Ready, Holds
<1>3. CancelTarget /\ RevocationReaches /\ OnlyRevokedAreCancelled
  BY NoRequestAssumption
     DEF Init, CancelTarget, RevocationReaches, OnlyRevokedAreCancelled
<1> QED
  BY <1>1, <1>2, <1>3 DEF IInv

\* A request that arrives takes the free slot or queues behind the holder.
LEMMA EnterIInv ==
  ASSUME NEW r \in Requests, IInv, Enter(r)
  PROVE  IInv'
<1> USE DEF IInv, Enter, queueVars, waiterVars, callerVars
<1>1. CASE ~running
  <2>1. /\ running' = TRUE
        /\ waiters' = waiters
        /\ granted' = [granted EXCEPT ![r] = TRUE]
        /\ pc' = [pc EXCEPT ![r] = "dispatch"]
        /\ gen' = [gen EXCEPT ![r] = generation]
        /\ UNCHANGED <<generation, activeCancel, err, ctxDone, runDone, outcome>>
    BY <1>1
  <2>2. TypeOK'
    BY <2>1 DEF TypeOK, Locations, Outcomes
  <2>3. waiters = <<>>
    BY <1>1 DEF SlotHeldOnce
  <2>4. WaiterState' /\ ReadyClosedOnce'
    BY <2>1, <2>3 DEF TypeOK, WaiterState, Ready, Queued, ReadyClosedOnce
  <2>5. SlotHeldOnce'
    BY <1>1, <2>1 DEF TypeOK, SlotHeldOnce, Holds
  <2>6. CancelTarget' /\ RevocationReaches' /\ OnlyRevokedAreCancelled'
    BY <2>1 DEF TypeOK, CancelTarget, RevocationReaches,
                OnlyRevokedAreCancelled, Ready, WaiterState
  <2> QED
    BY <2>2, <2>4, <2>5, <2>6
<1>2. CASE running
  <2>1. /\ running' = running
        /\ waiters' = Append(waiters, r)
        /\ granted' = granted
        /\ pc' = [pc EXCEPT ![r] = "select"]
        /\ gen' = [gen EXCEPT ![r] = generation]
        /\ UNCHANGED <<generation, activeCancel, err, ctxDone, runDone, outcome>>
    BY <1>2
  <2>2. TypeOK'
    BY <2>1 DEF TypeOK, Locations, Outcomes
  <2>3. /\ DOMAIN waiters' = 1 .. Len(waiters) + 1
        /\ DOMAIN waiters = 1 .. Len(waiters)
        /\ \A i \in DOMAIN waiters : waiters'[i] = waiters[i]
        /\ waiters'[Len(waiters) + 1] = r
        /\ Len(waiters) \in Nat
    BY <2>1 DEF TypeOK
  <2>4. ~Ready(r) /\ \A i \in DOMAIN waiters : waiters[i] # r
    BY DEF WaiterState, ReadyClosedOnce
  <2>5. WaiterState'
    <3> SUFFICES ASSUME NEW s \in Requests, pc'[s] = "select", ~Ready(s)'
                 PROVE  Queued(s)'
      BY <2>1, <2>4 DEF TypeOK, WaiterState, Ready
    <3>1. CASE s = r
      BY <2>3, <3>1 DEF Queued
    <3>2. CASE s # r
      <4>1. pc[s] = "select" /\ ~Ready(s)
        BY <2>1, <3>2 DEF TypeOK, Ready
      <4>2. PICK i \in DOMAIN waiters : waiters[i] = s
        BY <4>1 DEF WaiterState, Queued
      <4>3. i \in DOMAIN waiters' /\ waiters'[i] = s
        BY <2>3, <4>2
      <4> QED
        BY <4>3 DEF Queued
    <3> QED
      BY <3>1, <3>2
  <2>6. ReadyClosedOnce'
    <3>1. ASSUME NEW i \in DOMAIN waiters'
          PROVE  /\ ~granted'[waiters'[i]] /\ ~err'[waiters'[i]]
                 /\ pc'[waiters'[i]] = "select"
      <4>1. CASE i \in DOMAIN waiters
        <5>1. waiters[i] # r /\ waiters'[i] = waiters[i] /\ waiters[i] \in Requests
          BY <2>3, <2>4, <4>1 DEF TypeOK
        <5>2. ~Ready(waiters[i]) /\ pc[waiters[i]] = "select"
          BY <4>1 DEF ReadyClosedOnce
        <5> QED
          BY <2>1, <5>1, <5>2 DEF TypeOK, Ready
      <4>2. CASE i = Len(waiters) + 1
        BY <2>1, <2>3, <2>4, <4>2 DEF TypeOK, Ready
      <4> QED
        BY <2>3, <4>1, <4>2
    <3>2. \A i, j \in DOMAIN waiters' : waiters'[i] = waiters'[j] => i = j
      BY <2>3, <2>4 DEF ReadyClosedOnce
    <3> QED
      BY <3>1, <3>2 DEF ReadyClosedOnce, Ready
  <2>7. SlotHeldOnce'
    BY <1>2, <2>1, <2>4 DEF TypeOK, SlotHeldOnce, Holds, Ready
  <2>8. CancelTarget' /\ RevocationReaches' /\ OnlyRevokedAreCancelled'
    BY <2>1, <2>4 DEF TypeOK, CancelTarget, RevocationReaches,
                      OnlyRevokedAreCancelled, Ready, WaiterState
  <2> QED
    BY <2>2, <2>5, <2>6, <2>7, <2>8
<1> QED
  BY <1>1, <1>2 DEF TypeOK

\* A caller that gives up leaves the queue, or keeps the slot until it releases it.
LEMMA SelectCtxDoneIInv ==
  ASSUME NEW r \in Requests, IInv, SelectCtxDone(r)
  PROVE  IInv'
<1> USE DEF IInv, SelectCtxDone, queueVars, waiterVars, callerVars
<1>1. CASE granted[r]
  <2>1. TypeOK'
    BY <1>1 DEF TypeOK, Locations, Outcomes
  <2>2. WaiterState'
    BY <1>1 DEF TypeOK, WaiterState, Ready, Queued
  <2>3. ReadyClosedOnce'
    BY <1>1 DEF TypeOK, ReadyClosedOnce, Ready, WaiterState, Queued
  <2>4. SlotHeldOnce'
    BY <1>1 DEF TypeOK, SlotHeldOnce, Holds, WaiterState
  <2>5. CancelTarget' /\ RevocationReaches' /\ OnlyRevokedAreCancelled'
    BY <1>1 DEF TypeOK, CancelTarget, RevocationReaches,
                  OnlyRevokedAreCancelled, Ready, WaiterState
  <2> QED
    BY <2>1, <2>2, <2>3, <2>4, <2>5
<1>2. CASE ~granted[r] /\ Queued(r)
  <2>1. PICK i \in DOMAIN waiters : waiters[i] = r /\ waiters' = RemoveAt(i)
    BY <1>2 DEF Queued
  <2>2. /\ DOMAIN waiters = 1 .. Len(waiters)
        /\ Len(waiters) \in Nat
        /\ i \in 1 .. Len(waiters)
        /\ DOMAIN waiters' = 1 .. Len(waiters) - 1
        /\ \A j \in DOMAIN waiters' :
             waiters'[j] = IF j < i THEN waiters[j] ELSE waiters[j + 1]
    BY <2>1 DEF TypeOK, RemoveAt
  <2>3. waiters' \in Seq(Requests)
    <3>1. \A j \in 1 .. Len(waiters) - 1 :
            (IF j < i THEN waiters[j] ELSE waiters[j + 1]) \in Requests
      BY <2>2 DEF TypeOK
    <3>2. Len(waiters) - 1 \in Nat
      BY <2>2
    <3> HIDE DEF SelectCtxDone, IInv
    <3>3. RemoveAt(i) \in Seq(Requests)
      BY <3>1, <3>2 DEF RemoveAt
    <3> QED
      BY <2>1, <3>3
  <2>4. /\ pc' = [pc EXCEPT ![r] = "returned"]
        /\ outcome' = [outcome EXCEPT ![r] = "CANCELLED"]
        /\ UNCHANGED <<running, generation, activeCancel, gen, granted, err,
                       ctxDone, runDone>>
    BY <1>2
  <2>5. TypeOK'
    BY <2>3, <2>4 DEF TypeOK, Locations, Outcomes
  <2>6. \A j \in DOMAIN waiters' :
          \E k \in DOMAIN waiters : /\ waiters'[j] = waiters[k]
                                    /\ k # i
                                    /\ k = IF j < i THEN j ELSE j + 1
    BY <2>2
  <2>7. ReadyClosedOnce'
    <3>1. ASSUME NEW j \in DOMAIN waiters'
          PROVE  /\ ~granted'[waiters'[j]] /\ ~err'[waiters'[j]]
                 /\ pc'[waiters'[j]] = "select"
      <4>1. PICK k \in DOMAIN waiters : waiters'[j] = waiters[k] /\ k # i
        BY <2>6
      <4>2. waiters[k] # r /\ waiters[k] \in Requests
        BY <2>1, <2>2, <4>1 DEF TypeOK, ReadyClosedOnce
      <4>3. ~Ready(waiters[k]) /\ pc[waiters[k]] = "select"
        BY DEF ReadyClosedOnce
      <4> QED
        BY <2>4, <4>1, <4>2, <4>3 DEF TypeOK, Ready
    <3>2. ASSUME NEW j \in DOMAIN waiters', NEW k \in DOMAIN waiters',
                 waiters'[j] = waiters'[k]
          PROVE  j = k
      <4>1. PICK m \in DOMAIN waiters :
              waiters'[j] = waiters[m] /\ m # i /\ m = IF j < i THEN j ELSE j + 1
        BY <2>6
      <4>2. PICK n \in DOMAIN waiters :
              waiters'[k] = waiters[n] /\ n # i /\ n = IF k < i THEN k ELSE k + 1
        BY <2>6
      <4>3. m = n
        BY <3>2, <4>1, <4>2 DEF ReadyClosedOnce
      <4> QED
        BY <2>2, <4>1, <4>2, <4>3
    <3> QED
      BY <3>1, <3>2 DEF ReadyClosedOnce, Ready
  <2>8. WaiterState'
    <3> SUFFICES ASSUME NEW s \in Requests, pc'[s] = "select", ~Ready(s)'
                 PROVE  Queued(s)'
      BY <2>4 DEF TypeOK, WaiterState, Ready
    <3>1. PICK k \in DOMAIN waiters : waiters[k] = s
      BY <2>4 DEF TypeOK, WaiterState, Ready, Queued
    <3>2. k # i
      BY <2>1, <2>4, <3>1 DEF TypeOK
    <3>3. \E j \in DOMAIN waiters' : waiters'[j] = s
      <4>1. CASE k < i
        <5>1. k \in DOMAIN waiters' /\ waiters'[k] = waiters[k]
          BY <2>2, <3>1, <4>1
        <5> QED
          BY <3>1, <5>1
      <4>2. CASE k > i
        <5>1. k - 1 \in DOMAIN waiters' /\ waiters'[k - 1] = waiters[k]
          BY <2>2, <3>1, <4>2
        <5> QED
          BY <3>1, <5>1
      <4> QED
        BY <2>2, <3>2, <4>1, <4>2
    <3> QED
      BY <3>3 DEF Queued
  <2>9. SlotHeldOnce'
    <3>1. waiters # <<>>
      BY <2>1
    <3> QED
      BY <1>2, <2>4, <3>1 DEF TypeOK, SlotHeldOnce, Holds
  <2>10. CancelTarget' /\ RevocationReaches' /\ OnlyRevokedAreCancelled'
    BY <2>4 DEF TypeOK, CancelTarget, RevocationReaches,
                OnlyRevokedAreCancelled, Ready
  <2> QED
    BY <2>5, <2>7, <2>8, <2>9, <2>10
<1>3. CASE ~granted[r] /\ ~Queued(r)
  <2>1. TypeOK'
    <3>1. waiters' = waiters
      BY <1>3 DEF Queued
    <3> QED
      BY <1>3, <3>1 DEF TypeOK, Locations, Outcomes
  <2>2. WaiterState'
    <3>1. waiters' = waiters
      BY <1>3 DEF Queued
    <3> QED
      BY <1>3, <3>1 DEF TypeOK, WaiterState, Ready, Queued
  <2>3. ReadyClosedOnce'
    <3>1. \A i \in DOMAIN waiters : waiters[i] \in Requests /\ waiters[i] # r
      BY <1>3 DEF TypeOK, Queued
    <3>2. waiters' = waiters /\ UNCHANGED <<granted, err>>
      BY <1>3, <3>1
    <3>3. \A i \in DOMAIN waiters : pc'[waiters[i]] = pc[waiters[i]]
      BY <1>3, <3>1 DEF TypeOK
    <3> QED
      BY <3>2, <3>3 DEF ReadyClosedOnce, Ready
  <2>4. SlotHeldOnce'
    BY <1>3 DEF TypeOK, SlotHeldOnce, Holds, WaiterState
  <2>5. CancelTarget' /\ RevocationReaches' /\ OnlyRevokedAreCancelled'
    BY <1>3 DEF TypeOK, CancelTarget, RevocationReaches,
                  OnlyRevokedAreCancelled, Ready, WaiterState
  <2> QED
    BY <2>1, <2>2, <2>3, <2>4, <2>5
<1> QED
  BY <1>1, <1>2, <1>3 DEF TypeOK

\* A woken waiter has the slot or an error, never both.
LEMMA SelectReadyIInv ==
  ASSUME NEW r \in Requests, IInv, SelectReady(r)
  PROVE  IInv'
<1> USE DEF IInv
<1>1. /\ pc[r] = "select"
      /\ Ready(r)
      /\ UNCHANGED <<running, generation, activeCancel, waiters, gen, granted,
                     err, ctxDone, runDone>>
      /\ \/ /\ err[r] /\ ~granted[r]
            /\ pc' = [pc EXCEPT ![r] = "returned"]
            /\ outcome' = [outcome EXCEPT ![r] = "CANCELLED"]
         \/ /\ granted[r] /\ ~err[r]
            /\ pc' = [pc EXCEPT ![r] = "dispatch"]
            /\ outcome' = outcome
  BY DEF SelectReady, queueVars, waiterVars, WaiterState, Ready
<1>2. TypeOK'
  BY <1>1 DEF TypeOK, Locations, Outcomes
<1>3. WaiterState'
  BY <1>1 DEF TypeOK, WaiterState, Ready, Queued
<1>4. ReadyClosedOnce'
  <2>1. \A i \in DOMAIN waiters : waiters[i] \in Requests /\ waiters[i] # r
    BY <1>1 DEF TypeOK, ReadyClosedOnce
  <2>2. \A i \in DOMAIN waiters : pc'[waiters[i]] = pc[waiters[i]]
    BY <1>1, <2>1 DEF TypeOK
  <2> QED
    BY <1>1, <2>2 DEF ReadyClosedOnce, Ready
<1>5. SlotHeldOnce'
  <2>1. \A s \in Requests : Holds(s)' <=> Holds(s)
    BY <1>1 DEF TypeOK, Holds
  <2> QED
    BY <1>1, <2>1 DEF SlotHeldOnce
<1>6. CancelTarget' /\ RevocationReaches' /\ OnlyRevokedAreCancelled'
  BY <1>1 DEF TypeOK, CancelTarget, RevocationReaches,
              OnlyRevokedAreCancelled, Ready
<1> QED
  BY <1>2, <1>3, <1>4, <1>5, <1>6

\* A holder publishes its cancel function exactly when no revocation passed it.
LEMMA DispatchIInv ==
  ASSUME NEW r \in Requests, IInv, Dispatch(r)
  PROVE  IInv'
<1> USE DEF IInv
<1>1. /\ pc[r] = "dispatch"
      /\ UNCHANGED <<running, generation, waiters, gen, granted, err,
                     ctxDone, runDone>>
      /\ \/ /\ gen[r] # generation
            /\ pc' = [pc EXCEPT ![r] = "release"]
            /\ outcome' = [outcome EXCEPT ![r] = "CANCELLED"]
            /\ activeCancel' = activeCancel
         \/ /\ gen[r] = generation
            /\ pc' = [pc EXCEPT ![r] = "fn"]
            /\ outcome' = outcome
            /\ activeCancel' = r
  BY DEF Dispatch, waiterVars
<1>2. TypeOK'
  BY <1>1 DEF TypeOK, Locations, Outcomes
<1>3. WaiterState'
  BY <1>1 DEF TypeOK, WaiterState, Ready, Queued
<1>4. ReadyClosedOnce'
  <2>1. \A i \in DOMAIN waiters : waiters[i] \in Requests /\ waiters[i] # r
    BY <1>1 DEF TypeOK, ReadyClosedOnce
  <2>2. \A i \in DOMAIN waiters : pc'[waiters[i]] = pc[waiters[i]]
    BY <1>1, <2>1 DEF TypeOK
  <2> QED
    BY <1>1, <2>2 DEF ReadyClosedOnce, Ready
<1>5. SlotHeldOnce'
  <2>1. \A s \in Requests : Holds(s)' <=> Holds(s)
    BY <1>1 DEF TypeOK, Holds
  <2> QED
    BY <1>1, <2>1 DEF SlotHeldOnce
<1>6. CancelTarget'
  <2>1. \A s \in Requests : pc[s] \in {"fn", "release"} => s = r
    BY <1>1 DEF WaiterState, SlotHeldOnce, Holds
  <2> QED
    BY <1>1, <2>1 DEF TypeOK, CancelTarget
<1>7. RevocationReaches' /\ OnlyRevokedAreCancelled'
  BY <1>1 DEF TypeOK, RevocationReaches, OnlyRevokedAreCancelled, Ready
<1> QED
  BY <1>2, <1>3, <1>4, <1>5, <1>6, <1>7

\* The end of fn keeps the slot.
LEMMA FnReturnIInv ==
  ASSUME NEW r \in Requests, IInv, FnReturn(r)
  PROVE  IInv'
<1> USE DEF IInv, FnReturn, queueVars, waiterVars, callerVars
<1>1. TypeOK'
  BY DEF TypeOK, Locations, Outcomes
<1>2. WaiterState'
  BY DEF TypeOK, Queued, Ready, ReadyClosedOnce, WaiterState
<1>3. ReadyClosedOnce'
  BY DEF TypeOK, Queued, Ready, ReadyClosedOnce, WaiterState
<1>4. SlotHeldOnce'
  BY DEF TypeOK, Holds, Queued, Ready, ReadyClosedOnce, SlotHeldOnce, WaiterState
<1>5. CancelTarget'
  BY DEF TypeOK, CancelTarget, Queued, Ready, ReadyClosedOnce, WaiterState
<1>6. RevocationReaches'
  BY DEF TypeOK, Queued, Ready, ReadyClosedOnce, RevocationReaches, WaiterState
<1>7. OnlyRevokedAreCancelled'
  BY DEF TypeOK, OnlyRevokedAreCancelled, Queued, Ready, ReadyClosedOnce, WaiterState
<1> QED
  BY <1>1, <1>2, <1>3, <1>4, <1>5, <1>6, <1>7

\* The slot passes to the head of the queue, or is freed.
LEMMA ReleaseIInv ==
  ASSUME NEW r \in Requests, IInv, Release(r)
  PROVE  IInv'
<1> USE DEF IInv
<1>1. /\ pc[r] = "release"
      /\ pc' = [pc EXCEPT ![r] = "returned"]
      /\ activeCancel' = NoRequest
      /\ UNCHANGED <<generation, gen, err, ctxDone, runDone, outcome>>
  BY DEF Release, callerVars
<1>2. Holds(r) /\ running /\ \A s \in Requests : Holds(s) => s = r
  BY <1>1 DEF WaiterState, SlotHeldOnce, Holds
<1>3. CancelTarget'
  BY <1>1, <1>2, NoRequestAssumption DEF TypeOK, CancelTarget, WaiterState, Holds
<1>4. \A i \in DOMAIN waiters :
        /\ waiters[i] \in Requests
        /\ waiters[i] # r
        /\ pc[waiters[i]] = "select"
        /\ ~Ready(waiters[i])
  BY <1>1 DEF TypeOK, ReadyClosedOnce
<1>5. CASE waiters = <<>>
  <2>1. waiters' = <<>> /\ running' = FALSE /\ granted' = granted
    BY <1>5, FirstLiveIsHead DEF Release
  <2>2. TypeOK'
    <3>1. waiters' = waiters
      BY <1>5, <2>1
    <3> QED
      BY <1>1, <2>1, <3>1 DEF TypeOK, Locations, Outcomes
  <2>3. WaiterState' /\ ReadyClosedOnce'
    <3>1. waiters' = waiters
      BY <1>5, <2>1
    <3>2. WaiterState'
      BY <1>1, <2>1, <3>1 DEF TypeOK, WaiterState, Ready, Queued
    <3>3. ReadyClosedOnce'
      BY <2>1 DEF ReadyClosedOnce
    <3> QED
      BY <3>2, <3>3
  <2>4. SlotHeldOnce'
    BY <1>1, <1>2, <2>1 DEF TypeOK, SlotHeldOnce, Holds
  <2>5. RevocationReaches' /\ OnlyRevokedAreCancelled'
    BY <1>1, <2>1 DEF TypeOK, RevocationReaches, OnlyRevokedAreCancelled, Ready
  <2> QED
    BY <1>3, <2>2, <2>3, <2>4, <2>5
<1>6. CASE waiters # <<>>
  <2> DEFINE h == waiters[1]
  <2>1. /\ waiters' = SubSeq(waiters, 2, Len(waiters))
        /\ granted' = [granted EXCEPT ![h] = TRUE]
        /\ running' = running
    BY <1>6, FirstLiveIsHead DEF Release
  <2>2. /\ DOMAIN waiters = 1 .. Len(waiters)
        /\ Len(waiters) \in Nat /\ 1 \in DOMAIN waiters
        /\ DOMAIN waiters' = 1 .. Len(waiters) - 1
        /\ \A i \in DOMAIN waiters' : waiters'[i] = waiters[i + 1]
        /\ waiters' \in Seq(Requests)
    BY <1>6, <2>1 DEF TypeOK
  <2>3. /\ h \in Requests /\ h # r /\ pc[h] = "select" /\ ~Ready(h)
        /\ \A i \in DOMAIN waiters' : waiters'[i] # h
    BY <1>4, <2>2 DEF ReadyClosedOnce
  <2> HIDE DEF h
  <2>4. TypeOK'
    BY <1>1, <2>1, <2>2, <2>3 DEF TypeOK, Locations, Outcomes
  <2>5. WaiterState'
    <3>1. ASSUME NEW s \in Requests, pc'[s] = "select", ~Ready(s)'
          PROVE  Queued(s)'
      <4>1. s # h /\ pc[s] = "select" /\ ~Ready(s)
        BY <1>1, <2>1, <2>3, <3>1 DEF TypeOK, Ready
      <4>2. PICK i \in DOMAIN waiters : waiters[i] = s
        BY <4>1 DEF WaiterState, Queued
      <4>3. i # 1
        BY <4>1, <4>2 DEF h
      <4>4. i - 1 \in DOMAIN waiters' /\ waiters'[i - 1] = s
        BY <2>2, <4>2, <4>3
      <4> QED
        BY <4>4 DEF Queued
    <3>2. \A s \in Requests : Ready(s)' <=> Ready(s) \/ s = h
      BY <1>1, <2>1, <2>3 DEF TypeOK, Ready
    <3> QED
      BY <1>1, <2>1, <2>3, <3>1, <3>2 DEF TypeOK, WaiterState, Ready
  <2>6. ReadyClosedOnce'
    <3>1. ASSUME NEW i \in DOMAIN waiters'
          PROVE  /\ ~granted'[waiters'[i]] /\ ~err'[waiters'[i]]
                 /\ pc'[waiters'[i]] = "select"
      <4>1. i + 1 \in DOMAIN waiters /\ waiters'[i] = waiters[i + 1]
        BY <2>2
      <4>2. /\ waiters'[i] \in Requests /\ waiters'[i] # r /\ waiters'[i] # h
            /\ pc[waiters'[i]] = "select"
            /\ ~granted[waiters'[i]] /\ ~err[waiters'[i]]
        BY <1>4, <2>3, <4>1 DEF Ready
      <4> QED
        BY <1>1, <2>1, <4>2 DEF TypeOK
    <3>2. \A i, j \in DOMAIN waiters' : waiters'[i] = waiters'[j] => i = j
      BY <2>2 DEF ReadyClosedOnce
    <3> QED
      BY <3>1, <3>2 DEF ReadyClosedOnce, Ready
  <2>7. SlotHeldOnce'
    <3>1. \A s \in Requests : Holds(s)' <=> s = h
      BY <1>1, <1>2, <2>1, <2>3 DEF TypeOK, Holds
    <3> QED
      BY <1>2, <2>1, <2>3, <3>1 DEF SlotHeldOnce
  <2>8. RevocationReaches' /\ OnlyRevokedAreCancelled'
    BY <1>1, <2>1, <2>3 DEF TypeOK, RevocationReaches, OnlyRevokedAreCancelled, Ready
  <2> QED
    BY <1>3, <2>4, <2>5, <2>6, <2>7, <2>8
<1> QED
  BY <1>5, <1>6

\* A cancelled caller context changes nothing in the queue.
LEMMA CallerCancelsIInv ==
  ASSUME NEW r \in Requests, IInv, CallerCancels(r)
  PROVE  IInv'
<1> USE DEF IInv, CallerCancels, queueVars, waiterVars, callerVars
<1>1. TypeOK'
  BY DEF TypeOK, Locations, Outcomes
<1>2. WaiterState'
  BY DEF TypeOK, Queued, Ready, ReadyClosedOnce, WaiterState
<1>3. ReadyClosedOnce'
  BY DEF TypeOK, Queued, Ready, ReadyClosedOnce, WaiterState
<1>4. SlotHeldOnce'
  BY DEF TypeOK, Holds, Queued, Ready, ReadyClosedOnce, SlotHeldOnce, WaiterState
<1>5. CancelTarget'
  BY DEF TypeOK, CancelTarget, Queued, Ready, ReadyClosedOnce, WaiterState
<1>6. RevocationReaches'
  BY DEF TypeOK, Queued, Ready, ReadyClosedOnce, RevocationReaches, WaiterState
<1>7. OnlyRevokedAreCancelled'
  BY DEF TypeOK, OnlyRevokedAreCancelled, Queued, Ready, ReadyClosedOnce, WaiterState
<1> QED
  BY <1>1, <1>2, <1>3, <1>4, <1>5, <1>6, <1>7

\* A revocation empties the queue and reaches whoever is in fn.
LEMMA CancelAllIInv ==
  ASSUME IInv, CancelAll
  PROVE  IInv'
<1> USE DEF IInv
<1>1. /\ generation < MaxGeneration
      /\ generation' = generation + 1
      /\ waiters' = <<>>
      /\ runDone' = [r \in Requests |-> runDone[r] \/ r = activeCancel]
      /\ err' = [r \in Requests |-> err[r] \/ Queued(r)]
      /\ UNCHANGED <<running, activeCancel, pc, gen, granted, ctxDone, outcome>>
  BY DEF CancelAll, Queued
<1>2. TypeOK'
  <2>1. generation' \in 0 .. MaxGeneration
    BY <1>1, MaxGenerationAssumption DEF TypeOK
  <2>2. err' \in [Requests -> BOOLEAN] /\ runDone' \in [Requests -> BOOLEAN]
    BY <1>1 DEF TypeOK, Queued
  <2> QED
    BY <1>1, <2>1, <2>2 DEF TypeOK
<1>3. \A r \in Requests : Queued(r) => pc[r] = "select" /\ ~Ready(r)
  BY DEF Queued, ReadyClosedOnce
<1>4. \A r \in Requests : /\ Ready(r)' <=> Ready(r) \/ Queued(r)
                          /\ err'[r] <=> err[r] \/ Queued(r)
                          /\ runDone'[r] <=> runDone[r] \/ r = activeCancel
  BY <1>1 DEF Ready
<1>5. WaiterState'
  <2> SUFFICES ASSUME NEW r \in Requests
               PROVE  /\ pc[r] = "idle" => ~Ready(r)' /\ ~runDone'[r]
                      /\ pc[r] = "select" => Ready(r)'
                      /\ pc[r] \in {"dispatch", "fn", "release"} => granted[r]
                      /\ ~(granted[r] /\ err'[r])
                      /\ gen[r] <= generation'
    BY <1>1 DEF WaiterState
  <2>1. pc[r] = "idle" => ~Ready(r)' /\ ~runDone'[r]
    BY <1>3, <1>4 DEF WaiterState, CancelTarget
  <2>2. pc[r] = "select" => Ready(r)'
    BY <1>4 DEF WaiterState
  <2>3. ~(granted[r] /\ err'[r])
    BY <1>3, <1>4 DEF WaiterState, Ready
  <2>4. gen[r] <= generation'
    BY <1>1 DEF TypeOK, WaiterState
  <2> QED
    BY <2>1, <2>2, <2>3, <2>4 DEF WaiterState
<1>6. ReadyClosedOnce'
  BY <1>1 DEF ReadyClosedOnce
<1>7. SlotHeldOnce' /\ CancelTarget'
  BY <1>1 DEF SlotHeldOnce, Holds, CancelTarget
<1>8. RevocationReaches'
  BY <1>1, <1>4 DEF RevocationReaches, CancelTarget, WaiterState
<1>9. OnlyRevokedAreCancelled'
  BY <1>1 DEF OnlyRevokedAreCancelled, WaiterState, TypeOK
<1> QED
  BY <1>2, <1>5, <1>6, <1>7, <1>8, <1>9

\* A stuttering step changes nothing the invariant mentions.
LEMMA StutterIInv ==
  ASSUME IInv, UNCHANGED vars
  PROVE  IInv'
BY DEF IInv, vars, queueVars, waiterVars, callerVars, TypeOK, WaiterState,
   ReadyClosedOnce, SlotHeldOnce, CancelTarget, RevocationReaches,
   OnlyRevokedAreCancelled, Ready, Holds, Queued

\* The executor's invariant holds in every state of every behaviour.
THEOREM Invariance == Spec => []IInv
<1>1. IInv /\ [Next]_vars => IInv'
  <2> SUFFICES ASSUME IInv, [Next]_vars PROVE IInv'
    OBVIOUS
  <2>1. ASSUME NEW r \in Requests, Step(r) PROVE IInv'
    BY <2>1, EnterIInv, SelectCtxDoneIInv, SelectReadyIInv, DispatchIInv,
       FnReturnIInv, ReleaseIInv DEF Step
  <2>2. ASSUME NEW r \in Requests, CallerCancels(r) PROVE IInv'
    BY <2>2, CallerCancelsIInv
  <2>3. CASE CancelAll
    BY <2>3, CancelAllIInv
  <2>4. CASE UNCHANGED vars
    BY <2>4, StutterIInv
  <2> QED
    BY <2>1, <2>2, <2>3, <2>4 DEF Next
<1> QED
  BY InitIInv, <1>1, PTL DEF Spec

\* Type correctness of the executor's state.
THEOREM TypeCorrect == Spec => []TypeOK
<1>1. IInv => TypeOK
  BY DEF IInv
<1> QED
  BY <1>1, Invariance, PTL

\* At most one request of a tab has the slot, and the slot is never lost.
THEOREM SlotSafety == Spec => []SlotHeldOnce
<1>1. IInv => SlotHeldOnce
  BY DEF IInv
<1> QED
  BY <1>1, Invariance, PTL

\* A revocation stops everything it finds: what has the slot, what waits for it and
\* what is about to run (cancelAll, dispatch).
THEOREM RevocationSafety == Spec => []RevocationReaches
<1>1. IInv => RevocationReaches
  BY DEF IInv
<1> QED
  BY <1>1, Invariance, PTL

\* It stops nothing that came after it: a request of this generation is neither
\* refused nor interrupted (cancelAll, run).
THEOREM CancelSafety == Spec => []OnlyRevokedAreCancelled
<1>1. IInv => OnlyRevokedAreCancelled
  BY DEF IInv
<1> QED
  BY <1>1, Invariance, PTL

\* No ready channel is closed twice.
THEOREM ChannelSafety == Spec => []ReadyClosedOnce
<1>1. IInv => ReadyClosedOnce
  BY DEF IInv
<1> QED
  BY <1>1, Invariance, PTL

-----------------------------------------------------------------------------
(* The refinement of SerialExecutor.                                       *)

\* The cancel function that is published belongs to the request that runs.
CancelIsActive == \A r \in Requests : activeCancel = r <=> Runs(r)

\* Every step keeps CancelIsActive.
LEMMA NextCancelIsActive ==
  ASSUME IInv, CancelIsActive, [Next]_vars
  PROVE  CancelIsActive'
<1> USE DEF queueVars, waiterVars, callerVars
<1>1. ASSUME NEW r \in Requests, Enter(r) PROVE CancelIsActive'
  BY <1>1 DEF Enter, CancelIsActive, Runs, IInv, TypeOK
<1>2. ASSUME NEW r \in Requests, SelectCtxDone(r) PROVE CancelIsActive'
  BY <1>2 DEF SelectCtxDone, CancelIsActive, Runs, IInv, TypeOK
<1>3. ASSUME NEW r \in Requests, SelectReady(r) PROVE CancelIsActive'
  BY <1>3 DEF SelectReady, CancelIsActive, Runs, IInv, TypeOK
<1>4. ASSUME NEW r \in Requests, Dispatch(r) PROVE CancelIsActive'
  <2>1. pc[r] = "dispatch" /\ pc \in [Requests -> Locations] /\ outcome \in [Requests -> Outcomes]
    BY <1>4 DEF Dispatch, IInv, TypeOK
  <2>2. CASE /\ pc' = [pc EXCEPT ![r] = "release"]
             /\ outcome' = [outcome EXCEPT ![r] = "CANCELLED"] /\ activeCancel' = activeCancel
    BY <2>1, <2>2 DEF CancelIsActive, Runs
  <2>3. CASE pc' = [pc EXCEPT ![r] = "fn"] /\ activeCancel' = r /\ outcome' = outcome
    <3>1. \A s \in Requests : Runs(s) => Holds(s)
      BY DEF Runs, Holds, IInv, WaiterState
    <3>2. Holds(r) /\ ~Runs(r)
      BY <2>1 DEF Runs, Holds, IInv, WaiterState
    <3>3. \A s \in Requests : ~Runs(s)
      BY <3>1, <3>2 DEF IInv, SlotHeldOnce
    <3> QED
      BY <2>1, <2>3, <3>3 DEF CancelIsActive, Runs
  <2> QED
    BY <1>4, <2>2, <2>3 DEF Dispatch
<1>5. ASSUME NEW r \in Requests, FnReturn(r) PROVE CancelIsActive'
  BY <1>5 DEF FnReturn, CancelIsActive, Runs, IInv, TypeOK
<1>6. ASSUME NEW r \in Requests, Release(r) PROVE CancelIsActive'
  <2>1. /\ pc[r] = "release" /\ pc' = [pc EXCEPT ![r] = "returned"] /\ activeCancel' = NoRequest
        /\ outcome' = outcome /\ pc \in [Requests -> Locations]
    BY <1>6 DEF Release, IInv, TypeOK
  <2>2. Holds(r) /\ \A s \in Requests : Runs(s) => Holds(s)
    BY <2>1 DEF Runs, Holds, IInv, WaiterState
  <2>3. \A s \in Requests : s # r => ~Runs(s)
    BY <2>2 DEF IInv, SlotHeldOnce
  <2> QED
    BY <2>1, <2>3, NoRequestAssumption DEF CancelIsActive, Runs
<1>7. ASSUME NEW r \in Requests, CallerCancels(r) PROVE CancelIsActive'
  BY <1>7 DEF CallerCancels, CancelIsActive, Runs
<1>8. CASE CancelAll
  BY <1>8 DEF CancelAll, CancelIsActive, Runs
<1>9. CASE UNCHANGED vars
  BY <1>9 DEF vars, CancelIsActive, Runs
<1> QED
  BY <1>1, <1>2, <1>3, <1>4, <1>5, <1>6, <1>7, <1>8, <1>9 DEF Next, Step

\* activeCancel is set exactly while its request is in fn.
LEMMA CancelIsActiveAlways == Spec => []CancelIsActive
<1>1. Init => CancelIsActive
  BY NoRequestAssumption DEF Init, CancelIsActive, Runs
<1> QED
  BY <1>1, NextCancelIsActive, Invariance, PTL DEF Spec

\* The active request of the abstract executor is the owner of the cancel function.
LEMMA ActiveIs ==
  /\ TypeOK /\ CancelIsActive => Active = activeCancel
  /\ TypeOK' /\ CancelIsActive' => Active' = activeCancel'
<1>1. ASSUME TypeOK, CancelIsActive PROVE Active = activeCancel
  BY <1>1, NoRequestAssumption DEF TypeOK, CancelIsActive, Active
<1>2. ASSUME TypeOK', CancelIsActive' PROVE Active' = activeCancel'
  BY <1>2, NoRequestAssumption DEF TypeOK, CancelIsActive, Active
<1> QED
  BY <1>1, <1>2

\* The abstract queue: the holder that has not started, if there is one, and then
\* the waiters.
LEMMA PendingIs ==
  ASSUME NEW h
  PROVE  /\ PendingHolder = {} => Pending = waiters
         /\ PendingHolder = {h} => Pending = <<h>> \o waiters
         /\ PendingHolder' = {} => Pending' = waiters'
         /\ PendingHolder' = {h} => Pending' = <<h>> \o waiters'
BY DEF Pending

\* At most one request has been granted the slot and not yet started, and then
\* nobody else holds it.
LEMMA HolderFacts ==
  ASSUME IInv
  PROVE  /\ PendingHolder = {} \/ \E h \in Requests : PendingHolder = {h}
         /\ \A r, s \in Requests : r \in PendingHolder /\ Holds(s) => r = s
<1>1. \A r \in PendingHolder : r \in Requests /\ Holds(r)
  BY DEF PendingHolder, Holds
<1>2. \A r, s \in Requests : Holds(r) /\ Holds(s) => r = s
  BY DEF IInv, SlotHeldOnce
<1> QED
  BY <1>1, <1>2

\* Two sequences with the same elements are the same.
LEMMA SameSequence ==
  ASSUME NEW S, NEW p \in Seq(S), NEW q \in Seq(S), Len(p) = Len(q),
         \A i \in 1 .. Len(p) : p[i] = q[i]
  PROVE  p = q
OBVIOUS

\* A request in front of a queue.
LEMMA InFront ==
  ASSUME NEW h \in Requests, NEW w \in Seq(Requests)
  PROVE  LET p == <<h>> \o w IN
         /\ p \in Seq(Requests) /\ p # <<>> /\ Head(p) = h /\ Tail(p) = w /\ Len(p) = Len(w) + 1
         /\ p[1] = h /\ \A i \in 1 .. Len(w) : p[i + 1] = w[i]
<1> DEFINE p == <<h>> \o w
<1>1. /\ p \in Seq(Requests) /\ p # <<>> /\ Head(p) = h /\ Len(p) = Len(w) + 1
      /\ p[1] = h /\ \A i \in 1 .. Len(w) : p[i + 1] = w[i]
  OBVIOUS
<1>2. Tail(p) \in Seq(Requests) /\ Len(Tail(p)) = Len(w) /\ \A i \in 1 .. Len(w) : Tail(p)[i] = p[i + 1]
  BY <1>1
<1> HIDE DEF p
<1>3. Tail(p) = w
  BY <1>1, <1>2, SameSequence
<1> QED
  BY <1>1, <1>3 DEF p

\* One that arrives stands behind all of them.
LEMMA Behind ==
  ASSUME NEW h \in Requests, NEW w \in Seq(Requests), NEW r \in Requests
  PROVE  <<h>> \o Append(w, r) = Append(<<h>> \o w, r)
<1> DEFINE p == <<h>> \o w
           q == <<h>> \o Append(w, r)
<1>1. Append(w, r) \in Seq(Requests) /\ Len(Append(w, r)) = Len(w) + 1
      /\ Append(w, r)[Len(w) + 1] = r /\ \A i \in 1 .. Len(w) : Append(w, r)[i] = w[i]
  OBVIOUS
<1>2. /\ p \in Seq(Requests) /\ Len(p) = Len(w) + 1 /\ p[1] = h /\ \A i \in 1 .. Len(w) : p[i + 1] = w[i]
      /\ q \in Seq(Requests) /\ Len(q) = Len(w) + 2 /\ q[1] = h
      /\ \A i \in 1 .. Len(w) + 1 : q[i + 1] = Append(w, r)[i]
  BY <1>1, InFront
<1> HIDE DEF p, q
<1>3. /\ Append(p, r) \in Seq(Requests) /\ Len(Append(p, r)) = Len(w) + 2
      /\ Append(p, r)[Len(w) + 2] = r /\ \A i \in 1 .. Len(w) + 1 : Append(p, r)[i] = p[i]
  BY <1>2
<1>4. ASSUME NEW i \in 1 .. Len(q) PROVE q[i] = Append(p, r)[i]
  <2>1. CASE i = 1
    BY <1>2, <1>3, <2>1
  <2>2. CASE i # 1 /\ i # Len(w) + 2
    <3>1. PICK k \in 1 .. Len(w) : i = k + 1
      BY <1>2, <2>2
    <3>2. q[i] = Append(w, r)[k] /\ p[i] = w[k]
      BY <1>2, <3>1
    <3>3. Append(p, r)[i] = p[i]
      BY <1>3, <3>1
    <3> QED
      BY <1>1, <3>2, <3>3
  <2>3. CASE i = Len(w) + 2
    <3>1. Len(w) + 1 \in 1 .. Len(w) + 1 /\ i = (Len(w) + 1) + 1
      BY <2>3
    <3> QED
      BY <1>1, <1>2, <1>3, <2>3, <3>1
  <2> QED
    BY <2>1, <2>2, <2>3
<1>5. q = Append(p, r)
  BY <1>2, <1>3, <1>4, SameSequence
<1> QED
  BY <1>5 DEF p, q

Without(q, i) == [j \in 1 .. Len(q) - 1 |-> IF j < i THEN q[j] ELSE q[j + 1]]

\* Taking out the one in front, or one behind it.
LEMMA WithoutFacts ==
  ASSUME NEW h \in Requests, NEW w \in Seq(Requests)
  PROVE  /\ Without(<<h>> \o w, 1) = w
         /\ \A i \in 1 .. Len(w) : Without(<<h>> \o w, i + 1) = <<h>> \o Without(w, i)
<1> DEFINE p == <<h>> \o w
<1>1. /\ p \in Seq(Requests) /\ Len(p) = Len(w) + 1 /\ p[1] = h /\ \A i \in 1 .. Len(w) : p[i + 1] = w[i]
  BY InFront
<1> HIDE DEF p
<1>2. /\ Without(p, 1) \in Seq(Requests) /\ Len(Without(p, 1)) = Len(w)
      /\ \A j \in 1 .. Len(w) : Without(p, 1)[j] = p[j + 1]
  BY <1>1 DEF Without
<1>3. Without(p, 1) = w
  BY <1>1, <1>2, SameSequence
<1>4. ASSUME NEW i \in 1 .. Len(w) PROVE Without(p, i + 1) = <<h>> \o Without(w, i)
  <2> DEFINE v == Without(w, i)
             q == <<h>> \o v
             u == Without(p, i + 1)
  <2>1. /\ v \in Seq(Requests) /\ Len(v) = Len(w) - 1
        /\ \A j \in 1 .. Len(w) - 1 : v[j] = IF j < i THEN w[j] ELSE w[j + 1]
    BY DEF Without
  <2> HIDE DEF v
  <2>2. q \in Seq(Requests) /\ Len(q) = Len(w) /\ q[1] = h /\ \A j \in 1 .. Len(w) - 1 : q[j + 1] = v[j]
    BY <2>1, InFront
  <2>3. /\ u \in Seq(Requests) /\ Len(u) = Len(w)
        /\ \A j \in 1 .. Len(w) : u[j] = IF j < i + 1 THEN p[j] ELSE p[j + 1]
    BY <1>1 DEF Without
  <2> HIDE DEF q, u
  <2>4. ASSUME NEW j \in 1 .. Len(u) PROVE u[j] = q[j]
    <3>1. CASE j = 1
      BY <1>1, <2>2, <2>3, <3>1
    <3>2. CASE j # 1
      <4>1. PICK k \in 1 .. Len(w) - 1 : j = k + 1
        BY <2>3, <3>2
      <4>2. k \in 1 .. Len(w) /\ k + 1 \in 1 .. Len(w)
        BY <4>1
      <4>3. q[j] = IF k < i THEN w[k] ELSE w[k + 1]
        BY <2>1, <2>2, <4>1
      <4>4. u[j] = IF k < i THEN p[k + 1] ELSE p[(k + 1) + 1]
        BY <2>3, <4>1, <4>2
      <4> QED
        BY <1>1, <4>2, <4>3, <4>4
    <3> QED
      BY <3>1, <3>2
  <2>5. u = q
    BY <2>2, <2>3, <2>4, SameSequence
  <2> QED
    BY <2>5 DEF u, q, v
<1> QED
  BY <1>3, <1>4 DEF p

\* A step that the abstract executor does not see.
LEMMA Unseen ==
  ASSUME \A s \in Requests : pc'[s] = "idle" <=> pc[s] = "idle", runDone' = runDone,
         Pending' = Pending, Active' = Active
  PROVE  UNCHANGED Serial!vars
BY DEF Serial!vars

\* A request that arrives is submitted, whether it gets the slot or queues.
LEMMA EnterRefines ==
  ASSUME NEW r \in Requests, IInv, Active' = Active, Enter(r)
  PROVE  Serial!Submit(r)
<1>1. /\ pc[r] = "idle" /\ ~granted[r] /\ gen' = [gen EXCEPT ![r] = generation]
      /\ generation' = generation /\ runDone' = runDone
      /\ pc \in [Requests -> Locations] /\ granted \in [Requests -> BOOLEAN]
      /\ gen \in [Requests -> Nat] /\ waiters \in Seq(Requests)
  BY DEF Enter, IInv, TypeOK, WaiterState, Ready, callerVars
<1>2. Pending' = Append(Pending, r) /\ pc'[r] # "idle" /\ \A s \in Requests : s # r => pc'[s] = pc[s]
  <2>1. CASE /\ ~running /\ granted' = [granted EXCEPT ![r] = TRUE]
             /\ pc' = [pc EXCEPT ![r] = "dispatch"] /\ waiters' = waiters
    <3>1. waiters = <<>> /\ PendingHolder = {}
      BY <2>1 DEF IInv, SlotHeldOnce, PendingHolder, Holds
    <3>2. PendingHolder' = {r}
      BY <1>1, <2>1, <3>1 DEF PendingHolder
    <3>3. Pending = <<>> /\ Pending' = <<r>> \o <<>>
      BY <2>1, <3>1, <3>2, PendingIs
    <3>4. <<r>> \o <<>> = Append(<<>>, r)
      OBVIOUS
    <3> QED
      BY <1>1, <2>1, <3>3, <3>4
  <2>2. CASE /\ running /\ waiters' = Append(waiters, r) /\ pc' = [pc EXCEPT ![r] = "select"]
             /\ granted' = granted
    <3>1. PendingHolder' = PendingHolder
      BY <1>1, <2>2 DEF PendingHolder
    <3>2. CASE PendingHolder = {}
      BY <1>1, <2>2, <3>1, <3>2, PendingIs
    <3>3. CASE \E h \in Requests : PendingHolder = {h}
      <4>1. PICK h \in Requests : PendingHolder = {h}
        BY <3>3
      <4>2. Pending = <<h>> \o waiters /\ Pending' = <<h>> \o Append(waiters, r)
        BY <2>2, <3>1, <4>1, PendingIs
      <4> QED
        BY <1>1, <2>2, <4>2, Behind
    <3> QED
      BY <3>2, <3>3, HolderFacts
  <2> QED
    BY <2>1, <2>2 DEF Enter
<1> QED
  BY <1>1, <1>2 DEF Serial!Submit

\* A caller that gives up withdraws its request, or had lost its chance before.
LEMMA SelectCtxDoneRefines ==
  ASSUME NEW r \in Requests, IInv, Active' = Active, SelectCtxDone(r)
  PROVE  (\E i \in DOMAIN Pending : Serial!Withdraw(i)) \/ UNCHANGED Serial!vars
<1>1. /\ pc[r] = "select" /\ granted' = granted /\ gen' = gen /\ generation' = generation
      /\ runDone' = runDone /\ pc \in [Requests -> Locations] /\ waiters \in Seq(Requests)
  BY DEF SelectCtxDone, IInv, TypeOK, waiterVars
<1>2. CASE granted[r] /\ pc' = [pc EXCEPT ![r] = "release"] /\ waiters' = waiters
  <2>1. \A s \in Requests : pc'[s] = "idle" <=> pc[s] = "idle"
    BY <1>1, <1>2
  <2>2. PendingHolder' = PendingHolder \ {r}
    BY <1>1, <1>2 DEF PendingHolder
  <2>3. CASE r \in PendingHolder
    <3>1. PendingHolder = {r} /\ PendingHolder' = {}
      BY <2>2, <2>3, HolderFacts
    <3>2. Pending = <<r>> \o waiters /\ Pending' = waiters
      BY <1>2, <3>1, PendingIs
    <3>3. Pending' = Without(Pending, 1) /\ 1 \in DOMAIN Pending
      BY <1>1, <3>2, WithoutFacts, InFront
    <3>4. Serial!Withdraw(1)
      BY <1>1, <2>1, <3>3 DEF Serial!Withdraw, Without
    <3> QED
      BY <3>3, <3>4
  <2>4. CASE r \notin PendingHolder
    <3>1. PendingHolder' = PendingHolder
      BY <2>2, <2>4
    <3>2. Pending' = Pending
      BY <1>2, <3>1 DEF Pending
    <3> QED
      BY <1>1, <2>1, <3>2, Unseen
  <2> QED
    BY <2>3, <2>4
<1>3. CASE ~granted[r] /\ pc' = [pc EXCEPT ![r] = "returned"]
  <2>1. \A s \in Requests : pc'[s] = "idle" <=> pc[s] = "idle"
    BY <1>1, <1>3
  <2>2. PendingHolder' = PendingHolder
    BY <1>1, <1>3 DEF PendingHolder
  <2>3. CASE waiters' = waiters
    <3>1. Pending' = Pending
      BY <2>2, <2>3 DEF Pending
    <3> QED
      BY <1>1, <2>1, <3>1, Unseen
  <2>4. CASE \E i \in DOMAIN waiters : waiters' = RemoveAt(i)
    <3>1. PICK i \in 1 .. Len(waiters) : waiters' = Without(waiters, i)
      BY <1>1, <2>4 DEF RemoveAt, Without
    <3>2. CASE PendingHolder = {}
      <4>1. Pending = waiters /\ Pending' = waiters'
        BY <2>2, <3>2, PendingIs
      <4>2. Pending' = Without(Pending, i) /\ i \in DOMAIN Pending
        BY <1>1, <3>1, <4>1
      <4>3. Serial!Withdraw(i)
        BY <1>1, <2>1, <4>2 DEF Serial!Withdraw, Without
      <4> QED
        BY <4>2, <4>3
    <3>3. CASE \E h \in Requests : PendingHolder = {h}
      <4>1. PICK h \in Requests : PendingHolder = {h}
        BY <3>3
      <4>2. Pending = <<h>> \o waiters /\ Pending' = <<h>> \o Without(waiters, i)
        BY <2>2, <3>1, <4>1, PendingIs
      <4>3. Pending' = Without(Pending, i + 1)
        BY <1>1, <4>2, WithoutFacts
      <4>4. i + 1 \in DOMAIN Pending
        BY <1>1, <4>2, InFront
      <4>5. Serial!Withdraw(i + 1)
        BY <1>1, <2>1, <4>3 DEF Serial!Withdraw, Without
      <4> QED
        BY <4>4, <4>5
    <3> QED
      BY <3>2, <3>3, HolderFacts
  <2> QED
    BY <1>3, <2>3, <2>4 DEF SelectCtxDone
<1> QED
  BY <1>2, <1>3 DEF SelectCtxDone

\* The request in front starts, unless a revocation has passed it by.
LEMMA DispatchRefines ==
  ASSUME NEW r \in Requests, IInv, Active = activeCancel, Active' = activeCancel', CancelIsActive,
         Dispatch(r)
  PROVE  Serial!Start \/ UNCHANGED Serial!vars
<1>1. /\ pc[r] = "dispatch" /\ granted[r] /\ granted' = granted /\ gen' = gen
      /\ generation' = generation /\ waiters' = waiters /\ runDone' = runDone
      /\ pc \in [Requests -> Locations] /\ waiters \in Seq(Requests)
  BY DEF Dispatch, IInv, TypeOK, WaiterState, waiterVars
<1>2. CASE gen[r] # generation /\ pc' = [pc EXCEPT ![r] = "release"] /\ activeCancel' = activeCancel
  <2>1. PendingHolder' = PendingHolder /\ \A s \in Requests : pc'[s] = "idle" <=> pc[s] = "idle"
    BY <1>1, <1>2 DEF PendingHolder
  <2>2. Pending' = Pending
    BY <1>1, <2>1 DEF Pending
  <2> QED
    BY <1>1, <1>2, <2>1, <2>2, Unseen
<1>3. CASE gen[r] = generation /\ pc' = [pc EXCEPT ![r] = "fn"] /\ activeCancel' = r
  <2>1. r \in PendingHolder
    BY <1>1, <1>3 DEF PendingHolder
  <2>2. PendingHolder = {r}
    BY <2>1, HolderFacts
  <2>3. PendingHolder' = {} /\ \A s \in Requests : pc'[s] = "idle" <=> pc[s] = "idle"
    BY <1>1, <1>3, <2>2 DEF PendingHolder
  <2>4. Pending = <<r>> \o waiters /\ Pending' = waiters
    BY <1>1, <2>2, <2>3, PendingIs
  <2>5. Pending # <<>> /\ Head(Pending) = r /\ Tail(Pending) = Pending'
    BY <1>1, <2>4, InFront
  <2>6. activeCancel = NoRequest
    <3>1. ASSUME NEW s \in Requests, Runs(s) PROVE FALSE
      <4>1. Holds(s) /\ s # r
        BY <1>1, <3>1 DEF Runs, Holds, IInv, WaiterState
      <4> QED
        BY <2>1, <4>1, HolderFacts
    <3> QED
      BY <3>1 DEF CancelIsActive, IInv, TypeOK
  <2> QED
    BY <1>1, <1>3, <2>3, <2>5, <2>6 DEF Serial!Start
<1> QED
  BY <1>2, <1>3 DEF Dispatch

\* The slot is given up: what ran has finished, and the first waiter stays first.
LEMMA ReleaseRefines ==
  ASSUME NEW r \in Requests, IInv, Active = activeCancel, Active' = activeCancel', Release(r)
  PROVE  Serial!Finish \/ UNCHANGED Serial!vars
<1>1. /\ pc[r] = "release" /\ Holds(r) /\ pc' = [pc EXCEPT ![r] = "returned"] /\ activeCancel' = NoRequest
      /\ gen' = gen /\ generation' = generation /\ runDone' = runDone
      /\ pc \in [Requests -> Locations] /\ waiters \in Seq(Requests) /\ granted \in [Requests -> BOOLEAN]
  BY DEF Release, IInv, TypeOK, WaiterState, Holds, callerVars
<1>2. \A s \in Requests : pc'[s] = "idle" <=> pc[s] = "idle"
  BY <1>1
<1>3. PendingHolder = {}
  BY <1>1, HolderFacts DEF PendingHolder
<1>4. Pending = waiters
  BY <1>3, PendingIs
<1>5. FirstLive = IF waiters = <<>> THEN 0 ELSE 1
  BY FirstLiveIsHead DEF IInv
<1>6. Pending' = waiters
  <2>1. CASE waiters = <<>>
    <3>1. waiters' = <<>> /\ granted' = granted
      BY <1>5, <2>1 DEF Release
    <3>2. PendingHolder' = {}
      BY <1>1, <1>3, <3>1 DEF PendingHolder
    <3> QED
      BY <2>1, <3>1, <3>2, PendingIs
  <2>2. CASE waiters # <<>>
    <3>1. /\ waiters[1] \in Requests /\ 1 \in DOMAIN waiters
          /\ granted' = [granted EXCEPT ![waiters[1]] = TRUE] /\ waiters' = SubSeq(waiters, 2, Len(waiters))
      BY <1>1, <1>5, <2>2 DEF Release
    <3>2. PICK h \in Requests : h = waiters[1]
      BY <3>1
    <3>3. pc[h] = "select" /\ gen[h] = generation
      BY <3>1, <3>2 DEF IInv, ReadyClosedOnce, RevocationReaches
    <3>4. PendingHolder' = {h}
      BY <1>1, <1>3, <3>1, <3>2, <3>3 DEF PendingHolder
    <3>5. Pending' = <<h>> \o waiters'
      BY <3>4, PendingIs
    <3>6. <<h>> \o waiters' = waiters
      <4>1. /\ waiters' \in Seq(Requests) /\ Len(waiters') = Len(waiters) - 1
            /\ \A i \in 1 .. Len(waiters) - 1 : waiters'[i] = waiters[i + 1]
        <5>1. waiters' = Tail(waiters)
          BY <1>1, <2>2, <3>1
        <5> QED
          BY <1>1, <2>2, <5>1
      <4>2. PICK v \in Seq(Requests) : v = waiters'
        BY <4>1
      <4>3. LET p == <<h>> \o v IN
            /\ p \in Seq(Requests) /\ Len(p) = Len(v) + 1 /\ p[1] = h
            /\ \A i \in 1 .. Len(v) : p[i + 1] = v[i]
        BY InFront
      <4>4. PICK p \in Seq(Requests) : /\ p = <<h>> \o v /\ Len(p) = Len(waiters) /\ p[1] = waiters[1]
                                       /\ \A i \in 1 .. Len(waiters) - 1 : p[i + 1] = waiters[i + 1]
        <5>1. Len(v) = Len(waiters) - 1 /\ Len(waiters) \in Nat
          BY <1>1, <4>1, <4>2
        <5>2. Len(<<h>> \o v) = Len(waiters) /\ (<<h>> \o v)[1] = waiters[1]
          BY <3>2, <4>3, <5>1
        <5>3. \A i \in 1 .. Len(waiters) - 1 : (<<h>> \o v)[i + 1] = waiters[i + 1]
          BY <4>1, <4>2, <4>3, <5>1
        <5> QED
          BY <4>3, <5>2, <5>3
      <4>5. ASSUME NEW i \in 1 .. Len(p) PROVE p[i] = waiters[i]
        <5>1. CASE i = 1
          BY <4>4, <5>1
        <5>2. CASE i # 1
          <6>1. PICK k \in 1 .. Len(waiters) - 1 : i = k + 1
            BY <1>1, <4>4, <5>2
          <6> QED
            BY <4>4, <6>1
        <5> QED
          BY <5>1, <5>2
      <4>6. p = waiters
        BY <1>1, <4>4, <4>5, SameSequence
      <4> QED
        BY <4>2, <4>4, <4>6
    <3> QED
      BY <3>5, <3>6
  <2> QED
    BY <2>1, <2>2
<1>7. CASE activeCancel = NoRequest
  BY <1>1, <1>2, <1>4, <1>6, <1>7, Unseen
<1>8. CASE activeCancel # NoRequest
  BY <1>1, <1>2, <1>4, <1>6, <1>8 DEF Serial!Finish
<1> QED
  BY <1>7, <1>8

\* A revocation empties the abstract queue and interrupts what runs.
LEMMA CancelAllRefines ==
  ASSUME IInv, Active = activeCancel, Active' = activeCancel', CancelAll
  PROVE  Serial!Revoke
<1>1. /\ generation' = generation + 1 /\ generation \in Nat /\ gen' = gen /\ pc' = pc
      /\ waiters' = <<>> /\ activeCancel' = activeCancel
      /\ runDone' = [r \in Requests |-> runDone[r] \/ r = activeCancel]
      /\ activeCancel \in Requests \cup {NoRequest} /\ gen \in [Requests -> Nat]
  BY DEF CancelAll, IInv, TypeOK
<1>2. PendingHolder' = {}
  <2>1. \A r \in Requests : gen[r] # generation + 1
    BY <1>1 DEF IInv, WaiterState
  <2> QED
    BY <1>1, <2>1 DEF PendingHolder
<1>3. Pending' = <<>>
  BY <1>1, <1>2, PendingIs
<1>4. {r \in Requests : runDone'[r]} = {r \in Requests : runDone[r]} \cup ({activeCancel} \ {NoRequest})
  BY <1>1, NoRequestAssumption
<1> QED
  BY <1>1, <1>3, <1>4 DEF Serial!Revoke

\* The queue is a serial executor: it runs the requests of a tab one at a time and
\* in the order they came, whatever is withdrawn or revoked meanwhile, for any set
\* of requests and any number of revocations.
THEOREM Implementation == Spec => ImplementsSerialExecutor
<1>1. Init => Serial!Init
  BY DEF Init, Serial!Init, Pending, PendingHolder, Active, Runs
<1>2. ASSUME IInv, CancelIsActive, IInv', CancelIsActive', [Next]_vars
      PROVE  [Serial!Next]_(Serial!vars)
  <2>1. Active = activeCancel /\ Active' = activeCancel'
    BY <1>2, ActiveIs DEF IInv
  <2>2. ASSUME NEW r \in Requests, Enter(r) PROVE Serial!Next
    <3>1. Active' = Active
      BY <2>1, <2>2 DEF Enter
    <3> QED
      BY <1>2, <2>2, <3>1, EnterRefines DEF Serial!Next
  <2>3. ASSUME NEW r \in Requests, SelectCtxDone(r) PROVE Serial!Next \/ UNCHANGED Serial!vars
    <3>1. Active' = Active
      BY <2>1, <2>3 DEF SelectCtxDone
    <3> QED
      BY <1>2, <2>3, <3>1, SelectCtxDoneRefines DEF Serial!Next
  <2>4. ASSUME NEW r \in Requests, SelectReady(r) \/ FnReturn(r) \/ CallerCancels(r)
        PROVE  UNCHANGED Serial!vars
    <3>1. /\ activeCancel' = activeCancel /\ waiters' = waiters /\ granted' = granted /\ gen' = gen
          /\ generation' = generation /\ runDone' = runDone
      BY <2>4 DEF SelectReady, FnReturn, CallerCancels, queueVars, waiterVars
    <3>2. PendingHolder' = PendingHolder /\ \A s \in Requests : pc'[s] = "idle" <=> pc[s] = "idle"
      <4>1. CASE SelectReady(r)
        BY <1>2, <3>1, <4>1 DEF SelectReady, PendingHolder, IInv, TypeOK, WaiterState, Ready
      <4>2. CASE FnReturn(r)
        BY <1>2, <3>1, <4>2 DEF FnReturn, PendingHolder, IInv, TypeOK
      <4>3. CASE CallerCancels(r)
        BY <3>1, <4>3 DEF CallerCancels, PendingHolder
      <4> QED
        BY <2>4, <4>1, <4>2, <4>3
    <3>3. Pending' = Pending
      BY <3>1, <3>2 DEF Pending
    <3> QED
      BY <2>1, <3>1, <3>2, <3>3, Unseen
  <2>5. ASSUME NEW r \in Requests, Dispatch(r) PROVE Serial!Next \/ UNCHANGED Serial!vars
    BY <1>2, <2>1, <2>5, DispatchRefines DEF Serial!Next
  <2>6. ASSUME NEW r \in Requests, Release(r) PROVE Serial!Next \/ UNCHANGED Serial!vars
    BY <1>2, <2>1, <2>6, ReleaseRefines DEF Serial!Next
  <2>7. CASE CancelAll
    BY <1>2, <2>1, <2>7, CancelAllRefines DEF Serial!Next
  <2>8. CASE UNCHANGED vars
    <3>1. PendingHolder' = PendingHolder /\ waiters' = waiters /\ activeCancel' = activeCancel
          /\ runDone' = runDone /\ pc' = pc
      BY <2>8 DEF vars, queueVars, waiterVars, callerVars, PendingHolder
    <3>2. Pending' = Pending
      BY <3>1 DEF Pending
    <3> QED
      BY <2>1, <3>1, <3>2, Unseen
  <2> QED
    BY <1>2, <2>2, <2>3, <2>4, <2>5, <2>6, <2>7, <2>8 DEF Next, Step
<1> QED
  BY <1>1, <1>2, Invariance, CancelIsActiveAlways, PTL DEF Spec, ImplementsSerialExecutor, Serial!Spec

=============================================================================
