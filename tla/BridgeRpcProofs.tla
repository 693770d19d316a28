--------------------------- MODULE BridgeRpcProofs ---------------------------
(***************************************************************************)
(* On one connection an answer reaches the call it belongs to, for any     *)
(* number of calls and connections.                                        *)
(***************************************************************************)
EXTENDS BridgeRpc, FiniteSetTheorems, TLAPS

CallRecords == [at : {"idle", "pending", "answered", "failed"}, conn : Nat, id : Nat,
                big : BOOLEAN, got : Calls \cup {None}]

Typed == call \in [Calls -> CallRecords]

\* Only calls that were made are on the wires, handled and answered.
Made == {k \in Calls : call[k].at # "idle"}
Handlers == [at : {"none", "checksum", "runs", "encodes", "failed", "over"}, port : Nat]
Started ==
  /\ up \in Seq(Made) /\ down \in Seq(Made \X {0, 1, 2})
  /\ handler \in [Calls -> Handlers]
  /\ \A k \in Calls : /\ handler[k].at # "none" => k \in Made
                      /\ call[k].got \in Made \cup {None}

\* Why: numbers grow on a connection, and calls wait on the one that is up only.
NumbersGrow ==
  /\ conn \in {0, made} /\ made \in Nat \ {0} /\ next \in Nat
  /\ \A k \in Calls : /\ call[k].conn <= made
                      /\ call[k].at = "idle" => call[k].conn = 0 /\ call[k].got = None
                      /\ call[k].at = "pending" => call[k].conn = conn /\ conn # 0
                      /\ call[k].conn = made => call[k].id <= next
  /\ \A j, k \in Calls : j # k /\ call[j].conn = call[k].conn /\ call[k].conn # 0
                           => call[j].id # call[k].id

IInv == Typed /\ Started /\ NumbersGrow /\ AnswersMatchOnOneLink

\* The invariant holds at the start.
LEMMA InitIInv == Init => IInv
  <1> SUFFICES ASSUME Init PROVE IInv
    OBVIOUS
  <1> USE CallsAssumption DEF Init, NewCall
  <1>1. Typed
    BY DEF Typed, CallRecords
  <1>2. Started
    BY DEF Started, Handlers, NoHandler
  <1>3. NumbersGrow /\ AnswersMatchOnOneLink
    BY DEF NumbersGrow, AnswersMatchOnOneLink
  <1> QED BY <1>1, <1>2, <1>3 DEF IInv

\* A sequence over a set is one over every larger set.
LEMMA SeqMono ==
  ASSUME NEW A, NEW B, A \subseteq B, NEW s \in Seq(A)
  PROVE  s \in Seq(B)
  OBVIOUS

\* What the numeric parts of the invariant need of the types.
LEMMA Fields ==
  ASSUME IInv, NEW k \in Calls
  PROVE  call[k] \in CallRecords /\ call[k].conn \in Nat /\ call[k].id \in Nat
  BY DEF IInv, Typed, CallRecords

\* Steps of the extension change no call.
LEMMA ExtensionStep ==
  ASSUME IInv, UNCHANGED <<conn, made, next, call>>, Started'
  PROVE  IInv'
  BY DEF IInv, Typed, NumbersGrow, AnswersMatchOnOneLink

\* Steps of the daemon leave the handlers alone, and a call that was made stays so.
LEMMA DaemonStep ==
  ASSUME IInv, UNCHANGED handler, Made \subseteq Made',
         up' \in Seq(Made'), down' \in Seq(Made' \X {0, 1, 2}),
         \A k \in Calls : call'[k].got \in Made' \cup {None}
  PROVE  Started'
  BY DEF IInv, Started

\* Peer.Call gives the call the next number of its connection.
LEMMA CallStep ==
  ASSUME IInv, NEW k \in Calls, NEW big \in BOOLEAN, Call(k, big)
  PROVE  IInv'
  <1> DEFINE c == [call[k] EXCEPT !.at = "pending", !.conn = conn, !.id = NextId, !.big = big]
  <1>1. /\ conn = made /\ made \in Nat \ {0} /\ next \in Nat /\ call[k].at = "idle"
        /\ UNCHANGED <<conn, made, up>> /\ next' = next + 1
    BY DEF Call, IInv, NumbersGrow
  <1>2. c \in CallRecords /\ c.at = "pending" /\ c.conn = made /\ c.id = next + 1 /\ c.got = None
    <2>1. call[k] \in CallRecords /\ call[k].got = None /\ NextId \in Nat /\ conn \in Nat
      BY <1>1, Fields DEF NextId, IInv, NumbersGrow
    <2> QED BY <1>1, <2>1 DEF CallRecords, NextId
  <1>3. call' = [call EXCEPT ![k] = c]
    BY DEF Call
  <1> HIDE DEF c
  <1>4. call'[k] = c /\ \A j \in Calls : j # k => call'[j] = call[j]
    BY <1>3 DEF IInv, Typed
  <1>5. Typed'
    BY <1>2, <1>3 DEF IInv, Typed
  <1>6. Started'
    <2>1. Made \subseteq Made' /\ k \in Made' /\ k \notin Made
      BY <1>1, <1>2, <1>4 DEF Made
    <2>2. up' \in Seq(Made')
      BY <1>1, <2>1, SeqMono DEF IInv, Started
    <2>3. down' \in Seq(Made' \X {0, 1, 2})
      <3>1. Made \X {0, 1, 2} \subseteq Made' \X {0, 1, 2}
        BY <2>1
      <3>2. down \in Seq(Made' \X {0, 1, 2})
        BY <3>1, SeqMono DEF IInv, Started
      <3>3. \A i \in {0, 1, 2} : <<k, i>> \in Made' \X {0, 1, 2}
        BY <2>1
      <3>4. /\ <<<<k, 1>>, <<k, 2>>>> \in Seq(Made' \X {0, 1, 2})
            /\ <<<<k, 0>>>> \in Seq(Made' \X {0, 1, 2})
        BY <3>3
      <3>5. CASE big
        BY <3>2, <3>4, <3>5 DEF Call, WriteFrames
      <3>6. CASE ~big
        BY <3>2, <3>4, <3>6 DEF Call, WriteFrames
      <3> QED BY <3>5, <3>6
    <2>4. \A j \in Calls : call'[j].got \in Made' \cup {None}
      BY <2>1, <1>2, <1>4 DEF IInv, Started
    <2> QED BY <2>1, <2>2, <2>3, <2>4, DaemonStep DEF Call
  <1>7. NumbersGrow'
    <2>1. \A j \in Calls : j # k /\ call[j].conn = made => call[j].id < next + 1
      BY <1>1, Fields DEF IInv, NumbersGrow
    <2>2. \A j \in Calls : /\ call'[j].conn <= made'
                           /\ call'[j].at = "idle" => call'[j].conn = 0 /\ call'[j].got = None
                           /\ call'[j].at = "pending" => call'[j].conn = conn' /\ conn' # 0
                           /\ call'[j].conn = made' => call'[j].id <= next'
      BY <2>1, <1>1, <1>2, <1>4, Fields DEF IInv, NumbersGrow
    <2>3. \A i, j \in Calls : i # j /\ call'[i].conn = call'[j].conn /\ call'[j].conn # 0
                              => call'[i].id # call'[j].id
      BY <2>1, <1>1, <1>2, <1>4, Fields DEF IInv, NumbersGrow
    <2> QED BY <2>2, <2>3, <1>1 DEF NumbersGrow
  <1>8. AnswersMatchOnOneLink'
    <2> SUFFICES ASSUME NEW j \in Calls, call'[j].got \notin {j, None}
                 PROVE  call'[call'[j].got].conn < call'[j].conn
      BY DEF AnswersMatchOnOneLink
    <2>1. j # k /\ call'[j] = call[j]
      BY <1>2, <1>4
    <2>2. call[j].got \in Calls /\ call[j].got # k
      BY <2>1, <1>1 DEF IInv, Started, Made
    <2> QED BY <2>1, <2>2, <1>4 DEF IInv, AnswersMatchOnOneLink
  <1> QED BY <1>5, <1>6, <1>7, <1>8 DEF IInv

\* An answer ends the call that has its number on this connection.
LEMMA AnswerStep ==
  ASSUME IInv, Answer
  PROVE  IInv'
  <1> DEFINE h == Head(up)
             c(k) == [call[k] EXCEPT !.at = "answered", !.got = h]
             P(k) == call[k].at = "pending" /\ call[k].conn = conn /\ call[k].id = call[h].id
  <1>1. /\ h \in Made /\ h \in Calls /\ up' \in Seq(Made)
        /\ UNCHANGED <<conn, made, next, down, handler>>
    <2>1. up \in Seq(Made) /\ up # <<>> /\ up' = Tail(up)
      BY DEF Answer, IInv, Started
    <2>2. Head(up) \in Made /\ Tail(up) \in Seq(Made)
      BY <2>1
    <2> QED BY <2>1, <2>2 DEF Answer, Made
  <1>2. call' = [k \in Calls |-> IF P(k) THEN c(k) ELSE call[k]]
    BY DEF Answer
  <1>3. \A k \in Calls : /\ c(k) \in CallRecords /\ c(k).at = "answered" /\ c(k).got = h
                         /\ c(k).conn = call[k].conn /\ c(k).id = call[k].id
    BY <1>1, Fields DEF CallRecords
  <1>4. \A k \in Calls : P(k) /\ h # k => call[h].conn < call[k].conn
    <2> SUFFICES ASSUME NEW k \in Calls, P(k), h # k PROVE call[h].conn < call[k].conn
      OBVIOUS
    <2>1. call[k].conn = conn /\ conn = made /\ made \in Nat \ {0} /\ call[h].conn \in Nat
      BY <1>1, Fields DEF IInv, NumbersGrow
    <2>2. call[h].conn <= made /\ call[h].conn # call[k].conn
      BY <1>1, <2>1 DEF IInv, NumbersGrow
    <2> QED BY <2>1, <2>2
  <1> HIDE DEF c, h
  <1>5. Typed'
    BY <1>1, <1>2, <1>3, Fields DEF Typed
  <1>6. \A k \in Calls : /\ call'[k].conn = call[k].conn /\ call'[k].id = call[k].id
                         /\ call'[k].at = IF P(k) THEN "answered" ELSE call[k].at
                         /\ call'[k].got = IF P(k) THEN h ELSE call[k].got
    BY <1>2, <1>3
  <1>9. Started'
    <2>1. Made' = Made
      BY <1>6 DEF Made
    <2>2. \A k \in Calls : call'[k].got \in Made' \cup {None}
      BY <1>1, <1>6, <2>1 DEF IInv, Started
    <2> QED BY <1>1, <2>1, <2>2, DaemonStep DEF IInv, Started
  <1>7. NumbersGrow'
    <2>1. \A k \in Calls : P(k) => call[k].at = "pending"
      OBVIOUS
    <2> HIDE DEF P
    <2> QED BY <1>1, <1>6, <2>1 DEF IInv, NumbersGrow
  <1>8. AnswersMatchOnOneLink'
    <2> HIDE DEF P
    <2> SUFFICES ASSUME NEW k \in Calls, call'[k].got \notin {k, None}
                 PROVE  call'[call'[k].got].conn < call'[k].conn
      BY DEF AnswersMatchOnOneLink
    <2>1. CASE P(k)
      BY <2>1, <1>1, <1>4, <1>6
    <2>2. CASE ~P(k)
      <3>1. call[k].got \in Calls
        BY <2>2, <1>6, Fields DEF CallRecords
      <3> QED BY <2>2, <3>1, <1>6 DEF IInv, AnswersMatchOnOneLink
    <2> QED BY <2>1, <2>2
  <1> QED BY <1>5, <1>9, <1>7, <1>8 DEF IInv

\* GiveUp and Disconnect end calls and give no answer.
LEMMA FailStep ==
  ASSUME IInv, UNCHANGED <<made, next, handler>>, conn' \in {0, conn},
         up' \in {up, <<>>}, down' \in {down, <<>>},
         NEW E \in SUBSET Calls,
         conn' # conn => \A k \in Calls \ E : call[k].at # "pending",
         \A k \in E : call[k].at = "pending",
         call' = [k \in Calls |-> IF k \in E THEN [call[k] EXCEPT !.at = "failed"] ELSE call[k]]
  PROVE  IInv'
  <1> DEFINE c(k) == [call[k] EXCEPT !.at = "failed"]
  <1>1. \A k \in Calls : /\ c(k) \in CallRecords /\ c(k).at = "failed" /\ c(k).got = call[k].got
                         /\ c(k).conn = call[k].conn /\ c(k).id = call[k].id
    BY Fields DEF CallRecords
  <1>2. call' = [k \in Calls |-> IF k \in E THEN c(k) ELSE call[k]]
    OBVIOUS
  <1> HIDE DEF c
  <1>3. Typed'
    BY <1>1, <1>2, Fields DEF Typed
  <1>4. \A k \in Calls : /\ call'[k].conn = call[k].conn /\ call'[k].id = call[k].id
                         /\ call'[k].at = IF k \in E THEN "failed" ELSE call[k].at
                         /\ call'[k].got = call[k].got
    BY <1>1, <1>2
  <1>7. Started'
    <2>1. Made' = Made
      BY <1>4 DEF Made
    <2>2. up' \in Seq(Made) /\ down' \in Seq(Made \X {0, 1, 2})
      <3>1. up \in Seq(Made) /\ down \in Seq(Made \X {0, 1, 2})
        BY DEF IInv, Started
      <3>2. \A S : <<>> \in Seq(S)
        OBVIOUS
      <3> QED BY <3>1, <3>2
    <2>3. \A k \in Calls : call'[k].got \in Made' \cup {None}
      BY <1>4, <2>1 DEF IInv, Started
    <2> QED BY <2>1, <2>2, <2>3, DaemonStep
  <1>5. NumbersGrow'
    BY <1>4 DEF IInv, NumbersGrow
  <1>6. AnswersMatchOnOneLink'
    <2>1. \A k \in Calls : call[k].got \in Calls \cup {None}
      BY Fields DEF CallRecords
    <2> QED BY <1>4, <2>1 DEF IInv, AnswersMatchOnOneLink
  <1> QED BY <1>3, <1>5, <1>6, <1>7 DEF IInv

\* A new connection starts numbering afresh, and no call is pending on it.
LEMMA ReconnectStep ==
  ASSUME IInv, Reconnect
  PROVE  IInv'
  <1>1. /\ made \in Nat \ {0} /\ made' = made + 1 /\ conn' = made' /\ next' = 0
        /\ UNCHANGED <<call, up>> /\ conn = 0
    BY DEF Reconnect, IInv, NumbersGrow
  <1>2. \A k \in Calls : call[k].conn \in Nat /\ call[k].conn < made' /\ call[k].at # "pending"
    BY <1>1, Fields DEF IInv, NumbersGrow
  <1>3. NumbersGrow'
    BY <1>1, <1>2 DEF IInv, NumbersGrow
  <1>4. Started'
    BY <1>1, DaemonStep DEF Reconnect, IInv, Started, Made
  <1> QED BY <1>1, <1>3, <1>4 DEF IInv, Typed, AnswersMatchOnOneLink

\* Every step keeps the invariant.
LEMMA NextIInv == IInv /\ [Next]_vars => IInv'
  <1> SUFFICES ASSUME IInv, [Next]_vars PROVE IInv'
    OBVIOUS
  <1>1. ASSUME NEW k \in Calls, NEW big \in BOOLEAN, Call(k, big) PROVE IInv'
    BY <1>1, CallStep
  <1>2. CASE Answer
    BY <1>2, AnswerStep
  <1>3. ASSUME NEW old \in SUBSET Calls, Accept(old) PROVE IInv'
    <2> DEFINE n == Head(down)[1]
    <2>1. n \in Made /\ n \in Calls /\ down' \in Seq(Made \X {0, 1, 2})
      BY <1>3 DEF Accept, IInv, Started, Made
    <2>2. handler' = handler \/ \E a \in {"checksum", "runs"} : handler' = [handler EXCEPT ![n].at = a]
      BY <1>3 DEF Accept
    <2>3. UNCHANGED <<conn, made, next, call, up>>
      BY <1>3 DEF Accept
    <2> HIDE DEF n
    <2>4. Started'
      BY <2>1, <2>2, <2>3 DEF IInv, Started, Handlers, Made
    <2> QED BY <2>3, <2>4, ExtensionStep
  <1>4. ASSUME NEW k \in Calls, GiveUp(k) PROVE IInv'
    <2>1. call' = [j \in Calls |-> IF j \in {k} THEN [call[j] EXCEPT !.at = "failed"] ELSE call[j]]
      BY <1>4 DEF GiveUp, IInv, Typed
    <2> QED BY <1>4, <2>1, FailStep DEF GiveUp
  <1>5. CASE Disconnect
    <2> DEFINE E == {j \in Calls : call[j].at = "pending"}
    <2>1. call' = [j \in Calls |-> IF j \in E THEN [call[j] EXCEPT !.at = "failed"] ELSE call[j]]
      BY <1>5 DEF Disconnect
    <2>2. /\ UNCHANGED <<made, next, handler>> /\ conn' \in {0, conn}
          /\ up' \in {up, <<>>} /\ down' \in {down, <<>>}
          /\ E \in SUBSET Calls /\ \A j \in Calls \ E : call[j].at # "pending"
      BY <1>5 DEF Disconnect
    <2> HIDE DEF E
    <2>3. \A j \in E : call[j].at = "pending"
      BY DEF E
    <2> QED BY <2>1, <2>2, <2>3, FailStep
  <1>6. CASE Reconnect
    BY <1>6, ReconnectStep
  <1>7. ASSUME NEW k \in Calls, Work(k) PROVE IInv'
    <2>1. UNCHANGED <<conn, made, next, call, down>> /\ handler[k].at # "none"
      BY <1>7 DEF Work, Checked, Respond, Encode, Encoded
    <2>2. up' = up \/ Post(k)
      BY <1>7 DEF Work, Checked, Respond, Encode, Encoded
    <2>3. up' \in Seq(Made) /\ k \in Made
      BY <2>1, <2>2 DEF Post, IInv, Started
    <2>4. \/ handler' = [handler EXCEPT ![k].at = "runs"]
          \/ \E n \in Handlers : handler' = [handler EXCEPT ![k] = n]
      BY <1>7 DEF Work, Checked, Respond, Encode, Encoded, Handlers, IInv, NumbersGrow
    <2>5. Started'
      BY <2>1, <2>3, <2>4 DEF IInv, Started, Handlers, Made
    <2> QED BY <2>1, <2>5, ExtensionStep
  <1>8. CASE UNCHANGED vars
    BY <1>8, ExtensionStep DEF vars, IInv, Started, Made
  <1> QED BY <1>1, <1>2, <1>3, <1>4, <1>5, <1>6, <1>7, <1>8 DEF Next, Carry

\* However often the connection is lost and made again, an answer is taken for the
\* answer to another call only if it comes from an earlier connection
\* (Peer.Serve, Peer.Call, NativeBridge #respond).
THEOREM AnswersMatch == Spec => []AnswersMatchOnOneLink
  <1>1. IInv => AnswersMatchOnOneLink
    BY DEF IInv
  <1> QED BY <1>1, InitIInv, NextIInv, PTL DEF Spec

-----------------------------------------------------------------------------
(* Streams: the relay writes the frames of a message without a break, so   *)
(* the frame an incomplete stream waits for is the next one.               *)

\* Nothing is on its way while there is no connection.
Quiet == conn = 0 => down = <<>> /\ up = <<>> /\ parts = [k \in Calls |-> {}]

\* Only large messages travel in two frames, and the assembler has only theirs.
Sized ==
  /\ parts \in [Calls -> SUBSET {1, 2}]
  /\ \A k \in Calls : /\ call[k].at = "idle" => ~call[k].big
                      /\ ~call[k].big => parts[k] = {}
  /\ \A i \in 1 .. Len(down) : down[i][2] = 0 <=> ~call[down[i][1]].big

\* A first frame is followed by its second one, and a stream that lacks its second
\* frame, and of which none was dropped, is about to get it.
InOrder ==
  /\ \A i \in 1 .. Len(down) : down[i][2] = 1 => i < Len(down) /\ down[i + 1] = <<down[i][1], 2>>
  /\ \A k \in Calls : parts[k] = {1} /\ k \notin pruned => down # <<>> /\ down[1] = <<k, 2>>

StreamInv == Quiet /\ Sized /\ InOrder /\ made <= MaxConns

\* No frame is under way at the start.
LEMMA InitStreamInv == Init => StreamInv
  <1> SUFFICES ASSUME Init PROVE StreamInv
    OBVIOUS
  <1>1. Quiet /\ made <= MaxConns
    BY CallsAssumption DEF Init, Quiet
  <1>2. Sized /\ InOrder
    BY DEF Init, NewCall, Sized, InOrder
  <1> QED BY <1>1, <1>2 DEF StreamInv

\* What the wires carry.
LEMMA Wires ==
  ASSUME IInv
  PROVE  /\ down \in Seq(Calls \X {0, 1, 2})
         /\ \A i \in 1 .. Len(down) : /\ down[i][1] \in Calls /\ down[i][2] \in {0, 1, 2}
                                      /\ call[down[i][1]].at # "idle"
                                      /\ down[i] = <<down[i][1], down[i][2]>>
  <1>1. down \in Seq(Made \X {0, 1, 2})
    BY DEF IInv, Started
  <1>2. \A i \in 1 .. Len(down) : down[i] \in Made \X {0, 1, 2}
    BY <1>1
  <1>3. Made \X {0, 1, 2} \subseteq Calls \X {0, 1, 2}
    BY DEF Made
  <1> QED BY <1>1, <1>2, <1>3, SeqMono DEF Made

\* A request is written behind whatever is on the wire.
LEMMA CallStream ==
  ASSUME IInv, StreamInv, NEW k \in Calls, NEW big \in BOOLEAN, Call(k, big)
  PROVE  StreamInv'
  <1> DEFINE fs == IF big THEN <<<<k, 1>>, <<k, 2>>>> ELSE <<<<k, 0>>>>
  <1>1. /\ call[k].at = "idle" /\ conn # 0 /\ down' = down \o fs
        /\ UNCHANGED <<conn, made, up, parts, pruned>>
    BY DEF Call, WriteFrames
  <1>2. /\ call'[k].at = "pending" /\ call'[k].big = big
        /\ \A j \in Calls : j # k => call'[j] = call[j]
    <2>1. call \in [Calls -> CallRecords] /\ call[k] \in CallRecords
      BY DEF IInv, Typed
    <2> QED BY <2>1 DEF Call, CallRecords
  <1>3. /\ fs \in Seq(Calls \X {0, 1, 2}) /\ Len(fs) \in 1 .. 2
        /\ \A i \in 1 .. Len(fs) : fs[i][1] = k /\ (fs[i][2] = 0 <=> ~big)
        /\ \A i \in 1 .. Len(fs) : fs[i][2] = 1 => i < Len(fs) /\ fs[i + 1] = <<k, 2>>
    <2>1. CASE big
      <3>1. fs = <<<<k, 1>>, <<k, 2>>>>
        BY <2>1
      <3> QED BY <2>1, <3>1
    <2>2. CASE ~big
      <3>1. fs = <<<<k, 0>>>>
        BY <2>2
      <3> QED BY <2>2, <3>1
    <2> QED BY <2>1, <2>2
  <1> HIDE DEF fs
  <1>4. /\ Len(down') = Len(down) + Len(fs) /\ Len(down) \in Nat
        /\ \A i \in 1 .. Len(down) : down'[i] = down[i]
        /\ \A i \in 1 .. Len(fs) : down'[Len(down) + i] = fs[i]
    BY <1>1, <1>3, Wires
  <1>5. \A i \in 1 .. Len(down') : i \in 1 .. Len(down) \/ \E j \in 1 .. Len(fs) : i = Len(down) + j
    <2> SUFFICES ASSUME NEW i \in 1 .. Len(down'), i \notin 1 .. Len(down)
                 PROVE  \E j \in 1 .. Len(fs) : i = Len(down) + j
      OBVIOUS
    <2>1. i - Len(down) \in 1 .. Len(fs) /\ i = Len(down) + (i - Len(down))
      BY <1>3, <1>4
    <2> QED BY <2>1
  <1>6. Sized'
    <2>1. parts[k] = {}
      BY <1>1 DEF StreamInv, Sized
    <2>2. \A j \in Calls : (call'[j].at = "idle" => ~call'[j].big) /\ (~call'[j].big => parts[j] = {})
      BY <1>2, <2>1 DEF StreamInv, Sized
    <2>3. ASSUME NEW i \in 1 .. Len(down') PROVE down'[i][2] = 0 <=> ~call'[down'[i][1]].big
      <3>1. CASE i \in 1 .. Len(down)
        <4>1. down[i][1] \in Calls /\ down[i][1] # k /\ (down[i][2] = 0 <=> ~call[down[i][1]].big)
          BY <3>1, <1>1, Wires DEF StreamInv, Sized
        <4> QED BY <3>1, <4>1, <1>2, <1>4
      <3>2. ASSUME NEW j \in 1 .. Len(fs), i = Len(down) + j
            PROVE  down'[i][2] = 0 <=> ~call'[down'[i][1]].big
        BY <3>2, <1>2, <1>3, <1>4
      <3> QED BY <3>1, <3>2, <1>5
    <2> QED BY <1>1, <2>2, <2>3 DEF StreamInv, Sized
  <1>7. InOrder'
    <2>1. ASSUME NEW i \in 1 .. Len(down'), down'[i][2] = 1
          PROVE  i < Len(down') /\ down'[i + 1] = <<down'[i][1], 2>>
      <3>1. CASE i \in 1 .. Len(down)
        <4>1. i < Len(down) /\ down[i + 1] = <<down[i][1], 2>> /\ i + 1 \in 1 .. Len(down)
          BY <3>1, <2>1, <1>4 DEF StreamInv, InOrder
        <4> QED BY <3>1, <4>1, <1>3, <1>4
      <3>2. ASSUME NEW j \in 1 .. Len(fs), i = Len(down) + j
            PROVE  i < Len(down') /\ down'[i + 1] = <<down'[i][1], 2>>
        <4>1. fs[j][2] = 1 /\ down'[i] = fs[j]
          BY <3>2, <2>1, <1>4
        <4>2. j < Len(fs) /\ fs[j + 1] = <<k, 2>> /\ fs[j][1] = k /\ j + 1 \in 1 .. Len(fs)
          BY <4>1, <1>3
        <4>3. down'[Len(down) + (j + 1)] = <<k, 2>> /\ Len(down) + (j + 1) = i + 1
          BY <4>2, <3>2, <1>4
        <4> QED BY <4>1, <4>2, <4>3, <3>2, <1>3, <1>4
      <3> QED BY <3>1, <3>2, <1>5
    <2>2. ASSUME NEW j \in Calls, parts[j] = {1}, j \notin pruned
          PROVE  down' # <<>> /\ down'[1] = <<j, 2>>
      <3>1. down # <<>> /\ down[1] = <<j, 2>>
        BY <2>2 DEF StreamInv, InOrder
      <3>2. 1 \in 1 .. Len(down)
        BY <3>1, Wires
      <3>3. Len(down') # 0
        BY <1>3, <1>4
      <3> QED BY <3>1, <3>2, <3>3, <1>4
    <2> QED BY <1>1, <2>1, <2>2 DEF InOrder
  <1>8. Quiet' /\ made' <= MaxConns
    BY <1>1 DEF StreamInv, Quiet
  <1> QED BY <1>6, <1>7, <1>8 DEF StreamInv

\* The frame at the front is the one the stream in front waits for, if any does.
LEMMA AcceptStream ==
  ASSUME IInv, StreamInv, NEW old \in SUBSET Calls, Accept(old)
  PROVE  StreamInv'
  <1> DEFINE k == Head(down)[1]
             f == Head(down)[2]
             kept == [c \in Calls |-> IF c \in old THEN {} ELSE parts[c]]
             has == kept[k] \cup {f}
             rest == IF has \in {{0}, {1, 2}} THEN {} ELSE has
  <1>1. /\ down # <<>> /\ down' = Tail(down) /\ parts' = [kept EXCEPT ![k] = rest]
        /\ pruned' = pruned \cup old /\ UNCHANGED <<conn, made, next, call, up>>
    BY DEF Accept
  <1>2. /\ Len(down) \in Nat \ {0} /\ Head(down) = down[1] /\ Len(down') = Len(down) - 1
        /\ \A i \in 1 .. Len(down') : down'[i] = down[i + 1] /\ i + 1 \in 1 .. Len(down)
    BY <1>1, Wires
  <1>3. k \in Calls /\ f \in {0, 1, 2} /\ down[1] = <<k, f>> /\ (f = 0 <=> ~call[k].big)
    BY <1>2, Wires DEF StreamInv, Sized
  <1>4. parts \in [Calls -> SUBSET {1, 2}] /\ kept \in [Calls -> SUBSET {1, 2}]
    BY DEF StreamInv, Sized
  <1>5. rest \in SUBSET {1, 2} /\ (~call[k].big => rest = {})
    <2>1. CASE f = 0
      <3>1. kept[k] = {}
        BY <1>3, <2>1 DEF StreamInv, Sized
      <3> QED BY <2>1, <3>1
    <2>2. CASE f # 0
      BY <1>3, <1>4, <2>2
    <2> QED BY <2>1, <2>2
  <1>6. /\ \A c \in Calls \ {k} : parts'[c] = kept[c]
        /\ parts'[k] = rest /\ parts' \in [Calls -> SUBSET {1, 2}]
    BY <1>1, <1>3, <1>4, <1>5
  <1>7. Sized'
    <2>1. \A c \in Calls : ~call[c].big => parts'[c] = {}
      BY <1>5, <1>6 DEF StreamInv, Sized
    <2>2. \A i \in 1 .. Len(down') : down'[i][2] = 0 <=> ~call[down'[i][1]].big
      BY <1>2 DEF StreamInv, Sized
    <2> QED BY <1>1, <1>6, <2>1, <2>2 DEF StreamInv, Sized
  <1>8. InOrder'
    <2>1. ASSUME NEW i \in 1 .. Len(down'), down'[i][2] = 1
          PROVE  i < Len(down') /\ down'[i + 1] = <<down'[i][1], 2>>
      <3>1. i + 1 \in 1 .. Len(down) /\ down'[i] = down[i + 1]
        BY <1>2
      <3>2. i + 1 < Len(down) /\ down[(i + 1) + 1] = <<down[i + 1][1], 2>>
        BY <2>1, <3>1 DEF StreamInv, InOrder
      <3>3. i + 1 \in 1 .. Len(down')
        BY <1>2, <3>2
      <3> QED BY <1>2, <3>1, <3>2, <3>3
    <2>2. ASSUME NEW c \in Calls, parts'[c] = {1}, c \notin pruned'
          PROVE  down' # <<>> /\ down'[1] = <<c, 2>>
      <3>1. c = k
        <4> SUFFICES ASSUME c # k PROVE FALSE
          OBVIOUS
        <4>1. parts[c] = {1} /\ c \notin pruned
          BY <1>1, <1>6, <2>2
        <4>2. down[1] = <<c, 2>>
          BY <4>1 DEF StreamInv, InOrder
        <4> QED BY <1>3, <4>2
      <3>2. f = 1
        BY <1>6, <2>2, <3>1
      <3>3. 1 < Len(down) /\ down[1 + 1] = <<k, 2>>
        BY <1>2, <1>3, <3>2 DEF StreamInv, InOrder
      <3>4. 1 \in 1 .. Len(down')
        BY <1>2, <3>3
      <3> QED BY <1>2, <3>1, <3>3, <3>4
    <2> QED BY <2>1, <2>2 DEF InOrder
  <1>9. Quiet' /\ made' <= MaxConns
    BY <1>1 DEF StreamInv, Quiet
  <1> QED BY <1>7, <1>8, <1>9 DEF StreamInv

\* A step that writes no frame and takes none leaves the streams as they are.
LEMMA StreamKept ==
  ASSUME StreamInv, UNCHANGED <<conn, made, down, parts, pruned>>,
         \A k \in Calls : call'[k].big = call[k].big /\ (call'[k].at = "idle" => call[k].at = "idle"),
         conn = 0 => up' = <<>>,
         \A i \in 1 .. Len(down) : down[i][1] \in Calls
  PROVE  StreamInv'
  <1>1. Sized' /\ InOrder'
    BY DEF StreamInv, Sized, InOrder
  <1>2. Quiet' /\ made' <= MaxConns
    BY DEF StreamInv, Quiet
  <1> QED BY <1>1, <1>2 DEF StreamInv

\* Every step keeps the frames of one request together.
LEMMA NextStreamInv == IInv /\ StreamInv /\ [Next]_vars => StreamInv'
  <1> SUFFICES ASSUME IInv, StreamInv, [Next]_vars PROVE StreamInv'
    OBVIOUS
  <1>0. \A i \in 1 .. Len(down) : down[i][1] \in Calls
    BY Wires
  <1>a. \A k \in Calls : call[k] \in CallRecords
    BY Fields
  <1>1. ASSUME NEW k \in Calls, NEW big \in BOOLEAN, Call(k, big) PROVE StreamInv'
    BY <1>1, CallStream
  <1>2. CASE Answer
    <2>1. up # <<>> /\ conn # 0 /\ UNCHANGED <<conn, made, down, parts, pruned>>
      BY <1>2 DEF Answer, StreamInv, Quiet
    <2>2. \A k \in Calls : call'[k].big = call[k].big /\ (call'[k].at = "idle" => call[k].at = "idle")
      BY <1>2, <1>a DEF Answer, CallRecords
    <2> QED BY <2>1, <2>2, <1>0, StreamKept
  <1>3. ASSUME NEW old \in SUBSET Calls, Accept(old) PROVE StreamInv'
    BY <1>3, AcceptStream
  <1>4. ASSUME NEW k \in Calls, GiveUp(k) PROVE StreamInv'
    <2>1. \A j \in Calls : call'[j].big = call[j].big /\ (call'[j].at = "idle" => call[j].at = "idle")
      BY <1>4, <1>a DEF GiveUp, CallRecords, IInv, Typed
    <2> QED BY <1>4, <2>1, <1>0, StreamKept DEF GiveUp, StreamInv, Quiet
  <1>5. CASE Disconnect
    <2>1. \A j \in Calls : call'[j].big = call[j].big /\ (call'[j].at = "idle" => call[j].at = "idle")
      BY <1>5, <1>a DEF Disconnect, CallRecords
    <2>2. /\ down' = <<>> /\ up' = <<>> /\ parts' = [j \in Calls |-> {}]
          /\ UNCHANGED <<made, pruned>>
      BY <1>5 DEF Disconnect, Clear
    <2>3. Len(down') = 0
      BY <2>2
    <2>4. Quiet' /\ Sized' /\ InOrder'
      BY <2>1, <2>2, <2>3 DEF StreamInv, Quiet, Sized, InOrder
    <2> QED BY <2>2, <2>4 DEF StreamInv
  <1>6. CASE Reconnect
    <2>1. conn = 0 /\ conn' = made + 1 /\ made' = made + 1 /\ made < MaxConns /\ made \in Nat \ {0}
          /\ MaxConns \in Nat /\ UNCHANGED <<call, down, up, parts, pruned>>
      BY <1>6, CallsAssumption DEF Reconnect, IInv, NumbersGrow
    <2>2. Quiet' /\ made' <= MaxConns
      BY <2>1 DEF Quiet
    <2>3. Sized' /\ InOrder'
      BY <2>1 DEF StreamInv, Sized, InOrder
    <2> QED BY <2>2, <2>3 DEF StreamInv
  <1>7. ASSUME NEW k \in Calls, Work(k) PROVE StreamInv'
    <2>1. UNCHANGED <<conn, made, call, down, parts, pruned>>
      BY <1>7 DEF Work, Checked, Respond, Encode, Encoded
    <2>2. up' = up \/ Post(k)
      BY <1>7 DEF Work, Checked, Respond, Encode, Encoded
    <2>3. conn = 0 => up' = <<>>
      BY <2>2 DEF Post, StreamInv, Quiet
    <2> QED BY <2>1, <2>3, <1>0, StreamKept
  <1>8. CASE UNCHANGED vars
    BY <1>8, <1>0, StreamKept DEF vars, StreamInv, Quiet
  <1> QED BY <1>1, <1>2, <1>3, <1>4, <1>5, <1>6, <1>7, <1>8 DEF Next, Carry

\* The streams stay in order, whatever is dropped for its age and however often the
\* connection is lost (Relay, ChunkAssembler.accept).
LEMMA Streams == Spec => [](IInv /\ StreamInv)
  BY InitIInv, NextIInv, InitStreamInv, NextStreamInv, PTL DEF Spec

\* Nothing is on its way while there is no connection, the assembler holds frames
\* of large messages only, and only calls that were made are handled
\* (NativeBridge, ChunkAssembler, Peer).
THEOREM TypeCorrect == Spec => []TypeOK
  <1>1. IInv /\ StreamInv => TypeOK
    <2> SUFFICES ASSUME IInv, StreamInv PROVE TypeOK
      OBVIOUS
    <2>1. conn \in {0, made} /\ made \in 1 .. MaxConns
      BY DEF IInv, NumbersGrow, StreamInv
    <2>2. \A k \in Calls : /\ parts[k] \subseteq {1, 2} /\ call[k].got \in Calls \cup {None}
                           /\ handler[k].at # "none" => call[k].at # "idle"
      BY DEF IInv, Started, Made, StreamInv, Sized
    <2>3. \A i \in 1 .. Len(up) : up[i] \in Calls
      BY DEF IInv, Started, Made
    <2> QED BY <2>1, <2>2, <2>3 DEF TypeOK, StreamInv, Quiet
  <1> QED BY <1>1, Streams, PTL

\* At most one stream waits for its next frame, apart from those of which a frame
\* was dropped for its age: the limit on incomplete streams is not in the way
\* (Relay, ChunkAssembler #assemblies).
THEOREM StreamSafety == Spec => []OneStreamAtATime
  <1>1. IInv /\ StreamInv => OneStreamAtATime
    <2> SUFFICES ASSUME IInv, StreamInv PROVE OneStreamAtATime
      OBVIOUS
    <2> DEFINE S == {k \in Calls : parts[k] = {1}} \ pruned
    <2>1. \A j, k \in S : j = k
      BY DEF StreamInv, InOrder
    <2>2. S = {} \/ \E k : S = {k}
      BY <2>1
    <2>3. Cardinality({}) = 0 /\ \A k : Cardinality({k}) = 1
      BY FS_EmptySet, FS_Singleton
    <2>4. Cardinality(S) \in {0, 1}
      <3> HIDE DEF S
      <3> QED BY <2>2, <2>3
    <2> QED BY <2>4 DEF OneStreamAtATime
  <1> QED BY <1>1, Streams, PTL

=============================================================================
