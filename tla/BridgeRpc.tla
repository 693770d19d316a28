----------------------------- MODULE BridgeRpc -----------------------------
(***************************************************************************)
(* Requests of the daemon to the extension and their answers: Peer.Call of *)
(* internal/rpc/peer.go, the relay of internal/nativemsg/native.go and, in *)
(* the extension, the chunk codec (chunk-codec.ts) and the request side of *)
(* NativeBridge (native-bridge.ts).  A large message travels as two frames *)
(* and its checksum is awaited, so that later messages overtake it; the    *)
(* connection may end and be made again while handlers run.                *)
(*                                                                         *)
(* A peer numbers its requests from 1, so a request is known on the wire   *)
(* by that number alone, and every connection starts to count anew.        *)
(***************************************************************************)
EXTENDS Naturals, Sequences, FiniteSets

CONSTANTS Calls, MaxConns, None   \* MaxConns bounds the connections made

ASSUME CallsAssumption == MaxConns \in Nat \ {0} /\ None \notin Calls

VARIABLES
  conn,      \* the connection that is up (0: none)
  made,      \* connections made so far
  next,      \* nextID of the connection's peer
  call,      \* the daemon's calls: stage, connection, number, size, answer
  down, up,  \* frames to the extension, answers to the daemon
  parts,     \* #assemblies of the extension: the frames it has of each request
  handler,   \* what the extension does about each request
  pruned     \* requests of which frames were dropped for their age

vars == <<conn, made, next, call, down, up, parts, handler, pruned>>

NewCall == [at |-> "idle", conn |-> 0, id |-> 0, big |-> FALSE, got |-> None]
NoHandler == [at |-> "none", port |-> 0]

Init ==
  /\ conn = 1 /\ made = 1 /\ next = 0
  /\ call = [k \in Calls |-> NewCall]
  /\ down = <<>> /\ up = <<>>
  /\ parts = [k \in Calls |-> {}]
  /\ handler = [k \in Calls |-> NoHandler]
  /\ pruned = {}

-----------------------------------------------------------------------------
(* The daemon and the native host.                                         *)

\* Faulty: a number is used again when nobody waits for its answer any more.
UnusedId == CHOOSE n \in 1..(next + 1) :
  /\ \A k \in Calls : call[k].at = "pending" => call[k].id # n
  /\ \A m \in 1..(n - 1) : \E k \in Calls : call[k].at = "pending" /\ call[k].id = m

\* nextID.Add(1).
NextId == next + 1

\* Faulty: frames of several messages are written by turns.
WriteByTurns(fs) == IF Len(fs) = 2 /\ down # <<>> THEN <<fs[1]>> \o down \o <<fs[2]>> ELSE down \o fs

\* Relay writes all frames of a message before it reads the next one.
WriteFrames(fs) == down \o fs

\* Peer.Call, and Encode in the relay.
Call(k, big) ==
  /\ call[k].at = "idle" /\ conn # 0
  /\ call' = [call EXCEPT ![k] = [@ EXCEPT !.at = "pending", !.conn = conn, !.id = NextId, !.big = big]]
  /\ next' = next + 1
  /\ down' = WriteFrames(IF big THEN <<<<k, 1>>, <<k, 2>>>> ELSE <<<<k, 0>>>>)
  /\ UNCHANGED <<conn, made, up, parts, handler, pruned>>

\* Peer.Serve reads an answer: the request pending under that number gets it.
Answer ==
  /\ up # <<>>
  /\ call' = [k \in Calls |->
       IF call[k].at = "pending" /\ call[k].conn = conn /\ call[k].id = call[Head(up)].id
       THEN [call[k] EXCEPT !.at = "answered", !.got = Head(up)] ELSE call[k]]
  /\ up' = Tail(up)
  /\ UNCHANGED <<conn, made, next, down, parts, handler, pruned>>

\* The caller's context ends; the number is forgotten.
GiveUp(k) ==
  /\ call[k].at = "pending"
  /\ call' = [call EXCEPT ![k].at = "failed"]
  /\ UNCHANGED <<conn, made, next, down, up, parts, handler, pruned>>

\* Faulty: the frames of an old connection are kept.
KeepFrames == parts

\* ChunkAssembler.clear.
Clear == [k \in Calls |-> {}]

\* Host or daemon end the connection: Peer.closed fails what is pending, and
\* #onDisconnect clears the assembler.  Handlers run on.
Disconnect ==
  /\ conn # 0
  /\ conn' = 0
  /\ call' = [k \in Calls |-> IF call[k].at = "pending" THEN [call[k] EXCEPT !.at = "failed"]
                              ELSE call[k]]
  /\ down' = <<>> /\ up' = <<>>
  /\ parts' = Clear
  /\ UNCHANGED <<made, next, handler, pruned>>

Reconnect ==
  /\ conn = 0 /\ made < MaxConns
  /\ conn' = made + 1 /\ made' = made + 1 /\ next' = 0
  /\ UNCHANGED <<call, down, up, parts, handler, pruned>>

-----------------------------------------------------------------------------
(* The extension.                                                          *)

\* ChunkAssembler.accept: streams that are too old are dropped first; the frame
\* that completes a stream removes it and starts the checksum.
Accept(old) ==
  /\ down # <<>>
  /\ old \subseteq {k \in Calls : parts[k] # {}}
  /\ LET k == Head(down)[1]
         kept == [c \in Calls |-> IF c \in old THEN {} ELSE parts[c]]
         has == kept[k] \cup {Head(down)[2]}
         whole == has \in {{0}, {1, 2}}
     IN /\ parts' = [kept EXCEPT ![k] = IF whole THEN {} ELSE has]
        /\ handler' = IF whole THEN [handler EXCEPT ![k].at = IF call[k].big THEN "checksum" ELSE "runs"]
                      ELSE handler
  /\ down' = Tail(down)
  /\ pruned' = pruned \cup old
  /\ UNCHANGED <<conn, made, next, call, up>>

\* The digest has arrived and agrees: handleRequest is called.
Checked(k) ==
  /\ handler[k].at = "checksum"
  /\ handler' = [handler EXCEPT ![k].at = "runs"]
  /\ UNCHANGED <<conn, made, next, call, down, up, parts, pruned>>

\* Faulty: an error is not reported to the daemon.
NoAnswer(k) == UNCHANGED up

\* #send of a message that is small, or encoded by now, on the port there is.
Post(k) == up' = IF conn = 0 THEN up ELSE Append(up, k)

\* #respond with an error, or with a result in one frame.
Respond(k) ==
  /\ handler[k].at \in {"runs", "failed"}
  /\ Post(k)
  /\ handler' = [handler EXCEPT ![k] = [at |-> "over", port |-> 0]]
  /\ UNCHANGED <<conn, made, next, call, down, parts, pruned>>

\* #respond with a large result: the port is noted and its checksum awaited.
Encode(k) ==
  /\ handler[k].at = "runs"
  /\ handler' = [handler EXCEPT ![k] = IF conn = 0 THEN [at |-> "failed", port |-> 0]
                                       ELSE [at |-> "encodes", port |-> conn]]
  /\ UNCHANGED <<conn, made, next, call, down, up, parts, pruned>>

\* All frames are posted, unless the port is another one: then #send fails and
\* #respond reports that instead, on whatever port there is.
Encoded(k) ==
  /\ handler[k].at = "encodes"
  /\ IF conn = handler[k].port
     THEN Post(k) /\ handler' = [handler EXCEPT ![k] = [at |-> "over", port |-> 0]]
     ELSE UNCHANGED up /\ handler' = [handler EXCEPT ![k] = [at |-> "failed", port |-> 0]]
  /\ UNCHANGED <<conn, made, next, call, down, parts, pruned>>

-----------------------------------------------------------------------------

Work(k) == Checked(k) \/ Respond(k) \/ Encode(k) \/ Encoded(k)
Carry == Answer \/ \E old \in SUBSET Calls : Accept(old)

Next ==
  \/ Disconnect \/ Reconnect \/ Carry
  \/ \E k \in Calls, big \in BOOLEAN : Call(k, big)
  \/ \E k \in Calls : GiveUp(k) \/ Work(k)

\* Frames are carried, and handlers go on when what they wait for arrives.
Fairness == WF_vars(Carry) /\ \A k \in Calls : WF_vars(Work(k))

Spec == Init /\ [][Next]_vars
FairSpec == Spec /\ Fairness

-----------------------------------------------------------------------------

TypeOK ==
  /\ conn \in {0, made} /\ made \in 1..MaxConns
  /\ \A k \in Calls : /\ parts[k] \subseteq {1, 2} /\ call[k].got \in Calls \cup {None}
                      /\ handler[k].at # "none" => call[k].at # "idle"
  /\ \A i \in 1..Len(up) : up[i] \in Calls
  /\ conn = 0 => down = <<>> /\ up = <<>> /\ parts = [k \in Calls |-> {}]

\* An answer that is taken for the answer to another call comes from a handler of
\* an earlier connection: on one connection numbers identify the calls, whatever
\* overtakes what and whoever has given up.
AnswersMatchOnOneLink ==
  \A k \in Calls : call[k].got \notin {k, None} => call[call[k].got].conn < call[k].conn

\* A call is answered with the result of its own execution, also when handlers of
\* an earlier connection are still at work.
AnswerIsItsOwn == \A k \in Calls : call[k].got \in {k, None}

\* The limit on incomplete streams is never in the way: the extension has at most
\* one stream whose next frame is still to come.
OneStreamAtATime == Cardinality({k \in Calls : parts[k] = {1}} \ pruned) <= 1

\* A request of which no frame was dropped for its age is answered, or the
\* connection ends, or the caller stops waiting: nobody has to rely on a timeout.
EveryCallIsAnswered ==
  \A k \in Calls : call[k].at = "pending" ~> call[k].at # "pending" \/ k \in pruned

=============================================================================
