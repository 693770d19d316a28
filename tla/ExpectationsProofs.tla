------------------------- MODULE ExpectationsProofs -------------------------
(***************************************************************************)
(* No download goes to the wrong call and no event comes before its        *)
(* waiter, for any number of tabs, calls and downloads.                    *)
(***************************************************************************)
EXTENDS Expectations, TLAPS

CallStages == {"idle", "preflight", "input", "performed", "await", "over", "turn", "asked", "last"}
Outcomes == {"none", "armed", "resolved", "rejected"}
CallRecords ==
  [kind : Kinds \cup {"none"}, tab : Tabs, expects : SUBSET Types, at : CallStages, caused : SUBSET Types]
DownRecords == [at : {"none", "new", "running", "ended"}, by : Calls \cup {None}]

Shapes ==
  /\ call \in [Calls -> CallRecords]
  /\ waiter \in [Calls -> [Types -> Outcomes]]
  /\ given \in [Calls -> Downloads \cup {None}]
  /\ down \in [Downloads -> DownRecords]
  /\ owner \in [Downloads -> Tabs \cup {None}]

\* The input has been sent: the waiters were armed before.
Past == {"performed", "await", "over"}

\* A waiter is there from the preflight on, for what the call expects and nothing else,
\* and Chrome does nothing for a call that has sent no input.
Waiting(c) ==
  /\ call[c].at \in {"idle", "preflight"} => \A y \in Types : waiter[c][y] = "none"
  /\ call[c].at \in {"input", "performed", "await"} =>
       \A y \in call[c].expects : waiter[c][y] # "none"
  /\ \A y \in Types : waiter[c][y] # "none" => call[c].at = "over" \/ y \in call[c].expects
  /\ call[c].caused # {} => call[c].at \in {"performed", "await"}

\* A download has a cause and an owner only once it has begun.
Begun(d) ==
  /\ down[d].at = "none" => down[d].by = None /\ owner[d] = None
  /\ down[d].by # None => call[down[d].by].at \in Past

\* A call that a download it has caused may pass by.
Excused(b) ==
  \/ call[b].kind = "media"
  \/ waiter[b]["download"] \in {"none", "rejected"}
  \/ given[b] # None

Rightful(c, d) == down[d].by \in {None, c} \/ Excused(down[d].by)

Got(c) ==
  /\ waiter[c]["download"] = "none" => given[c] = None
  /\ waiter[c]["download"] = "resolved" => given[c] # None
  /\ given[c] # None => down[given[c]].at # "none"
  /\ waiter[c]["download"] \in {"armed", "resolved"} /\ given[c] # None => Rightful(c, given[c])

IInv ==
  /\ Shapes
  /\ \A c \in Calls : Waiting(c) /\ Got(c)
  /\ \A d \in Downloads : Begun(d)

-----------------------------------------------------------------------------
(* What a step does to the download waiters.                               *)

\* A waiter is armed once, before the input, and settled once; a download is given
\* to it while it is armed, and taken from it when it is rejected.
Carries(c) ==
  /\ call[c].kind = "media" /\ call[c].at \in Past => call'[c].kind = "media"
  /\ call[c].at \in Past => call'[c].at \in Past
  /\ \/ waiter'[c]["download"] = waiter[c]["download"]
     \/ waiter[c]["download"] = "armed" /\ waiter'[c]["download"] = "rejected"
     \/ waiter[c]["download"] = "armed" /\ waiter'[c]["download"] = "resolved" /\ given[c] # None
     \/ waiter[c]["download"] = "none" /\ waiter'[c]["download"] = "armed" /\ call[c].at \notin Past
  /\ \/ given'[c] = given[c]
     \/ given'[c] = None /\ waiter'[c]["download"] = "rejected"
     \/ /\ given[c] = None /\ waiter[c]["download"] = "armed" /\ waiter'[c]["download"] = "armed"
        /\ given'[c] # None /\ Rightful(c, given[c])' /\ down'[given'[c]].at # "none"

\* A download begins once, for a call that has sent its input or for none.
DownCarries(d) ==
  \/ /\ down'[d].by = down[d].by
     /\ down[d].at # "none" => down'[d].at # "none"
     /\ down'[d].at = "none" => owner'[d] \in {owner[d], None}
  \/ /\ down[d].at = "none" /\ down'[d].at # "none"
     /\ down'[d].by # None => call[down'[d].by].at \in Past

\* An excuse stays one.
LEMMA ExcuseStays ==
  ASSUME IInv, NEW b \in Calls, Carries(b), call[b].at \in Past, Excused(b)
  PROVE  Excused(b)'
<1>1. CASE call[b].kind = "media"
  BY <1>1 DEF Carries, Excused
<1>2. CASE waiter[b]["download"] \in {"none", "rejected"}
  BY <1>2 DEF Carries, Excused
<1>3. CASE given[b] # None
  BY <1>3 DEF Carries, Excused
<1> QED
  BY <1>1, <1>2, <1>3 DEF Excused

\* What a step has to show: the waiters are in order, and nothing a call or a download has is lost.
LEMMA StepIInv ==
  ASSUME IInv, Shapes', \A c \in Calls : Waiting(c)', \A c \in Calls : Carries(c),
         \A d \in Downloads : DownCarries(d)
  PROVE  IInv'
<1>1. ASSUME NEW d \in Downloads PROVE Begun(d)'
  <2>1. Begun(d) /\ DownCarries(d)
    BY DEF IInv
  <2>2. down'[d].by \in Calls \cup {None}
    BY DEF Shapes, DownRecords
  <2>3. down'[d].at = "none" => down'[d].by = None /\ owner'[d] = None
    BY <2>1 DEF Begun, DownCarries
  <2>4. down'[d].by # None => call[down'[d].by].at \in Past
    BY <2>1 DEF Begun, DownCarries
  <2>5. down'[d].by # None => call'[down'[d].by].at \in Past
    BY <2>2, <2>4 DEF Carries
  <2> QED
    BY <2>3, <2>5 DEF Begun
<1>2. ASSUME NEW c \in Calls PROVE Got(c)'
  <2>1. Got(c) /\ Carries(c)
    BY DEF IInv
  <2>2. waiter'[c]["download"] = "none" => given'[c] = None
    BY <2>1 DEF Got, Carries
  <2>3. waiter'[c]["download"] = "resolved" => given'[c] # None
    BY <2>1 DEF Got, Carries
  <2>4. ASSUME given'[c] # None, given'[c] = given[c] PROVE down'[given'[c]].at # "none"
    <3>1. given[c] \in Downloads /\ down[given[c]].at # "none"
      BY <2>1, <2>4 DEF Got, IInv, Shapes
    <3> QED
      BY <2>4, <3>1 DEF DownCarries
  <2>5. given'[c] # None => down'[given'[c]].at # "none"
    BY <2>1, <2>4 DEF Carries
  <2>6. ASSUME given'[c] # None, given'[c] = given[c], waiter[c]["download"] \in {"armed", "resolved"}
        PROVE  Rightful(c, given[c])'
    <3>1. PICK d \in Downloads : d = given[c]
      BY <2>6 DEF IInv, Shapes
    <3>2. down[d].at # "none" /\ Rightful(c, d) /\ Begun(d) /\ DownCarries(d)
      BY <2>1, <2>6, <3>1 DEF Got, IInv
    <3>3. down'[d].by = down[d].by
      BY <3>2 DEF DownCarries
    <3>4. CASE down[d].by \in {None, c}
      BY <2>6, <3>1, <3>3, <3>4 DEF Rightful
    <3>5. CASE down[d].by # None /\ Excused(down[d].by)
      <4>1. PICK b \in Calls : b = down[d].by
        BY <3>5 DEF IInv, Shapes, DownRecords
      <4>2. call[b].at \in Past /\ Excused(b)
        BY <3>2, <3>5, <4>1 DEF Begun
      <4>3. Excused(b)'
        BY <4>2, ExcuseStays
      <4>4. down'[given'[c]].by = b
        BY <2>6, <3>1, <3>3, <4>1
      <4> QED
        BY <4>3, <4>4 DEF Rightful, Excused
    <3> QED
      BY <3>2, <3>4, <3>5 DEF Rightful
  <2>7. ASSUME waiter'[c]["download"] \in {"armed", "resolved"}, given'[c] # None
        PROVE  Rightful(c, given[c])'
    <3>1. CASE given'[c] = given[c]
      BY <2>1, <2>6, <2>7, <3>1 DEF Carries, Got
    <3>2. CASE given'[c] # given[c]
      BY <2>1, <2>7, <3>2 DEF Carries
    <3> QED
      BY <3>1, <3>2
  <2> QED
    BY <2>2, <2>3, <2>5, <2>7 DEF Got
<1> QED
  BY <1>1, <1>2 DEF IInv

-----------------------------------------------------------------------------
(* The operators.                                                          *)

\* Waiters that are armed and chosen are settled; the others are left alone.
LEMMA SettleFacts ==
  ASSUME Shapes, NEW ps, NEW how \in Outcomes
  PROVE  /\ Settle(ps, how) \in [Calls -> [Types -> Outcomes]]
         /\ \A c \in Calls, y \in Types :
              Settle(ps, how)[c][y] = IF <<c, y>> \in ps /\ waiter[c][y] = "armed" THEN how ELSE waiter[c][y]
BY DEF Settle, Shapes

\* A call that ends forgets its waiter for events and nothing else.
LEMMA LeftFacts ==
  ASSUME NEW c \in Calls, NEW w \in [Calls -> [Types -> Outcomes]]
  PROVE  /\ Left(c, w) \in [Calls -> [Types -> Outcomes]]
         /\ \A d \in Calls, y \in Types : Left(c, w)[d][y] = IF d = c /\ y = "event" THEN "none" ELSE w[d][y]
BY DEF Left, Types, Outcomes

\* One call changes to a record with these fields.
Becomes(c, kind, expects, at, caused) ==
  /\ call' \in [Calls -> CallRecords]
  /\ \A d \in Calls : d # c => call'[d] = call[d]
  /\ call'[c].kind = kind /\ call'[c].tab = call[c].tab /\ call'[c].expects = expects
  /\ call'[c].at = at /\ call'[c].caused = caused

\* A call goes on to its next stage.
LEMMA AtFacts ==
  ASSUME Shapes, NEW c \in Calls, NEW a \in CallStages, At(c, a)
  PROVE  Becomes(c, call[c].kind, call[c].expects, a, call[c].caused)
<1>1. call[c] \in CallRecords /\ call' = [call EXCEPT ![c] = [call[c] EXCEPT !.at = a]]
  BY DEF Shapes, At
<1>2. [call[c] EXCEPT !.at = a] \in CallRecords
  BY <1>1 DEF CallRecords
<1> QED
  BY <1>1, <1>2 DEF Becomes, Shapes, CallRecords

\* A call that has ended expects and causes nothing any more.
LEMMA EndFacts ==
  ASSUME Shapes, NEW c \in Calls, End(c)
  PROVE  Becomes(c, IF call[c].kind = "media" THEN "media" ELSE "none", {}, "over", {})
<1> DEFINE k == IF call[c].kind = "media" THEN "media" ELSE "none"
           n == [call[c] EXCEPT !.at = "over", !.kind = k, !.expects = {}, !.caused = {}]
<1>1. call[c] \in CallRecords
  BY DEF Shapes
<1>2. n \in CallRecords
  BY <1>1 DEF CallRecords, Kinds, CallStages
<1>3. call' = [call EXCEPT ![c] = n]
  BY <1>1 DEF End, Shapes
<1>4. n.kind = k /\ n.tab = call[c].tab /\ n.expects = {} /\ n.at = "over" /\ n.caused = {}
  BY <1>1 DEF CallRecords
<1> HIDE DEF n
<1>5. call' \in [Calls -> CallRecords] /\ call'[c] = n /\ \A d \in Calls : d # c => call'[d] = call[d]
  BY <1>2, <1>3 DEF Shapes
<1> QED
  BY <1>4, <1>5 DEF Becomes

-----------------------------------------------------------------------------
(* The actions.                                                            *)

\* A call that does not move keeps its waiters, settled or not.
LEMMA WaitingKept ==
  ASSUME NEW c \in Calls, Waiting(c), call'[c].at = call[c].at, call'[c].expects = call[c].expects,
         call'[c].caused \subseteq call[c].caused, call[c].expects \subseteq Types,
         \A y \in Types : waiter'[c][y] = "none" <=> waiter[c][y] = "none"
  PROVE  Waiting(c)'
<1>1. call[c].at \in {"input", "performed", "await"} => \A y \in call[c].expects : waiter'[c][y] # "none"
  BY DEF Waiting
<1>2. call[c].at \in {"idle", "preflight"} => \A y \in Types : waiter'[c][y] = "none"
  BY DEF Waiting
<1>3. \A y \in Types : waiter'[c][y] # "none" => call[c].at = "over" \/ y \in call[c].expects
  BY DEF Waiting
<1>4. call'[c].caused # {} => call[c].at \in {"performed", "await"}
  BY DEF Waiting
<1> QED
  BY <1>1, <1>2, <1>3, <1>4 DEF Waiting

\* Waiters are settled and nothing moves: an event, a timer, the session is stopped.
LEMMA SettleStep ==
  ASSUME IInv, NEW ps, NEW how \in {"resolved", "rejected"}, waiter' = Settle(ps, how),
         call' \in [Calls -> CallRecords],
         \A c \in Calls : /\ call'[c].kind = call[c].kind /\ call'[c].at = call[c].at
                          /\ call'[c].expects = call[c].expects /\ call'[c].caused \subseteq call[c].caused,
         given' \in [Calls -> Downloads \cup {None}],
         \A c \in Calls : given'[c] = given[c] \/ (given'[c] = None /\ waiter'[c]["download"] = "rejected"),
         how = "resolved" => \A c \in Calls : <<c, "download">> \in ps => given[c] # None,
         down' \in [Downloads -> DownRecords], owner' \in [Downloads -> Tabs \cup {None}],
         \A d \in Downloads : DownCarries(d)
  PROVE  IInv'
<1>1. /\ waiter' \in [Calls -> [Types -> Outcomes]]
      /\ \A c \in Calls, y \in Types :
           waiter'[c][y] = IF <<c, y>> \in ps /\ waiter[c][y] = "armed" THEN how ELSE waiter[c][y]
  BY SettleFacts DEF IInv, Outcomes
<1>2. Shapes'
  BY <1>1 DEF Shapes
<1>3. ASSUME NEW c \in Calls PROVE Waiting(c)'
  <2>1. Waiting(c) /\ \A y \in Types : waiter'[c][y] = "none" <=> waiter[c][y] = "none"
    BY <1>1 DEF IInv
  <2>2. call[c].expects \subseteq Types
    BY DEF IInv, Shapes, CallRecords
  <2> QED
    BY <2>1, <2>2, WaitingKept
<1>4. ASSUME NEW c \in Calls PROVE Carries(c)
  <2>1. waiter'[c]["download"] =
          IF <<c, "download">> \in ps /\ waiter[c]["download"] = "armed" THEN how ELSE waiter[c]["download"]
    BY <1>1 DEF Types
  <2> QED
    BY <2>1 DEF Carries
<1> QED
  BY <1>2, <1>3, <1>4, StepIInv

\* Nothing happens to the downloads.
LEMMA DownKept ==
  ASSUME Shapes, down' = down, owner' = owner
  PROVE  /\ down' \in [Downloads -> DownRecords] /\ owner' \in [Downloads -> Tabs \cup {None}]
         /\ \A d \in Downloads : DownCarries(d)
BY DEF Shapes, DownCarries

\* What the waiters that are taken away had got goes with them.
LEMMA GivenUpFacts ==
  ASSUME Shapes, NEW cs
  PROVE  /\ GivenUp(cs) \in [Calls -> Downloads \cup {None}]
         /\ \A c \in Calls : GivenUp(cs)[c] = IF c \in cs /\ waiter[c]["download"] = "armed" THEN None ELSE given[c]
BY DEF Shapes, GivenUp

\* The waiters of some calls are cancelled.
LEMMA CancelFacts ==
  ASSUME Shapes, NEW cs \in SUBSET Calls
  PROVE  \A c \in Calls : /\ GivenUp(cs)[c] = given[c] \/ (GivenUp(cs)[c] = None
                               /\ Settle(AllOf(cs), "rejected")[c]["download"] = "rejected")
                          /\ \A y \in Types : Settle(AllOf(cs), "rejected")[c][y] =
                               IF c \in cs /\ waiter[c][y] = "armed" THEN "rejected" ELSE waiter[c][y]
<1>2. \A c \in Calls, y \in Types : <<c, y>> \in AllOf(cs) <=> c \in cs
  BY DEF AllOf
<1>3. \A c \in Calls, y \in Types : Settle(AllOf(cs), "rejected")[c][y] =
        IF c \in cs /\ waiter[c][y] = "armed" THEN "rejected" ELSE waiter[c][y]
  BY <1>2 DEF Settle
<1>4. "download" \in Types
  BY DEF Types
<1> QED
  BY <1>3, <1>4, GivenUpFacts

\* Stopping a session cancels the waiters of its calls.
LEMMA StopSessionIInv ==
  ASSUME IInv, NEW t, StopSession(t)
  PROVE  IInv'
<1>1. /\ waiter' = Settle(AllOf(InTab(t)), "rejected") /\ given' = GivenUp(InTab(t))
      /\ call' = call /\ down' = down /\ owner' = owner /\ InTab(t) \in SUBSET Calls /\ Shapes
  BY DEF StopSession, InTab, IInv
<1>2. /\ given' \in [Calls -> Downloads \cup {None}] /\ call' \in [Calls -> CallRecords]
      /\ \A c \in Calls : given'[c] = given[c] \/ (given'[c] = None /\ waiter'[c]["download"] = "rejected")
  BY <1>1, GivenUpFacts, CancelFacts DEF Shapes
<1> QED
  BY <1>1, <1>2, DownKept, SettleStep

\* stopAll cancels every waiter.
LEMMA StopAllIInv ==
  ASSUME IInv, StopAll
  PROVE  IInv'
<1>1. /\ waiter' = Settle(AllOf(Calls), "rejected") /\ given' = GivenUp(Calls)
      /\ call' = call /\ down' = down /\ owner' = [d \in Downloads |-> None] /\ Shapes
  BY DEF StopAll, IInv
<1>2. /\ given' \in [Calls -> Downloads \cup {None}] /\ call' \in [Calls -> CallRecords]
      /\ \A c \in Calls : given'[c] = given[c] \/ (given'[c] = None /\ waiter'[c]["download"] = "rejected")
  BY <1>1, GivenUpFacts, CancelFacts DEF Shapes
<1>3. /\ down' \in [Downloads -> DownRecords] /\ owner' \in [Downloads -> Tabs \cup {None}]
      /\ \A d \in Downloads : DownCarries(d)
  BY <1>1 DEF Shapes, DownCarries
<1> QED
  BY <1>1, <1>2, <1>3, SettleStep

\* A waiter that times out gives up its download.
LEMMA TimeoutIInv ==
  ASSUME IInv, NEW c \in Calls, NEW y \in Types, Timeout(c, y)
  PROVE  IInv'
<1>1. /\ waiter[c][y] = "armed" /\ waiter' = Settle({<<c, y>>}, "rejected")
      /\ call' = call /\ down' = down /\ owner' = owner /\ Shapes
      /\ given' = IF y = "download" THEN [given EXCEPT ![c] = None] ELSE given
  BY DEF Timeout, IInv
<1>2. given' \in [Calls -> Downloads \cup {None}] /\ call' \in [Calls -> CallRecords]
  BY <1>1 DEF Shapes
<1>3. \A d \in Calls : given'[d] = given[d] \/ (given'[d] = None /\ waiter'[d]["download"] = "rejected")
  <2>2. waiter'[c][y] = "rejected"
    BY <1>1 DEF Settle
  <2> QED
    BY <1>1, <2>2 DEF Shapes
<1> QED
  BY <1>1, <1>2, <1>3, DownKept, SettleStep

\* An event settles the waiters of its tab.
LEMMA EmitIInv ==
  ASSUME IInv, NEW c \in Calls, Emit(c)
  PROVE  IInv'
<1>1. /\ waiter' = Settle(InTab(call[c].tab) \X {"event"}, "resolved")
      /\ call' = [call EXCEPT ![c] = [call[c] EXCEPT !.caused = call[c].caused \ {"event"}]]
      /\ given' = given /\ down' = down /\ owner' = owner /\ Shapes
  BY DEF Emit, Downloading, IInv, Shapes
<1>2. [call[c] EXCEPT !.caused = call[c].caused \ {"event"}] \in CallRecords
  <2>1. call[c] \in CallRecords
    BY <1>1 DEF Shapes
  <2> QED
    BY <2>1 DEF CallRecords
<1>3. /\ call' \in [Calls -> CallRecords] /\ given' \in [Calls -> Downloads \cup {None}]
      /\ \A d \in Calls : /\ call'[d].kind = call[d].kind /\ call'[d].at = call[d].at
                          /\ call'[d].expects = call[d].expects /\ call'[d].caused \subseteq call[d].caused
  BY <1>1, <1>2 DEF Shapes, CallRecords
<1>4. \A d \in Calls : <<d, "download">> \notin InTab(call[c].tab) \X {"event"}
  OBVIOUS
<1> QED
  BY <1>1, <1>3, <1>4, DownKept, SettleStep

\* An event of no caller settles waiters too, and claims nothing.
LEMMA EmitOtherIInv ==
  ASSUME IInv, NEW t, EmitOther(t)
  PROVE  IInv'
<1>1. /\ waiter' = Settle(InTab(t) \X {"event"}, "resolved")
      /\ call' = call /\ given' = given /\ down' = down /\ owner' = owner /\ Shapes
  BY DEF EmitOther, Downloading, IInv
<1>2. call' \in [Calls -> CallRecords] /\ given' \in [Calls -> Downloads \cup {None}]
  BY <1>1 DEF Shapes
<1>3. \A d \in Calls : <<d, "download">> \notin InTab(t) \X {"event"}
  OBVIOUS
<1> QED
  BY <1>1, <1>2, <1>3, DownKept, SettleStep

\* A download that completes settles the waiter that owns it.
LEMMA OnChangedIInv ==
  ASSUME IInv, NEW d \in Downloads, OnChanged(d)
  PROVE  IInv'
<1>1. /\ down[d].at = "running" /\ down' = [down EXCEPT ![d].at = "ended"]
      /\ owner' = [owner EXCEPT ![d] = None] /\ call' = call /\ given' = given /\ Shapes
  BY DEF OnChanged, IInv
<1>2. /\ down' \in [Downloads -> DownRecords] /\ owner' \in [Downloads -> Tabs \cup {None}]
      /\ \A e \in Downloads : down'[e].by = down[e].by /\ (e # d => down'[e] = down[e] /\ owner'[e] = owner[e])
      /\ down'[d].at = "ended"
  BY <1>1 DEF Shapes, DownRecords
<1>3. \A e \in Downloads : DownCarries(e)
  BY <1>2 DEF DownCarries
<1>4. call' \in [Calls -> CallRecords] /\ given' \in [Calls -> Downloads \cup {None}]
  BY <1>1 DEF Shapes
<1>5. CASE waiter' = waiter
  <2>1. waiter' = Settle({}, "rejected")
    BY <1>1, <1>5 DEF Settle, Shapes
  <2> QED
    BY <1>1, <1>2, <1>3, <1>4, <2>1, SettleStep
<1>6. CASE waiter' # waiter
  <2>1. PICK c \in Calls, how \in {"resolved", "rejected"} :
          given[c] = d /\ waiter' = Settle({<<c, "download">>}, how)
    BY <1>6 DEF OnChanged, Ends
  <2>2. \A b \in Calls : <<b, "download">> \in {<<c, "download">>} => given[b] # None
    BY <2>1, PlacesAssumption
  <2> QED
    BY <1>1, <1>2, <1>3, <1>4, <2>1, <2>2, SettleStep
<1> QED
  BY <1>5, <1>6

\* A new download goes to the only waiter that is free, or to nobody.
LEMMA OnCreatedIInv ==
  ASSUME IInv, NEW d \in Downloads, OnCreated(d)
  PROVE  IInv'
<1> DEFINE free == {c \in Calls : waiter[c]["download"] = "armed" /\ given[c] = None}
           takes == OnlyFree(free)
<1>1. /\ down[d].at = "new" /\ down' = [down EXCEPT ![d].at = "running"]
      /\ given' = [c \in Calls |-> IF c \in takes THEN d ELSE given[c]]
      /\ owner' = [owner EXCEPT ![d] = IF takes = {} THEN @ ELSE call[CHOOSE c \in takes : TRUE].tab]
      /\ waiter' = IF takes = {} THEN Settle(free \X {"download"}, "rejected") ELSE waiter
      /\ call' = call /\ Shapes
  BY DEF OnCreated, IInv
<1>2. takes \subseteq free /\ free \subseteq Calls /\ \A a \in takes, b \in free : a = b
  BY DEF OnlyFree
<1>3. /\ given' \in [Calls -> Downloads \cup {None}]
      /\ \A c \in Calls : given'[c] = IF c \in takes THEN d ELSE given[c]
  BY <1>1 DEF Shapes
<1>4. takes # {} => (CHOOSE c \in takes : TRUE) \in Calls
  BY <1>2
<1>5. \A c \in Calls : call[c].tab \in Tabs
  BY <1>1 DEF Shapes, CallRecords
<1> HIDE DEF takes
<1>6. owner' \in [Downloads -> Tabs \cup {None}] /\ \A e \in Downloads : e # d => owner'[e] = owner[e]
  BY <1>1, <1>4, <1>5 DEF Shapes
<1>7. /\ down' \in [Downloads -> DownRecords] /\ down'[d].at = "running"
      /\ \A e \in Downloads : down'[e].by = down[e].by /\ (e # d => down'[e] = down[e])
  BY <1>1 DEF Shapes, DownRecords
<1>8. \A e \in Downloads : DownCarries(e)
  BY <1>6, <1>7 DEF DownCarries
<1>9. CASE takes = {}
  <2>1. /\ waiter' = Settle(free \X {"download"}, "rejected") /\ call' \in [Calls -> CallRecords]
        /\ \A c \in Calls : given'[c] = given[c]
    BY <1>1, <1>3, <1>9 DEF Shapes
  <2> HIDE DEF free
  <2> QED
    BY <1>1, <1>3, <1>6, <1>7, <1>8, <2>1, SettleStep
<1>10. CASE takes # {}
  <2>1. waiter' = waiter
    BY <1>1, <1>10
  <2>2. Shapes'
    BY <1>1, <1>3, <1>6, <1>7, <2>1 DEF Shapes
  <2>3. ASSUME NEW c \in Calls PROVE Waiting(c)'
    BY <1>1, <2>1 DEF IInv, Waiting
  <2>4. ASSUME NEW c \in takes PROVE Rightful(c, given[c])'
    <3>1. given'[c] = d /\ c \in Calls
      BY <1>2, <1>3, <2>4
    <3>2. PICK b \in Calls \cup {None} : b = down[d].by
      BY <1>1 DEF Shapes, DownRecords
    <3>3. CASE b \in {None, c}
      BY <1>7, <3>1, <3>2, <3>3 DEF Rightful
    <3>4. CASE b \notin {None, c}
      <4>1. b \in Calls /\ b \notin free /\ b \notin takes
        BY <1>2, <2>4, <3>4
      <4>2. given'[b] = given[b]
        BY <1>3, <4>1
      <4>3. waiter[b]["download"] # "armed" \/ given[b] # None
        BY <4>1
      <4>4. waiter[b]["download"] \in Outcomes /\ Got(b)
        BY <4>1 DEF IInv, Shapes, Types
      <4>5. waiter[b]["download"] \in {"none", "rejected"} \/ given[b] # None
        BY <4>3, <4>4 DEF Outcomes, Got
      <4>6. Excused(b)'
        BY <2>1, <4>2, <4>5 DEF Excused
      <4> QED
        BY <1>7, <3>1, <3>2, <4>6 DEF Rightful, Excused
    <3> QED
      BY <3>3, <3>4
  <2>5. ASSUME NEW c \in Calls PROVE Carries(c)
    <3>1. CASE c \in takes
      <4>1. waiter[c]["download"] = "armed" /\ given[c] = None /\ given'[c] = d /\ d # None
        BY <1>2, <1>3, <3>1, PlacesAssumption
      <4> QED
        BY <1>1, <1>7, <2>1, <2>4, <3>1, <4>1 DEF Carries
    <3>2. CASE c \notin takes
      BY <1>1, <1>3, <2>1, <3>2 DEF Carries
    <3> QED
      BY <3>1, <3>2
  <2> QED
    BY <1>8, <2>2, <2>3, <2>5, StepIInv
<1> QED
  BY <1>9, <1>10

\* Chrome starts a download, which is of the call that caused it.
LEMMA BeginIInv ==
  ASSUME IInv, NEW d \in Downloads, NEW by \in Calls \cup {None}, Begin(d, by)
  PROVE  IInv'
<1>1. /\ down[d].at = "none" /\ down' = [down EXCEPT ![d] = [at |-> "new", by |-> by]]
      /\ by # None => "download" \in call[by].caused
      /\ call' = IF by = None THEN call
                 ELSE [call EXCEPT ![by] = [call[by] EXCEPT !.caused = call[by].caused \ {"download"}]]
      /\ waiter' = waiter /\ given' = given /\ owner' = owner /\ Shapes
  BY DEF Begin, IInv, Shapes
<1>2. /\ call' \in [Calls -> CallRecords]
      /\ \A c \in Calls : /\ call'[c].kind = call[c].kind /\ call'[c].at = call[c].at
                          /\ call'[c].expects = call[c].expects /\ call'[c].caused \subseteq call[c].caused
  <2>1. CASE by = None
    BY <1>1, <2>1 DEF Shapes
  <2>2. CASE by # None
    <3>1. by \in Calls /\ call[by] \in CallRecords
      BY <1>1, <2>2 DEF Shapes
    <3>2. [call[by] EXCEPT !.caused = call[by].caused \ {"download"}] \in CallRecords
      BY <3>1 DEF CallRecords
    <3> QED
      BY <1>1, <2>2, <3>1, <3>2 DEF Shapes, CallRecords
  <2> QED
    BY <2>1, <2>2
<1>3. /\ down' \in [Downloads -> DownRecords] /\ down'[d].at = "new" /\ down'[d].by = by
      /\ \A e \in Downloads : e # d => down'[e] = down[e]
  BY <1>1 DEF Shapes, DownRecords
<1>4. by # None => call[by].at \in Past
  BY <1>1 DEF IInv, Waiting, Past
<1>5. \A e \in Downloads : DownCarries(e)
  BY <1>1, <1>3, <1>4 DEF DownCarries
<1>6. Shapes'
  BY <1>1, <1>2, <1>3 DEF Shapes
<1>7. ASSUME NEW c \in Calls PROVE Waiting(c)'
  <2>1. Waiting(c) /\ call[c].expects \subseteq Types
    BY DEF IInv, Shapes, CallRecords
  <2> QED
    BY <1>1, <1>2, <2>1, WaitingKept
<1>8. \A c \in Calls : Carries(c)
  BY <1>1, <1>2 DEF Carries
<1> QED
  BY <1>5, <1>6, <1>7, <1>8, StepIInv

\* One call moves, and only its own waiters change.
LEMMA MoveStep ==
  ASSUME IInv, NEW c \in Calls, NEW kind, NEW es, NEW a, NEW cs, Becomes(c, kind, es, a, cs),
         waiter' \in [Calls -> [Types -> Outcomes]], \A d \in Calls : d # c => waiter'[d] = waiter[d],
         Waiting(c)', Carries(c), given' = given, down' = down, owner' = owner
  PROVE  IInv'
<1>1. Shapes'
  BY DEF IInv, Shapes, Becomes
<1>2. ASSUME NEW d \in Calls, d # c PROVE Waiting(d)' /\ Carries(d)
  <2>1. call'[d] = call[d] /\ waiter'[d] = waiter[d] /\ Waiting(d)
    BY <1>2 DEF Becomes, IInv
  <2>2. call[d].expects \subseteq Types
    BY DEF IInv, Shapes, CallRecords
  <2> QED
    BY <2>1, <2>2, WaitingKept DEF Carries
<1>3. \A d \in Downloads : DownCarries(d)
  BY DownKept DEF IInv
<1> QED
  BY <1>1, <1>2, <1>3, StepIInv

\* A call starts with what it expects and no waiter.
LEMMA StartIInv ==
  ASSUME IInv, NEW c \in Calls, NEW kind \in Kinds, NEW es \in SUBSET Types, Start(c, kind, es)
  PROVE  IInv'
<1> DEFINE a == IF kind = "poll" THEN "turn" ELSE "preflight"
           n == [call[c] EXCEPT !.kind = kind, !.expects = es, !.at = a]
<1>1. /\ call[c].at = "idle" /\ waiter' = waiter /\ given' = given /\ down' = down /\ owner' = owner
      /\ call' = [call EXCEPT ![c] = n] /\ Shapes
  BY DEF Start, Downloading, IInv, Shapes
<1>2. /\ n \in CallRecords /\ n.kind = kind /\ n.tab = call[c].tab /\ n.expects = es /\ n.at = a
      /\ n.caused = call[c].caused
  BY <1>1 DEF Shapes, CallRecords, CallStages
<1> HIDE DEF n
<1>3. Becomes(c, kind, es, a, call[c].caused)
  BY <1>1, <1>2 DEF Shapes, Becomes
<1>4. Waiting(c) /\ waiter' \in [Calls -> [Types -> Outcomes]] /\ call[c].kind \in Kinds \cup {"none"}
  BY <1>1 DEF IInv, Shapes, CallRecords
<1>5. Waiting(c)'
  BY <1>1, <1>3, <1>4 DEF Waiting, Becomes
<1>6. Carries(c)
  BY <1>1, <1>4 DEF Carries, Past
<1> QED
  BY <1>1, <1>3, <1>4, <1>5, <1>6, MoveStep

\* A call arms its waiters, an action before its input.
LEMMA ArmIInv ==
  ASSUME IInv, NEW c \in Calls, Arm(c)
  PROVE  IInv'
<1>1. /\ call[c].at = "preflight" /\ given' = given /\ down' = down /\ owner' = owner /\ Shapes
      /\ waiter' = [waiter EXCEPT ![c] = [y \in Types |-> IF y \in call[c].expects THEN "armed" ELSE waiter[c][y]]]
  BY DEF Arm, Armed, ArmBefore, Wanted, Downloading, IInv, Shapes
<1>2. /\ waiter' \in [Calls -> [Types -> Outcomes]] /\ \A d \in Calls : d # c => waiter'[d] = waiter[d]
      /\ \A y \in Types : waiter'[c][y] = IF y \in call[c].expects THEN "armed" ELSE waiter[c][y]
  BY <1>1 DEF Shapes, Outcomes
<1>3. PICK a \in {"await", "input"}, kind \in Kinds \cup {"none"} :
        Becomes(c, kind, call[c].expects, a, call[c].caused)
  <2>1. CASE call[c].kind = "wait"
    <3> DEFINE n == [call[c] EXCEPT !.at = "await", !.kind = "action"]
    <3>1. call' = [call EXCEPT ![c] = n]
      BY <1>1, <2>1 DEF Arm, Shapes
    <3>2. /\ n \in CallRecords /\ n.kind = "action" /\ n.tab = call[c].tab /\ n.expects = call[c].expects
          /\ n.at = "await" /\ n.caused = call[c].caused
      BY <1>1 DEF Shapes, CallRecords, CallStages, Kinds
    <3> HIDE DEF n
    <3>3. Becomes(c, "action", call[c].expects, "await", call[c].caused)
      BY <1>1, <3>1, <3>2 DEF Shapes, Becomes
    <3> QED
      BY <3>3 DEF Kinds
  <2>2. CASE call[c].kind # "wait"
    <3>1. At(c, "input") /\ "input" \in CallStages /\ call[c].kind \in Kinds \cup {"none"}
      BY <1>1, <2>2 DEF Arm, CallStages, Shapes, CallRecords
    <3> QED
      BY <1>1, <3>1, AtFacts
  <2> QED
    BY <2>1, <2>2
<1>4. Waiting(c) /\ call[c].expects \subseteq Types
  BY <1>1 DEF IInv, Shapes, CallRecords
<1>5. Waiting(c)'
  BY <1>1, <1>2, <1>3, <1>4 DEF Waiting, Becomes
<1>6. Carries(c)
  BY <1>1, <1>2, <1>4 DEF Carries, Past, Waiting, Types
<1> QED
  BY <1>1, <1>2, <1>3, <1>5, <1>6, MoveStep

\* The input is sent, and what it will cause is settled with it.
LEMMA InputIInv ==
  ASSUME IInv, NEW c \in Calls, NEW es \in SUBSET Types, Input(c, es)
  PROVE  IInv'
<1> DEFINE n == [call[c] EXCEPT !.at = "performed", !.caused = es]
<1>1. /\ call[c].at = "input" /\ waiter' = waiter /\ given' = given /\ down' = down /\ owner' = owner
      /\ call' = [call EXCEPT ![c] = n] /\ Shapes
  BY DEF Input, Downloading, IInv, Shapes
<1>2. /\ n \in CallRecords /\ n.kind = call[c].kind /\ n.tab = call[c].tab /\ n.expects = call[c].expects
      /\ n.at = "performed" /\ n.caused = es
  BY <1>1 DEF Shapes, CallRecords, CallStages
<1> HIDE DEF n
<1>3. Becomes(c, call[c].kind, call[c].expects, "performed", es)
  BY <1>1, <1>2 DEF Shapes, Becomes
<1>4. Waiting(c) /\ waiter' \in [Calls -> [Types -> Outcomes]]
  BY <1>1 DEF IInv, Shapes
<1>5. Waiting(c)'
  BY <1>1, <1>3, <1>4 DEF Waiting, Becomes
<1>6. Carries(c)
  BY <1>1, <1>3 DEF Carries, Past, Becomes
<1> QED
  BY <1>1, <1>3, <1>4, <1>5, <1>6, MoveStep

\* The action is done; downloadMedia associates its download.
LEMMA PerformedIInv ==
  ASSUME IInv, NEW c \in Calls, Performed(c)
  PROVE  IInv'
<1>1. call[c].at = "performed" /\ waiter' = waiter /\ down' = down /\ Shapes /\ At(c, "await")
  BY DEF Performed, Armed, ArmBefore, IInv
<1>2. Becomes(c, call[c].kind, call[c].expects, "await", call[c].caused)
  BY <1>1, AtFacts DEF CallStages
<1>3. Waiting(c)'
  <2>1. Waiting(c)
    BY DEF IInv
  <2> QED
    BY <1>1, <1>2, <2>1 DEF Waiting, Becomes
<1>4. CASE given' = given /\ owner' = owner
  <2>1. waiter' \in [Calls -> [Types -> Outcomes]]
    BY <1>1 DEF Shapes
  <2>2. Carries(c)
    BY <1>1, <1>2, <1>4 DEF Carries, Becomes, Past
  <2> QED
    BY <1>1, <1>2, <1>3, <1>4, <2>1, <2>2, MoveStep
<1>5. CASE call[c].kind = "media" /\ \E d \in Downloads : down[d].by = c /\ Associate(c, d)
  <2>1. PICK d \in Downloads : down[d].by = c /\ Associate(c, d)
    BY <1>5
  <2>2. down[d].at # "none" /\ d # None
    BY <2>1, PlacesAssumption DEF IInv, Begun
  <2>3. \A w \in Calls : \/ given'[w] = given[w]
                         \/ given'[w] = d /\ given[w] = None /\ waiter[w]["download"] = "armed"
    BY <2>1 DEF Associate
  <2>4. given' \in [Calls -> Downloads \cup {None}] /\ owner' = [owner EXCEPT ![d] = call[c].tab]
    BY <1>1, <2>1 DEF Associate, Shapes
  <2>5. call[c].tab \in Tabs
    BY <1>1 DEF Shapes, CallRecords
  <2>6. Shapes'
    BY <1>1, <1>2, <2>4, <2>5 DEF Shapes, Becomes
  <2>7. \A e \in Downloads : DownCarries(e)
    BY <1>1, <2>2, <2>4 DEF DownCarries, Shapes
  <2>8. Excused(c)'
    BY <1>2, <1>5 DEF Excused, Becomes
  <2>9. ASSUME NEW w \in Calls, given'[w] = d PROVE Rightful(w, given[w])'
    BY <1>1, <2>1, <2>8, <2>9 DEF Rightful, Excused
  <2>10. ASSUME NEW w \in Calls PROVE Carries(w)
    <3>1. /\ call[w].kind = "media" => call'[w].kind = "media"
          /\ call[w].at \in Past => call'[w].at \in Past
      BY <1>2 DEF Becomes, Past
    <3>2. CASE given'[w] = given[w]
      BY <1>1, <3>1, <3>2 DEF Carries
    <3>3. CASE given'[w] = d /\ given[w] = None /\ waiter[w]["download"] = "armed"
      BY <1>1, <2>2, <2>9, <3>1, <3>3 DEF Carries
    <3> QED
      BY <2>3, <3>2, <3>3
  <2>11. ASSUME NEW w \in Calls, w # c PROVE Waiting(w)'
    <3>1. call'[w] = call[w] /\ Waiting(w)
      BY <1>2, <2>11 DEF Becomes, IInv
    <3> QED
      BY <1>1, <3>1 DEF Waiting
  <2> QED
    BY <1>3, <2>6, <2>7, <2>10, <2>11, StepIInv
<1> QED
  BY <1>4, <1>5 DEF Performed

\* A call ends; the waiters of other calls may be cancelled with its own.
LEMMA EndStep ==
  ASSUME IInv, NEW c \in Calls, End(c), waiter' \in [Calls -> [Types -> Outcomes]],
         \A d \in Calls : \/ waiter'[d]["download"] = waiter[d]["download"]
                          \/ waiter[d]["download"] = "armed" /\ waiter'[d]["download"] = "rejected",
         \A d \in Calls, y \in Types : d # c => (waiter'[d][y] = "none" <=> waiter[d][y] = "none"),
         given' \in [Calls -> Downloads \cup {None}],
         \A d \in Calls : given'[d] = given[d] \/ (given'[d] = None /\ waiter'[d]["download"] = "rejected"),
         down' = down, owner' = owner
  PROVE  IInv'
<1>1. Becomes(c, IF call[c].kind = "media" THEN "media" ELSE "none", {}, "over", {})
  BY EndFacts DEF IInv
<1>2. Shapes'
  BY <1>1 DEF IInv, Shapes, Becomes
<1>3. Waiting(c)'
  BY <1>1 DEF Becomes, Waiting
<1>4. ASSUME NEW d \in Calls, d # c PROVE Waiting(d)'
  <2>1. call'[d] = call[d] /\ Waiting(d) /\ call[d].expects \subseteq Types
    BY <1>1, <1>4 DEF Becomes, IInv, Shapes, CallRecords
  <2> QED
    BY <1>4, <2>1, WaitingKept
<1>5. ASSUME NEW d \in Calls PROVE Carries(d)
  <2>1. /\ call[d].kind = "media" => call'[d].kind = "media"
        /\ call[d].at \in Past => call'[d].at \in Past
    BY <1>1 DEF Becomes, Past
  <2> QED
    BY <2>1 DEF Carries
<1>6. \A d \in Downloads : DownCarries(d)
  BY DownKept DEF IInv
<1> QED
  BY <1>2, <1>3, <1>4, <1>5, <1>6, StepIInv

\* A failed action cancels every waiter of its tab.
LEMMA ActionFailsIInv ==
  ASSUME IInv, NEW c \in Calls, ActionFails(c)
  PROVE  IInv'
<1>1. End(c) /\ down' = down /\ owner' = owner /\ Shapes
  BY DEF ActionFails, IInv
<1>2. CASE waiter' = waiter /\ given' = given
  BY <1>1, <1>2, EndStep DEF Shapes
<1>3. CASE \E cs \in SUBSET Calls : waiter' = Left(c, Settle(AllOf(cs), "rejected")) /\ given' = GivenUp(cs)
  <2>1. PICK cs \in SUBSET Calls : waiter' = Left(c, Settle(AllOf(cs), "rejected")) /\ given' = GivenUp(cs)
    BY <1>3
  <2>2. PICK w : w = Settle(AllOf(cs), "rejected")
    OBVIOUS
  <2>3. /\ w \in [Calls -> [Types -> Outcomes]]
        /\ \A d \in Calls, y \in Types : w[d][y] = IF d \in cs /\ waiter[d][y] = "armed" THEN "rejected" ELSE waiter[d][y]
        /\ \A d \in Calls : given'[d] = given[d] \/ (given'[d] = None /\ w[d]["download"] = "rejected")
    BY <1>1, <2>1, <2>2, SettleFacts, CancelFacts DEF Outcomes
  <2>4. /\ waiter' \in [Calls -> [Types -> Outcomes]]
        /\ \A d \in Calls, y \in Types : waiter'[d][y] = IF d = c /\ y = "event" THEN "none" ELSE w[d][y]
    BY <2>1, <2>2, <2>3, LeftFacts
  <2>5. given' \in [Calls -> Downloads \cup {None}]
    BY <1>1, <2>1, GivenUpFacts
  <2>6. \A d \in Calls : waiter'[d]["download"] = w[d]["download"]
    BY <2>4 DEF Types
  <2>7. \A d \in Calls : w[d]["download"] =
          IF d \in cs /\ waiter[d]["download"] = "armed" THEN "rejected" ELSE waiter[d]["download"]
    BY <2>3 DEF Types
  <2>8. \A d \in Calls, y \in Types : d # c => (waiter'[d][y] = "none" <=> waiter[d][y] = "none")
    BY <2>3, <2>4
  <2> QED
    BY <1>1, <2>3, <2>4, <2>5, <2>6, <2>7, <2>8, EndStep
<1> QED
  BY <1>2, <1>3 DEF ActionFails, InTab

\* A call returns with what its waiters got.
LEMMA ReturnIInv ==
  ASSUME IInv, NEW c \in Calls, Return(c)
  PROVE  IInv'
<1>1. /\ End(c) /\ waiter' = Left(c, waiter) /\ given' = given /\ down' = down /\ owner' = owner /\ Shapes
  BY DEF Return, Downloading, IInv
<1>2. /\ waiter' \in [Calls -> [Types -> Outcomes]]
      /\ \A d \in Calls, y \in Types : waiter'[d][y] = IF d = c /\ y = "event" THEN "none" ELSE waiter[d][y]
  BY <1>1, LeftFacts DEF Shapes
<1>3. \A d \in Calls : waiter'[d]["download"] = waiter[d]["download"]
  BY <1>2 DEF Types
<1> QED
  BY <1>1, <1>2, <1>3, EndStep DEF Shapes

\* A turn of a polling loop, and its deadline.
LEMMA PollIInv ==
  ASSUME IInv, NEW c \in Calls, Poll(c) \/ Deadline(c)
  PROVE  IInv'
<1>1. waiter' = waiter /\ given' = given /\ down' = down /\ owner' = owner /\ Shapes
  BY DEF Poll, Deadline, Downloading, IInv
<1>2. CASE End(c)
  BY <1>1, <1>2, EndStep DEF Shapes
<1>3. CASE call[c].at \in {"turn", "asked"} /\ \E a \in {"turn", "asked", "last"} : At(c, a)
  <2>1. PICK a \in {"turn", "asked", "last"} : At(c, a)
    BY <1>3
  <2>2. Becomes(c, call[c].kind, call[c].expects, a, call[c].caused)
    BY <1>1, <2>1, AtFacts DEF CallStages
  <2>3. Waiting(c) /\ waiter' \in [Calls -> [Types -> Outcomes]]
    BY <1>1 DEF IInv, Shapes
  <2>4. Waiting(c)'
    BY <1>1, <1>3, <2>2, <2>3 DEF Waiting, Becomes
  <2>5. Carries(c)
    BY <1>1, <1>3 DEF Carries, Past
  <2> QED
    BY <1>1, <2>2, <2>3, <2>4, <2>5, MoveStep
<1> QED
  BY <1>2, <1>3 DEF Poll, Deadline

-----------------------------------------------------------------------------

\* The invariant holds at the start.
LEMMA InitIInv == Init => IInv
<1> SUFFICES ASSUME Init PROVE IInv
  OBVIOUS
<1>1. PICK f \in [Calls -> Tabs] : call = [c \in Calls |-> [NoCall EXCEPT !.tab = f[c]]]
  BY PlacesAssumption DEF Init
<1>2. \A c \in Calls : /\ call[c] \in CallRecords /\ call[c].at = "idle" /\ call[c].caused = {}
                       /\ call[c].expects = {}
  BY <1>1 DEF NoCall, CallRecords, CallStages, Kinds
<1>3. call \in [Calls -> CallRecords]
  BY <1>1, <1>2
<1>4. /\ waiter = [c \in Calls |-> [y \in Types |-> "none"]] /\ given = [c \in Calls |-> None]
      /\ down = [d \in Downloads |-> [at |-> "none", by |-> None]] /\ owner = [d \in Downloads |-> None]
  BY DEF Init
<1>5. Shapes
  BY <1>3, <1>4 DEF Shapes, Outcomes, DownRecords
<1>6. \A c \in Calls : given[c] = None /\ waiter[c]["download"] = "none" /\ \A y \in Types : waiter[c][y] = "none"
  BY <1>4 DEF Types
<1>7. \A c \in Calls : Waiting(c)
  BY <1>2, <1>6 DEF Waiting
<1>8. \A c \in Calls : Got(c)
  BY <1>6 DEF Got
<1>9. \A d \in Downloads : Begun(d)
  BY <1>4 DEF Begun
<1> QED
  BY <1>5, <1>7, <1>8, <1>9 DEF IInv

\* Every step keeps the invariant.
LEMMA NextIInv == IInv /\ [Next]_vars => IInv'
<1> SUFFICES ASSUME IInv, [Next]_vars PROVE IInv'
  OBVIOUS
<1>1. ASSUME NEW c \in Calls, Step(c) \/ Deadline(c) \/ Emit(c) PROVE IInv'
  BY <1>1, ArmIInv, PerformedIInv, ActionFailsIInv, ReturnIInv, PollIInv, EmitIInv DEF Step
<1>2. CASE UNCHANGED vars
  BY <1>2 DEF vars, IInv, Shapes, Waiting, Got, Begun, Rightful, Excused
<1> QED
  BY <1>1, <1>2, StartIInv, InputIInv, TimeoutIInv, StopAllIInv, StopSessionIInv, EmitOtherIInv,
     BeginIInv, OnCreatedIInv, OnChangedIInv DEF Next

\* The invariant holds in every reachable state.
THEOREM Invariance == Spec => []IInv
BY InitIInv, NextIInv, PTL DEF Spec

\* A call expects events and downloads only, has a waiter for what it expects and
\* nothing else, and a download that has not begun belongs to no tab.
THEOREM TypeCorrect == Spec => []TypeOK
<1>1. IInv => TypeOK
  <2> SUFFICES ASSUME IInv PROVE TypeOK
    OBVIOUS
  <2>1. \A c \in Calls : call[c].expects \subseteq Types /\ given[c] \in Downloads \cup {None}
    BY DEF IInv, Shapes, CallRecords
  <2> QED
    BY <2>1 DEF TypeOK, IInv, Waiting, Begun
<1> QED
  BY <1>1, Invariance, PTL

\* A download that an action has caused and waits for is given to no other call,
\* for any number of calls waiting in any number of tabs.
THEOREM DownloadSafety == Spec => []DownloadIsNotStolen
<1>1. IInv => DownloadIsNotStolen
  <2> SUFFICES ASSUME IInv, NEW c \in Calls, waiter[c]["download"] = "resolved"
               PROVE  LET by == down[given[c]].by IN
                      \/ by \in {None, c}
                      \/ call[by].kind = "media" \/ waiter[by]["download"] = "none"
                      \/ waiter[by]["download"] = "rejected" \/ given[by] # None
    BY DEF DownloadIsNotStolen
  <2>1. Got(c)
    BY DEF IInv
  <2> QED
    BY <2>1 DEF Got, Rightful, Excused
<1> QED
  BY <1>1, Invariance, PTL

\* The event that an action causes finds the action's waiter armed or settled: it
\* never comes before it.
THEOREM EventSafety == Spec => CausedEventIsSeen
<1>1. IInv => [\A c \in Calls : Emit(c) /\ "event" \in call[c].expects =>
                 waiter'[c]["event"] \in {"resolved", "rejected"}]_vars
  <2> SUFFICES ASSUME IInv, NEW c \in Calls, Emit(c), "event" \in call[c].expects
               PROVE  waiter'[c]["event"] \in {"resolved", "rejected"}
    OBVIOUS
  <2>1. Waiting(c) /\ "event" \in call[c].caused /\ "event" \in Types
    BY DEF IInv, Emit, Types
  <2>2. waiter[c]["event"] \in {"armed", "resolved", "rejected"}
    BY <2>1 DEF Waiting, IInv, Shapes, Outcomes
  <2>3. <<c, "event">> \in InTab(call[c].tab) \X {"event"}
    BY DEF InTab
  <2> QED
    BY <2>1, <2>2, <2>3 DEF Emit, Settle
<1> QED
  BY <1>1, Invariance, PTL DEF CausedEventIsSeen

=============================================================================
