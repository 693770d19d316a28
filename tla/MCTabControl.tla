---------------------------- MODULE MCTabControl ----------------------------
(* TabControl with the troubles that its runs study.                        *)
EXTENDS TabControl
CONSTANTS s2, l3

Past(troubles, sessions, leases) ==
  [hazards |-> troubles, closed |-> sessions, spent |-> leases]

\* Two sessions and takeovers; or one session and everything but takeovers, when
\* the other session has used a lease and is closed.
TwoPasts == {Past({"force"}, {}, {}), Past({"overlap", "timeout", "detach"}, {s2}, {l3})}
Timeouts == {Past({"timeout"}, {s2}, {l3})}
Overlaps == {Past({"force", "overlap"}, {}, {})}

=============================================================================
