-------------------------- MODULE MCRouteRequests --------------------------
(* An instance of RouteRequests for TLC: three models, of which two are of   *)
(* the provider that requests may require; the strongest is ranked last,     *)
(* and its escalation requests may outlast their key in Redis.               *)
EXTENDS RouteRequests, TLC

CONSTANTS a, b, c

ModelSet == {a, b, c}
OfProvider == {b, c}
ByScore == <<a, b, c>>
Scores == {ByScore}
SeedScores == {ByScore, <<c, b, a>>}
ByStrength == <<c, a, b>>
Outlasting == {<<"escalation", c>>}
=============================================================================
