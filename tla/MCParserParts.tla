--------------------------- MODULE MCParserParts ----------------------------
(* A small instance of ParserParts for TLC. *)
EXTENDS ParserParts

CONSTANTS snowball, launch, tag, shard, talent, attributes

TuskSlots == <<launch, snowball, tag, shard, talent, attributes>>
TuskCap   == (snowball :> 2) @@ (tag :> 1)
TuskTwin  == (launch :> snowball)

\* Deaths of four heroes, two a side: with and without helpers, whom the log lists
\* or not; a Meepo by an enemy and by himself; and a reincarnation.
Death(v, k, helped, listed, rein) == [victim |-> v, killer |-> k, helped |-> helped, listed |-> listed, rein |-> rein]
TheDeaths == {Death(1, 3, {4}, {}, FALSE), Death(2, 3, {4}, {4}, FALSE), Death(3, 1, {2}, {2, 1}, FALSE),
              Death(3, 1, {}, {2}, FALSE), Death(4, 2, {}, {}, TRUE), Death(3, 3, {}, {}, FALSE)}

\* Two camps side by side: player 1 is near both, and nearer to the only one that
\* player 2 is near.
Distances == <<<<4, 2>>, <<30, 2>>>>

\* Blocked boxes at one mark; two kills after one mark; one kill and two marks,
\* with creeps to come at one camp.
Replays == {[boxes |-> {"none", "near", "hero", "lane"}, odd |-> TRUE,  at |-> {1, 2}, creeps |-> 2, ends |-> 1, ticks |-> 4],
            [boxes |-> {"none"},                         odd |-> FALSE, at |-> {1, 2}, creeps |-> 2, ends |-> 2, ticks |-> 4],
            [boxes |-> {"none"},                         odd |-> FALSE, at |-> {1},    creeps |-> 2, ends |-> 1, ticks |-> 7]}

\* Two wards of either kind, killed by anyone; three of one kind, placed at once,
\* that others than heroes kill.
TheWards == {[kinds |-> {0, 1}, killers |-> {0, 1, 2}, most |-> 2, by |-> 2],
             [kinds |-> {0},    killers |-> {0},       most |-> 3, by |-> 0]}

TheWalks ==
  [mean : {"bottom", "mid", "jungle"},
   fifths : {<<"bottom", "mid", "mid">>, <<"mid", "mid", "jungle">>, <<"top", "mid", "top">>, <<"mid", "bottom", "bottom">>}]
  \cup {[mean |-> "", fifths |-> <<"mid", "mid", "mid">>]}

\* Supports ward and farm less, but for a mid who wards and one who does neither.
TheSeats ==
  {[lane |-> l, score |-> x, wards |-> IF x = 1 THEN 5 ELSE 0] : l \in {"mid", "safe", "off", "roam"}, x \in {1, 2}}
  \cup {[lane |-> "mid", score |-> 1, wards |-> 0], [lane |-> "mid", score |-> 2, wards |-> 5]}
=============================================================================
