---------------------------- MODULE ParserParts -----------------------------
(***************************************************************************)
(* The parser's pairing passes, one at a time.  Each reads a stream of the *)
(* replay (main.go, the handlers of the combat log, the chat and the       *)
(* entities) into a record of its own and works on it when the replay      *)
(* ends; no record is written by two of them, so each runs with the        *)
(* others at rest.                                                         *)
(***************************************************************************)
EXTENDS SkillBuild, HeroDeaths, Purchases, Wards, Smokes, Camps, Roles, GameClock

VARIABLE part   \* the pass that runs

parserVars == <<part, skillVars, game, board, shop, field, wlog, smoke, wild, jung, team, match, watch>>

Init ==
  /\ part \in {"skills", "deaths", "shop", "wards", "smokes", "camps", "roles", "clock"}
  /\ SkillInit /\ DeathsInit /\ ShopInit /\ WardsInit /\ SmokesInit /\ CampsInit /\ RolesInit /\ ClockInit
  /\ part # "skills" => counters /\ points = 0            \* one start for a pass at rest
  /\ part # "wards" => field.announced /\ field.plan = CHOOSE s \in WardPlans : TRUE
  /\ part # "camps" => wild.plan = CHOOSE s \in Scenarios : TRUE
  /\ part # "clock" => match.valve

Runs(p) == part = p /\ UNCHANGED part

Next ==
  \/ Runs("skills") /\ SkillNext /\ UNCHANGED <<game, board, shop, field, wlog, smoke, wild, jung, team, match, watch>>
  \/ Runs("deaths") /\ DeathsNext /\ UNCHANGED <<skillVars, shop, field, wlog, smoke, wild, jung, team, match, watch>>
  \/ Runs("shop") /\ ShopNext /\ UNCHANGED <<skillVars, game, board, field, wlog, smoke, wild, jung, team, match, watch>>
  \/ Runs("wards") /\ WardsNext /\ UNCHANGED <<skillVars, game, board, shop, smoke, wild, jung, team, match, watch>>
  \/ Runs("smokes") /\ SmokesNext /\ UNCHANGED <<skillVars, game, board, shop, field, wlog, wild, jung, team, match, watch>>
  \/ Runs("camps") /\ CampsNext /\ UNCHANGED <<skillVars, game, board, shop, field, wlog, smoke, team, match, watch>>
  \/ Runs("roles") /\ RolesNext /\ UNCHANGED <<skillVars, game, board, shop, field, wlog, smoke, wild, jung, match, watch>>
  \/ Runs("clock") /\ ClockNext /\ UNCHANGED <<skillVars, game, board, shop, field, wlog, smoke, wild, jung, team>>

Spec == Init /\ [][Next]_parserVars
=============================================================================
