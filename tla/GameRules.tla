------------------------------- MODULE GameRules -------------------------------
(***************************************************************************)
(* The rules of the game as the backend's pure functions compute them      *)
(* (backend/internal/modules/game and action): the order of the phases,    *)
(* who may act and on whom, how a night and a ballot are decided and when   *)
(* a side has won.  No state: every module that plays the game uses these. *)
(*                                                                         *)
(* `role' maps each player of a game to a role (the player_roles rows),     *)
(* `alive' is the set of players whose row says is_alive, and a ballot box  *)
(* (night actions or votes of one round) maps each player to the chosen     *)
(* target, or to None where no row exists.                                  *)
(***************************************************************************)
EXTENDS Integers, FiniteSets

CONSTANT None            \* no player: a nil *string in the code

Roles   == {"killer", "doctor", "villager"}
Winners == {"none", "villagers", "killers"}

Phases  == {"role_reveal", "night_killer", "night_doctor", "night_resolve",
            "day_reveal", "discussion", "voting", "vote_result", "ended"}

(* The successor of a phase where no resolver decides it. *)
NextPhase(phase) ==
  CASE phase = "role_reveal"   -> "night_killer"
    [] phase = "night_killer"  -> "night_doctor"
    [] phase = "night_doctor"  -> "night_resolve"
    [] phase = "night_resolve" -> "day_reveal"
    [] phase = "day_reveal"    -> "discussion"
    [] phase = "discussion"    -> "voting"
    [] phase = "voting"        -> "vote_result"
    [] phase = "vote_result"   -> "night_killer"
    [] OTHER                   -> "ended"

(***************************************************************************)
(* Roles.  AssignRoles shuffles the seated players and deals the first two *)
(* the killer's card, the third the doctor's and everybody else a          *)
(* villager's: any assignment with these counts can come out.              *)
(***************************************************************************)
Having(role, r) == {p \in DOMAIN role : role[p] = r}

AssignRoles(seat, killers) ==
  {role \in [seat -> Roles] : /\ Cardinality(Having(role, "killer")) = killers
                              /\ Cardinality(Having(role, "doctor")) = 1}

CanPlayerActInPhase(phase, r) ==
  \/ phase = "night_killer" /\ r = "killer"
  \/ phase = "night_doctor" /\ r = "doctor"

AllowsSelfTarget(r) == r = "doctor"

-----------------------------------------------------------------------------
(***************************************************************************)
(* Counting.  The code walks a hash map of counters and keeps the leaders  *)
(* it has met; what comes out is the set of targets nobody beats.          *)
(***************************************************************************)
BallotsFor(ballots, voters, t) == {p \in voters : ballots[p] = t}

Leaders(ballots, voters, targets) ==
  {t \in targets : LET n == Cardinality(BallotsFor(ballots, voters, t))
                   IN  /\ n > 0
                       /\ \A u \in targets :
                            Cardinality(BallotsFor(ballots, voters, u)) <= n}

(* Whom the killers attack: a most chosen target, any of them on a tie. *)
Attacked(role, actions) ==
  LET killers == Having(role, "killer")
  IN  Leaders(actions, killers, {actions[p] : p \in killers} \ {None})

(* Whom the doctor shields this round, None before the doctor has acted. *)
Shielded(role, actions) ==
  {actions[p] : p \in Having(role, "doctor")} \ {None}

(* Faulty variant: the doctor's choice is not looked at. *)
NightVictimsUnshielded(role, actions) ==
  IF Attacked(role, actions) = {} THEN {None} ELSE Attacked(role, actions)

(* Who may be dead in the morning: the attacked player unless shielded. *)
NightVictims(role, actions) ==
  LET attacked == Attacked(role, actions)
  IN  IF attacked = {}
      THEN {None}
      ELSE {IF t \in Shielded(role, actions) THEN None ELSE t : t \in attacked}

(* Who is voted out: the one leader among the living, nobody on a tie. *)
VotedOut(role, alive, votes) ==
  LET targets == alive \cap DOMAIN role
      leaders == Leaders(votes, DOMAIN role, targets)
  IN  IF Cardinality(leaders) = 1 THEN CHOOSE t \in leaders : TRUE ELSE None

(* Faulty variant: parity is taken for a draw. *)
WinnerParityIsDraw(role, alive) ==
  LET killers == alive \cap Having(role, "killer")
      others  == (alive \cap DOMAIN role) \ killers
  IN  IF Cardinality(killers) = Cardinality(others) THEN "draw" ELSE "none"

(* Faulty variant: the killers have to outnumber the others. *)
WinnerOnMajority(role, alive) ==
  LET killers == alive \cap Having(role, "killer")
      others  == (alive \cap DOMAIN role) \ killers
  IN  CASE killers = {}                                   -> "villagers"
        [] Cardinality(killers) > Cardinality(others)     -> "killers"
        [] OTHER                                          -> "none"

(* The side that has won, judged by the living players who hold a role. *)
WinnerFromAliveRoles(role, alive) ==
  LET killers == alive \cap Having(role, "killer")
      others  == (alive \cap DOMAIN role) \ killers
  IN  CASE killers = {}                                    -> "villagers"
        [] /\ killers # {}
           /\ Cardinality(killers) >= Cardinality(others)  -> "killers"
        [] OTHER                                           -> "none"
=============================================================================
