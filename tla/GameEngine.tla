------------------------------ MODULE GameEngine ------------------------------
(***************************************************************************)
(* One game of the Go backend, from the transaction that starts it: the     *)
(* `games' row, the rows it is judged by (players.is_alive, player_roles,   *)
(* night_actions, votes, the role_reveal.confirmed logs) and the requests   *)
(* that play it.                                                            *)
(*                                                                          *)
(* A player's request (confirm the role, act at night, vote) is two         *)
(* transactions, each under the row lock of the game, hence each one step:  *)
(* the first records the input, the second, AdvanceIfComplete, moves the    *)
(* phase on if the phase it then finds is complete.  Between the two the    *)
(* request is in flight: other requests run, and it may advance a phase     *)
(* other than the one it was made in.  No timer and no background job       *)
(* advances a game, so a phase moves on only by a request in flight or, in  *)
(* day_reveal and discussion, by the host.                                  *)
(*                                                                          *)
(* The rows of night_actions and votes carry the day they belong to and are *)
(* only read with the game's current day; `actions' and `votes' are the rows *)
(* of the current day, so the step that increments the day empties them.    *)
(*                                                                          *)
(* Whether a player is alive is a column of the room's players, not of the  *)
(* game's: once the host restarts a room whose game has ended, `alive' is   *)
(* what the room's later games make of it.                                  *)
(***************************************************************************)
EXTENDS GameRules

CONSTANTS
  Player,       \* the players of the room: every row with its room_id
  Seat,         \* those connected when the game started: they are dealt a role
  NumKillers,   \* killers dealt: 2 in the code
  MaxDay,       \* bound: the last day that is played
  MaxInflight,  \* bound: requests between their two transactions at a time
  Faults        \* whether the second transaction of a request may fail

ASSUME ConstantsAssumption ==
  /\ IsFiniteSet(Player)
  /\ Seat \subseteq Player
  /\ None \notin Player
  /\ NumKillers \in Nat \ {0}
  /\ 2 * NumKillers < Cardinality(Seat)
  /\ MaxDay \in Nat \ {0}
  /\ MaxInflight \in Nat \ {0}
  /\ Faults \in BOOLEAN

VARIABLES
  game,         \* the row of the game
  role,         \* player_roles of the game: who holds which card
  alive,        \* players of the room whose row says is_alive
  hosted,       \* whether the room has a host: rooms.host_player_id is set
  restarted,    \* whether rooms.current_game_id names a later game by now
  confirmed,    \* players with a role_reveal.confirmed log
  actions,      \* night_actions of the day: target by player, None: no row
  votes,        \* votes of the day: target by voter, None: no row
  inflight      \* requests that committed their input and have yet to advance

vars == <<game, role, alive, hosted, restarted, confirmed, actions, votes, inflight>>

NoRows == [p \in Seat |-> None]

(* A published result: the day it is of and who died, None for nobody. *)
Result == [day : Nat, victim : Player \cup {None}]

GameRow == [phase : Phases, day : Nat, winner : Winners, endedAt : BOOLEAN,
            nightResult : Result \cup {None}, voteResult : Result \cup {None}]

TypeOK ==
  /\ game \in GameRow
  /\ role \in [Seat -> Roles]
  /\ alive \subseteq Player
  /\ hosted \in BOOLEAN
  /\ restarted \in BOOLEAN
  /\ confirmed \subseteq Seat
  /\ actions \in [Seat -> Player \cup {None}]
  /\ votes \in [Seat -> Player \cup {None}]
  /\ inflight \in 0 .. MaxInflight

(***************************************************************************)
(* The game as the host's StartGame (or RestartRoom) commits it: the cards  *)
(* dealt and every player of the room alive again, whether seated or not.   *)
(***************************************************************************)
Init ==
  /\ game = [phase |-> "role_reveal", day |-> 1, winner |-> "none",
             endedAt |-> FALSE, nightResult |-> None, voteResult |-> None]
  /\ role \in AssignRoles(Seat, NumKillers)
  /\ alive = Player
  /\ hosted = TRUE
  /\ restarted = FALSE
  /\ confirmed = {}
  /\ actions = NoRows
  /\ votes = NoRows
  /\ inflight = 0

-----------------------------------------------------------------------------
(* What the database answers to the engine's queries. *)

AliveWith(r) == alive \cap Having(role, r)

Submitted(r) == {p \in Having(role, r) : actions[p] # None}

Voters == {p \in Seat : votes[p] # None}

(* What the submission handlers accept, checked inside their transaction. *)

InNightPhase == game.phase \in {"night_killer", "night_doctor"}

MayAct(p, t) ==
  /\ InNightPhase
  /\ p \in alive \cap Seat
  /\ actions[p] = None
  /\ CanPlayerActInPhase(game.phase, role[p])
  /\ t \in alive \cap Seat
  /\ t = p => AllowsSelfTarget(role[p])

(* Faulty variant: voters may vote for themselves. *)
MayVoteForSelf(p, t) ==
  /\ game.phase = "voting"
  /\ p \in alive \cap Seat
  /\ votes[p] = None
  /\ t \in alive \cap Seat

MayVote(p, t) ==
  /\ game.phase = "voting"
  /\ p \in alive \cap Seat
  /\ votes[p] = None
  /\ t \in alive \cap Seat
  /\ t # p

-----------------------------------------------------------------------------
(* The first transaction of a request. *)

EnterFlight ==
  /\ inflight < MaxInflight
  /\ inflight' = inflight + 1

(* Confirming twice is accepted, adds no log and still tries to advance. *)
ConfirmRoleReveal(p) ==
  /\ game.phase = "role_reveal"
  /\ confirmed' = confirmed \cup {p}
  /\ EnterFlight
  /\ UNCHANGED <<game, role, alive, hosted, restarted, actions, votes>>

SubmitNightAction(p, t) ==
  /\ MayAct(p, t)
  /\ actions' = [actions EXCEPT ![p] = t]
  /\ EnterFlight
  /\ UNCHANGED <<game, role, alive, hosted, restarted, confirmed, votes>>

(* Faulty variant: the vote is recorded and nobody looks whether it is the last. *)
SubmitVoteWithoutAdvance(p, t) ==
  /\ MayVote(p, t)
  /\ votes' = [votes EXCEPT ![p] = t]
  /\ UNCHANGED <<game, role, alive, hosted, restarted, confirmed, actions, inflight>>

SubmitVote(p, t) ==
  /\ MayVote(p, t)
  /\ votes' = [votes EXCEPT ![p] = t]
  /\ EnterFlight
  /\ UNCHANGED <<game, role, alive, hosted, restarted, confirmed, actions>>

-----------------------------------------------------------------------------
(* The second transaction of a request: AdvanceIfComplete. *)

(* Faulty variant: one killer's choice closes the killers' turn. *)
PhaseCompleteOnOneKiller ==
  CASE game.phase = "role_reveal" -> Cardinality(confirmed) >= Cardinality(alive)
    [] game.phase = "night_killer" -> Submitted("killer") # {}
    [] game.phase = "night_doctor" ->
         AliveWith("doctor") = {} \/ Submitted("doctor") # {}
    [] game.phase = "voting" -> Cardinality(Voters) >= Cardinality(alive)
    [] game.phase \in {"night_resolve", "day_reveal", "vote_result"} -> TRUE
    [] OTHER -> FALSE

(* isPhaseCompleteInTx: it compares numbers of rows, not who they are of;   *)
(* role_reveal and voting wait for the living of the room, not of the game. *)
PhaseComplete ==
  CASE game.phase = "role_reveal" ->
         Cardinality(confirmed) >= Cardinality(alive)
    [] game.phase = "night_killer" ->
         Cardinality(Submitted("killer")) >= Cardinality(AliveWith("killer"))
    [] game.phase = "night_doctor" ->
         AliveWith("doctor") = {} \/ Submitted("doctor") # {}
    [] game.phase = "voting" ->
         Cardinality(Voters) >= Cardinality(alive)
    [] game.phase \in {"night_resolve", "day_reveal", "vote_result"} -> TRUE
    [] OTHER -> FALSE

LeaveFlight ==
  /\ inflight > 0
  /\ inflight' = inflight - 1

(***************************************************************************)
(* UpdateGame saves the whole row of the game as this transaction read it   *)
(* and changed it in memory, `g', over `row', the row in the database, in   *)
(* which the resolvers have set a result column meanwhile.                  *)
(***************************************************************************)
UpdateGame(row, g) == g

SetLatestNightResult(victim) ==
  [game EXCEPT !.nightResult = [day |-> game.day, victim |-> victim]]

SetLatestVoteResult(victim) ==
  [game EXCEPT !.voteResult = [day |-> game.day, victim |-> victim]]

EndGame(winner) ==
  [game EXCEPT !.phase = "ended", !.winner = winner, !.endedAt = TRUE]

AdvanceIncomplete ==
  /\ LeaveFlight
  /\ ~PhaseComplete
  /\ UNCHANGED <<game, role, alive, hosted, restarted, confirmed, actions, votes>>

AdvanceToNextPhase ==
  /\ LeaveFlight
  /\ PhaseComplete
  /\ game.phase \in {"role_reveal", "night_killer", "night_doctor", "day_reveal"}
  /\ game' = UpdateGame(game, [game EXCEPT !.phase = NextPhase(game.phase)])
  /\ UNCHANGED <<role, alive, hosted, restarted, confirmed, actions, votes>>

(* Faulty variant: the winner is looked up before the victim is dead. *)
AdvanceNightResolveJudgedEarly ==
  /\ LeaveFlight
  /\ game.phase = "night_resolve"
  /\ \E victim \in NightVictims(role, actions) :
       LET winner == WinnerFromAliveRoles(role, alive)
       IN  /\ alive' = alive \ {victim}
           /\ game' = IF winner = "none"
                      THEN [game EXCEPT !.phase = "day_reveal"]
                      ELSE EndGame(winner)
  /\ UNCHANGED <<role, hosted, restarted, confirmed, actions, votes>>

AdvanceNightResolve ==
  /\ LeaveFlight
  /\ game.phase = "night_resolve"
  /\ \E victim \in NightVictims(role, actions) :
       LET winner == WinnerFromAliveRoles(role, alive \ {victim})
       IN  /\ alive' = alive \ {victim}
           /\ game' = UpdateGame(SetLatestNightResult(victim),
                        IF winner = "none"
                        THEN [game EXCEPT !.phase = "day_reveal"]
                        ELSE EndGame(winner))
  /\ UNCHANGED <<role, hosted, restarted, confirmed, actions, votes>>

AdvanceVoting ==
  /\ LeaveFlight
  /\ game.phase = "voting"
  /\ PhaseComplete
  /\ LET victim == VotedOut(role, alive, votes)
         winner == WinnerFromAliveRoles(role, alive \ {victim})
     IN  /\ alive' = alive \ {victim}
         /\ game' = UpdateGame(SetLatestVoteResult(victim),
                      [game EXCEPT !.phase  = "vote_result",
                                   !.winner = IF winner = "none" THEN @ ELSE winner])
  /\ UNCHANGED <<role, hosted, restarted, confirmed, actions, votes>>

(* The winner is looked up once more, after the town has seen the result. *)
AdvanceVoteResultToEnd ==
  /\ LeaveFlight
  /\ game.phase = "vote_result"
  /\ LET winner == WinnerFromAliveRoles(role, alive)
     IN  /\ winner # "none"
         /\ game' = UpdateGame(game, EndGame(winner))
  /\ UNCHANGED <<role, alive, hosted, restarted, confirmed, actions, votes>>

(* Faulty variant: the next night is played on the same day number, so the *)
(* rows of the day before are found again.                                 *)
AdvanceVoteResultToSameDay ==
  /\ LeaveFlight
  /\ game.phase = "vote_result"
  /\ WinnerFromAliveRoles(role, alive) = "none"
  /\ game' = [game EXCEPT !.phase = "night_killer"]
  /\ UNCHANGED <<role, alive, hosted, restarted, confirmed, actions, votes>>

AdvanceVoteResultToNight ==
  /\ LeaveFlight
  /\ game.phase = "vote_result"
  /\ WinnerFromAliveRoles(role, alive) = "none"
  /\ game.day < MaxDay
  /\ game' = UpdateGame(game, [game EXCEPT !.phase = "night_killer", !.day = @ + 1])
  /\ actions' = NoRows
  /\ votes' = NoRows
  /\ UNCHANGED <<role, alive, hosted, restarted, confirmed>>

AdvanceIfComplete ==
  \/ AdvanceIncomplete
  \/ AdvanceToNextPhase
  \/ AdvanceNightResolve
  \/ AdvanceVoting
  \/ AdvanceVoteResultToEnd
  \/ AdvanceVoteResultToNight

(* The request dies between its transactions, or the second one fails and  *)
(* is rolled back: the handler answers with an error, nothing is retried.  *)
RequestFails ==
  /\ Faults
  /\ LeaveFlight
  /\ UNCHANGED <<game, role, alive, hosted, restarted, confirmed, actions, votes>>

-----------------------------------------------------------------------------
(* Faulty variant: the phase is not checked. *)
ManualTransitionUnguarded(from, to) ==
  /\ hosted
  /\ game' = [game EXCEPT !.phase = to]
  /\ UNCHANGED <<role, alive, hosted, restarted, confirmed, actions, votes, inflight>>

(***************************************************************************)
(* The host's requests: one transaction each.  Who the host is does not     *)
(* matter to the game, only that the request is the host's, which a room    *)
(* without one never sends; a request of anybody else is turned down.       *)
(***************************************************************************)
ManualTransition(from, to) ==
  /\ game.phase = from
  /\ hosted
  /\ game' = UpdateGame(game, [game EXCEPT !.phase = to])
  /\ UNCHANGED <<role, alive, hosted, restarted, confirmed, actions, votes, inflight>>

StartDiscussion == ManualTransition("day_reveal", "discussion")

StartVoting == ManualTransition("discussion", "voting")

(* LeaveRoom by a host with nobody connected to hand the room over to; a    *)
(* handover to another player changes nothing here.                         *)
RoomLosesHost ==
  /\ hosted
  /\ hosted' = FALSE
  /\ UNCHANGED <<game, role, alive, restarted, confirmed, actions, votes, inflight>>

(***************************************************************************)
(* The host restarts the room of a game that has ended: the room goes on to *)
(* another game and MarkAllPlayersAlive revives all its players, this       *)
(* game's among them.  It takes enough connected players, who are not kept  *)
(* here: it may happen or not.                                              *)
(***************************************************************************)
RestartRoom ==
  /\ game.phase = "ended"
  /\ hosted
  /\ ~restarted
  /\ restarted' = TRUE
  /\ alive' = Player
  /\ UNCHANGED <<game, role, hosted, confirmed, actions, votes, inflight>>

(* The room's later games kill players, and each restart revives them all.  *)
LaterGames ==
  /\ restarted
  /\ \/ \E victim \in alive : alive' = alive \ {victim}
     \/ alive' = Player
  /\ UNCHANGED <<game, role, hosted, restarted, confirmed, actions, votes, inflight>>

Next ==
  \/ \E p \in Seat : ConfirmRoleReveal(p)
  \/ \E p, t \in Seat : SubmitNightAction(p, t)
  \/ \E p, t \in Seat : SubmitVote(p, t)
  \/ AdvanceIfComplete
  \/ RequestFails
  \/ StartDiscussion
  \/ StartVoting
  \/ RoomLosesHost
  \/ RestartRoom
  \/ LaterGames

Spec == Init /\ [][Next]_vars

(* A handler's goroutine runs on to its second transaction; no player need *)
(* ever make a request, and the host may never open the day.               *)
FairSpec == Spec /\ WF_vars(AdvanceIfComplete)

-----------------------------------------------------------------------------
(* GetState's view of the moves: computeActionAndTargets with mapTargets.  *)

CanAct(p) ==
  /\ p \in alive
  /\ \/ /\ InNightPhase
        /\ actions[p] = None
        /\ CanPlayerActInPhase(game.phase, role[p])
     \/ /\ game.phase = "voting"
        /\ votes[p] = None

AvailableTargets(p) ==
  IF ~CanAct(p)                       THEN {}
  ELSE IF game.phase = "night_doctor" THEN alive
                                      ELSE alive \ {p}

-----------------------------------------------------------------------------
(* Safety. *)

(***************************************************************************)
(* No phase is skipped.  A request in flight may advance a phase it was     *)
(* not made in, and completeness is judged by counting rows; still, once    *)
(* the reveal is over everybody has confirmed, once a night's turn is over  *)
(* every living killer (doctor) has acted that night, and when the votes    *)
(* are out every living player has voted that day.  Who lives in a room     *)
(* that has gone on to another game says nothing of this one.               *)
(***************************************************************************)
NoInputSkipped ==
  /\ game.phase # "role_reveal" => confirmed = Seat
  /\ game.phase \notin {"role_reveal", "night_killer"} =>
       restarted \/ AliveWith("killer") \subseteq Submitted("killer")
  /\ game.phase \notin {"role_reveal", "night_killer", "night_doctor"} =>
       restarted \/ AliveWith("doctor") \subseteq Submitted("doctor")
  /\ game.phase = "vote_result" => alive \subseteq Voters

(***************************************************************************)
(* The row of the game agrees with the town at all times: play goes on only *)
(* while no side has won, the announced winner is the one the living cards  *)
(* give, and a game that has ended has a winner and its end time.  Only     *)
(* such a game is left for another, and from then on the winner stands      *)
(* whatever the living cards say.                                           *)
(***************************************************************************)
WinnerMatchesTown ==
  /\ restarted \/ game.winner = WinnerFromAliveRoles(role, alive)
  /\ restarted => game.phase = "ended"
  /\ game.winner # "none" => game.phase \in {"vote_result", "ended"}
  /\ game.phase = "ended" => game.winner # "none"
  /\ game.endedAt <=> game.phase = "ended"

(* Resolutions due by now: one per night, one per vote. *)
Resolutions ==
  2 * (game.day - 1)
    + (CASE game.phase \in {"vote_result", "ended"}                 -> 2
         [] game.phase \in {"day_reveal", "discussion", "voting"}   -> 1
         [] OTHER                                                   -> 0)

(***************************************************************************)
(* A night is resolved once and a ballot is counted once, however many      *)
(* requests were in flight: no more players are dead than there were        *)
(* resolutions.                                                             *)
(***************************************************************************)
OneDeathPerResolution == restarted \/ Cardinality(Player \ alive) <= Resolutions

(***************************************************************************)
(* The moves a client is offered by GetState are those the submission       *)
(* handlers accept: the two are computed by different code.                 *)
(***************************************************************************)
OfferedMovesAreAccepted ==
  \A p \in Seat : AvailableTargets(p) = {t \in Player : MayAct(p, t) \/ MayVote(p, t)}

(***************************************************************************)
(* Nobody dies unless chosen: the night takes a living player no other got  *)
(* more killers than, and not the doctor's choice; the vote takes the one   *)
(* player with more votes than any other living player.  (Those who die     *)
(* after a restart die in another game.)                                    *)
(***************************************************************************)
Support(ballots, t) == Cardinality({p \in Seat : ballots[p] = t})

KillersOn(t) == Cardinality({p \in Having(role, "killer") : actions[p] = t})

DeathsAreEarned ==
  [][\A victim \in alive \ alive' :
       \/ /\ game.phase = "night_resolve"
          /\ KillersOn(victim) > 0
          /\ \A t \in Seat : KillersOn(t) <= KillersOn(victim)
          /\ \A d \in Having(role, "doctor") : actions[d] # victim
       \/ /\ game.phase = "voting"
          /\ \A t \in alive \ {victim} : Support(votes, t) < Support(votes, victim)
       \/ restarted]_vars

(***************************************************************************)
(* Whatever is still in flight and whatever the host presses, the row of a  *)
(* game that has ended stays as it ended.  Its survivors stay until the     *)
(* host restarts the room and no longer: the restart revives everybody, and *)
(* GetState, which still serves this game, shows the living of the room's   *)
(* later games beside its winner.                                           *)
(***************************************************************************)
EndedIsFinal ==
  [][game.phase = "ended" =>
       /\ UNCHANGED game
       /\ UNCHANGED alive \/ RestartRoom \/ LaterGames]_vars

(* The day is opened for discussion by the host and by nobody else.         *)
(* The code breaks this: a request in flight opens it too.                  *)
HostOpensDiscussion ==
  [][game.phase = "day_reveal" /\ game'.phase = "discussion" => StartDiscussion]_vars

(* The town is told how its vote went: vote_result comes with a result.     *)
(* The code breaks this: UpdateGame saves the old column over the result.   *)
VoteResultIsPublished == game.phase = "vote_result" => game.voteResult # None

-----------------------------------------------------------------------------
(* Progress, for a server whose second transactions do not fail. *)

InputPhaseComplete ==
  /\ PhaseComplete
  /\ \/ game.phase \in {"role_reveal", "night_killer", "voting"}
     \/ game.phase = "night_doctor" /\ AliveWith("doctor") # {}

(***************************************************************************)
(* Whenever the last input a phase waits for is in, a request is in flight  *)
(* that will move the phase on.                                             *)
(***************************************************************************)
SomeoneWillAdvance == InputPhaseComplete => inflight > 0

(* A phase that has all its inputs is left, its resolution done: the votes  *)
(* are counted, the night's turn passes on.                                 *)
CompletePhaseIsLeft ==
  \A phase \in Phases :
    (game.phase = phase /\ InputPhaseComplete) ~> game.phase # phase

(* Once the night's inputs are in, the night is resolved.                   *)
(* The code breaks this: no request need be left to resolve it.             *)
NightIsResolved == game.phase = "night_resolve" ~> game.phase # "night_resolve"

(* Once everybody who holds a card has confirmed it, the reveal is over.    *)
(* The code breaks this when a player had left the lobby: the row of that   *)
(* player is waited for too.                                                *)
RevealIsOver == confirmed = Seat ~> game.phase # "role_reveal"
-----------------------------------------------------------------------------
(***************************************************************************)
(* The game the players are promised.  The reveal and the collecting of a   *)
(* night's actions are part of its night, the talk and the collecting of    *)
(* votes part of its day; what was chosen shows once the round is over.     *)
(***************************************************************************)
Scene ==
  CASE game.phase \in {"day_reveal", "discussion", "voting"} -> "day"
    [] game.phase = "vote_result"                            -> "verdict"
    [] game.phase = "ended" /\ ~restarted                    -> "over"
    [] game.phase = "ended" /\ restarted                     -> "left"
    [] OTHER                                                 -> "night"

Town == INSTANCE TownGame WITH
  scene  <- Scene,
  day    <- game.day,
  card   <- role,
  living <- alive \cap Seat,
  winner <- game.winner,
  deeds  <- IF Scene = "night" THEN NoRows ELSE actions,
  ballot <- IF Scene \in {"verdict", "over", "left"} THEN votes ELSE NoRows

(* However its requests interleave and whichever of them fail, the engine   *)
(* plays that game: every round is one of choices by all the living and of  *)
(* the living, and its outcome is the one those choices have.               *)
ImplementsTown == Town!Spec
=============================================================================
