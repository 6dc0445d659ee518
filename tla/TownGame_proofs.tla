---------------------------- MODULE TownGame_proofs ----------------------------
(***************************************************************************)
(* GameEngine implements TownGame, for any room, any number of requests in  *)
(* flight and any pattern of failures: proof of the refinement.             *)
(***************************************************************************)
EXTENDS GameEngine_proofs, WellFoundedInduction

(***************************************************************************)
(* What the rounds in progress hold: a row of the night is a living         *)
(* killer's or doctor's and names a living player, and so for the votes.    *)
(***************************************************************************)
NightIsOn == game.phase \in {"role_reveal", "night_killer", "night_doctor", "night_resolve"}

NightRowsAreOfTheLiving ==
  NightIsOn =>
    \A p \in Seat : actions[p] # None =>
       /\ p \in alive
       /\ role[p] \in {"killer", "doctor"}
       /\ actions[p] \in alive \cap Seat
       /\ role[p] = "killer" => actions[p] # p

VotesAreOfTheLiving ==
  game.phase = "voting" =>
    \A p \in Seat : votes[p] # None =>
       /\ p \in alive
       /\ votes[p] \in alive \cap Seat
       /\ votes[p] # p

RoundsAreOfTheLiving == NightRowsAreOfTheLiving /\ VotesAreOfTheLiving

TownInv == NoInputSkippedInv /\ WinnerMatchesTown /\ RoundsAreOfTheLiving

LEMMA NextRounds ==
  ASSUME TypeOK, RowsAreOfTheLiving, RoundsAreOfTheLiving, [Next]_vars
  PROVE  RoundsAreOfTheLiving'
<1>. USE DEF RoundsAreOfTheLiving, NightRowsAreOfTheLiving, VotesAreOfTheLiving, NightIsOn
<1>1. ASSUME NEW p \in Seat, ConfirmRoleReveal(p) PROVE RoundsAreOfTheLiving'
  BY <1>1 DEF ConfirmRoleReveal
<1>2. ASSUME NEW p \in Seat, NEW t \in Seat, SubmitNightAction(p, t)
      PROVE  RoundsAreOfTheLiving'
  <2>1. /\ p \in alive /\ role[p] \in {"killer", "doctor"} /\ t \in alive \cap Seat
        /\ role[p] = "killer" => t # p
    BY <1>2 DEF SubmitNightAction, MayAct, InNightPhase, CanPlayerActInPhase, AllowsSelfTarget
  <2>2. /\ actions' = [actions EXCEPT ![p] = t] /\ UNCHANGED <<game, role, alive, votes>>
        /\ game.phase \in {"night_killer", "night_doctor"}
    BY <1>2 DEF SubmitNightAction, MayAct, InNightPhase
  <2>. QED BY <2>1, <2>2 DEF TypeOK
<1>3. ASSUME NEW p \in Seat, NEW t \in Seat, SubmitVote(p, t)
      PROVE  RoundsAreOfTheLiving'
  BY <1>3 DEF SubmitVote, MayVote, TypeOK
<1>4. CASE AdvanceIncomplete \/ RequestFails \/ RoomLosesHost \/ UNCHANGED vars
  BY <1>4 DEF AdvanceIncomplete, RequestFails, RoomLosesHost, vars
<1>5. CASE AdvanceToNextPhase
  BY <1>5 DEF AdvanceToNextPhase, UpdateGame, NextPhase, TypeOK, GameRow
<1>6. CASE AdvanceNightResolve \/ AdvanceVoting \/ AdvanceVoteResultToEnd \/ StartDiscussion
  <2>1. game'.phase \in {"day_reveal", "vote_result", "ended", "discussion"}
    BY <1>6 DEF AdvanceNightResolve, AdvanceVoting, AdvanceVoteResultToEnd, StartDiscussion,
                ManualTransition, UpdateGame, EndGame, TypeOK, GameRow
  <2>. QED BY <2>1
<1>7. CASE AdvanceVoteResultToNight
  <2>1. game'.phase = "night_killer" /\ actions' = NoRows
    BY <1>7 DEF AdvanceVoteResultToNight, UpdateGame, TypeOK, GameRow
  <2>. QED BY <2>1 DEF NoRows
<1>8. CASE StartVoting
  <2>1. game.phase = "discussion" /\ game'.phase = "voting" /\ votes' = votes
    BY <1>8 DEF StartVoting, ManualTransition, UpdateGame, TypeOK, GameRow
  <2>. QED BY <2>1 DEF RowsAreOfTheLiving, NoRows
<1>9. CASE RestartRoom \/ LaterGames
  <2>1. game.phase = "ended" /\ game' = game
    BY <1>9 DEF RestartRoom, LaterGames, RowsAreOfTheLiving
  <2>. QED BY <2>1
<1>. QED
  BY <1>1, <1>2, <1>3, <1>4, <1>5, <1>6, <1>7, <1>8, <1>9 DEF Next, AdvanceIfComplete

LEMMA InvariantOfRounds == Spec => []TownInv
<1>1. Init => RoundsAreOfTheLiving
  BY DEF Init, RoundsAreOfTheLiving, NightRowsAreOfTheLiving, VotesAreOfTheLiving, NoRows
<1>2. NoInputSkippedInv /\ RoundsAreOfTheLiving /\ [Next]_vars => RoundsAreOfTheLiving'
  BY NextRounds DEF NoInputSkippedInv
<1>. QED BY <1>1, <1>2, InvariantOfRows, WinnerIsCorrect, PTL DEF Spec, TownInv

-----------------------------------------------------------------------------
(***************************************************************************)
(* Counting: whom a ballot box elects.                                      *)
(***************************************************************************)

(* A function into finitely many numbers has a largest value.               *)
LEMMA Largest ==
  ASSUME NEW n \in Nat, NEW T, T # {}, NEW f \in [T -> 0 .. n]
  PROVE  \E t \in T : \A u \in T : f[u] <= f[t]
<1>. DEFINE R == {ss \in Nat \X Nat : ss[1] < ss[2]}
            D == {n - f[t] : t \in T}
<1>1. IsWellFoundedOn(R, Nat)
  BY NatLessThanWellFounded DEF OpToRel
<1>2. D \subseteq Nat /\ D # {}
  OBVIOUS
<1>3. PICK x \in D : \A y \in D : ~(<<y, x>> \in R)
  <2>. HIDE DEF R, D
  <2>. QED BY <1>1, <1>2, WFMin
<1>4. PICK t \in T : x = n - f[t]
  BY <1>3
<1>5. ASSUME NEW u \in T PROVE f[u] <= f[t]
  <2>1. n - f[u] \in D /\ n - f[u] \in Nat /\ n - f[t] \in Nat
    BY <1>2
  <2>2. ~(n - f[u] < n - f[t])
    BY <1>3, <1>4, <2>1
  <2>3. f[u] \in 0 .. n /\ f[t] \in 0 .. n
    OBVIOUS
  <2>. QED BY <2>2, <2>3
<1>. QED BY <1>5

LEMMA BallotsAreCounted ==
  ASSUME NEW ballots, NEW voters, IsFiniteSet(voters), NEW t
  PROVE  /\ Cardinality(BallotsFor(ballots, voters, t)) \in 0 .. Cardinality(voters)
         /\ Cardinality(BallotsFor(ballots, voters, t)) > 0 <=>
              \E p \in voters : ballots[p] = t
<1>1. BallotsFor(ballots, voters, t) \in SUBSET voters
  BY DEF BallotsFor
<1>. DEFINE n == Cardinality(BallotsFor(ballots, voters, t))
<1>2. IsFiniteSet(BallotsFor(ballots, voters, t)) /\ n <= Cardinality(voters)
  BY <1>1, FS_Subset
<1>3. n \in Nat /\ Cardinality(voters) \in Nat
  BY <1>2, FS_CardinalityType
<1>4. n = 0 <=> BallotsFor(ballots, voters, t) = {}
  BY <1>2, FS_EmptySet
<1>5. BallotsFor(ballots, voters, t) = {} <=> ~ \E p \in voters : ballots[p] = t
  BY DEF BallotsFor
<1>. HIDE DEF n
<1>6. n > 0 <=> n # 0
  BY <1>3
<1>. QED BY <1>2, <1>3, <1>4, <1>5, <1>6 DEF n

(* Where a ballot was cast, somebody leads. *)
LEMMA SomebodyLeads ==
  ASSUME NEW ballots, NEW voters, IsFiniteSet(voters), NEW targets,
         NEW p \in voters, ballots[p] \in targets
  PROVE  Leaders(ballots, voters, targets) # {}
<1>. DEFINE f == [t \in targets |-> Cardinality(BallotsFor(ballots, voters, t))]
<1>1. f \in [targets -> 0 .. Cardinality(voters)]
  BY BallotsAreCounted
<1>2. Cardinality(voters) \in Nat
  BY FS_CardinalityType
<1>3. PICK t \in targets : \A u \in targets : f[u] <= f[t]
  <2>. HIDE DEF f
  <2>. QED BY <1>1, <1>2, Largest
<1>4. f[ballots[p]] > 0
  BY BallotsAreCounted
<1>5. f[t] > 0
  <2>. HIDE DEF f
  <2>1. f[ballots[p]] <= f[t] /\ f[t] \in 0 .. Cardinality(voters)
          /\ f[ballots[p]] \in 0 .. Cardinality(voters)
    BY <1>1, <1>3
  <2>. QED BY <1>2, <1>4, <2>1
<1>. QED BY <1>3, <1>5 DEF Leaders

-----------------------------------------------------------------------------
(* The engine's outcomes are the town's. *)

LEMMA SeatIsFinite ==
  /\ IsFiniteSet(Seat)
  /\ \A S \in SUBSET Seat : IsFiniteSet(S) /\ Cardinality(S) \in Nat
<1>1. IsFiniteSet(Seat)
  BY ConstantsAssumption, FS_Subset
<1>. QED BY <1>1, FS_Subset, FS_CardinalityType

LEMMA TownCounts == \A S : Town!Cardinality(S) = Cardinality(S)
BY DEF Town!Cardinality, Cardinality

LEMMA SameWinner ==
  ASSUME role \in [Seat -> Roles], NEW living \in SUBSET Player
  PROVE  Town!Won(living \cap Seat) = WinnerFromAliveRoles(role, living)
<1>. DEFINE killers == living \cap Having(role, "killer")
            others  == (living \cap Seat) \ killers
            town    == living \cap Seat
            k == Cardinality(killers)
            o == Cardinality(others)
            n == Cardinality(town)
<1>1. /\ DOMAIN role = Seat /\ killers \subseteq town /\ town \cap killers = killers
      /\ town \cap Town!Holding("killer") = killers
  BY DEF Town!Holding, Having
<1>2. IsFiniteSet(town) /\ n \in Nat /\ k \in Nat /\ o \in Nat
  BY <1>1, SeatIsFinite
<1>3. o = n - k
  <2>1. Cardinality(town \ killers) = n - Cardinality(town \cap killers)
    BY <1>2, FS_Difference
  <2>. QED BY <1>1, <2>1
<1>4. k = 0 <=> killers = {}
  BY <1>1, SeatIsFinite, FS_EmptySet
<1>5. Town!Won(town) = IF k = 0 THEN "villagers"
                       ELSE IF 2 * k >= n THEN "killers" ELSE "none"
  BY <1>1, TownCounts DEF Town!Won
<1>6. WinnerFromAliveRoles(role, living) =
        IF killers = {} THEN "villagers" ELSE IF k >= o THEN "killers" ELSE "none"
  BY <1>1 DEF WinnerFromAliveRoles
<1>. HIDE DEF k, o, n
<1>7. 2 * k >= n <=> k >= o
  BY <1>2, <1>3
<1>. QED BY <1>4, <1>5, <1>6, <1>7

LEMMA NightOutcome ==
  ASSUME TownInv, game.phase = "night_resolve"
  PROVE  /\ Town!NightDeeds(actions)
         /\ Attacked(role, actions) = Town!Hunted(actions)
         /\ Attacked(role, actions) # {}
         /\ Attacked(role, actions) \subseteq alive \cap Seat
<1>. DEFINE killers == Having(role, "killer")
            named   == {actions[p] : p \in killers} \ {None}
            wanted(t) == Cardinality(BallotsFor(actions, killers, t))
<1>1. /\ role \in [Seat -> Roles] /\ DOMAIN role = Seat /\ killers \in SUBSET Seat
      /\ killers = Town!Holding("killer")
      /\ Having(role, "doctor") = Town!Holding("doctor")
  BY DEF TownInv, NoInputSkippedInv, TypeOK, Having, Town!Holding
<1>2. \A p \in Seat : actions[p] # None =>
         /\ p \in alive /\ role[p] \in {"killer", "doctor"}
         /\ actions[p] \in alive \cap Seat
         /\ role[p] = "killer" => actions[p] # p
  BY DEF TownInv, RoundsAreOfTheLiving, NightRowsAreOfTheLiving, NightIsOn
<1>3. \A p \in alive \cap (killers \cup Having(role, "doctor")) : actions[p] # None
  <2>1. ~restarted
    BY DEF TownInv, NoInputSkippedInv, RowsAreOfTheLiving
  <2>. QED BY <2>1 DEF TownInv, NoInputSkippedInv, NoInputSkipped, AliveWith, Submitted
<1>4. Town!NightDeeds(actions)
  <2>1. \A p \in Seat : actions[p] # None <=>
                          p \in (alive \cap Seat) \cap (killers \cup Having(role, "doctor"))
    BY <1>1, <1>2, <1>3 DEF Having
  <2>2. \A p \in killers : actions[p] # p
    BY <1>1, <1>2, ConstantsAssumption DEF Having
  <2>. QED BY <1>1, <1>2, <2>1, <2>2 DEF Town!NightDeeds, Town!Round
<1>5. named \subseteq alive \cap Seat
  BY <1>1, <1>2
<1>6. IsFiniteSet(killers) /\ Cardinality(killers) \in Nat
  BY <1>1, SeatIsFinite
<1>7. \A t : wanted(t) \in 0 .. Cardinality(killers)
             /\ (wanted(t) > 0 <=> \E k \in killers : actions[k] = t)
  BY <1>6, BallotsAreCounted
<1>8. \A t : Town!Support(actions, killers, t) = wanted(t)
  BY TownCounts DEF Town!Support, BallotsFor
<1>9. Attacked(role, actions) = Town!Hunted(actions)
  <2>. HIDE DEF wanted
  <2>1. Attacked(role, actions) =
          {t \in named : wanted(t) > 0 /\ \A u \in named : wanted(u) <= wanted(t)}
    BY DEF Attacked, Leaders, wanted
  <2>2. Town!Hunted(actions) =
          {t \in alive \cap Seat : /\ \E k \in killers : actions[k] = t
                                   /\ \A u \in alive \cap Seat : wanted(u) <= wanted(t)}
    BY <1>1, <1>8 DEF Town!Hunted
  <2>3. \A t \in alive \cap Seat : t \in named <=> wanted(t) > 0
    BY <1>7, ConstantsAssumption
  <2>4. \A t \in alive \cap Seat, u \in alive \cap Seat :
           wanted(t) > 0 /\ u \notin named => wanted(u) <= wanted(t)
    BY <1>6, <1>7, <2>3
  <2>5. \A t \in named : t \in alive \cap Seat /\ wanted(t) > 0
                         /\ \E k \in killers : actions[k] = t
    BY <1>5, <1>7
  <2>. HIDE DEF named, killers
  <2>. QED BY <1>5, <1>7, <2>1, <2>2, <2>3, <2>4, <2>5
<1>10. Attacked(role, actions) # {}
  <2>1. WinnerFromAliveRoles(role, alive) = "none"
    BY DEF TownInv, WinnerMatchesTown
  <2>2. PICK k \in alive \cap killers : TRUE
    BY <2>1 DEF WinnerFromAliveRoles
  <2>3. k \in killers /\ actions[k] \in named
    BY <1>3, <2>2
  <2>. QED BY <1>6, <2>3, SomebodyLeads DEF Attacked
<1>11. Attacked(role, actions) \subseteq alive \cap Seat
  BY <1>5 DEF Attacked, Leaders
<1>. QED BY <1>4, <1>9, <1>10, <1>11

LEMMA BallotOutcome ==
  ASSUME TownInv, game.phase = "voting", alive \subseteq Voters
  PROVE  /\ Town!FullBallot(votes)
         /\ (alive \ {VotedOut(role, alive, votes)}) \cap Seat =
              (alive \cap Seat) \ Town!Condemned(votes)
<1>. DEFINE town == alive \cap Seat
            leaders == Leaders(votes, Seat, town)
            n(t) == Cardinality(BallotsFor(votes, Seat, t))
            victim == VotedOut(role, alive, votes)
<1>1. DOMAIN role = Seat
  BY DEF TownInv, NoInputSkippedInv, TypeOK
<1>2. \A p \in Seat : votes[p] # None => /\ p \in alive
                                         /\ votes[p] \in town
                                         /\ votes[p] # p
  BY DEF TownInv, RoundsAreOfTheLiving, VotesAreOfTheLiving
<1>3. \A p \in alive : p \in Seat /\ votes[p] # None
  BY DEF Voters
<1>4. Town!FullBallot(votes)
  <2>1. \A p \in Seat : IF p \in town THEN votes[p] \in town ELSE votes[p] = None
    BY <1>2, <1>3
  <2>2. \A p \in Seat : votes[p] # p
    BY <1>2, ConstantsAssumption
  <2>. QED BY <2>1, <2>2 DEF Town!FullBallot, Town!Round
<1>5. /\ \A t : n(t) \in 0 .. Cardinality(Seat)
      /\ Cardinality(Seat) \in Nat
  BY SeatIsFinite, BallotsAreCounted
<1>6. Town!Condemned(votes) = {t \in town : \A u \in town \ {t} : n(u) < n(t)}
  BY TownCounts DEF Town!Condemned, Town!Support, BallotsFor
<1>7. leaders = {t \in town : n(t) > 0 /\ \A u \in town : n(u) <= n(t)}
  BY DEF Leaders
<1>8. leaders \subseteq town /\ IsFiniteSet(leaders)
  BY <1>7, SeatIsFinite
<1>9. /\ Cardinality(leaders) = 1 => victim \in leaders
      /\ Cardinality(leaders) # 1 => victim = None
  <2>. DEFINE first == Leaders(votes, DOMAIN role, alive \cap DOMAIN role)
  <2>1. first = leaders
    BY <1>1, Zenon
  <2>2. Cardinality(first) # 1 => victim = None
    BY Zenon DEF VotedOut
  <2>3. ASSUME Cardinality(first) = 1 PROVE victim \in first
    <3>1. first # {}
      BY <1>8, <2>1, <2>3, FS_EmptySet
    <3>. QED BY <2>3, <3>1, Zenon DEF VotedOut
  <2>. HIDE DEF first, leaders, victim
  <2>. QED BY <2>1, <2>2, <2>3
<1>10. town # {} => leaders # {}
  BY <1>2, <1>3, SeatIsFinite, SomebodyLeads
<1>. HIDE DEF n, leaders, victim
<1>11. ASSUME NEW x, leaders = {x} PROVE Town!Condemned(votes) = {x}
  <2>1. x \in town /\ n(x) > 0 /\ \A u \in town : n(u) <= n(x)
    BY <1>7, <1>11
  <2>2. ASSUME NEW u \in town \ {x} PROVE n(u) < n(x)
    <3>1. u \notin leaders /\ n(u) <= n(x)
      BY <1>11, <2>1, <2>2
    <3>2. n(u) # n(x)
      BY <1>7, <2>1, <2>2, <3>1
    <3>. QED BY <1>5, <3>1, <3>2
  <2>3. ASSUME NEW y \in town, \A u \in town \ {y} : n(u) < n(y) PROVE y = x
    BY <1>5, <2>1, <2>3
  <2>. QED BY <1>6, <2>1, <2>2, <2>3
<1>12. ASSUME NEW y \in Town!Condemned(votes) PROVE leaders = {y}
  <2>1. y \in town /\ \A u \in town \ {y} : n(u) < n(y)
    BY <1>6
  <2>2. ASSUME NEW z \in leaders PROVE z = y
    BY <1>5, <1>7, <2>1, <2>2
  <2>. QED BY <1>10, <2>1, <2>2
<1>13. CASE Cardinality(leaders) = 1
  <2>1. PICK x : leaders = {x}
    BY <1>8, <1>13, FS_Singleton
  <2>2. victim = x
    BY <1>9, <1>13, <2>1
  <2>. QED BY <1>4, <1>11, <2>1, <2>2 DEF victim
<1>14. CASE Cardinality(leaders) # 1
  <2>1. Town!Condemned(votes) = {}
    BY <1>12, <1>14, FS_Singleton
  <2>2. victim = None /\ None \notin alive
    BY <1>9, <1>14, ConstantsAssumption DEF TownInv, NoInputSkippedInv, TypeOK
  <2>. QED BY <1>4, <2>1, <2>2 DEF victim
<1>. QED BY <1>13, <1>14

-----------------------------------------------------------------------------
(* The refinement: initial states and, transaction by transaction, steps. *)

LEMMA InitOpensTown == Init => Town!Open
<1> SUFFICES ASSUME Init PROVE Town!Open
  OBVIOUS
<1>1. /\ role \in [Seat -> Roles]
      /\ Cardinality(Having(role, "killer")) = NumKillers
      /\ Cardinality(Having(role, "doctor")) = 1
  BY DEF Init, AssignRoles
<1>2. \A c : Having(role, c) = Town!Holding(c)
  BY <1>1 DEF Having, Town!Holding
<1>3. Scene = "night" /\ alive \cap Seat = Seat
  BY ConstantsAssumption DEF Init, Scene
<1>. QED
  BY <1>1, <1>2, <1>3, TownCounts
  DEF Init, Town!Open, Town!Nothing, NoRows, Roles

LEMMA NightResolveIsDawn ==
  ASSUME TownInv, AdvanceNightResolve
  PROVE  Town!Dawn
<1>1. PICK victim \in NightVictims(role, actions) :
        /\ alive' = alive \ {victim}
        /\ game' = IF WinnerFromAliveRoles(role, alive \ {victim}) = "none"
                   THEN [game EXCEPT !.phase = "day_reveal"]
                   ELSE EndGame(WinnerFromAliveRoles(role, alive \ {victim}))
  BY Zenon DEF AdvanceNightResolve, UpdateGame
<1>2. game.phase = "night_resolve" /\ UNCHANGED <<role, actions, votes>>
  BY DEF AdvanceNightResolve
<1>3. /\ Town!NightDeeds(actions)
      /\ Attacked(role, actions) = Town!Hunted(actions)
      /\ Attacked(role, actions) # {}
      /\ Attacked(role, actions) \subseteq alive \cap Seat
  BY <1>2, NightOutcome
<1>. DEFINE living == alive \ {victim}
            won    == WinnerFromAliveRoles(role, living)
<1>4. /\ role \in [Seat -> Roles] /\ alive \in SUBSET Player /\ DOMAIN role = Seat
      /\ living \in SUBSET Player /\ votes = NoRows
  BY <1>2 DEF TownInv, NoInputSkippedInv, TypeOK, RowsAreOfTheLiving
<1>5. Town!Won(living \cap Seat) = won
  BY <1>4, SameWinner
<1>6. \E t \in Town!Hunted(actions) :
         living \cap Seat =
           (alive \cap Seat) \ {p \in {t} : \A d \in Town!Holding("doctor") : actions[d] # p}
  <2>1. PICK t \in Attacked(role, actions) :
           victim = IF t \in Shielded(role, actions) THEN None ELSE t
    BY <1>3 DEF NightVictims
  <2>2. t \in Shielded(role, actions) <=> \E d \in Town!Holding("doctor") : actions[d] = t
    BY <1>3, <1>4, <2>1, ConstantsAssumption DEF Shielded, Having, Town!Holding
  <2>3. None \notin alive
    BY <1>4, ConstantsAssumption
  <2>. QED BY <1>3, <2>1, <2>2, <2>3
<1>7. /\ game'.winner = won /\ game'.day = game.day
      /\ game'.phase = IF won = "none" THEN "day_reveal" ELSE "ended"
  <2>1. game.winner = "none" /\ game \in GameRow
    BY <1>2 DEF TownInv, NoInputSkippedInv, TypeOK, WinnerMatchesTown
  <2>. HIDE DEF living
  <2>. QED BY <1>1, <2>1 DEF EndGame, GameRow, living
<1>8. Scene = "night" /\ Scene' = IF won = "none" THEN "day" ELSE "over"
  <2>1. ~restarted /\ ~restarted'
    BY <1>2 DEF AdvanceNightResolve, TownInv, NoInputSkippedInv, RowsAreOfTheLiving
  <2>. QED BY <1>2, <1>7, <2>1 DEF Scene
<1>. HIDE DEF won
<1>. QED
  BY <1>1, <1>2, <1>3, <1>4, <1>5, <1>6, <1>7, <1>8 DEF Town!Dawn

LEMMA VotingIsVerdict ==
  ASSUME TownInv, AdvanceVoting
  PROVE  Town!Verdict
<1>. DEFINE victim == VotedOut(role, alive, votes)
            living == alive \ {victim}
            won    == WinnerFromAliveRoles(role, living)
<1>1. /\ game.phase = "voting" /\ PhaseComplete /\ alive' = living
      /\ UNCHANGED <<role, actions, votes>>
      /\ game' = [game EXCEPT !.phase = "vote_result",
                              !.winner = IF won = "none" THEN @ ELSE won]
  BY Zenon DEF AdvanceVoting, UpdateGame
<1>2. alive \subseteq Voters
  BY <1>1, CompleteMeansAll DEF TownInv
<1>3. /\ Town!FullBallot(votes)
      /\ living \cap Seat = (alive \cap Seat) \ Town!Condemned(votes)
  BY <1>1, <1>2, BallotOutcome
<1>4. /\ role \in [Seat -> Roles] /\ living \in SUBSET Player
      /\ game \in GameRow /\ game.winner = "none"
  BY <1>1 DEF TownInv, NoInputSkippedInv, TypeOK, WinnerMatchesTown
<1>5. Town!Won(living \cap Seat) = won
  BY <1>4, SameWinner
<1>. HIDE DEF living, won
<1>6. game'.phase = "vote_result" /\ game'.winner = won /\ game'.day = game.day
  BY <1>1, <1>4 DEF GameRow
<1>7. Scene = "day" /\ Scene' = "verdict"
  BY <1>1, <1>6 DEF Scene
<1>. QED
  BY <1>1, <1>3, <1>5, <1>6, <1>7 DEF Town!Verdict

LEMMA StepsPlayTown ==
  ASSUME TownInv, [Next]_vars
  PROVE  [Town!Play]_(Town!townVars)
<1>. USE DEF TownInv, NoInputSkippedInv
<1>1. ASSUME NEW p \in Seat, ConfirmRoleReveal(p) PROVE UNCHANGED Town!townVars
  BY <1>1 DEF ConfirmRoleReveal, Town!townVars, Scene
<1>2. ASSUME NEW p \in Seat, NEW t \in Seat, SubmitNightAction(p, t)
      PROVE  UNCHANGED Town!townVars
  <2>1. Scene = "night" /\ Scene' = "night" /\ UNCHANGED <<game, role, alive, votes>>
    BY <1>2 DEF SubmitNightAction, MayAct, InNightPhase, Scene
  <2>. QED BY <2>1 DEF Town!townVars
<1>3. ASSUME NEW p \in Seat, NEW t \in Seat, SubmitVote(p, t)
      PROVE  UNCHANGED Town!townVars
  <2>1. Scene = "day" /\ Scene' = "day" /\ UNCHANGED <<game, role, alive, actions>>
    BY <1>3 DEF SubmitVote, MayVote, Scene
  <2>. QED BY <2>1 DEF Town!townVars
<1>4. CASE AdvanceIncomplete \/ RequestFails \/ RoomLosesHost \/ UNCHANGED vars
  BY <1>4 DEF AdvanceIncomplete, RequestFails, RoomLosesHost, vars, Town!townVars, Scene
<1>5. CASE AdvanceToNextPhase \/ StartDiscussion \/ StartVoting
  <2>1. /\ UNCHANGED <<role, alive, actions, votes>>
        /\ game'.day = game.day /\ game'.winner = game.winner
        /\ \/ game'.phase = NextPhase(game.phase)
              /\ game.phase \in {"role_reveal", "night_killer", "night_doctor", "day_reveal"}
           \/ game.phase = "day_reveal" /\ game'.phase = "discussion"
           \/ game.phase = "discussion" /\ game'.phase = "voting"
    BY <1>5 DEF AdvanceToNextPhase, StartDiscussion, StartVoting, ManualTransition,
                UpdateGame, TypeOK, GameRow
  <2>2. Scene' = Scene
    BY <2>1 DEF Scene, NextPhase
  <2>. QED BY <2>1, <2>2 DEF Town!townVars
<1>6. CASE AdvanceNightResolve
  BY <1>6, NightResolveIsDawn DEF Town!Play
<1>7. CASE AdvanceVoting
  BY <1>7, VotingIsVerdict DEF Town!Play
<1>8. CASE AdvanceVoteResultToEnd
  <2>1. /\ game.phase = "vote_result" /\ UNCHANGED <<role, alive, actions, votes>>
        /\ game.winner # "none" /\ game'.winner = game.winner
        /\ game'.phase = "ended" /\ game'.day = game.day
    BY <1>8 DEF AdvanceVoteResultToEnd, UpdateGame, EndGame, WinnerMatchesTown, TypeOK, GameRow
  <2>2. ~restarted /\ ~restarted'
    BY <1>8, <2>1 DEF AdvanceVoteResultToEnd, RowsAreOfTheLiving
  <2>3. Scene = "verdict" /\ Scene' = "over"
    BY <2>1, <2>2 DEF Scene
  <2>. QED BY <2>1, <2>3 DEF Town!CurtainFalls, Town!Play
<1>9. CASE AdvanceVoteResultToNight
  <2>. DEFINE next == game.day + 1
  <2>1. /\ game.phase = "vote_result" /\ UNCHANGED <<role, alive>>
        /\ game.winner = "none"
        /\ game' = [game EXCEPT !.phase = "night_killer", !.day = next]
    BY <1>9 DEF AdvanceVoteResultToNight, UpdateGame, WinnerMatchesTown
  <2>2. game'.winner = "none" /\ game'.phase = "night_killer" /\ game'.day = next
    <3>. HIDE DEF next
    <3>. QED BY <2>1 DEF TypeOK, GameRow
  <2>3. Scene = "verdict" /\ Scene' = "night"
    BY <2>1, <2>2 DEF Scene
  <2>. QED
    BY <2>1, <2>2, <2>3 DEF Town!Nightfall, Town!Play, Town!Nothing, NoRows
<1>10. CASE RestartRoom
  <2>1. /\ game.phase = "ended" /\ ~restarted /\ restarted' /\ alive' \cap Seat = Seat
        /\ UNCHANGED <<game, role, actions, votes>>
    BY <1>10, ConstantsAssumption DEF RestartRoom
  <2>2. Scene = "over" /\ Scene' = "left"
    BY <2>1 DEF Scene
  <2>. QED BY <2>1, <2>2 DEF Town!Leave, Town!Play
<1>11. CASE LaterGames
  <2>1. restarted /\ restarted' /\ game.phase = "ended"
    BY <1>11 DEF LaterGames, RowsAreOfTheLiving
  <2>2. UNCHANGED <<game, role, actions, votes>>
    BY <1>11 DEF LaterGames
  <2>3. Scene = "left" /\ Scene' = "left"
    BY <2>1, <2>2 DEF Scene
  <2>. QED BY <2>2, <2>3 DEF Town!Elsewhere, Town!Play
<1>. QED
  BY <1>1, <1>2, <1>3, <1>4, <1>5, <1>6, <1>7, <1>8, <1>9, <1>10, <1>11
  DEF Next, AdvanceIfComplete

(***************************************************************************)
(* The engine plays the promised game: however the requests of whatever     *)
(* number of players interleave and whichever fail half-way, every night    *)
(* and every ballot looks as if all the living had chosen at once, and its  *)
(* outcome follows from those choices by the rules.                         *)
(***************************************************************************)
THEOREM EngineImplementsTown == Spec => ImplementsTown
<1>1. Init => Town!Open
  BY InitOpensTown
<1>2. TownInv /\ [Next]_vars => [Town!Play]_(Town!townVars)
  BY StepsPlayTown
<1>. QED BY <1>1, <1>2, InvariantOfRounds, PTL DEF Spec, ImplementsTown, Town!Spec

-----------------------------------------------------------------------------
(* The outcomes once more, as what they mean for a victim. *)

LEMMA NightDeathIsEarned ==
  ASSUME TownInv, AdvanceNightResolve, NEW victim \in alive \ alive'
  PROVE  /\ game.phase = "night_resolve"
         /\ KillersOn(victim) > 0
         /\ \A t \in Seat : KillersOn(t) <= KillersOn(victim)
         /\ \A d \in Having(role, "doctor") : actions[d] # victim
<1>. DEFINE killers == Having(role, "killer")
            named   == {actions[p] : p \in killers} \ {None}
<1>1. game.phase = "night_resolve" /\ victim \in NightVictims(role, actions) /\ victim # None
  <2>1. victim \in alive /\ None \notin alive
    BY ConstantsAssumption DEF TownInv, NoInputSkippedInv, TypeOK
  <2>. QED BY <2>1 DEF AdvanceNightResolve
<1>2. victim \in Attacked(role, actions) /\ victim \notin Shielded(role, actions)
  BY <1>1, NightOutcome DEF NightVictims
<1>3. \A t : KillersOn(t) = Cardinality(BallotsFor(actions, killers, t))
  BY DEF KillersOn, BallotsFor
<1>4. \A d \in Having(role, "doctor") : actions[d] # victim
  BY <1>1, <1>2 DEF Shielded
<1>5. killers \in SUBSET Seat /\ IsFiniteSet(killers) /\ Cardinality(killers) \in Nat
  BY SeatIsFinite DEF Having, TownInv, NoInputSkippedInv, TypeOK
<1>6. KillersOn(victim) > 0 /\ \A t \in named : KillersOn(t) <= KillersOn(victim)
  BY <1>2, <1>3 DEF Attacked, Leaders
<1>7. \A t : /\ KillersOn(t) \in 0 .. Cardinality(killers)
             /\ KillersOn(t) > 0 <=> \E p \in killers : actions[p] = t
  BY <1>3, <1>5, BallotsAreCounted
<1>8. ASSUME NEW t \in Seat PROVE KillersOn(t) <= KillersOn(victim)
  <2>1. t \in named \/ ~(KillersOn(t) > 0)
    BY <1>7, ConstantsAssumption
  <2>. QED BY <1>5, <1>6, <1>7, <2>1
<1>. QED BY <1>1, <1>4, <1>6, <1>8

LEMMA VoteDeathIsEarned ==
  ASSUME TownInv, AdvanceVoting, NEW victim \in alive \ alive'
  PROVE  /\ game.phase = "voting"
         /\ \A t \in alive \ {victim} : Support(votes, t) < Support(votes, victim)
<1>1. /\ game.phase = "voting" /\ PhaseComplete
      /\ alive' = alive \ {VotedOut(role, alive, votes)}
  BY Zenon DEF AdvanceVoting
<1>2. alive \subseteq Voters /\ alive \subseteq Seat
  <2>1. alive \subseteq Voters
    BY <1>1, CompleteMeansAll DEF TownInv
  <2>. QED BY <2>1 DEF Voters
<1>3. victim \in Town!Condemned(votes)
  BY <1>1, <1>2, BallotOutcome
<1>. QED
  BY <1>1, <1>2, <1>3, TownCounts DEF Town!Condemned, Town!Support, Support

(* Nobody dies unless chosen, by the killers and not the doctor or by more  *)
(* of the living than anybody else, whatever is in flight and may fail;     *)
(* after a restart people die in the room's later games.                    *)
THEOREM NobodyDiesUnchosen == Spec => DeathsAreEarned
<1>. DEFINE Earned ==
       \A victim \in alive \ alive' :
         \/ /\ game.phase = "night_resolve"
            /\ KillersOn(victim) > 0
            /\ \A t \in Seat : KillersOn(t) <= KillersOn(victim)
            /\ \A d \in Having(role, "doctor") : actions[d] # victim
         \/ /\ game.phase = "voting"
            /\ \A t \in alive \ {victim} : Support(votes, t) < Support(votes, victim)
         \/ restarted
<1>1. TownInv /\ [Next]_vars => [Earned]_vars
  <2> SUFFICES ASSUME TownInv, Next PROVE Earned
    OBVIOUS
  <2>1. CASE AdvanceNightResolve
    BY <2>1, NightDeathIsEarned
  <2>2. CASE AdvanceVoting
    BY <2>2, VoteDeathIsEarned
  <2>3. CASE alive \subseteq alive' \/ restarted
    BY <2>3
  <2>4. AdvanceNightResolve \/ AdvanceVoting \/ alive \subseteq alive' \/ restarted
    BY DEF Next, ConfirmRoleReveal, SubmitNightAction, SubmitVote, AdvanceIfComplete,
           AdvanceIncomplete, AdvanceToNextPhase, AdvanceVoteResultToEnd,
           AdvanceVoteResultToNight, RequestFails, StartDiscussion, StartVoting,
           ManualTransition, RoomLosesHost, RestartRoom, LaterGames,
           TownInv, NoInputSkippedInv, TypeOK
  <2>. QED BY <2>1, <2>2, <2>3, <2>4
<1>. QED BY <1>1, InvariantOfRounds, PTL DEF Spec, DeathsAreEarned

-----------------------------------------------------------------------------
(***************************************************************************)
(* The moves offered.  Once the reveal is over the room has no rows but     *)
(* those of the seated: the reveal waits for as many as the room has.       *)
(***************************************************************************)
OnlySeatedRows == game.phase # "role_reveal" => Player = Seat

LEMMA InvariantOfSeats == Spec => []OnlySeatedRows
<1>1. Init => OnlySeatedRows
  BY DEF Init, OnlySeatedRows
<1>2. NoInputSkippedInv /\ OnlySeatedRows /\ [Next]_vars => OnlySeatedRows'
  <2> SUFFICES ASSUME NoInputSkippedInv, game.phase = "role_reveal", [Next]_vars,
                      game'.phase # "role_reveal"
               PROVE  Player = Seat
    BY DEF OnlySeatedRows
  <2>1. PhaseComplete /\ alive = Player
    BY DEF Next, vars, ConfirmRoleReveal, SubmitNightAction, SubmitVote, MayAct, MayVote,
           InNightPhase, AdvanceIfComplete, AdvanceIncomplete, AdvanceToNextPhase,
           AdvanceNightResolve, AdvanceVoting, AdvanceVoteResultToEnd,
           AdvanceVoteResultToNight, RequestFails, StartDiscussion, StartVoting,
           ManualTransition, RoomLosesHost, RestartRoom, LaterGames,
           NoInputSkippedInv, RowsAreOfTheLiving
  <2>2. Cardinality(confirmed) >= Cardinality(Player) /\ confirmed \in SUBSET Player
    BY <2>1, ConstantsAssumption DEF PhaseComplete, NoInputSkippedInv, TypeOK
  <2>3. confirmed = Player
    BY <2>2, ConstantsAssumption, EnoughRowsAreAll
  <2>. QED BY <2>3, ConstantsAssumption DEF NoInputSkippedInv, TypeOK
<1>. QED BY <1>1, <1>2, InvariantOfRows, PTL DEF Spec

(* A client is offered exactly the moves that would be accepted, at any     *)
(* moment of any game: the reader's code and the handlers' agree.           *)
THEOREM OffersAreHonest == Spec => []OfferedMovesAreAccepted
<1>1. TypeOK /\ OnlySeatedRows => OfferedMovesAreAccepted
  <2> SUFFICES ASSUME TypeOK, OnlySeatedRows, NEW p \in Seat
               PROVE  AvailableTargets(p) = {t \in Player : MayAct(p, t) \/ MayVote(p, t)}
    BY DEF OfferedMovesAreAccepted
  <2>1. role[p] \in Roles /\ alive \subseteq Player
    BY DEF TypeOK
  <2>2. CASE game.phase \in {"night_killer", "night_doctor"}
    <3>1. Player = Seat /\ \A t : ~MayVote(p, t)
      BY <2>2 DEF OnlySeatedRows, MayVote
    <3>. QED
      BY <2>1, <2>2, <3>1 DEF AvailableTargets, CanAct, InNightPhase, CanPlayerActInPhase,
                              MayAct, AllowsSelfTarget
  <2>3. CASE game.phase = "voting"
    <3>1. Player = Seat /\ \A t : ~MayAct(p, t)
      BY <2>3 DEF OnlySeatedRows, MayAct, InNightPhase
    <3>. QED
      BY <2>1, <2>3, <3>1 DEF AvailableTargets, CanAct, InNightPhase, MayVote
  <2>4. CASE game.phase \notin {"night_killer", "night_doctor", "voting"}
    BY <2>4 DEF AvailableTargets, CanAct, InNightPhase, MayAct, MayVote
  <2>. QED BY <2>2, <2>3, <2>4
<1>. QED BY <1>1, TypeCorrect, InvariantOfSeats, PTL
=============================================================================
