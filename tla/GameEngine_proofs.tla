-------------------------- MODULE GameEngine_proofs --------------------------
(***************************************************************************)
(* Theorems about GameEngine for every room, every number of killers that   *)
(* is a minority, and every bound on days and on requests in flight.        *)
(***************************************************************************)
EXTENDS GameEngine, FiniteSetTheorems, TLAPS

-----------------------------------------------------------------------------
(* The rules. *)

LEMMA NextPhaseType == ASSUME NEW phase PROVE NextPhase(phase) \in Phases
  BY DEF NextPhase, Phases

LEMMA WinnerType ==
  ASSUME NEW r, NEW a
  PROVE  WinnerFromAliveRoles(r, a) \in Winners
  BY DEF WinnerFromAliveRoles, Winners

-----------------------------------------------------------------------------
(* Type correctness. *)

LEMMA InitType == Init => TypeOK
<1> SUFFICES ASSUME Init PROVE TypeOK
  OBVIOUS
<1>1. game \in GameRow /\ role \in [Seat -> Roles] /\ inflight \in 0 .. MaxInflight
  BY ConstantsAssumption DEF Init, GameRow, Phases, Winners, AssignRoles
<1>2. /\ alive \subseteq Player /\ confirmed \subseteq Seat
      /\ actions \in [Seat -> Player \cup {None}] /\ votes \in [Seat -> Player \cup {None}]
  BY ConstantsAssumption DEF Init, NoRows
<1>3. hosted \in BOOLEAN /\ restarted \in BOOLEAN
  BY DEF Init
<1>. QED BY <1>1, <1>2, <1>3 DEF TypeOK

LEMMA RequestsType ==
  ASSUME TypeOK, NEW p \in Seat, NEW t \in Seat,
         ConfirmRoleReveal(p) \/ SubmitNightAction(p, t) \/ SubmitVote(p, t)
  PROVE  TypeOK'
<1>1. inflight' \in 0 .. MaxInflight
  BY ConstantsAssumption
  DEF TypeOK, ConfirmRoleReveal, SubmitNightAction, SubmitVote, EnterFlight
<1>2. CASE ConfirmRoleReveal(p)
  BY <1>1, <1>2 DEF TypeOK, ConfirmRoleReveal
<1>3. CASE SubmitNightAction(p, t)
  BY <1>1, <1>3, ConstantsAssumption DEF TypeOK, SubmitNightAction
<1>4. CASE SubmitVote(p, t)
  BY <1>1, <1>4, ConstantsAssumption DEF TypeOK, SubmitVote
<1>. QED BY <1>2, <1>3, <1>4

LEMMA AdvanceType == ASSUME TypeOK, AdvanceIfComplete PROVE TypeOK'
<1>1. inflight' \in 0 .. MaxInflight
  BY ConstantsAssumption
  DEF TypeOK, AdvanceIfComplete, LeaveFlight, AdvanceIncomplete, AdvanceToNextPhase,
      AdvanceNightResolve, AdvanceVoting, AdvanceVoteResultToEnd, AdvanceVoteResultToNight
<1>2. CASE AdvanceIncomplete
  BY <1>1, <1>2 DEF TypeOK, AdvanceIncomplete
<1>3. CASE AdvanceToNextPhase
  BY <1>1, <1>3, NextPhaseType DEF TypeOK, AdvanceToNextPhase, UpdateGame, GameRow
<1>4. CASE AdvanceNightResolve
  <2>1. PICK victim \in NightVictims(role, actions) :
          /\ alive' = alive \ {victim}
          /\ game' = IF WinnerFromAliveRoles(role, alive \ {victim}) = "none"
                     THEN [game EXCEPT !.phase = "day_reveal"]
                     ELSE EndGame(WinnerFromAliveRoles(role, alive \ {victim}))
    BY <1>4, Zenon DEF AdvanceNightResolve, UpdateGame
  <2>2. game' \in GameRow
    BY <2>1, WinnerType DEF TypeOK, EndGame, GameRow, Phases
  <2>. QED
    BY <1>1, <1>4, <2>1, <2>2 DEF TypeOK, AdvanceNightResolve
<1>5. CASE AdvanceVoting
  BY <1>1, <1>5, WinnerType DEF TypeOK, AdvanceVoting, UpdateGame, GameRow, Phases
<1>6. CASE AdvanceVoteResultToEnd
  BY <1>1, <1>6, WinnerType
  DEF TypeOK, AdvanceVoteResultToEnd, UpdateGame, EndGame, GameRow, Phases
<1>7. CASE AdvanceVoteResultToNight
  <2>1. game' = [game EXCEPT !.phase = "night_killer", !.day = game.day + 1]
    BY <1>7 DEF AdvanceVoteResultToNight, UpdateGame
  <2>2. game' \in GameRow
    <3>1. game.day + 1 \in Nat
      BY DEF TypeOK, GameRow
    <3>. DEFINE next == game.day + 1
    <3>2. ASSUME NEW d \in Nat
          PROVE  [game EXCEPT !.phase = "night_killer", !.day = d] \in GameRow
      BY DEF TypeOK, GameRow, Phases
    <3>. HIDE DEF next
    <3>3. game' = [game EXCEPT !.phase = "night_killer", !.day = next]
      BY <2>1 DEF next
    <3>. QED BY <3>1, <3>2, <3>3 DEF next
  <2>3. /\ actions' = NoRows /\ votes' = NoRows
        /\ UNCHANGED <<role, alive, hosted, restarted, confirmed>>
    BY <1>7 DEF AdvanceVoteResultToNight
  <2>. QED
    BY <1>1, <2>2, <2>3 DEF TypeOK, NoRows
<1>. QED
  BY <1>2, <1>3, <1>4, <1>5, <1>6, <1>7 DEF AdvanceIfComplete

LEMMA OtherStepsType ==
  ASSUME TypeOK, \/ RequestFails \/ StartDiscussion \/ StartVoting
                 \/ RoomLosesHost \/ RestartRoom \/ LaterGames
  PROVE  TypeOK'
<1>1. CASE RequestFails
  BY <1>1, ConstantsAssumption DEF TypeOK, RequestFails, LeaveFlight
<1>2. CASE StartDiscussion
  BY <1>2 DEF TypeOK, StartDiscussion, ManualTransition, UpdateGame, GameRow, Phases
<1>3. CASE StartVoting
  BY <1>3 DEF TypeOK, StartVoting, ManualTransition, UpdateGame, GameRow, Phases
<1>4. CASE RoomLosesHost
  BY <1>4 DEF TypeOK, RoomLosesHost
<1>5. CASE RestartRoom
  BY <1>5 DEF TypeOK, RestartRoom
<1>6. CASE LaterGames
  BY <1>6 DEF TypeOK, LaterGames
<1>. QED BY <1>1, <1>2, <1>3, <1>4, <1>5, <1>6

(* Every reachable state is well formed: the phase is one the code knows,   *)
(* the winner too, and actions and votes name players of the room.          *)
THEOREM TypeCorrect == Spec => []TypeOK
<1>1. Init => TypeOK
  BY InitType
<1>2. TypeOK /\ [Next]_vars => TypeOK'
  <2> SUFFICES ASSUME TypeOK, [Next]_vars PROVE TypeOK'
    OBVIOUS
  <2>1. CASE Next
    BY <2>1, RequestsType, AdvanceType, OtherStepsType DEF Next
  <2>2. CASE UNCHANGED vars
    BY <2>2 DEF vars, TypeOK
  <2>. QED BY <2>1, <2>2
<1>. QED BY <1>1, <1>2, PTL DEF Spec

-----------------------------------------------------------------------------
(***************************************************************************)
(* WinnerMatchesTown is inductive: while the room plays this game only the  *)
(* two resolutions change who is alive, and each saves the winner it        *)
(* computed from the living it leaves.                                      *)
(***************************************************************************)
LEMMA InitialWinner ==
  ASSUME NEW r \in AssignRoles(Seat, NumKillers)
  PROVE  WinnerFromAliveRoles(r, Player) = "none"
<1>. DEFINE killers == Having(r, "killer")
            others  == (Player \cap Seat) \ (Player \cap killers)
<1>1. /\ r \in [Seat -> Roles] /\ DOMAIN r = Seat
      /\ Cardinality(killers) = NumKillers
  BY DEF AssignRoles
<1>2. killers \subseteq Seat /\ Player \cap killers = killers /\ others = Seat \ killers
  BY <1>1, ConstantsAssumption DEF Having
<1>3. IsFiniteSet(Seat) /\ IsFiniteSet(killers)
  BY <1>2, ConstantsAssumption, FS_Subset
<1>4. Seat \cap killers = killers
  BY <1>2
<1>5. Cardinality(others) = Cardinality(Seat) - NumKillers
  BY <1>1, <1>2, <1>3, <1>4, FS_Difference
<1>6. killers # {}
  BY <1>1, ConstantsAssumption, FS_EmptySet
<1>7. Cardinality(Seat) \in Nat
  BY <1>3, FS_CardinalityType
<1>8. ~(Cardinality(killers) >= Cardinality(others))
  BY <1>1, <1>5, <1>7, ConstantsAssumption
<1>. QED
  BY <1>1, <1>2, <1>6, <1>8, Zenon DEF WinnerFromAliveRoles

LEMMA InitWinnerMatchesTown == Init => WinnerMatchesTown
  BY InitialWinner DEF Init, WinnerMatchesTown

LEMMA NextWinnerMatchesTown ==
  ASSUME TypeOK, WinnerMatchesTown, [Next]_vars
  PROVE  WinnerMatchesTown'
<1>. USE DEF WinnerMatchesTown
<1>1. ASSUME NEW p \in Seat, NEW t \in Seat,
             ConfirmRoleReveal(p) \/ SubmitNightAction(p, t) \/ SubmitVote(p, t)
      PROVE  WinnerMatchesTown'
  BY <1>1 DEF ConfirmRoleReveal, SubmitNightAction, SubmitVote
<1>2. CASE AdvanceIncomplete \/ RequestFails \/ RoomLosesHost \/ UNCHANGED vars
  BY <1>2 DEF AdvanceIncomplete, RequestFails, RoomLosesHost, vars
<1>3. CASE AdvanceToNextPhase
  BY <1>3 DEF AdvanceToNextPhase, UpdateGame, NextPhase, TypeOK, GameRow
<1>4. CASE AdvanceNightResolve
  <2>1. PICK victim \in NightVictims(role, actions) :
          /\ alive' = alive \ {victim}
          /\ game' = IF WinnerFromAliveRoles(role, alive \ {victim}) = "none"
                     THEN [game EXCEPT !.phase = "day_reveal"]
                     ELSE EndGame(WinnerFromAliveRoles(role, alive \ {victim}))
    BY <1>4, Zenon DEF AdvanceNightResolve, UpdateGame
  <2>2. role' = role /\ restarted' = restarted /\ game.phase = "night_resolve"
    BY <1>4 DEF AdvanceNightResolve
  <2>. QED
    BY <2>1, <2>2 DEF EndGame, TypeOK, GameRow
<1>5. CASE AdvanceVoting
  BY <1>5 DEF AdvanceVoting, UpdateGame, TypeOK, GameRow
<1>6. CASE AdvanceVoteResultToEnd
  BY <1>6 DEF AdvanceVoteResultToEnd, UpdateGame, EndGame, TypeOK, GameRow
<1>7. CASE AdvanceVoteResultToNight
  BY <1>7 DEF AdvanceVoteResultToNight, UpdateGame, TypeOK, GameRow
<1>8. CASE StartDiscussion \/ StartVoting
  BY <1>8 DEF StartDiscussion, StartVoting, ManualTransition, UpdateGame, TypeOK, GameRow
<1>9. CASE RestartRoom \/ LaterGames
  BY <1>9 DEF RestartRoom, LaterGames
<1>. QED
  BY <1>1, <1>2, <1>3, <1>4, <1>5, <1>6, <1>7, <1>8, <1>9 DEF Next, AdvanceIfComplete

(* The row of the game agrees with the town in every reachable state: no    *)
(* interleaving of requests plays on past a decided game, announces a       *)
(* winner the cards do not give, or ends a game nobody has won.             *)
THEOREM WinnerIsCorrect == Spec => []WinnerMatchesTown
<1>1. Init => WinnerMatchesTown
  BY InitWinnerMatchesTown
<1>2. TypeOK /\ WinnerMatchesTown /\ [Next]_vars => WinnerMatchesTown'
  BY NextWinnerMatchesTown
<1>. QED BY <1>1, <1>2, TypeCorrect, PTL DEF Spec

(***************************************************************************)
(* Once a game has ended its row never changes again: no request in flight  *)
(* and no press of the host, the restart of its room included, finds a      *)
(* phase it could move.  Its survivors are changed by that restart and by   *)
(* the games that follow it, and by nothing of the game's own.              *)
(***************************************************************************)
THEOREM EndedGamesStay == Spec => EndedIsFinal
<1>1. ASSUME TypeOK, game.phase = "ended", [Next]_vars
      PROVE  UNCHANGED game /\ (UNCHANGED alive \/ RestartRoom \/ LaterGames)
  <2>1. CASE \E p \in Seat : ConfirmRoleReveal(p)
    BY <1>1, <2>1 DEF ConfirmRoleReveal
  <2>2. CASE \E p, t \in Seat : SubmitNightAction(p, t) \/ SubmitVote(p, t)
    BY <1>1, <2>2 DEF SubmitNightAction, SubmitVote
  <2>3. CASE AdvanceIfComplete
    BY <1>1, <2>3
    DEF AdvanceIfComplete, AdvanceIncomplete, AdvanceToNextPhase, AdvanceNightResolve,
        AdvanceVoting, AdvanceVoteResultToEnd, AdvanceVoteResultToNight
  <2>4. CASE RequestFails \/ RoomLosesHost \/ UNCHANGED vars
    BY <2>4 DEF RequestFails, RoomLosesHost, vars
  <2>5. CASE StartDiscussion \/ StartVoting
    BY <1>1, <2>5 DEF StartDiscussion, StartVoting, ManualTransition
  <2>6. CASE RestartRoom \/ LaterGames
    BY <2>6 DEF RestartRoom, LaterGames
  <2>. QED BY <1>1, <2>1, <2>2, <2>3, <2>4, <2>5, <2>6 DEF Next
<1>2. TypeOK /\ [Next]_vars
        => [game.phase = "ended" =>
              /\ UNCHANGED game
              /\ UNCHANGED alive \/ RestartRoom \/ LaterGames]_vars
  BY <1>1
<1>. QED BY <1>2, TypeCorrect, PTL DEF Spec, EndedIsFinal

-----------------------------------------------------------------------------
(***************************************************************************)
(* NoInputSkipped is not inductive: a phase is left when enough rows are    *)
(* there, and that says that everybody has acted only if every row counted  *)
(* is of a living player the phase waits for.  That is RowsAreOfTheLiving:  *)
(* rows of the day are made in their phase and by the living, nobody dies   *)
(* while a phase collects rows, and the next day starts without any.        *)
(***************************************************************************)
RowsAreOfTheLiving ==
  /\ restarted => game.phase = "ended"
  /\ role \in AssignRoles(Seat, NumKillers)
  /\ game.phase = "role_reveal" => alive = Player /\ actions = NoRows
  /\ game.phase = "night_killer" => Submitted("killer") \subseteq alive
  /\ game.phase \notin {"voting", "vote_result", "ended"} => votes = NoRows
  /\ game.phase = "voting" => Voters \subseteq alive

NoInputSkippedInv == TypeOK /\ RowsAreOfTheLiving /\ NoInputSkipped

(* A part of a finite set that is as large as the set is all of it: counting *)
(* rows is as good as knowing whose they are.                               *)
LEMMA EnoughRowsAreAll ==
  ASSUME NEW S, IsFiniteSet(S), NEW T \in SUBSET S, Cardinality(T) >= Cardinality(S)
  PROVE  T = S
<1>1. Cardinality(T) <= Cardinality(S) /\ Cardinality(S) \in Nat /\ Cardinality(T) \in Nat
  BY FS_Subset, FS_CardinalityType
<1>2. Cardinality(T) = Cardinality(S)
  BY <1>1
<1>. QED BY <1>2, FS_Subset

LEMMA OneDoctor ==
  ASSUME RowsAreOfTheLiving
  PROVE  \E d \in Seat : Having(role, "doctor") = {d}
<1>1. Cardinality(Having(role, "doctor")) = 1 /\ Having(role, "doctor") \subseteq Seat
  BY DEF RowsAreOfTheLiving, AssignRoles, Having
<1>2. IsFiniteSet(Having(role, "doctor"))
  BY <1>1, ConstantsAssumption, FS_Subset
<1>3. PICK d : Having(role, "doctor") = {d}
  BY <1>1, <1>2, FS_Singleton
<1>. QED BY <1>1, <1>3

LEMMA InitNoInputSkipped == Init => RowsAreOfTheLiving /\ NoInputSkipped
  BY DEF Init, RowsAreOfTheLiving, NoInputSkipped

(* The first transactions: rows are added, by living players only.          *)
LEMMA RequestsKeepRows ==
  ASSUME NoInputSkippedInv, NEW p \in Seat, NEW t \in Seat,
         ConfirmRoleReveal(p) \/ SubmitNightAction(p, t) \/ SubmitVote(p, t)
  PROVE  RowsAreOfTheLiving' /\ NoInputSkipped'
<1>. USE DEF NoInputSkippedInv
<1>1. CASE ConfirmRoleReveal(p)
  BY <1>1 DEF ConfirmRoleReveal, RowsAreOfTheLiving, NoInputSkipped, AliveWith,
              Submitted, Voters
<1>2. CASE SubmitNightAction(p, t)
  <2>1. /\ t # None /\ p \in alive
        /\ game.phase \in {"night_killer", "night_doctor"}
        /\ actions' = [actions EXCEPT ![p] = t]
        /\ UNCHANGED <<game, role, alive, restarted, confirmed, votes>>
    BY <1>2, ConstantsAssumption DEF SubmitNightAction, MayAct, InNightPhase
  <2>2. \A r : Submitted(r) \subseteq Submitted(r)' /\ Submitted(r)' \subseteq Submitted(r) \cup {p}
    BY <2>1 DEF Submitted, Having, TypeOK
  <2>3. RowsAreOfTheLiving'
    BY <2>1, <2>2 DEF RowsAreOfTheLiving, Voters
  <2>4. NoInputSkipped'
    BY <2>1, <2>2 DEF NoInputSkipped, AliveWith, Voters
  <2>. QED BY <2>3, <2>4
<1>3. CASE SubmitVote(p, t)
  <2>1. /\ t # None /\ p \in alive /\ game.phase = "voting"
        /\ votes' = [votes EXCEPT ![p] = t]
        /\ UNCHANGED <<game, role, alive, restarted, confirmed, actions>>
    BY <1>3, ConstantsAssumption DEF SubmitVote, MayVote
  <2>2. Voters' \subseteq Voters \cup {p}
    BY <2>1 DEF Voters, TypeOK
  <2>3. RowsAreOfTheLiving'
    BY <2>1, <2>2 DEF RowsAreOfTheLiving, Submitted
  <2>4. NoInputSkipped'
    BY <2>1 DEF NoInputSkipped, AliveWith, Submitted
  <2>. QED BY <2>3, <2>4
<1>. QED BY <1>1, <1>2, <1>3

(* Leaving a phase that collects rows: all of the living have theirs.       *)
LEMMA CompleteMeansAll ==
  ASSUME NoInputSkippedInv, PhaseComplete
  PROVE  /\ game.phase = "role_reveal" => confirmed = Seat
         /\ game.phase = "night_killer" => AliveWith("killer") \subseteq Submitted("killer")
         /\ game.phase = "night_doctor" => AliveWith("doctor") \subseteq Submitted("doctor")
         /\ game.phase = "voting" => alive \subseteq Voters
<1>. USE DEF NoInputSkippedInv
<1>1. IsFiniteSet(alive) /\ IsFiniteSet(AliveWith("killer"))
  <2>1. IsFiniteSet(alive)
    BY ConstantsAssumption, FS_Subset DEF TypeOK
  <2>. QED BY <2>1, FS_Subset DEF AliveWith
<1>2. ASSUME game.phase = "role_reveal" PROVE confirmed = Seat
  <2>1. alive = Player /\ confirmed \in SUBSET alive /\ Cardinality(confirmed) >= Cardinality(alive)
    BY <1>2, ConstantsAssumption DEF RowsAreOfTheLiving, PhaseComplete, TypeOK
  <2>2. confirmed = alive
    BY <1>1, <2>1, EnoughRowsAreAll
  <2>. QED BY <2>1, <2>2, ConstantsAssumption DEF TypeOK
<1>3. ASSUME game.phase = "night_killer"
      PROVE  AliveWith("killer") \subseteq Submitted("killer")
  <2>1. /\ Submitted("killer") \in SUBSET AliveWith("killer")
        /\ Cardinality(Submitted("killer")) >= Cardinality(AliveWith("killer"))
    BY <1>3 DEF RowsAreOfTheLiving, PhaseComplete, AliveWith, Submitted
  <2>. QED BY <1>1, <2>1, EnoughRowsAreAll
<1>4. ASSUME game.phase = "night_doctor"
      PROVE  AliveWith("doctor") \subseteq Submitted("doctor")
  <2>1. AliveWith("doctor") = {} \/ Submitted("doctor") # {}
    BY <1>4 DEF PhaseComplete
  <2>2. PICK d \in Seat : Having(role, "doctor") = {d}
    BY OneDoctor
  <2>. QED BY <2>1, <2>2 DEF AliveWith, Submitted
<1>5. ASSUME game.phase = "voting" PROVE alive \subseteq Voters
  <2>1. Voters \in SUBSET alive /\ Cardinality(Voters) >= Cardinality(alive)
    BY <1>5 DEF RowsAreOfTheLiving, PhaseComplete
  <2>. QED BY <1>1, <2>1, EnoughRowsAreAll
<1>. QED BY <1>2, <1>3, <1>4, <1>5

(* The second transactions: rows stay, the living become fewer, and a new   *)
(* day starts without rows.                                                 *)
LEMMA AdvanceKeepsRows ==
  ASSUME NoInputSkippedInv, AdvanceIfComplete
  PROVE  RowsAreOfTheLiving' /\ NoInputSkipped'
<1>. USE DEF NoInputSkippedInv
<1>1. CASE AdvanceIncomplete
  BY <1>1 DEF AdvanceIncomplete, RowsAreOfTheLiving, NoInputSkipped, AliveWith,
              Submitted, Voters
<1>2. CASE AdvanceToNextPhase
  <2>1. /\ game'.phase = NextPhase(game.phase) /\ PhaseComplete
        /\ game.phase \in {"role_reveal", "night_killer", "night_doctor", "day_reveal"}
        /\ UNCHANGED <<role, alive, restarted, confirmed, actions, votes>>
    BY <1>2 DEF AdvanceToNextPhase, UpdateGame, TypeOK, GameRow
  <2>2. /\ Submitted("killer")' = Submitted("killer") /\ AliveWith("killer")' = AliveWith("killer")
        /\ Submitted("doctor")' = Submitted("doctor") /\ AliveWith("doctor")' = AliveWith("doctor")
        /\ Voters' = Voters
    BY <2>1 DEF Submitted, AliveWith, Voters
  <2>3. RowsAreOfTheLiving'
    <3>1. game.phase = "role_reveal" => Submitted("killer") \subseteq alive
      BY DEF RowsAreOfTheLiving, Submitted, NoRows, Having, TypeOK
    <3>. QED BY <2>1, <2>2, <3>1 DEF RowsAreOfTheLiving, NextPhase
  <2>4. NoInputSkipped'
    BY <2>1, <2>2, CompleteMeansAll DEF NoInputSkipped, NextPhase
  <2>. QED BY <2>3, <2>4
<1>3. CASE AdvanceNightResolve
  <2>1. PICK victim \in NightVictims(role, actions) :
          /\ alive' = alive \ {victim}
          /\ game' = IF WinnerFromAliveRoles(role, alive \ {victim}) = "none"
                     THEN [game EXCEPT !.phase = "day_reveal"]
                     ELSE EndGame(WinnerFromAliveRoles(role, alive \ {victim}))
    BY <1>3, Zenon DEF AdvanceNightResolve, UpdateGame
  <2>2. /\ game.phase = "night_resolve"
        /\ UNCHANGED <<role, restarted, confirmed, actions, votes>>
    BY <1>3 DEF AdvanceNightResolve
  <2>3. game'.phase \in {"day_reveal", "ended"} /\ alive' \subseteq alive
    BY <2>1 DEF EndGame, TypeOK, GameRow
  <2>. QED
    BY <2>2, <2>3 DEF RowsAreOfTheLiving, NoInputSkipped, AliveWith, Submitted, Voters
<1>4. CASE AdvanceVoting
  <2>1. /\ game.phase = "voting" /\ PhaseComplete /\ game'.phase = "vote_result"
        /\ alive' \subseteq alive /\ UNCHANGED <<role, restarted, confirmed, actions, votes>>
    BY <1>4 DEF AdvanceVoting, UpdateGame, TypeOK, GameRow
  <2>2. alive \subseteq Voters
    BY <2>1, CompleteMeansAll
  <2>. QED
    BY <2>1, <2>2 DEF RowsAreOfTheLiving, NoInputSkipped, AliveWith, Submitted, Voters
<1>5. CASE AdvanceVoteResultToEnd
  <2>1. /\ game.phase = "vote_result" /\ game'.phase = "ended"
        /\ UNCHANGED <<role, alive, restarted, confirmed, actions, votes>>
    BY <1>5 DEF AdvanceVoteResultToEnd, UpdateGame, EndGame, TypeOK, GameRow
  <2>. QED
    BY <2>1 DEF RowsAreOfTheLiving, NoInputSkipped, AliveWith, Submitted, Voters
<1>6. CASE AdvanceVoteResultToNight
  <2>1. /\ game.phase = "vote_result" /\ game'.phase = "night_killer"
        /\ actions' = NoRows /\ votes' = NoRows
        /\ UNCHANGED <<role, alive, restarted, confirmed>>
    BY <1>6 DEF AdvanceVoteResultToNight, UpdateGame, TypeOK, GameRow
  <2>2. Submitted("killer")' = {}
    BY <2>1 DEF Submitted, NoRows, RowsAreOfTheLiving, AssignRoles, Having
  <2>. QED
    BY <2>1, <2>2 DEF RowsAreOfTheLiving, NoInputSkipped
<1>. QED
  BY <1>1, <1>2, <1>3, <1>4, <1>5, <1>6 DEF AdvanceIfComplete

LEMMA OtherStepsKeepRows ==
  ASSUME NoInputSkippedInv,
         \/ RequestFails \/ StartDiscussion \/ StartVoting \/ UNCHANGED vars
         \/ RoomLosesHost \/ RestartRoom \/ LaterGames
  PROVE  RowsAreOfTheLiving' /\ NoInputSkipped'
<1>. USE DEF NoInputSkippedInv
<1>1. CASE RequestFails \/ RoomLosesHost \/ UNCHANGED vars
  BY <1>1 DEF RequestFails, RoomLosesHost, vars, RowsAreOfTheLiving, NoInputSkipped,
              AliveWith, Submitted, Voters
<1>2. CASE StartDiscussion
  <2>1. /\ game.phase = "day_reveal" /\ game'.phase = "discussion"
        /\ UNCHANGED <<role, alive, restarted, confirmed, actions, votes>>
    BY <1>2 DEF StartDiscussion, ManualTransition, UpdateGame, TypeOK, GameRow
  <2>. QED
    BY <2>1 DEF RowsAreOfTheLiving, NoInputSkipped, AliveWith, Submitted, Voters
<1>3. CASE StartVoting
  <2>1. /\ game.phase = "discussion" /\ game'.phase = "voting"
        /\ UNCHANGED <<role, alive, restarted, confirmed, actions, votes>>
    BY <1>3 DEF StartVoting, ManualTransition, UpdateGame, TypeOK, GameRow
  <2>2. Voters' = {}
    BY <2>1 DEF RowsAreOfTheLiving, Voters, NoRows
  <2>. QED
    BY <2>1, <2>2 DEF RowsAreOfTheLiving, NoInputSkipped, AliveWith, Submitted
<1>4. CASE RestartRoom \/ LaterGames
  <2>1. /\ game.phase = "ended" /\ restarted'
        /\ UNCHANGED <<game, role, confirmed, actions, votes>>
    BY <1>4 DEF RestartRoom, LaterGames, RowsAreOfTheLiving
  <2>. QED
    BY <2>1 DEF RowsAreOfTheLiving, NoInputSkipped
<1>. QED BY <1>1, <1>2, <1>3, <1>4

LEMMA InvariantOfRows == Spec => []NoInputSkippedInv
<1>1. Init => NoInputSkippedInv
  BY InitType, InitNoInputSkipped DEF NoInputSkippedInv
<1>2. NoInputSkippedInv /\ TypeOK' /\ [Next]_vars => NoInputSkippedInv'
  <2> SUFFICES ASSUME NoInputSkippedInv, TypeOK', [Next]_vars
               PROVE  RowsAreOfTheLiving' /\ NoInputSkipped'
    BY DEF NoInputSkippedInv
  <2>. QED
    BY RequestsKeepRows, AdvanceKeepsRows, OtherStepsKeepRows DEF Next
<1>. QED BY <1>1, <1>2, TypeCorrect, PTL DEF Spec

(* No phase is skipped, in any interleaving and whatever fails: a request   *)
(* that advances a phase it was not made in finds it complete only when all *)
(* the living it waits for have acted.                                      *)
THEOREM NoPhaseIsSkipped == Spec => []NoInputSkipped
<1>1. NoInputSkippedInv => NoInputSkipped
  BY DEF NoInputSkippedInv
<1>. QED BY <1>1, InvariantOfRows, PTL

-----------------------------------------------------------------------------
(***************************************************************************)
(* OneDeathPerResolution is inductive with the types and WinnerMatchesTown, *)
(* by which a room left for another game has resolved its last: a           *)
(* resolution buries one player at most and moves the game to a phase, or   *)
(* to a day, that counts one resolution more.                               *)
(***************************************************************************)
LEMMA VictimsArePlayers ==
  ASSUME TypeOK
  PROVE  /\ NightVictims(role, actions) \subseteq Player \cup {None}
         /\ VotedOut(role, alive, votes) \in Player \cup {None}
<1>1. NightVictims(role, actions) \subseteq Player \cup {None}
  BY DEF NightVictims, Attacked, Leaders, Having, TypeOK
<1>2. VotedOut(role, alive, votes) \in Player \cup {None}
  <2>. DEFINE targets == alive \cap DOMAIN role
              leaders == Leaders(votes, DOMAIN role, targets)
  <2>1. leaders \subseteq Player /\ IsFiniteSet(leaders)
    <3>1. leaders \subseteq Player
      BY DEF Leaders, TypeOK
    <3>. QED BY <3>1, ConstantsAssumption, FS_Subset
  <2>2. CASE Cardinality(leaders) = 1
    <3>1. leaders # {}
      BY <2>1, <2>2, FS_EmptySet
    <3>2. VotedOut(role, alive, votes) \in leaders
      BY <2>2, <3>1, Zenon DEF VotedOut
    <3>. QED BY <2>1, <3>2
  <2>3. CASE Cardinality(leaders) # 1
    BY <2>3, Zenon DEF VotedOut
  <2>. QED BY <2>2, <2>3
<1>. QED BY <1>1, <1>2

LEMMA OneMoreDead ==
  ASSUME TypeOK, NEW victim \in Player \cup {None}
  PROVE  /\ Cardinality(Player \ alive) \in Nat
         /\ Cardinality(Player \ (alive \ {victim})) \in Nat
         /\ Cardinality(Player \ (alive \ {victim})) <= Cardinality(Player \ alive) + 1
<1>1. IsFiniteSet(Player \ alive)
  BY ConstantsAssumption, FS_Subset
<1>2. Cardinality(Player \ alive) \in Nat
  BY <1>1, FS_CardinalityType
<1>3. CASE victim = None
  <2>1. alive \ {victim} = alive
    BY <1>3, ConstantsAssumption DEF TypeOK
  <2>. QED BY <1>2, <2>1
<1>4. CASE victim \in Player
  <2>1. Player \ (alive \ {victim}) = (Player \ alive) \cup {victim}
    BY <1>4
  <2>2. Cardinality((Player \ alive) \cup {victim}) =
          IF victim \in Player \ alive THEN Cardinality(Player \ alive)
                                      ELSE Cardinality(Player \ alive) + 1
    BY <1>1, FS_AddElement
  <2>. DEFINE more == Cardinality((Player \ alive) \cup {victim})
  <2>3. more \in Nat /\ more <= Cardinality(Player \ alive) + 1
    <3>. HIDE DEF more
    <3>1. more = Cardinality(Player \ alive) \/ more = Cardinality(Player \ alive) + 1
      BY <2>2 DEF more
    <3>. QED BY <1>2, <3>1
  <2>. QED BY <1>2, <2>1, <2>3
<1>. QED BY <1>3, <1>4

(* A step of the game itself, which its room has not left.                  *)
LEMMA NextOneDeath ==
  ASSUME TypeOK, OneDeathPerResolution, ~restarted, [Next]_vars, ~RestartRoom, ~LaterGames
  PROVE  OneDeathPerResolution'
<1>. DEFINE dead == Cardinality(Player \ alive)
<1>1. game.day \in Nat /\ dead \in Nat /\ dead <= Resolutions
  <2>1. game.day \in Nat /\ dead <= Resolutions
    BY DEF TypeOK, GameRow, OneDeathPerResolution
  <2>2. IsFiniteSet(Player \ alive)
    BY ConstantsAssumption, FS_Subset
  <2>. QED BY <2>1, <2>2, FS_CardinalityType
<1>2. CASE UNCHANGED <<game, alive>>
  BY <1>2 DEF OneDeathPerResolution, Resolutions
<1>3. ASSUME AdvanceToNextPhase \/ StartDiscussion \/ StartVoting
      PROVE  OneDeathPerResolution'
  <2>1. /\ game'.day = game.day /\ alive' = alive
        /\ \/ game'.phase = NextPhase(game.phase)
              /\ game.phase \in {"role_reveal", "night_killer", "night_doctor", "day_reveal"}
           \/ game.phase = "day_reveal" /\ game'.phase = "discussion"
           \/ game.phase = "discussion" /\ game'.phase = "voting"
    BY <1>3 DEF AdvanceToNextPhase, StartDiscussion, StartVoting, ManualTransition,
                UpdateGame, TypeOK, GameRow
  <2>2. Resolutions' = Resolutions
    BY <1>1, <2>1 DEF Resolutions, NextPhase
  <2>. QED BY <1>1, <2>1, <2>2 DEF OneDeathPerResolution
<1>4. CASE AdvanceNightResolve
  <2>1. PICK victim \in NightVictims(role, actions) :
          /\ alive' = alive \ {victim}
          /\ game' = IF WinnerFromAliveRoles(role, alive \ {victim}) = "none"
                     THEN [game EXCEPT !.phase = "day_reveal"]
                     ELSE EndGame(WinnerFromAliveRoles(role, alive \ {victim}))
    BY <1>4, Zenon DEF AdvanceNightResolve, UpdateGame
  <2>2. /\ game.phase = "night_resolve" /\ game'.day = game.day
        /\ game'.phase \in {"day_reveal", "ended"}
    BY <1>4, <2>1 DEF AdvanceNightResolve, EndGame, TypeOK, GameRow
  <2>3. Resolutions' \in Int /\ Resolutions' >= Resolutions + 1
    BY <1>1, <2>2 DEF Resolutions
  <2>4. Cardinality(Player \ alive') \in Nat /\ Cardinality(Player \ alive') <= dead + 1
    BY <2>1, VictimsArePlayers, OneMoreDead
  <2>5. Resolutions \in Int
    BY <1>1 DEF Resolutions
  <2>. QED BY <1>1, <2>3, <2>4, <2>5 DEF OneDeathPerResolution
<1>5. CASE AdvanceVoting
  <2>1. /\ game.phase = "voting" /\ game'.phase = "vote_result" /\ game'.day = game.day
        /\ alive' = alive \ {VotedOut(role, alive, votes)}
    BY <1>5 DEF AdvanceVoting, UpdateGame, TypeOK, GameRow
  <2>2. Resolutions' \in Int /\ Resolutions' = Resolutions + 1 /\ Resolutions \in Int
    BY <1>1, <2>1 DEF Resolutions
  <2>3. Cardinality(Player \ alive') \in Nat /\ Cardinality(Player \ alive') <= dead + 1
    BY <2>1, VictimsArePlayers, OneMoreDead
  <2>. QED BY <1>1, <2>2, <2>3 DEF OneDeathPerResolution
<1>6. CASE AdvanceVoteResultToEnd \/ AdvanceVoteResultToNight
  <2>1. /\ game.phase = "vote_result" /\ alive' = alive
        /\ \/ game'.phase = "ended" /\ game'.day = game.day
           \/ game'.phase = "night_killer" /\ game'.day = game.day + 1
    BY <1>1, <1>6 DEF AdvanceVoteResultToEnd, AdvanceVoteResultToNight, UpdateGame,
                      EndGame, TypeOK, GameRow
  <2>2. Resolutions' = Resolutions
    BY <1>1, <2>1 DEF Resolutions
  <2>. QED BY <1>1, <2>1, <2>2 DEF OneDeathPerResolution
<1>7. CASE Next
  <2>1. ASSUME NEW p \in Seat, NEW t \in Seat,
               ConfirmRoleReveal(p) \/ SubmitNightAction(p, t) \/ SubmitVote(p, t)
        PROVE  UNCHANGED <<game, alive>>
    BY <2>1 DEF ConfirmRoleReveal, SubmitNightAction, SubmitVote
  <2>2. AdvanceIncomplete \/ RequestFails \/ RoomLosesHost => UNCHANGED <<game, alive>>
    BY DEF AdvanceIncomplete, RequestFails, RoomLosesHost
  <2>. QED
    BY <1>2, <1>3, <1>4, <1>5, <1>6, <1>7, <2>1, <2>2 DEF Next, AdvanceIfComplete
<1>. QED BY <1>2, <1>7 DEF vars

(* A room that has gone on to another game does not come back to this one.  *)
LEMMA LeftForGood ==
  ASSUME restarted, [Next]_vars
  PROVE  restarted'
<1>1. CASE \E p \in Seat : ConfirmRoleReveal(p)
  BY <1>1 DEF ConfirmRoleReveal
<1>2. CASE \E p, t \in Seat : SubmitNightAction(p, t) \/ SubmitVote(p, t)
  BY <1>2 DEF SubmitNightAction, SubmitVote
<1>3. CASE AdvanceIfComplete
  <2>1. UNCHANGED restarted
    BY <1>3 DEF AdvanceIfComplete, AdvanceIncomplete, AdvanceToNextPhase, AdvanceNightResolve,
                AdvanceVoting, AdvanceVoteResultToEnd, AdvanceVoteResultToNight
  <2>. QED BY <2>1
<1>4. CASE RequestFails \/ RoomLosesHost \/ UNCHANGED vars
  BY <1>4 DEF RequestFails, RoomLosesHost, vars
<1>5. CASE StartDiscussion \/ StartVoting
  BY <1>5 DEF StartDiscussion, StartVoting, ManualTransition
<1>6. CASE RestartRoom \/ LaterGames
  BY <1>6 DEF RestartRoom, LaterGames
<1>. QED BY <1>1, <1>2, <1>3, <1>4, <1>5, <1>6 DEF Next

(* Each night is resolved once and each ballot counted once, however many   *)
(* requests were in flight: the dead are never more than the resolutions.   *)
THEOREM DeathsAreCounted == Spec => []OneDeathPerResolution
<1>1. Init => OneDeathPerResolution
  <2> SUFFICES ASSUME Init PROVE OneDeathPerResolution
    OBVIOUS
  <2>1. Player \ alive = {} /\ Resolutions = 0
    BY DEF Init, Resolutions
  <2>. QED BY <2>1, FS_EmptySet DEF OneDeathPerResolution
<1>2. TypeOK /\ WinnerMatchesTown /\ OneDeathPerResolution /\ [Next]_vars
        => OneDeathPerResolution'
  <2> SUFFICES ASSUME TypeOK, WinnerMatchesTown, OneDeathPerResolution, [Next]_vars
               PROVE  OneDeathPerResolution'
    OBVIOUS
  <2>1. CASE ~restarted /\ ~RestartRoom /\ ~LaterGames
    BY <2>1, NextOneDeath
  <2>2. CASE RestartRoom \/ LaterGames
    BY <2>2 DEF RestartRoom, LaterGames, OneDeathPerResolution
  <2>3. CASE restarted /\ ~RestartRoom
    <3>1. restarted'
      BY <2>3, LeftForGood DEF WinnerMatchesTown
    <3>. QED BY <3>1 DEF OneDeathPerResolution
  <2>. QED BY <2>1, <2>2, <2>3
<1>. QED BY <1>1, <1>2, TypeCorrect, WinnerIsCorrect, PTL DEF Spec

-----------------------------------------------------------------------------
(***************************************************************************)
(* SomeoneWillAdvance needs to know that a phase which collects inputs is   *)
(* entered without any: its own rows cannot be there yet, which for the     *)
(* doctor's turn is NoDoctorYet and for the votes RowsAreOfTheLiving, and   *)
(* somebody lives to wait for, which is WinnerMatchesTown.                  *)
(***************************************************************************)
NoDoctorYet == game.phase \in {"role_reveal", "night_killer"} => Submitted("doctor") = {}

AdvanceInv == NoInputSkippedInv /\ WinnerMatchesTown /\ NoDoctorYet /\ SomeoneWillAdvance

LEMMA SomeKillerLives ==
  ASSUME NEW r, NEW living \in SUBSET Player, WinnerFromAliveRoles(r, living) = "none"
  PROVE  /\ ~(0 >= Cardinality(living \cap Having(r, "killer")))
         /\ ~(0 >= Cardinality(living))
<1>. DEFINE killers == living \cap Having(r, "killer")
<1>1. killers # {} /\ living # {}
  BY DEF WinnerFromAliveRoles
<1>2. IsFiniteSet(living) /\ IsFiniteSet(killers)
  BY ConstantsAssumption, FS_Subset
<1>3. /\ Cardinality(living) \in Nat /\ Cardinality(living) # 0
      /\ Cardinality(killers) \in Nat /\ Cardinality(killers) # 0
  BY <1>1, <1>2, FS_CardinalityType, FS_EmptySet
<1>. QED BY <1>3

(* A phase that has just been entered misses inputs.                        *)
LEMMA NightStartsIncomplete ==
  ASSUME TypeOK', WinnerMatchesTown', game'.phase = "night_killer", actions' = NoRows
  PROVE  SomeoneWillAdvance' /\ NoDoctorYet'
<1>1. Submitted("killer")' = {} /\ Submitted("doctor")' = {}
  BY DEF Submitted, NoRows, Having, TypeOK
<1>2. WinnerFromAliveRoles(role, alive)' = "none"
  BY DEF WinnerMatchesTown
<1>3. ~(0 >= Cardinality(AliveWith("killer"))')
  BY <1>2, SomeKillerLives DEF AliveWith, TypeOK
<1>4. Cardinality({}) = 0
  BY FS_EmptySet
<1>5. ~PhaseComplete'
  BY <1>1, <1>3, <1>4 DEF PhaseComplete
<1>. QED BY <1>1, <1>5 DEF SomeoneWillAdvance, InputPhaseComplete, NoDoctorYet

LEMMA NextSomeoneWillAdvance ==
  ASSUME ~Faults, AdvanceInv, TypeOK', WinnerMatchesTown', [Next]_vars
  PROVE  SomeoneWillAdvance' /\ NoDoctorYet'
<1>. USE DEF AdvanceInv, NoInputSkippedInv
<1>1. ASSUME NEW p \in Seat, NEW t \in Seat,
             ConfirmRoleReveal(p) \/ SubmitNightAction(p, t) \/ SubmitVote(p, t)
      PROVE  SomeoneWillAdvance' /\ NoDoctorYet'
  <2>1. inflight' > 0
    BY <1>1 DEF ConfirmRoleReveal, SubmitNightAction, SubmitVote, EnterFlight, TypeOK
  <2>2. NoDoctorYet'
    <3>1. CASE ConfirmRoleReveal(p)
      BY <3>1 DEF ConfirmRoleReveal, NoDoctorYet, Submitted
    <3>2. CASE SubmitNightAction(p, t)
      <4>1. /\ actions' = [actions EXCEPT ![p] = t] /\ UNCHANGED <<game, role>>
            /\ game.phase = "night_killer" => role[p] = "killer"
            /\ game.phase # "role_reveal"
        BY <3>2 DEF SubmitNightAction, MayAct, InNightPhase, CanPlayerActInPhase
      <4>. QED BY <4>1 DEF NoDoctorYet, Submitted, Having, TypeOK
    <3>3. CASE SubmitVote(p, t)
      BY <3>3 DEF SubmitVote, MayVote, NoDoctorYet
    <3>. QED BY <1>1, <3>1, <3>2, <3>3
  <2>. QED BY <2>1, <2>2 DEF SomeoneWillAdvance
<1>2. CASE AdvanceIncomplete
  BY <1>2 DEF AdvanceIncomplete, SomeoneWillAdvance, InputPhaseComplete, PhaseComplete,
              NoDoctorYet, Submitted, AliveWith, Voters
<1>3. CASE RequestFails
  BY <1>3 DEF RequestFails
<1>4. CASE RoomLosesHost \/ UNCHANGED vars
  BY <1>4 DEF RoomLosesHost, vars, SomeoneWillAdvance, InputPhaseComplete, PhaseComplete,
              NoDoctorYet, Submitted, AliveWith, Voters
<1>5. CASE AdvanceToNextPhase
  <2>1. /\ game'.phase = NextPhase(game.phase)
        /\ game.phase \in {"role_reveal", "night_killer", "night_doctor", "day_reveal"}
        /\ UNCHANGED <<role, alive, actions>>
    BY <1>5 DEF AdvanceToNextPhase, UpdateGame, TypeOK, GameRow
  <2>2. CASE game.phase = "role_reveal"
    <3>1. game'.phase = "night_killer" /\ actions' = NoRows
      BY <2>1, <2>2 DEF NextPhase, RowsAreOfTheLiving
    <3>. QED BY <3>1, NightStartsIncomplete
  <2>3. CASE game.phase = "night_killer"
    <3>1. game'.phase = "night_doctor" /\ Submitted("doctor")' = {}
      BY <2>1, <2>3 DEF NextPhase, NoDoctorYet, Submitted
    <3>. QED
      BY <3>1 DEF SomeoneWillAdvance, InputPhaseComplete, PhaseComplete, NoDoctorYet
  <2>4. CASE game.phase \in {"night_doctor", "day_reveal"}
    <3>1. game'.phase \in {"night_resolve", "discussion"}
      BY <2>1, <2>4 DEF NextPhase
    <3>. QED BY <3>1 DEF SomeoneWillAdvance, InputPhaseComplete, NoDoctorYet
  <2>. QED BY <2>1, <2>2, <2>3, <2>4
<1>6. CASE AdvanceNightResolve \/ AdvanceVoting \/ AdvanceVoteResultToEnd \/ StartDiscussion
  <2>1. game'.phase \in {"day_reveal", "vote_result", "ended", "discussion"}
    BY <1>6 DEF AdvanceNightResolve, AdvanceVoting, AdvanceVoteResultToEnd, StartDiscussion,
                ManualTransition, UpdateGame, EndGame, TypeOK, GameRow
  <2>. QED BY <2>1 DEF SomeoneWillAdvance, InputPhaseComplete, NoDoctorYet
<1>7. CASE AdvanceVoteResultToNight
  <2>1. game'.phase = "night_killer" /\ actions' = NoRows
    BY <1>7 DEF AdvanceVoteResultToNight, UpdateGame, TypeOK, GameRow
  <2>. QED BY <2>1, NightStartsIncomplete
<1>8. CASE StartVoting
  <2>1. /\ game.phase = "discussion" /\ game'.phase = "voting"
        /\ UNCHANGED <<role, alive, votes>>
    BY <1>8 DEF StartVoting, ManualTransition, UpdateGame, TypeOK, GameRow
  <2>2. Voters' = {}
    BY <2>1 DEF RowsAreOfTheLiving, Voters, NoRows
  <2>3. WinnerFromAliveRoles(role, alive) = "none"
    BY <2>1 DEF WinnerMatchesTown
  <2>4. ~(0 >= Cardinality(alive')) /\ Cardinality({}) = 0
    BY <2>1, <2>3, SomeKillerLives, FS_EmptySet DEF TypeOK
  <2>5. ~PhaseComplete'
    BY <2>1, <2>2, <2>4 DEF PhaseComplete
  <2>. QED BY <2>1, <2>5 DEF SomeoneWillAdvance, InputPhaseComplete, NoDoctorYet
<1>9. CASE RestartRoom \/ LaterGames
  <2>1. game'.phase = "ended"
    BY <1>9 DEF RestartRoom, LaterGames, WinnerMatchesTown
  <2>. QED BY <2>1 DEF SomeoneWillAdvance, InputPhaseComplete, NoDoctorYet
<1>. QED
  BY <1>1, <1>2, <1>3, <1>4, <1>5, <1>6, <1>7, <1>8, <1>9 DEF Next, AdvanceIfComplete

(* On a server whose second transactions do not fail, no phase waits with   *)
(* all its inputs in and nobody left to move it on: of the requests that    *)
(* commit the last inputs, however interleaved, one is still to advance.    *)
THEOREM LastInputAdvances ==
  ASSUME ~Faults
  PROVE  Spec => []SomeoneWillAdvance
<1>1. Init => SomeoneWillAdvance /\ NoDoctorYet
  <2> SUFFICES ASSUME Init PROVE SomeoneWillAdvance /\ NoDoctorYet
    OBVIOUS
  <2>1. TypeOK /\ WinnerMatchesTown
    BY InitType, InitWinnerMatchesTown
  <2>2. ~(0 >= Cardinality(alive)) /\ Cardinality({}) = 0
    BY <2>1, SomeKillerLives, FS_EmptySet DEF Init, WinnerMatchesTown, TypeOK
  <2>3. ~PhaseComplete
    BY <2>2 DEF Init, PhaseComplete
  <2>4. Submitted("doctor") = {}
    BY <2>1 DEF Init, Submitted, NoRows, Having, TypeOK
  <2>. QED BY <2>3, <2>4 DEF SomeoneWillAdvance, InputPhaseComplete, NoDoctorYet
<1>2. /\ NoInputSkippedInv /\ WinnerMatchesTown /\ SomeoneWillAdvance /\ NoDoctorYet
      /\ TypeOK' /\ WinnerMatchesTown' /\ [Next]_vars
      => SomeoneWillAdvance' /\ NoDoctorYet'
  BY NextSomeoneWillAdvance DEF AdvanceInv
<1>. QED BY <1>1, <1>2, TypeCorrect, WinnerIsCorrect, InvariantOfRows, PTL DEF Spec
=============================================================================
