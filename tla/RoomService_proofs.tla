-------------------------- MODULE RoomService_proofs --------------------------
(***************************************************************************)
(* Theorems about RoomService for every set of players, every size of a     *)
(* room and any number of games.                                            *)
(***************************************************************************)
EXTENDS RoomService, FiniteSetTheorems, SequenceTheorems, TLAPS

LEMMA EarliestArePlayers == ASSUME NEW S PROVE Earliest(S) \subseteq S
  BY DEF Earliest

LEMMA HeirsAreConnected ==
  ASSUME NEW p, NEW heir \in Heirs(p)
  PROVE  \/ heir = None /\ connected \subseteq {p}
         \/ heir \in connected \ {p}
<1>1. CASE connected \ {p} = {}
  BY <1>1 DEF Heirs
<1>2. CASE connected \ {p} # {}
  BY <1>2, EarliestArePlayers DEF Heirs
<1>. QED BY <1>1, <1>2

LEMMA PlayersAreCounted ==
  ASSUME NEW S \in SUBSET Player
  PROVE  IsFiniteSet(S) /\ Cardinality(S) \in Nat
  BY RoomConstants, FS_Subset, FS_CardinalityType

(* What a dealt game adds to the list of games.                             *)
LEMMA DealtGame ==
  ASSUME TypeOK, DealGame
  PROVE  /\ games' \in Seq(Game) /\ games' # <<>>
         /\ Len(games') = Len(games) + 1 /\ Len(games) \in Nat
         /\ games'[Len(games')] = [seat |-> connected, ended |-> FALSE]
         /\ \A g \in 1 .. Len(games) : games'[g] = games[g]
         /\ status' = "in_game" /\ UNCHANGED <<host, joinedAt, connected, isHost>>
<1>. DEFINE dealt == [seat |-> connected, ended |-> FALSE]
<1>1. dealt \in Game
  BY DEF Game, TypeOK
<1>2. games \in Seq(Game) /\ games' = Append(games, dealt)
  BY DEF TypeOK, DealGame
<1>3. status' = "in_game" /\ UNCHANGED <<host, joinedAt, connected, isHost>>
  BY DEF DealGame
<1>. HIDE DEF dealt
<1>4. /\ games' \in Seq(Game) /\ Len(games') = Len(games) + 1 /\ Len(games) \in Nat
      /\ games'[Len(games')] = dealt
      /\ \A g \in 1 .. Len(games) : games'[g] = games[g]
  BY <1>1, <1>2
<1>. QED BY <1>3, <1>4 DEF dealt

(* What the end of a game changes in it.                                    *)
LEMMA EndedGame ==
  ASSUME TypeOK, GameEnds
  PROVE  /\ games' \in Seq(Game) /\ games' # <<>> /\ Len(games') = Len(games)
         /\ \A g \in 1 .. Len(games) :
              /\ games'[g].seat = games[g].seat
              /\ games[g].ended => games'[g].ended
         /\ UNCHANGED <<status, host, joinedAt, connected, isHost, cleared>>
<1>1. games \in Seq(Game) /\ games # <<>> /\ games' = [games EXCEPT ![Len(games)].ended = TRUE]
  BY DEF TypeOK, GameEnds
<1>2. Len(games) \in Nat \ {0} /\ Len(games) \in 1 .. Len(games)
  BY <1>1
<1>3. games[Len(games)] \in Game
  BY <1>1, <1>2
<1>. DEFINE over == [games[Len(games)] EXCEPT !.ended = TRUE]
<1>4. over \in Game /\ over.seat = games[Len(games)].seat /\ over.ended
  BY <1>3 DEF Game
<1>5. games' = [games EXCEPT ![Len(games)] = over]
  BY <1>1
<1>. HIDE DEF over
<1>6. /\ games' \in Seq(Game) /\ Len(games') = Len(games)
      /\ \A g \in 1 .. Len(games) : games'[g] = IF g = Len(games) THEN over ELSE games[g]
  <2>1. ASSUME NEW i \in 1 .. Len(games), NEW e \in Game
        PROVE  /\ [games EXCEPT ![i] = e] \in Seq(Game)
               /\ Len([games EXCEPT ![i] = e]) = Len(games)
               /\ \A g \in 1 .. Len(games) : [games EXCEPT ![i] = e][g] = IF g = i THEN e ELSE games[g]
    BY <1>1, ExceptSeq
  <2>. QED BY <1>2, <1>4, <1>5, <2>1, Zenon
<1>7. games' # <<>>
  BY <1>2, <1>6
<1>. QED BY <1>4, <1>6, <1>7 DEF GameEnds

-----------------------------------------------------------------------------
(* Type correctness. *)

(* Every reachable state is well formed: hosts, seats and cleared requests  *)
(* are of the room's players.                                               *)
THEOREM RoomTypeCorrect == Spec => []TypeOK
<1>1. Init => TypeOK
  BY DEF Init, TypeOK
<1>2. TypeOK /\ [Next]_vars => TypeOK'
  <2> SUFFICES ASSUME TypeOK, [Next]_vars PROVE TypeOK'
    OBVIOUS
  <2>1. ASSUME NEW p \in Player, CreateRoom(p) \/ JoinRoom(p)
        PROVE  TypeOK'
    <3>1. Cardinality(Rows) + 1 \in Nat
      BY PlayersAreCounted DEF Rows
    <3>2. joinedAt' = [joinedAt EXCEPT ![p] = Cardinality(Rows) + 1] /\ connected' = connected \cup {p}
      BY <2>1 DEF CreateRoom, JoinRoom, AddRow
    <3>3. joinedAt' \in [Player -> Nat] /\ connected' \subseteq Player
      BY <3>1, <3>2 DEF TypeOK
    <3>. QED BY <2>1, <3>3 DEF CreateRoom, JoinRoom, TypeOK
  <2>2. ASSUME NEW p \in Player, LeaveRoom(p)
        PROVE  TypeOK'
    <3>1. \A heir \in Heirs(p) : heir \in connected \cup {None}
      BY HeirsAreConnected
    <3>. QED BY <2>2, <3>1 DEF LeaveRoom, TypeOK
  <2>3. ASSUME NEW p \in Player, RequireHostOfCurrentRoom(p) \/ RequestRefused(p)
        PROVE  TypeOK'
    BY <2>3 DEF RequireHostOfCurrentRoom, RequestRefused, TypeOK
  <2>4. ASSUME NEW p \in Player, StartGame(p) \/ RestartRoom(p)
        PROVE  TypeOK'
    <3>1. DealGame /\ cleared' = cleared \ {p}
      BY <2>4 DEF StartGame, RestartRoom
    <3>. QED BY <3>1, DealtGame DEF TypeOK
  <2>5. CASE GameEnds
    BY <2>5, EndedGame DEF TypeOK
  <2>6. CASE UNCHANGED vars
    BY <2>6 DEF vars, TypeOK
  <2>. QED BY <2>1, <2>2, <2>3, <2>4, <2>5, <2>6 DEF Next
<1>. QED BY <1>1, <1>2, PTL DEF Spec

-----------------------------------------------------------------------------
(* The host. *)

LEMMA NextHost ==
  ASSUME TypeOK, HostIsPresent, [Next]_vars
  PROVE  /\ HostIsPresent'
         /\ host # None /\ host' = None => connected' = {}
<1>. USE DEF HostIsPresent
<1>1. ASSUME NEW p \in Player, CreateRoom(p)
      PROVE  HostIsPresent' /\ host' = p
  BY <1>1 DEF CreateRoom, AddRow
<1>2. ASSUME NEW p \in Player, JoinRoom(p)
      PROVE  HostIsPresent' /\ host' = host
  BY <1>2 DEF JoinRoom, AddRow
<1>3. ASSUME NEW p \in Player, LeaveRoom(p)
      PROVE  /\ HostIsPresent'
             /\ host # None /\ host' = None => connected' = {}
  <2>1. connected' = connected \ {p}
    BY <1>3 DEF LeaveRoom
  <2>2. CASE p \notin isHost
    BY <1>3, <2>1, <2>2, RoomConstants DEF LeaveRoom
  <2>3. CASE p \in isHost
    <3>1. PICK heir \in Heirs(p) :
            /\ host' = heir
            /\ isHost' = (isHost \ ({p} \cap connected)) \cup ({heir} \ {None})
      BY <1>3, <2>3 DEF LeaveRoom
    <3>2. host = p /\ isHost = {p} /\ p \in connected
      BY <2>3
    <3>3. isHost' = {heir} \ {None}
      BY <3>1, <3>2
    <3>4. \/ heir = None /\ connected \subseteq {p}
          \/ heir \in connected \ {p}
      BY HeirsAreConnected
    <3>. QED BY <2>1, <3>1, <3>3, <3>4, RoomConstants DEF TypeOK
  <2>. QED BY <2>2, <2>3
<1>4. ASSUME NEW p \in Player,
             \/ RequireHostOfCurrentRoom(p) \/ RequestRefused(p)
             \/ StartGame(p) \/ RestartRoom(p)
      PROVE  HostIsPresent' /\ host' = host
  BY <1>4 DEF RequireHostOfCurrentRoom, RequestRefused, StartGame, RestartRoom, DealGame
<1>5. CASE GameEnds \/ UNCHANGED vars
  BY <1>5 DEF GameEnds, vars
<1>. QED BY <1>1, <1>2, <1>3, <1>4, <1>5, RoomConstants DEF Next

(* Whatever the order of joins and departures, the room's row and its       *)
(* players' rows name the same host, who is connected.                      *)
THEOREM HostIsThere == Spec => []HostIsPresent
<1>1. Init => HostIsPresent
  BY DEF Init, HostIsPresent
<1>2. TypeOK /\ HostIsPresent /\ [Next]_vars => HostIsPresent'
  BY NextHost
<1>. QED BY <1>1, <1>2, RoomTypeCorrect, PTL DEF Spec

(* A host who leaves hands the room over while there is anybody to take it. *)
THEOREM HostIsReplaced == Spec => HostlessOnlyWhenDeserted
<1>1. TypeOK /\ HostIsPresent /\ [Next]_vars
      => [host # None /\ host' = None => connected' = {}]_vars
  BY NextHost
<1>. QED BY <1>1, RoomTypeCorrect, HostIsThere, PTL DEF Spec, HostlessOnlyWhenDeserted

(* A host who left between the middleware's check and the transaction no    *)
(* longer starts a game.                                                    *)
THEOREM OnlyTheHostStarts == Spec => StartedByTheHost
<1>1. ASSUME TypeOK, HostIsPresent, [Next]_vars, Len(games') > Len(games)
      PROVE  host \in cleared \ cleared'
  <2>1. ASSUME UNCHANGED games PROVE FALSE
    <3>1. Len(games) \in Nat
      BY DEF TypeOK
    <3>. QED BY <1>1, <2>1, <3>1
  <2>2. ASSUME GameEnds PROVE FALSE
    <3>1. Len(games') = Len(games) /\ Len(games) \in Nat
      BY <1>1, <2>2, EndedGame DEF TypeOK
    <3>. QED BY <1>1, <3>1
  <2>3. PICK p \in Player : StartGame(p) \/ RestartRoom(p)
    BY <1>1, <2>1, <2>2
    DEF Next, vars, CreateRoom, JoinRoom, LeaveRoom, RequireHostOfCurrentRoom, RequestRefused
  <2>4. p \in cleared /\ cleared' = cleared \ {p} /\ p \in isHost
    BY <2>3 DEF StartGame, RestartRoom
  <2>5. host = p
    BY <1>1, <2>4 DEF HostIsPresent
  <2>. QED BY <2>4, <2>5
<1>2. TypeOK /\ HostIsPresent /\ [Next]_vars
      => [Len(games') > Len(games) => host \in cleared \ cleared']_vars
  BY <1>1
<1>. QED BY <1>2, RoomTypeCorrect, HostIsThere, PTL DEF Spec, StartedByTheHost

-----------------------------------------------------------------------------
(***************************************************************************)
(* The games.  A game seats whoever is connected when it is dealt; from     *)
(* then on nobody joins, so the connected only become fewer (InGameOrLobby  *)
(* ties the list of games to the status that closes the door), and a new    *)
(* game, which needs a full room, finds the same players or none.           *)
(***************************************************************************)
InGameOrLobby ==
  /\ status = "none" => connected = {} /\ games = <<>>
  /\ status = "in_game" <=> games # <<>>

GamesInv == TypeOK /\ InGameOrLobby /\ LobbyNeverOverfull /\ NobodyWithoutSeat /\ OneRunningGame

LEMMA RoomIsFull ==
  ASSUME GamesInv, DealGame
  PROVE  Cardinality(connected) = RoomSize
<1>1. Cardinality(connected) \in Nat
  BY PlayersAreCounted DEF GamesInv, TypeOK
<1>2. Cardinality(connected) <= RoomSize /\ Cardinality(connected) >= RoomSize
  BY DEF GamesInv, LobbyNeverOverfull, DealGame
<1>. QED BY <1>1, <1>2, RoomConstants

LEMMA RoomPlayersKeepGames ==
  ASSUME GamesInv, NEW p \in Player, CreateRoom(p) \/ JoinRoom(p) \/ LeaveRoom(p)
  PROVE  InGameOrLobby' /\ LobbyNeverOverfull' /\ NobodyWithoutSeat' /\ OneRunningGame'
<1>. USE DEF GamesInv
<1>1. games' = games
  BY DEF CreateRoom, JoinRoom, LeaveRoom
<1>2. IsFiniteSet(connected) /\ Cardinality(connected) \in Nat
  BY PlayersAreCounted DEF TypeOK
<1>3. CASE CreateRoom(p)
  <2>1. connected' = {p} /\ games = <<>> /\ status' = "lobby"
    BY <1>3 DEF CreateRoom, AddRow, InGameOrLobby
  <2>2. Cardinality(connected') <= RoomSize
    <3>1. Cardinality({p}) = 1
      BY FS_Singleton
    <3>. QED BY <2>1, <3>1, RoomConstants
  <2>. QED
    BY <1>1, <2>1, <2>2 DEF InGameOrLobby, LobbyNeverOverfull, NobodyWithoutSeat, OneRunningGame
<1>4. CASE JoinRoom(p)
  <2>1. /\ connected' = connected \cup {p} /\ status = "lobby" /\ status' = "lobby"
        /\ Cardinality(connected) < RoomSize
    BY <1>4 DEF JoinRoom, AddRow
  <2>2. Cardinality(connected') <= RoomSize
    <3>1. \/ Cardinality(connected') = Cardinality(connected)
          \/ Cardinality(connected') = Cardinality(connected) + 1
      BY <1>2, <2>1, FS_AddElement
    <3>. QED BY <1>2, <2>1, <3>1, RoomConstants
  <2>. QED
    BY <1>1, <2>1, <2>2 DEF InGameOrLobby, LobbyNeverOverfull, NobodyWithoutSeat, OneRunningGame
<1>5. CASE LeaveRoom(p)
  <2>1. connected' = connected \ {p} /\ status' = status
    BY <1>5 DEF LeaveRoom
  <2>2. Cardinality(connected') <= Cardinality(connected) /\ Cardinality(connected') \in Nat
    BY <1>2, <2>1, FS_Subset, FS_CardinalityType
  <2>3. Cardinality(connected') <= RoomSize
    BY <1>2, <2>2, RoomConstants DEF LobbyNeverOverfull
  <2>. QED
    BY <1>1, <2>1, <2>3 DEF InGameOrLobby, LobbyNeverOverfull, NobodyWithoutSeat, OneRunningGame
<1>. QED BY <1>3, <1>4, <1>5

LEMMA DealKeepsGames ==
  ASSUME GamesInv, DealGame, games # <<>> => games[Len(games)].ended
  PROVE  InGameOrLobby' /\ LobbyNeverOverfull' /\ NobodyWithoutSeat' /\ OneRunningGame'
<1>. USE DEF GamesInv
<1>1. /\ games' # <<>> /\ Len(games') = Len(games) + 1 /\ Len(games) \in Nat
      /\ games'[Len(games')].seat = connected
      /\ \A g \in 1 .. Len(games) : games'[g] = games[g]
      /\ status' = "in_game" /\ connected' = connected
  BY DealtGame
<1>2. LobbyNeverOverfull'
  <2>1. Cardinality(connected) = RoomSize
    BY RoomIsFull
  <2>2. ASSUME NEW g \in 1 .. Len(games') PROVE Cardinality(games'[g].seat) = RoomSize
    <3>1. g = Len(games') \/ g \in 1 .. Len(games)
      BY <1>1
    <3>. QED BY <1>1, <2>1, <3>1 DEF LobbyNeverOverfull
  <2>3. Cardinality(connected') <= RoomSize
    BY <1>1, <2>1, RoomConstants
  <2>. QED BY <2>2, <2>3 DEF LobbyNeverOverfull
<1>3. OneRunningGame'
  <2>1. ASSUME NEW g \in 1 .. Len(games') - 1 PROVE games'[g].ended
    <3>1. g \in 1 .. Len(games) /\ games'[g] = games[g] /\ games # <<>>
      BY <1>1 DEF TypeOK
    <3>2. g = Len(games) \/ g \in 1 .. Len(games) - 1
      BY <1>1, <3>1
    <3>. QED BY <3>1, <3>2 DEF OneRunningGame
  <2>. QED BY <2>1 DEF OneRunningGame
<1>. QED
  BY <1>1, <1>2, <1>3 DEF InGameOrLobby, NobodyWithoutSeat, TypeOK

LEMMA NextGames ==
  ASSUME GamesInv, [Next]_vars
  PROVE  InGameOrLobby' /\ LobbyNeverOverfull' /\ NobodyWithoutSeat' /\ OneRunningGame'
<1>. USE DEF GamesInv
<1>1. ASSUME NEW p \in Player, StartGame(p) \/ RestartRoom(p)
      PROVE  InGameOrLobby' /\ LobbyNeverOverfull' /\ NobodyWithoutSeat' /\ OneRunningGame'
  <2>1. DealGame /\ (games # <<>> => games[Len(games)].ended)
    BY <1>1 DEF StartGame, RestartRoom, InGameOrLobby
  <2>. QED BY <2>1, DealKeepsGames
<1>2. ASSUME NEW p \in Player, RequireHostOfCurrentRoom(p) \/ RequestRefused(p)
      PROVE  UNCHANGED <<status, connected, games>>
  BY <1>2 DEF RequireHostOfCurrentRoom, RequestRefused
<1>3. CASE UNCHANGED <<status, connected, games>>
  BY <1>3 DEF InGameOrLobby, LobbyNeverOverfull, NobodyWithoutSeat, OneRunningGame
<1>4. CASE GameEnds
  <2>1. /\ games # <<>> /\ games' # <<>> /\ Len(games') = Len(games) /\ Len(games) \in Nat \ {0}
        /\ \A g \in 1 .. Len(games) :
             games'[g].seat = games[g].seat /\ (games[g].ended => games'[g].ended)
        /\ UNCHANGED <<status, connected>>
    BY <1>4, EndedGame DEF GameEnds, TypeOK
  <2>2. Len(games) \in 1 .. Len(games) /\ 1 .. Len(games) - 1 \subseteq 1 .. Len(games)
    BY <2>1
  <2>. QED
    BY <2>1, <2>2 DEF InGameOrLobby, LobbyNeverOverfull, NobodyWithoutSeat, OneRunningGame
<1>. QED BY <1>1, <1>2, <1>3, <1>4, RoomPlayersKeepGames DEF Next, vars

LEMMA InvariantOfGames == Spec => []GamesInv
<1>1. Init => InGameOrLobby /\ LobbyNeverOverfull /\ NobodyWithoutSeat /\ OneRunningGame
  BY FS_EmptySet, RoomConstants
  DEF Init, InGameOrLobby, LobbyNeverOverfull, NobodyWithoutSeat, OneRunningGame
<1>2. TypeOK' /\ GamesInv /\ [Next]_vars => GamesInv'
  BY NextGames DEF GamesInv
<1>3. Init /\ TypeOK => GamesInv
  BY <1>1 DEF GamesInv
<1>. QED BY <1>2, <1>3, RoomTypeCorrect, PTL DEF Spec

(* A room is never overfull and every game is dealt to a full room.         *)
THEOREM RoomsAreNeverOverfull == Spec => []LobbyNeverOverfull
<1>1. GamesInv => LobbyNeverOverfull
  BY DEF GamesInv
<1>. QED BY <1>1, InvariantOfGames, PTL

(* Nobody is in the room of a game without holding a card in it.            *)
THEOREM EverybodyIsSeated == Spec => []NobodyWithoutSeat
<1>1. GamesInv => NobodyWithoutSeat
  BY DEF GamesInv
<1>. QED BY <1>1, InvariantOfGames, PTL

(* A room has one running game at most.                                     *)
THEOREM OneGameAtATime == Spec => []OneRunningGame
<1>1. GamesInv => OneRunningGame
  BY DEF GamesInv
<1>. QED BY <1>1, InvariantOfGames, PTL

(* A rematch has the players of the game before, neither fewer nor others.  *)
THEOREM RematchesAreAmongTheSame == Spec => RematchAmongTheSame
<1>1. ASSUME GamesInv, [Next]_vars, games # <<>>, Len(games') > Len(games)
      PROVE  games'[Len(games')].seat = games[Len(games)].seat
  <2>. USE DEF GamesInv
  <2>1. Len(games) \in Nat \ {0}
    BY <1>1 DEF TypeOK
  <2>2. games' # games /\ ~GameEnds
    BY <1>1, <2>1, EndedGame
  <2>3. DealGame
    BY <1>1, <2>2
    DEF Next, vars, CreateRoom, JoinRoom, LeaveRoom, RequireHostOfCurrentRoom,
        RequestRefused, StartGame, RestartRoom
  <2>4. games'[Len(games')].seat = connected
    BY <1>1, <2>3, DealtGame
  <2>. DEFINE seat == games[Len(games)].seat
  <2>5. connected \subseteq seat /\ Cardinality(seat) = RoomSize
    BY <1>1, <2>1 DEF NobodyWithoutSeat, LobbyNeverOverfull
  <2>6. seat \in SUBSET Player
    <3>1. games[Len(games)] \in Game
      BY <1>1, <2>1 DEF TypeOK
    <3>. QED BY <3>1 DEF Game
  <2>7. Cardinality(connected) = RoomSize
    BY <1>1, <2>3, RoomIsFull
  <2>8. connected = seat
    BY <2>5, <2>6, <2>7, PlayersAreCounted, FS_Subset
  <2>. QED BY <2>4, <2>8
<1>2. GamesInv /\ [Next]_vars
      => [games # <<>> /\ Len(games') > Len(games) =>
            games'[Len(games')].seat = games[Len(games)].seat]_vars
  BY <1>1
<1>. QED BY <1>2, InvariantOfGames, PTL DEF Spec, RematchAmongTheSame
=============================================================================
