------------------------------ MODULE RoomService ------------------------------
(***************************************************************************)
(* One room of the Go backend (modules/room): its row, the rows of its      *)
(* players and its games, from before it is created.                        *)
(*                                                                          *)
(* Every operation is one transaction that locks the room's row first, so   *)
(* each is one step.  A host's request is checked twice: by the middleware, *)
(* on rows read before the transaction, and again inside it.  Between the   *)
(* two the request is `cleared', and the host may have left meanwhile.      *)
(*                                                                          *)
(* A player is a row: whoever joins again is another player.  Nothing sets  *)
(* is_connected back, so a player who has left stays a row and nothing more.*)
(***************************************************************************)
EXTENDS Integers, Sequences, FiniteSets

CONSTANTS
  None,         \* no host: a nil *string in the code
  Player,       \* the rows the room may come to have
  RoomSize,     \* most players of a lobby and fewest of a game: 6 in the code
  MaxGames      \* bound: games the room plays

ASSUME RoomConstants ==
  /\ IsFiniteSet(Player)
  /\ None \notin Player
  /\ RoomSize \in Nat \ {0}
  /\ MaxGames \in Nat \ {0}

VARIABLES
  status,       \* rooms.status, "none" before the room is created
  host,         \* rooms.host_player_id
  joinedAt,     \* players.joined_at, 0 for players without a row
  connected,    \* players whose row says is_connected
  isHost,       \* players whose row says is_host
  games,        \* the room's games in order; the last is rooms.current_game_id
  cleared       \* players with a host's request past the middleware

vars == <<status, host, joinedAt, connected, isHost, games, cleared>>

Rows == {p \in Player : joinedAt[p] # 0}

(* Of a game the room needs to know who was dealt a card and if it is over. *)
Game == [seat : SUBSET Player, ended : BOOLEAN]

TypeOK ==
  /\ status \in {"none", "lobby", "in_game"}
  /\ host \in Player \cup {None}
  /\ joinedAt \in [Player -> Nat]
  /\ connected \subseteq Player
  /\ isHost \subseteq Player
  /\ games \in Seq(Game)
  /\ cleared \subseteq Player

Init ==
  /\ status = "none"
  /\ host = None
  /\ joinedAt = [p \in Player |-> 0]
  /\ connected = {}
  /\ isHost = {}
  /\ games = <<>>
  /\ cleared = {}

-----------------------------------------------------------------------------
AddRow(p) ==
  /\ p \notin Rows
  /\ joinedAt' = [joinedAt EXCEPT ![p] = Cardinality(Rows) + 1]
  /\ connected' = connected \cup {p}

CreateRoom(p) ==
  /\ status = "none"
  /\ AddRow(p)
  /\ status' = "lobby"
  /\ host' = p
  /\ isHost' = {p}
  /\ UNCHANGED <<games, cleared>>

(* Faulty variant: the room's status is not looked at. *)
JoinRoomAnyTime(p) ==
  /\ status # "none"
  /\ Cardinality(connected) < RoomSize
  /\ AddRow(p)
  /\ UNCHANGED <<status, host, isHost, games, cleared>>

(* Faulty variant: one too many is let in. *)
JoinRoomOverfull(p) ==
  /\ status = "lobby"
  /\ Cardinality(connected) <= RoomSize
  /\ AddRow(p)
  /\ UNCHANGED <<status, host, isHost, games, cleared>>

JoinRoom(p) ==
  /\ status = "lobby"
  /\ Cardinality(connected) < RoomSize
  /\ AddRow(p)
  /\ UNCHANGED <<status, host, isHost, games, cleared>>

Earliest(S) == {q \in S : \A r \in S : joinedAt[q] <= joinedAt[r]}

(* Faulty variant: the first other row is taken, connected or not. *)
HeirsAmongAllRows(p) ==
  LET others == Rows \ {p}
  IN  IF others = {} THEN {None} ELSE Earliest(others)

(* Faulty variant: the search stops at the first other row. *)
HeirsOnlyTheNextRow(p) ==
  LET next == Earliest(Rows \ {p})
  IN  IF next \subseteq connected /\ next # {} THEN next ELSE {None}

(* Whom a leaving host hands the room to: of those left, who came first. *)
Heirs(p) ==
  LET others == connected \ {p}
  IN  IF others = {} THEN {None} ELSE Earliest(others)

(* Faulty variant: the heir is made host without looking if there is one. *)
LeaveRoomWithoutNilCheck(p) ==
  /\ p \in Rows
  /\ connected' = connected \ {p}
  /\ \/ /\ p \notin isHost
        /\ UNCHANGED <<host, isHost>>
     \/ /\ p \in isHost
        /\ \E heir \in Heirs(p) : host' = heir /\ isHost' = (isHost \ {p}) \cup {heir}
  /\ UNCHANGED <<status, joinedAt, games, cleared>>

(* Leaving again is accepted, and does nothing. *)
LeaveRoom(p) ==
  /\ p \in Rows
  /\ connected' = connected \ {p}
  /\ \/ /\ p \notin isHost
        /\ UNCHANGED <<host, isHost>>
     \/ /\ p \in isHost
        /\ \E heir \in Heirs(p) :
             /\ host' = heir
             /\ isHost' = (isHost \ ({p} \cap connected)) \cup ({heir} \ {None})
  /\ UNCHANGED <<status, joinedAt, games, cleared>>

-----------------------------------------------------------------------------
(* The host's requests.  The middleware reads the player's row, then the    *)
(* room's, and lets pass whom both call host: since the two agree at any    *)
(* time (HostIsPresent), it is as if it read both when it reads the second. *)

RequireHostOfCurrentRoom(p) ==
  /\ p \in isHost
  /\ host = p
  /\ cleared' = cleared \cup {p}
  /\ UNCHANGED <<status, host, joinedAt, connected, isHost, games>>

DealGame ==
  /\ Cardinality(connected) >= RoomSize
  /\ Len(games) < MaxGames
  /\ games' = Append(games, [seat |-> connected, ended |-> FALSE])
  /\ status' = "in_game"
  /\ UNCHANGED <<host, joinedAt, connected, isHost>>

(* Faulty variant: the middleware's check is relied upon. *)
StartGameTrusting(p) ==
  /\ p \in cleared
  /\ cleared' = cleared \ {p}
  /\ status = "lobby"
  /\ DealGame

StartGame(p) ==
  /\ p \in cleared
  /\ cleared' = cleared \ {p}
  /\ status = "lobby"
  /\ p \in isHost
  /\ DealGame

(* Faulty variant: the running game is not waited for. *)
RestartRoomAnyTime(p) ==
  /\ p \in cleared
  /\ cleared' = cleared \ {p}
  /\ games # <<>>
  /\ p \in isHost
  /\ DealGame

(* Faulty variant: everybody who ever had a row is dealt a card. *)
RestartRoomWithAllRows(p) ==
  /\ p \in cleared
  /\ cleared' = cleared \ {p}
  /\ games # <<>>
  /\ games[Len(games)].ended
  /\ p \in isHost
  /\ Cardinality(Rows) >= RoomSize
  /\ Len(games) < MaxGames
  /\ games' = Append(games, [seat |-> Rows, ended |-> FALSE])
  /\ UNCHANGED <<status, host, joinedAt, connected, isHost>>

RestartRoom(p) ==
  /\ p \in cleared
  /\ cleared' = cleared \ {p}
  /\ games # <<>>
  /\ p \in isHost
  /\ games[Len(games)].ended
  /\ DealGame

(* A cleared request that finds the room otherwise: an error, no change. *)
RequestRefused(p) ==
  /\ p \in cleared
  /\ cleared' = cleared \ {p}
  /\ UNCHANGED <<status, host, joinedAt, connected, isHost, games>>

(* The engine ends the game it plays: the room is not told. *)
GameEnds ==
  /\ games # <<>>
  /\ ~games[Len(games)].ended
  /\ games' = [games EXCEPT ![Len(games)].ended = TRUE]
  /\ UNCHANGED <<status, host, joinedAt, connected, isHost, cleared>>

Next ==
  \/ \E p \in Player : CreateRoom(p)
  \/ \E p \in Player : JoinRoom(p)
  \/ \E p \in Player : LeaveRoom(p)
  \/ \E p \in Player : RequireHostOfCurrentRoom(p)
  \/ \E p \in Player : StartGame(p)
  \/ \E p \in Player : RestartRoom(p)
  \/ \E p \in Player : RequestRefused(p)
  \/ GameEnds

Spec == Init /\ [][Next]_vars

-----------------------------------------------------------------------------
(***************************************************************************)
(* The room's row and its players' rows name the same host, who is still    *)
(* there: the two are written apart, by a leaving host's transaction.       *)
(***************************************************************************)
HostIsPresent ==
  \/ host = None /\ isHost = {}
  \/ host \in connected /\ isHost = {host}

(* A room loses its host only with its last connected player.               *)
HostlessOnlyWhenDeserted ==
  [][host # None /\ host' = None => connected' = {}]_vars

(* A lobby is never overfull, and every game has as many players as there   *)
(* are cards for: what the deal of two killers relies on.                   *)
LobbyNeverOverfull ==
  /\ Cardinality(connected) <= RoomSize
  /\ \A g \in 1 .. Len(games) : Cardinality(games[g].seat) = RoomSize

(* Whoever is connected while a game is on holds a card in it: nobody is    *)
(* added to the rows a game counts.                                         *)
NobodyWithoutSeat == games # <<>> => connected \subseteq games[Len(games)].seat

(* At most one game of a room is running, the current one.                  *)
OneRunningGame == \A g \in 1 .. Len(games) - 1 : games[g].ended

(* A game is started or restarted on a request of the player who is host at *)
(* that moment, however long ago the middleware looked.                     *)
StartedByTheHost ==
  [][Len(games') > Len(games) => host \in cleared \ cleared']_vars

(* A rematch is played by the players of the game before, all of them: the  *)
(* room cannot be restarted once anybody has left, nor with anybody new.    *)
RematchAmongTheSame ==
  [][games # <<>> /\ Len(games') > Len(games) =>
       games'[Len(games')].seat = games[Len(games)].seat]_vars

(* A lobby with somebody in it has a host, who can start the game.          *)
(* The code breaks this: after everybody has left, whoever joins is a guest.*)
LobbyHasHost == status = "lobby" /\ connected # {} => host # None
=============================================================================
