# Alszik a város: verification project

TLA+ models of *Alszik a város*, a narratorless Mafia game: a Go backend
(`src/backend`, gorm on Postgres, chi, gorilla WebSocket) that owns the state of
rooms and games, and a Flutter client (`src/lib`) that polls it and listens for
events. The models are checked with TLC on small instances; theorems about them
are proved with TLAPS for every value of the constants.

## The system

| Component | State it keeps | Operations | What is hard |
|---|---|---|---|
| Game rules (`modules/game/*_service.go`, `phase_helpers.go`, `action/rules.go`) | none | order of phases, deal of cards, night and vote outcome, winner | ties, parity, living and dead, a random tie-break |
| Game engine (`phase_transition_service.go`, `service.go`, `action/service.go`, `vote/service.go`) | `games`, `player_roles`, `night_actions`, `votes`, `phase_logs`, `players.is_alive` | confirm role, night action, vote, advance, start discussion, start voting | every request is two transactions; what runs between them; a failure of the second; no timer |
| Rooms (`modules/room`) | `rooms`, `players` | create, join, leave, start, restart | host handover, the last to leave, who is counted alive, a restart over an old game |
| Sessions and authorisation (`internal/auth`) | none (reads `players`) | session, room membership, host of the room | checks made before the transaction that relies on them |
| WebSocket hub (`modules/ws`) | clients, subscriptions, send queues | register, unregister, subscribe, broadcast | bounded queues that drop, several goroutines, which key an event is sent under |
| Client game state (`game_notifier.dart`) | snapshot, poll timer | initialize, refresh, restart, dispose | refreshes that overlap and fail; answers that are not of the form it parses |
| Client connection (`websocket_service.dart`) | socket, state, back-off | connect, retry, disconnect, dispose | state changed across an `await` |
| Client session (`session_*`, `room_entry_controller.dart`) | persisted token, player, room | save, read, clear; create and join a room | a crash between two writes |
| Row locks and the pool (`database/database.go`, the `FOR UPDATE`s of every repository, the foreign keys) | locks held, connections in use | the transactions of every handler | the order rows are locked in, a query beside a transaction |
| Client rules (`game/domain/services`) | none | the Dart copies of the rules | agreement with the backend's |
| Mock backend (`mock_backend_state.dart`) | rooms and games in memory | the whole API | a second state machine of the same game |

Interactions. A client's HTTP call passes the session middleware and becomes one
or two database transactions of a service; the engine, the resolvers and the
room service share the `games` and `players` tables and order themselves by row
locks (`SELECT ... FOR UPDATE` on the game or on the room). A handler then reads
back what it is to answer and publishes events to the hub, which only tell a
client to ask again: the state a client would show is to come from `GetState`.

What makes each component correct: the rules are total and unambiguous; a game
waits for everybody it should and for nobody else, resolves everything once,
ends when and only when a side has won, and never gets stuck; a room has a host
as long as somebody is there to be one, never seats more players than it may and
has one running game at most; an event that is published reaches the clients it
is about; a client keeps its connection and its session, and does not stop asking
for the game's state. (It ought to show that state, too. It does not: see *The
client keeps asking* below.)

`PROJECT.json` lists the hazards line by line.

## Modules

- **`GameRules.tla`** has the rules as operators on sets and functions, no state.
  `role` maps players to cards, a ballot box maps players to targets or `None`.
  The code counts into a hash map and walks it in random order; `Leaders` is the
  set that walk ends with, and the tie-breaker's choice is a choice from it.
- **`GameEngine.tla`** is one game from the commit of `StartGame` or
  `RestartRoom`. Its state is the rows the code reads and writes:

  | Variable | Code |
  |---|---|
  | `game` | the `games` row: phase, day, winner, `ended_at`, the two result columns |
  | `role` | `player_roles` of the game |
  | `alive` | `players.is_alive` of the room's rows |
  | `hosted` | whether a player of the room is its host |
  | `restarted` | whether `rooms.current_game_id` names a later game |
  | `confirmed` | `role_reveal.confirmed` rows of `phase_logs` |
  | `actions`, `votes` | `night_actions` and `votes` of the current day |
  | `inflight` | requests between their first and their second transaction |

  A request is `ConfirmRoleReveal`, `SubmitNightAction` or `SubmitVote` followed
  by `AdvanceIfComplete`; each takes the row lock of the game first, so each is
  one step, and anything can happen between the two. `AdvanceIfComplete` is one
  transaction split by what it finds: `AdvanceIncomplete` (nothing to do),
  `AdvanceToNextPhase`, `AdvanceNightResolve`, `AdvanceVoting`,
  `AdvanceVoteResultToEnd`, `AdvanceVoteResultToNight`. Requests in flight are
  interchangeable, because `AdvanceIfComplete` takes only the id of the game: a
  number is all that matters of them. `RequestFails` is a request whose second
  transaction is rolled back or whose process dies. `StartDiscussion` and
  `StartVoting` are the host's, one transaction each; `RoomLosesHost` is the
  host leaving a room with nobody else connected. `RestartRoom` is the host's
  restart of a room whose game has ended: `is_alive` is a column of the room's
  rows, not of the game's, and `MarkAllPlayersAlive` sets it for all of them.
  `LaterGames` is what the games of the restarted room do to that column from then
  on, while `GetState` still serves this one. `UpdateGame(row, g)` is
  gorm's `Save`: it writes every column of the row that was read at the start,
  so what a resolver set in between is lost. The definition keeps both arguments
  to show at each use what is overwritten.

  Rows of earlier days are never read again, so `actions` and `votes` are
  emptied when the day moves on. `CanAct` and `AvailableTargets` are the moves
  `GetState` offers.
- **`RoomService.tla`** is one room from before it is created: its row
  (`status`, `host`), the rows of its players (`joinedAt`, `connected`,
  `isHost`), its `games` as who was dealt a card and whether it is over, and
  `cleared`, the host's requests that have passed the middleware
  (`RequireHostOfCurrentRoom`) and not yet reached their transaction. Every
  operation of the service locks the room's row first, so each is one step:
  `CreateRoom`, `JoinRoom`, `LeaveRoom`, `StartGame`, `RestartRoom`;
  `RequestRefused` is a cleared request that is turned down inside its
  transaction (or dies before it). `GameEnds` is the engine's. `GameEngine`
  begins where `DealGame` ends: its `Player` is `Rows`, its `Seat` the `seat` of
  the last game, its `hosted` is `host # None`.
- **`TownGame.tla`** is the abstract game the players are promised, with no
  requests, transactions or collecting phases: `Dawn` takes a choice of every
  living killer and of a living doctor, `Verdict` a choice of every living
  player, and who dies and who has won follows from those choices.
  When the game is over, the players may `Leave` it for another one, and who lives
  `Elsewhere` is not this game's to say.
  `GameEngine` implements it as `Town == INSTANCE TownGame WITH ...`: `Scene`
  folds the nine phases of a game into four and has a fifth, `left`, for a room that was
  restarted; `living` is `alive` among the seated, and the
  rows of a day become its `deeds` and `ballot` once the round is over. Every
  request, advance and failure that only collects is a stutter.
- **`WsHub.tla`** is the hub and what the handlers publish through it. A
  connection is its two goroutines (`reader`, `writer`), its TCP link, its queue
  (a Go channel of `QueueLen`, 64 in the code) and its place in the hub's three
  maps, which one mutex guards, so a locked section is a step; a message of the
  peer is three (`SubscribeRoom`, `SubscribeGame`, `Answer`). `Commit` is a
  service's transaction and remembers who followed the room or the game then.
  Its handler publishes at once (a start, a phase the host opens) or first reads
  back what it is to answer (a join, a leave, a restart, a vote): then it
  `ReadsBack` and publishes, or `EndsSilently`, because the read failed or, for a
  vote, because the phase it finds is not the `vote_result` its own request brought
  about. `Broadcasts` lists what a handler of that kind sends, key after key, and
  `Broadcast` sends the next, passing over full queues.
- **`WebSocketService.tla`** is the client's end of a connection. A call of
  `connect`, `retry` or `disconnect` and a firing of the reconnect timer is a
  task; a step is what Dart runs between two awaits, and reads the fields
  (`room`, `manual`, `timer`, `channel`, `sub`) as they are by then. A channel
  that was replaced keeps its state and its listener, because its end can still
  be told to the service. `AwaitClosing` sets apart the close of a channel that has
  not opened: nobody listens to it, the library (`web_socket_channel`, which is
  not part of the repository) completes a close through the listener, and so its
  future need not complete. A task that awaits one (`MayHang`) may go on or not.
- **`RowLocks.tla`** has the room's and the game's handlers as lists of what they
  ask of the database in order (begin, lock a row in a mode, a query beside the
  transaction, commit). `share` and `nokey` are the locks PostgreSQL takes for
  the foreign keys of an insert and for an update, `update` the explicit ones.
  Rows that a `SELECT ... ORDER BY joined_at ... FOR UPDATE` takes are a list of
  `InOrder`; those an `UPDATE` of the whole room takes have no order
  (`InAnyOrder`).
  `Abort` is PostgreSQL breaking a cycle of waits; nobody breaks a wait for the
  pool, since the code sets no timeout.
- **`ClientApp.tla`** is the Flutter client from its start to a game: the three
  keys of a session, each written by its own awaited call (`stored` on the
  device, `session` in memory), the screens, and the `GameNotifier` of the game's
  screen with the requests it has under way (`game.asks`). Every refresh ends in
  its `catch` (`RefreshEnds`): `shared.OK` wraps the state in `{success, data}`,
  which `refresh` does not unwrap, and `FilteredGameStateResponse` has no `room`,
  `game` and `currentPlayerId`, so `GameSnapshot.fromJson` throws on whatever this
  backend answers. The client's own mock backend is not modelled, and neither is
  what only a snapshot leads to: the state shown, and `restartGame`, which needs the
  room's code. `alone`, `owed` and `overwriting` are history for the properties.
  It assumes what the screens see to: one game screen at a time, opened when no
  session task runs, and one entry into a room at a time. Logouts may overlap:
  the button of the home screen stays enabled.
- **`MCGameEngine.tla`**, **`MCRoomService.tla`**, **`MCRowLocks.tla`** instantiate
  them for TLC; the others need only constants of their cfg. Players are
  interchangeable, so the safety runs of the first two declare them symmetric.
- **`GameEngine_proofs.tla`**, **`TownGame_proofs.tla`**, **`RoomService_proofs.tla`**,
  **`WsHub_proofs.tla`**, **`RowLocks_proofs.tla`**, **`WebSocketService_proofs.tla`**,
  **`ClientApp_proofs.tla`** have the theorems.

How they fit together. `GameEngine` begins where `RoomService`'s `DealGame` ends
and refines `TownGame`. Both assume what `RowLocks` looks into, that a request
waiting for rows gets them. `WsHub` takes the commits of both as its input, and
what it sends is what `WebSocketService` keeps a connection for; `ClientApp` is
what the client does without any of it, which is to poll.

A definition whose comment begins "Faulty variant" is not part of the model: it
is a plausible mistake in the definition that follows it. Put in its place, each
one breaks a property of a run, which shows that the property can be broken.

## Runs

| Run | Instance | Checks |
|---|---|---|
| `engine_safety` | 5 seats, 2 killers, 2 days, 3 in flight, failures | `TypeOK`, `NoInputSkipped`, `WinnerMatchesTown`, `OneDeathPerResolution`, `OfferedMovesAreAccepted`, `DeathsAreEarned`, `EndedIsFinal`, `ImplementsTown` |
| `engine_progress` | 4 seats, 1 killer, 2 days, 2 in flight, no failures, fair | `SomeoneWillAdvance`, `CompletePhaseIsLeft` |
| `room_service` | 5 players, rooms of 3, 3 games | `TypeOK`, `HostIsPresent`, `LobbyNeverOverfull`, `NobodyWithoutSeat`, `OneRunningGame`, `HostlessOnlyWhenDeserted`, `StartedByTheHost`, `RematchAmongTheSame` |
| `ws_hub` | 1 connection, 1 room, 1 game, a queue of 2, 2 commits, fair | `TypeOK`, `NeverSendsOnClosed`, `FollowersAreTold`, `GoneIsForgotten` |
| `websocket_service` | 2 rooms, 3 tasks, 5 channels, 3 calls, 2 faults, fair | `TypeOK`, `NeverForgotten`, `StatusIsHonest`, `ComesBack` |
| `row_locks` | 3 requests, 2 players, a pool of 3, fair | `TypeOK`, `DeadlocksNeedTheHost`, `OnlyVotesStarve`, `AnsweredUnlessVoteStarves` |
| `client_app` | 2 sessions, 2 logouts and a save at once, 5 requests under way, 3 faults, fair | `TypeOK`, `RestoredWhole`, `LoadingMeansAsking`, `RestoredIsOwed`, `KeepsAsking` |
| `lobby_without_host` | 3 players, rooms of 2 | `LobbyHasHost` is violated |
| `night_unresolved` | 4 seats, fair | `NightIsResolved` is violated |
| `discussion_by_straggler` | 4 seats, 3 in flight | `HostOpensDiscussion` is violated |
| `vote_result_lost` | 4 seats | `VoteResultIsPublished` is violated |
| `lobby_leaver_blocks_reveal` | 4 seats and a player who left the lobby, fair | `RevealIsOver` is violated |

Bounds. The code seats exactly six players (a lobby holds at most six,
`room/service.go:14`, and a game needs six, `:284`) and deals two killers. Five
seats and two killers keep killers a minority, have a tie between killers, a
doctor and a vote that can go either way, and already take 1.3 million
states; the proofs cover six and any other number. Two days are the least with a
night whose rows could be confused with an earlier night's. Three requests in
flight are what it takes to leave the night's turn, resolve it and open the day
with stragglers alone. A room of three with five players to come lets hosts leave twice, a
former host's place be taken by somebody new before the game starts, and the
lobby be deserted and filled again; a third game is a rematch of a rematch. No
run checks deadlock: a game and a room may really stop, and `night_unresolved`
is about just that; the others stop when their bounded inputs are used up.

In the hub, connections meet only in the sets of subscribers: what one does
changes nothing for another, so one connection with both its goroutines, a queue
that two commits overfill and a second commit between the broadcasts of the
first shows every interleaving; the theorems are about any number. In
`websocket_service` three tasks are a call and the timer inside another call's
awaits, and five channels are more than are ever referred to at once
(`MaxChannels` is not reached). Three requests close a cycle of three, and a pool
of three is exhausted by three of them; the pool is smaller than the code's
default so that it can be. In `client_app` a kill, a restart and another kill
take three faults. The client waits fifteen seconds for an answer while the
timer asks every three: five requests under way, which end in any order. Two
logouts and a save are three tasks that write the same keys.

Fairness. `FairSpec` asks for weak fairness of `AdvanceIfComplete` alone: a
handler's goroutine runs on after its first transaction and the row lock is
released by every other. Players and the host owe nobody a move, so none of
their actions is fair. With `Faults` off the fair step is also certain to
succeed; with `Faults` on it is not, a request is not retried, and neither
progress property holds. That is hazard `crash_recovery` of the list: the retry
of the client is refused as a duplicate before it comes to advancing.

`WsHub` is fair to the two goroutines of a connection, which nothing but their
own ends stops (the reader has a deadline of a minute for pongs, the writer ten
seconds for a write); nobody need connect or publish. `WebSocketService` is fair to
Dart's event loop: awaited futures complete, except that of closing a channel that
has not opened; a timer that runs fires, and a listener
is told of the end of its channel. `ComesBack` has a premise of its own,
`AnswersInTime`: from some time on an opening ends before the timer fires (three
seconds), and the bound on faults says that the network fails finitely often.
`RowLocks` is fair to every request that can go on; PostgreSQL's detection of
cycles is its part of it. `ClientApp` is fair to the periodic timer and to
the end of every request, which has a timeout; how it ends does not matter, and
the bound on faults is about kills and the device's storage only. Users, and
sessions being written, owe nothing.

What the runs that pass show, beyond their names:

- *Deadlocks need the host.* Votes, night actions, confirmations and advances
  agree on their order and never wait in a cycle. A host who leaves locks
  everybody's row, and a restart the host's row before the game's: these two can
  wait in a cycle with votes, actions and advances, and PostgreSQL aborts one. If
  what it aborts is a second transaction, nobody retries it.
- *Votes can starve.* `HasVoted` uses the pool beside its transaction. When every
  connection is held by a vote or by who waits for it, all of them wait for ever,
  as no timeout is set. It is the one way a request goes unanswered, which
  `OnlyVotesStarve` says of any one state and `AnsweredUnlessVoteStarves` of
  where it all ends.
- *Followers are told by the key they subscribed to.* Changes of phase and results
  of votes are sent under the room's id, which no client subscribes by, and the
  game's id: a client that connects with a room code alone, as the app does,
  hears of the start of a game and of nothing later. Night actions, role reveals
  and new rooms publish nothing, and the branch that would send `game.ended` is
  never taken.
- *Some commits are told to nobody*, and `FollowersAreTold` says which: a join, a
  leave or a restart whose read after the commit fails (the request ends in an
  error, what it did stays done), and a vote's result when the vote's request was
  not the one that brought it about or a request in flight has moved the game on
  before the handler reads it back. The property promises the rest: a start and a
  phase the host opens always, the others whenever their handler publishes. It
  excuses a client whose queue was full.
- *A game that has ended stays as it ended, its survivors until the room is
  restarted.* `EndedIsFinal` has the restart in it: nothing changes the row of the
  game, but the restart revives all players of the room, and what `GetState` then
  shows as the living of the old game are those of the later ones. The other
  properties of the engine that speak of the living (`WinnerMatchesTown` and the
  like) hold until then and say so.
- *The client keeps asking*, as long as it stays on the screen, the failure of the
  first refresh included, and it stops showing that it loads. It does not read
  what it is answered: the backend and `GameNotifier.refresh` do not agree on the
  form of an answer (`shared/response.go:14` and `game/dto.go:54-68` against
  `game_notifier.dart:75-85` and `game_snapshot.g.dart:11-20`), so with this
  backend the screen shows its error text and no game. That is how the model has
  it, from the source, and not something a run discovers.
- *Half a session is no session.* A start finds what was saved last or nothing.
  The exception is in the property: a save over an earlier session that is cut
  short (or one that overlaps a logout) leaves the keys of two sessions.
- *"Connected" is shown of a connection*, but after a `disconnect` it may be one to
  an earlier room: an opening that was under way when the user disconnected is
  completed and listened to, whatever has been asked for since. `StatusIsHonest`
  says so (`manual \/ ...`). To another room it takes four calls (connect,
  disconnect, connect elsewhere, disconnect, the first opening being the
  slowest), one more than the run makes; the theorem is about any number.
- *The connection is never forgotten*, but a `connect` to the same room that comes
  while a `disconnect` is waiting returns early and is undone by it, and openings
  slower than the timer chase each other; hence `Wanted` and `AnswersInTime`. An
  opening that failed leaves its channel in place, and the next one first awaits
  the close of it, without a limit of time: if that never completes, neither does
  the reconnection. `NeverForgotten` counts such a task as under way, and `ComesBack`
  excuses it: it says that nothing else keeps a wanted connection from coming back.
  Neither speaks of a connection that an opening completes after a `disconnect`,
  for nothing is wanted by then.

Where a property draws a line. `OfferedMovesAreAccepted` compares offers and
checks in one state; an offer that has become stale meanwhile is refused, which
is not what it is about. `SomeoneWillAdvance` and `CompletePhaseIsLeft` are about a
server whose second transactions do not fail. `DeadlocksNeedTheHost` excuses the
cycles that have the host in them, which are real. `StatusIsHonest` excuses a service
that has something under way, and `RestoredWhole` a save over an earlier session.

What the violated runs show of the code:

1. *The night is not resolved.* The doctor's request advances `night_doctor` to
   `night_resolve` and returns. Nobody can make a request in that phase and
   nothing else runs, so the game stands still, unless an earlier request is
   still in flight. `vote_result`, and `night_doctor` once the doctor is dead,
   are left only by such stragglers as well.
2. *A straggler opens the discussion.* `day_reveal` counts as complete, so a
   night request that has yet to advance does what only the host may.
3. *The result of the vote is lost.* The resolver writes the result column and
   the engine then saves the row it had read before; the night's result is lost
   in the same way.
4. *A player who left the lobby blocks the reveal.* The reveal waits for as many
   confirmations as the room has living rows, and a row outlives its player.
5. *A deserted lobby never has a host again.* `LeaveRoom` clears the host with
   the last player and `JoinRoom` makes everybody a guest.

## Proofs

`GameEngine_proofs.tla` assumes `ConstantsAssumption` only: finitely many
players, the seated among them, and fewer killers than others, which is what
`StartGame` and `AssignRoles` guarantee (two of six).

- `TypeCorrect`: `Spec => []TypeOK`, inductive by itself.
- `WinnerIsCorrect`: `Spec => []WinnerMatchesTown`, inductive with the types. Only the two
  resolutions change who is alive, and each saves the winner it computed from
  those it leaves, until a restart, which finds the game ended. That the deal leaves
  both sides in the game is a count (`InitialWinner`).
- `EndedGamesStay`: `Spec => EndedIsFinal`; every action but a failing or idle
  request, the restart and what follows it is disabled by the phase.
- `NoPhaseIsSkipped`: `Spec => []NoInputSkipped`. Not inductive: a phase is left when there
  are enough rows, which means that everybody acted only if every row counted is
  of a player who is waited for. `RowsAreOfTheLiving` says so, and
  `EnoughRowsAreAll` turns the count back into the set. The invariant
  `NoInputSkippedInv` is proved per action (`RequestsKeepRows`,
  `AdvanceKeepsRows`, `OtherStepsKeepRows`).
- `DeathsAreCounted`: `Spec => []OneDeathPerResolution`; a resolution buries one at most
  (`OneMoreDead`) and moves to a phase that counts one resolution more.
- `LastInputAdvances`: with `~Faults`, `Spec => []SomeoneWillAdvance`. A phase is
  entered without inputs of its own, which needs the two invariants above and
  `NoDoctorYet`, and every later input brings a request in flight.

`TownGame_proofs.tla` shows that the engine plays the game it should, under the same
assumption.

- `EngineImplementsTown`: `Spec => ImplementsTown`. The initial state maps to `Open`;
  a resolution maps to a round of the town, for which its rows must be a choice of
  everybody due and of nobody else: that is `NoInputSkipped` together with
  `RowsAreOfTheLiving`, and the reason the proof needs the engine's invariants.
  A restart is the town's `Leave`, a death in a later game its `Elsewhere`.
  Every other step leaves the mapped variables alone.
- `NobodyDiesUnchosen` and `OffersAreHonest` complete the engine's own properties.

`WsHub_proofs.tla` assumes nothing of the constants that the code does not give.

- `HubTypeCorrect`: `Spec => []TypeOK`, inductive by itself; what counts in it is that a
  queue never has more than its places, for `Dequeue` and every sender.
- `NobodySendsOnClosed`: a channel is closed only by the reader's `Unregister`,
  which takes the client out of every map in the same section and is the last
  thing its reader does.
- `FollowersAreAllTold`: `Spec => []FollowersAreTold`. While a handler is between
  two broadcasts its promise is kept by what is left: `ToldOrPending` says that of
  every event promised to a follower, either it was told or an item still to be
  broadcast will reach it, under the subscriptions as they are now. `NothingLost`
  is what a step of any connection has to respect for that to last, and
  `RoomBroadcasts` and `GameBroadcasts` show that each handler's list covers what
  is promised. That a handler ends silently only where it reads back is part of
  the invariant.

`RoomService_proofs.tla` assumes `RoomConstants` only: finitely many players and a
room of at least one.

- `RoomTypeCorrect`, `HostIsThere` (inductive: a leaving host's heir is one of those
  who stay, `HeirsAreConnected`), `HostIsReplaced` and `OnlyTheHostStarts` (from it:
  the flag rechecked in the transaction belongs to the room's host).
- `RoomsAreNeverOverfull`, `EverybodyIsSeated`, `OneGameAtATime` from one inductive
  invariant, `GamesInv`, whose further part `InGameOrLobby` ties the list of
  games to the status that closes the door.
- `RematchesAreAmongTheSame`: a restart needs a full room, those connected are among
  the seated and the seated were a full room, so they are the same. It is why a
  room that lost a player can never be restarted.

`ClientApp_proofs.tla` assumes `ClientConstants` only; its lemma
`StepsAreOfTwoKinds` splits the steps into those of the session and those of the
game's screen, which leave each other's variables alone.

- `ClientTypeCorrect`, and `LoadingEnds`: `Spec => []LoadingMeansAsking`. A request
  sets the flag as it is sent; its end, that of an older one too, and
  leaving the screen clear it.
- `SessionsAreWhole`: `Spec => []RestoredWhole`. The invariant is `SessionInv`: what a
  save or a logout has left to write is the end of the order of keys
  (`WritesInOrder`), so the token is written last and removed last
  (`TokenGoesLast`), and unless a save over an earlier session was cut short
  (`overwriting`), what is stored beside a token is of its session
  (`OneSessionStored`).
- `SavedIsRestored`: `Spec => RestoredIsOwed`, an action property, from `OwedInv`: the
  keys a task has written that overlapped no other are there, and at its end
  they are what is owed to the next start.

`WebSocketService_proofs.tla` assumes `ServiceConstants` only. One invariant,
`ServiceInv`, carries the three theorems `ServiceTypeCorrect`,
`ConnectionIsNeverForgotten` and `ConnectedIsHonest`.

- The property itself is not inductive: a task may drop the one channel that made
  it true. `WantedIsFollowed` says more, that the timer runs, or a channel of the
  room is listened to (up, or with its end still to be told), or some task has
  yet to choose its channel or awaits one of that room. A task that is past its
  choice of another room's channel counts for nothing there.
- `OpeningsAreSound` keeps an awaited channel a real one, whatever is reused
  meanwhile, `OpenedOnce` says that no other task awaits it and nobody listens to
  it yet, so that a refusal hits no channel that is in use, and
  `ShownIsListenedTo` is the part about the status.

`RowLocks_proofs.tla` assumes `LockConstants` only; the requests, players and
connections are any number.

- A handler is a list of steps, so the invariant `LockInv` speaks of what is left of
  a list. `Formed` says that it is transactions, each of which locks one row
  first and only first: the key, which is the room's row or the game's. `Shaped`
  adds what the kinds differ in: a start asks whether the room is a lobby right
  behind that lock, who comes or goes locks one player's row at most and last,
  and only the game's requests may have to bury somebody. The lemmas ending in
  `Ready` show that each handler starts like that, for any lists of players;
  `TailShaped` and `BuryShaped` that the steps keep it.
- `InTransaction` follows from the form: beyond its first lock a transaction holds
  the key for itself, and `Exclusive`, which is what `Acquire` guarantees, makes
  that mutual exclusion. `ByKind` ties the kinds to the committed status: a
  start that has found a lobby keeps it one (`OneStart`), a game request has found
  a game.
- `LocksTypeCorrect` (the pool never lends more than it has) follows at once.
  `OnlyTheHostDeadlocks`: in a cycle everybody holds something and waits. Whoever
  does so without being the host has the key and waits for a player's row, so the
  next in the cycle holds a player's row and waits, and so does the one after
  it. Either of these two has the room's row of a lobby or the game's of a room in
  game; the status is the same for both, so they hold the same row for
  themselves (`OneHolderOfAPlayer`).
  With the host it is not true: leaving or restarting locks several players' rows
  while a game's requests hold shares of them, or a player's row before the
  game's.
- `NobodyElseStarves`: `Spec => []OnlyVotesStarve`, the safety part of the run's
  liveness property. Who has a connection and cannot go on waits for a row, unless
  it is a vote that waits for its second connection (`NeverQueries`); a row that
  is waited for is held by somebody with a connection. So those with a
  connection wait for each other, and among finitely many requests there is a
  least such set (`DeadlockHasACycle`, by the library's well-foundedness of the
  subsets of a finite set): a cycle, which PostgreSQL breaks.

Only model-checked: the five liveness properties `CompletePhaseIsLeft`,
`GoneIsForgotten`, `ComesBack`, `KeepsAsking` and `AnsweredUnlessVoteStarves`, which
are about fairness and out of the prover's reach. Every safety property of the
runs that pass is a theorem. The runs that end in a violation have
counterexamples, and nothing to prove.

## Not modelled, and the plan

Not modelled for good: routing, configuration, running the migrations, the JSON
envelope, generated Dart models, widgets and screens, platform scaffolding. Most
of the game's screens are placeholders; the lobby's keeps no state of its own,
and its hazards are in the list. The engine's `ForceProgress`, `ResolveNight`,
`ResolveVotes` and `CheckWinCondition` are unreachable: no route and no other code
calls them. The client's Dart copies of the rules are called by no screen that
talks to a server, and the mock backend stands in for one during development:
both are about a program that is not the one modelled here.

Seen while modelling, and outside what a property here could say:

- The two sides do not agree on the form of a game's state (see *The client keeps
  asking*). `RoomEntryController` unwraps `data`; `GameNotifier` does not.
- `restartGame` needs the room's code from a state that was read, so against this
  backend it only reports that the code is missing. After a restart by other means
  the notifier would keep the id of the game that has ended.
- The lobby listens to the last event that ever arrived and acts on it again; it
  also connects after it has read the room, so a start in between is missed.
- A screen's `dispose` may stop the polling its successor has begun; whether it
  does depends on the version of Riverpod.
- `WebSocketService.disconnect` and `dispose` are called by no screen.

Left out of `GameEngine` so far: what `GetState` exposes beyond the moves, and how
the later games of a room come to the deaths they write (`LaterGames` lets them
bury anybody).

Next, in this order:

1. `Backend`: a room with the sequence of its games and the rows they share, so that
   `LaterGames` is another game of the engine and the hub's reads see its phase.
2. `Tally`: the counting loops of the Go and Dart services against `GameRules`
   over bounded ballots.
3. Theorems about `Backend` and `Tally` as they come: that the rooms' invariants and
   a game's survive the composition, from those proved here of each.
