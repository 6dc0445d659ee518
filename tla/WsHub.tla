-------------------------------- MODULE WsHub --------------------------------
(***************************************************************************)
(* The WebSocket hub of the Go backend (modules/ws) and the events the      *)
(* other modules' handlers publish through it after their transactions.     *)
(*                                                                          *)
(* A connection is served by two goroutines: the reader, which registers    *)
(* and subscribes the client and unregisters it when reading fails, and the *)
(* writer, which takes messages off the client's queue, a Go channel of     *)
(* QueueLen places.  A handler publishes by broadcasting, one key after the *)
(* other, into the queues of the clients subscribed to that key; a queue    *)
(* that is full is passed over.  Sending on a closed channel panics.        *)
(*                                                                          *)
(* What a handler publishes is settled only after its transaction: some     *)
(* read the room or the game back first, answer with an error when that     *)
(* fails, and a vote's handler publishes only what it then reads.           *)
(*                                                                          *)
(* The hub's maps are locked: each locked section is one step.  Broadcasts  *)
(* share the lock, so two of them may reach two clients in different        *)
(* orders; nothing here compares what two clients receive.                  *)
(***************************************************************************)
EXTENDS Integers, Sequences, SequencesExt

CONSTANTS
  Conn,         \* the connections that may be made, each of them once
  Room,         \* room codes, which clients subscribe by
  RoomID,       \* the id of a room: a key, and nobody's room code
  Game,         \* game ids
  None,         \* an empty parameter
  QueueLen,     \* places in a client's channel: 64 in the code
  MaxPublished  \* bound: requests whose handlers may publish events

ASSUME HubConstants ==
  /\ RoomID \notin Room
  /\ None \notin Room \cup Game
  /\ QueueLen \in Nat \ {0}
  /\ MaxPublished \in Nat

VARIABLES
  clients,      \* the hub's set of registered clients
  roomSubs,     \* who is subscribed to a room's key
  gameSubs,     \* who is subscribed to a game's key
  queue,        \* the client's channel, first to be written first
  closed,       \* the clients whose channel is closed
  link,         \* the connection: up, its peer gone, or closed by the server
  reader,       \* where the reader of a connection is
  writer,       \* where the writer of a connection is
  got,          \* the events that were written to the peer
  overrun,      \* the clients an event was dropped for: their queue was full
  published     \* the requests whose handlers may publish, in order

hubVars == <<clients, roomSubs, gameSubs, closed>>
vars == <<hubVars, queue, link, reader, writer, got, overrun, published>>

RoomKey == Room \cup {RoomID}

Names == {"room.player", "room.updated", "game.started", "game.phase_changed",
          "game.vote_started", "game.vote_result"}

(* An event is known by the request it tells of and its name. *)
Control == <<0, "ws.control">>
Event   == ((1 .. MaxPublished) \X Names) \cup {Control}

Kinds == {"players", "started", "restarted", "discussion", "voting", "voted"}

(* Where a handler is after its commit: reading back what it is to answer,  *)
(* publishing, or done without having published anything.                   *)
HandlerSteps == {"reading", "publishing", "silent"}

TypeOK ==
  /\ clients \subseteq Conn
  /\ roomSubs \in [RoomKey -> SUBSET Conn]
  /\ gameSubs \in [Game -> SUBSET Conn]
  /\ \A c \in Conn : queue[c] \in Seq(Event) /\ Len(queue[c]) <= QueueLen
  /\ closed \subseteq Conn
  /\ link \in [Conn -> {"none", "up", "gone", "closed"}]
  /\ reader \in [Conn -> {"none", "greeting", "reading", "subscribing", "answering", "done"}]
  /\ writer \in [Conn -> {"none", "running", "done"}]
  /\ got \in [Conn -> SUBSET Event]
  /\ overrun \subseteq Conn
  /\ \A n \in 1 .. Len(published) : /\ published[n].kind \in Kinds
                                    /\ published[n].game \in Game \cup {None}
                                    /\ published[n].audience \subseteq Conn
                                    /\ published[n].step \in HandlerSteps

Init ==
  /\ clients = {}
  /\ roomSubs = [k \in RoomKey |-> {}]
  /\ gameSubs = [g \in Game |-> {}]
  /\ queue = [c \in Conn |-> <<>>]
  /\ closed = {}
  /\ link = [c \in Conn |-> "none"]
  /\ reader = [c \in Conn |-> "none"]
  /\ writer = [c \in Conn |-> "none"]
  /\ got = [c \in Conn |-> {}]
  /\ overrun = {}
  /\ published = <<>>

-----------------------------------------------------------------------------
(* The hub's maps. *)

(* subscribeRoomLocked and subscribeGameLocked: an empty key is passed over, *)
(* and an earlier subscription is kept.                                     *)
Subscribed(subs, key, c) ==
  IF key = None THEN subs ELSE [subs EXCEPT ![key] = @ \cup {c}]

Without(subs, c) == [key \in DOMAIN subs |-> subs[key] \ {c}]

(* Unregister removes the client from every map and closes its channel; of  *)
(* a client that is not registered it does nothing.                         *)
Unregister(c) ==
  /\ clients' = clients \ {c}
  /\ IF c \in clients
     THEN /\ roomSubs' = Without(roomSubs, c)
          /\ gameSubs' = Without(gameSubs, c)
          /\ closed' = closed \cup {c}
     ELSE UNCHANGED <<roomSubs, gameSubs, closed>>

HasPlace(c) == Len(queue[c]) < QueueLen

(* Faulty variant: the send takes a place whether there is one or not. *)
SendUnbounded(to, event) ==
  /\ queue' = [c \in Conn |-> IF c \in to THEN Append(queue[c], event) ELSE queue[c]]
  /\ UNCHANGED overrun

(* Sends that do not wait, into the queues of `to' that have a place.        *)
Send(to, event) ==
  /\ queue' = [c \in Conn |-> IF c \in to /\ HasPlace(c)
                              THEN Append(queue[c], event) ELSE queue[c]]
  /\ overrun' = overrun \cup {c \in to : ~HasPlace(c)}

-----------------------------------------------------------------------------
(* The reader of a connection. *)

ServeWS(c, room, game) ==
  /\ reader[c] = "none"
  /\ link' = [link EXCEPT ![c] = "up"]
  /\ clients' = clients \cup {c}
  /\ roomSubs' = Subscribed(roomSubs, room, c)
  /\ gameSubs' = Subscribed(gameSubs, game, c)
  /\ reader' = [reader EXCEPT ![c] = "greeting"]
  /\ UNCHANGED <<queue, closed, writer, got, overrun, published>>

(* The first ws.connected; then the writer is started. *)
Greet(c) ==
  /\ reader[c] = "greeting"
  /\ Send({c}, Control)
  /\ reader' = [reader EXCEPT ![c] = "reading"]
  /\ writer' = [writer EXCEPT ![c] = "running"]
  /\ UNCHANGED <<hubVars, link, got, published>>

(* A message of the peer: it subscribes to a room, a game or both, or, with  *)
(* neither, is a ping; each is answered by a control event.  The hub is     *)
(* locked for each subscription on its own.                                 *)
SubscribeRoom(c, room) ==
  /\ reader[c] = "reading"
  /\ link[c] = "up"
  /\ roomSubs' = Subscribed(roomSubs, room, c)
  /\ reader' = [reader EXCEPT ![c] = "subscribing"]
  /\ UNCHANGED <<clients, gameSubs, closed, queue, link, writer, got, overrun, published>>

SubscribeGame(c, game) ==
  /\ reader[c] = "subscribing"
  /\ gameSubs' = Subscribed(gameSubs, game, c)
  /\ reader' = [reader EXCEPT ![c] = "answering"]
  /\ UNCHANGED <<clients, roomSubs, closed, queue, link, writer, got, overrun, published>>

Answer(c) ==
  /\ reader[c] = "answering"
  /\ Send({c}, Control)
  /\ reader' = [reader EXCEPT ![c] = "reading"]
  /\ UNCHANGED <<hubVars, link, writer, got, published>>

(* Reading fails once the connection is closed or the peer's pongs are       *)
(* missing for a minute; the reader unregisters the client and closes.      *)
ReadFails(c) ==
  /\ reader[c] = "reading"
  /\ link[c] \in {"gone", "closed"}
  /\ Unregister(c)
  /\ reader' = [reader EXCEPT ![c] = "done"]
  /\ link' = [link EXCEPT ![c] = "closed"]
  /\ UNCHANGED <<queue, writer, got, overrun, published>>

-----------------------------------------------------------------------------
(* The writer of a connection. *)

Dequeue(c) ==
  /\ writer[c] = "running"
  /\ queue[c] # <<>>
  /\ queue' = [queue EXCEPT ![c] = Tail(@)]

WriterEnds(c) ==
  /\ writer' = [writer EXCEPT ![c] = "done"]
  /\ link' = [link EXCEPT ![c] = "closed"]

Write(c) ==
  /\ Dequeue(c)
  /\ link[c] = "up"
  /\ got' = [got EXCEPT ![c] = @ \cup ({Head(queue[c])} \ {Control})]
  /\ UNCHANGED <<hubVars, link, reader, writer, overrun, published>>

(* Faulty variant: the writer leaves and closes nothing. *)
WriteFailsSilently(c) ==
  /\ Dequeue(c)
  /\ writer' = [writer EXCEPT ![c] = "done"]
  /\ UNCHANGED <<hubVars, link, reader, got, overrun, published>>

(* Faulty variant: the writer unregisters the client as the reader does. *)
WriteFailsUnregistering(c) ==
  /\ Dequeue(c)
  /\ Unregister(c)
  /\ WriterEnds(c)
  /\ UNCHANGED <<reader, got, overrun, published>>

(* A write that fails, or takes longer than the peer is given.              *)
WriteFails(c) ==
  /\ Dequeue(c)
  /\ WriterEnds(c)
  /\ UNCHANGED <<hubVars, reader, got, overrun, published>>

PingFails(c) ==
  /\ writer[c] = "running"
  /\ link[c] \in {"gone", "closed"}
  /\ WriterEnds(c)
  /\ UNCHANGED <<hubVars, queue, reader, got, overrun, published>>

(* The channel is closed and what was in it is written. *)
WriterSeesClose(c) ==
  /\ writer[c] = "running"
  /\ c \in closed
  /\ queue[c] = <<>>
  /\ WriterEnds(c)
  /\ UNCHANGED <<hubVars, queue, reader, got, overrun, published>>

PeerLeaves(c) ==
  /\ link[c] = "up"
  /\ link' = [link EXCEPT ![c] = "gone"]
  /\ UNCHANGED <<hubVars, queue, reader, writer, got, overrun, published>>

-----------------------------------------------------------------------------
(* What the handlers broadcast, and to which keys, in order.                *)

PublishRoom(name, room) == <<[scope |-> "room", key |-> room, name |-> name]>>

PublishRoomAndGame(name, room, game) ==
  PublishRoom(name, room) \o <<[scope |-> "game", key |-> game, name |-> name]>>

PublishGamePhaseChanged(to, room, game) ==
  PublishRoomAndGame("game.phase_changed", room, game)
    \o (IF to = "voting" THEN PublishRoomAndGame("game.vote_started", room, game) ELSE <<>>)

(* Faulty variant: the start is told under the game's id and the room's id. *)
PublishGameStartedByIDs(room, game) ==
  PublishRoomAndGame("game.started", RoomID, game)
    \o PublishGamePhaseChanged("role_reveal", RoomID, game)

PublishGameStarted(room, game) ==
  PublishRoomAndGame("game.started", room, game)
    \o PublishGamePhaseChanged("role_reveal", room, game)

PublishPlayers(room) ==
  PublishRoom("room.player", room) \o PublishRoom("room.updated", room)

PublishRestart(room, game) ==
  PublishRoom("room.updated", room) \o PublishGameStarted(room, game)

PublishVote(game) ==
  PublishGamePhaseChanged("vote_result", RoomID, game)
    \o PublishRoomAndGame("game.vote_result", RoomID, game)

(* The handlers of the room have its code at hand; those of the game and of *)
(* votes have its id.                                                       *)
Broadcasts(kind, room, game) ==
  CASE kind = "players"                    -> PublishPlayers(room)
    [] kind = "started"                    -> PublishGameStarted(room, game)
    [] kind = "restarted"                  -> PublishRestart(room, game)
    [] kind \in {"discussion", "voting"}   -> PublishGamePhaseChanged(kind, RoomID, game)
    [] kind = "voted"                      -> PublishVote(game)

IsStarted(game) ==
  \E n \in 1 .. Len(published) :
    published[n].kind \in {"started", "restarted"} /\ published[n].game = game

(***************************************************************************)
(* A service's transaction commits; its handler goes on to `step'.  The     *)
(* followers of the room or game at that moment are remembered, and what    *)
(* the handler will broadcast if it comes to that.                          *)
(***************************************************************************)
Commit(kind, room, game, audience, step) ==
  /\ Len(published) < MaxPublished
  /\ published' = Append(published, [kind |-> kind, game |-> game, audience |-> audience,
                                     step |-> step, left |-> Broadcasts(kind, room, game)])
  /\ UNCHANGED <<hubVars, queue, link, reader, writer, got, overrun>>

PlayerJoinsOrLeaves(room) == Commit("players", room, None, roomSubs[room], "reading")

(* A start needs no reading back, a restart reads the room's players.       *)
GameStarts(kind, room, game) ==
  /\ ~IsStarted(game)
  /\ \/ kind = "started" /\ Commit(kind, room, game, roomSubs[room], "publishing")
     \/ kind = "restarted" /\ Commit(kind, room, game, roomSubs[room], "reading")

(* The host opens the discussion or the voting; or the last vote's request  *)
(* advances the game, and reads it back.  (The requests that confirm a role *)
(* or act at night advance a game, too; their handlers publish nothing.)    *)
PhaseChanges(kind, room, game) ==
  /\ IsStarted(game)
  /\ \/ /\ kind \in {"discussion", "voting"}
        /\ Commit(kind, room, game, gameSubs[game], "publishing")
     \/ kind = "voted" /\ Commit(kind, room, game, gameSubs[game], "reading")

ReadsBack(n) ==
  /\ published[n].step = "reading"
  /\ published' = [published EXCEPT ![n].step = "publishing"]
  /\ UNCHANGED <<hubVars, queue, link, reader, writer, got, overrun>>

(***************************************************************************)
(* Nothing is published.  Reading back fails: what was committed stays, the *)
(* request ends in an error.  Or a vote's handler does not read vote_result *)
(* back, for the phase its request advanced was another or a request in     *)
(* flight has moved the game on since; GameEngine has both.                 *)
(***************************************************************************)
EndsSilently(n) ==
  /\ published[n].step = "reading"
  /\ published' = [published EXCEPT ![n].step = "silent"]
  /\ UNCHANGED <<hubVars, queue, link, reader, writer, got, overrun>>

(* BroadcastRoom, BroadcastGame: the next key of a publishing handler.      *)
Broadcast(n) ==
  /\ published[n].step = "publishing"
  /\ published[n].left # <<>>
  /\ LET next == Head(published[n].left)
         to   == IF next.scope = "room" THEN roomSubs[next.key] ELSE gameSubs[next.key]
     IN  Send(to, <<n, next.name>>)
  /\ published' = [published EXCEPT ![n].left = Tail(@)]
  /\ UNCHANGED <<hubVars, link, reader, writer, got>>

-----------------------------------------------------------------------------
ReaderStep(c) ==
  Greet(c) \/ (\E game \in Game \cup {None} : SubscribeGame(c, game)) \/ Answer(c) \/ ReadFails(c)

WriterStep(c) == Write(c) \/ WriteFails(c) \/ PingFails(c) \/ WriterSeesClose(c)

Next ==
  \/ \E c \in Conn, room \in Room \cup {None}, game \in Game \cup {None} :
       ServeWS(c, room, game)
  \/ \E c \in Conn, room \in Room \cup {None} : SubscribeRoom(c, room)
  \/ \E c \in Conn : ReaderStep(c)
  \/ \E c \in Conn : WriterStep(c)
  \/ \E c \in Conn : PeerLeaves(c)
  \/ \E room \in Room : PlayerJoinsOrLeaves(room)
  \/ \E kind \in Kinds, room \in Room, game \in Game :
       GameStarts(kind, room, game) \/ PhaseChanges(kind, room, game)
  \/ \E n \in 1 .. Len(published) : ReadsBack(n) \/ EndsSilently(n) \/ Broadcast(n)

Spec == Init /\ [][Next]_vars

(* A connection's goroutines run on; nobody need connect, write or publish. *)
FairSpec ==
  /\ Spec
  /\ \A c \in Conn : WF_vars(ReaderStep(c)) /\ WF_vars(WriterStep(c))

-----------------------------------------------------------------------------
(* Nobody sends on a closed channel, which would take the server down: the  *)
(* hub sends to subscribers, a reader to its own client until it has        *)
(* unregistered it.                                                         *)
NeverSendsOnClosed ==
  \A c \in closed :
    /\ \A key \in RoomKey : c \notin roomSubs[key]
    /\ \A game \in Game : c \notin gameSubs[game]
    /\ reader[c] = "done"

(***************************************************************************)
(* Who followed a room or a game when something was committed is told of it *)
(* by the time the handler is done: the event was written to it or waits in *)
(* its queue, unless its queue was full once or it has left.  A game's start *)
(* is for the followers of the room, a change of phase only for those who   *)
(* follow the game: its handlers do not know the room's code.               *)
(*                                                                          *)
(* A start and a phase the host opens are told in any case.  A join, a      *)
(* leave, a restart and a vote's result are not when reading back fails,    *)
(* and a vote's result is not when the vote's request was not the one to    *)
(* bring it about or finds the game moved on.                               *)
(***************************************************************************)
Promised(kind) ==
  CASE kind = "players"                    -> {"room.updated"}
    [] kind \in {"started", "restarted"}   -> {"game.started", "game.phase_changed"}
    [] kind = "discussion"                 -> {"game.phase_changed"}
    [] kind = "voting"                     -> {"game.phase_changed", "game.vote_started"}
    [] kind = "voted"                      -> {"game.phase_changed", "game.vote_result"}

HandlerIsDone(request) ==
  \/ request.step = "silent"
  \/ request.step = "publishing" /\ request.left = <<>>

FollowersAreTold ==
  \A n \in 1 .. Len(published) :
    HandlerIsDone(published[n]) =>
      \/ published[n].step = "silent" /\ published[n].kind \in {"players", "restarted", "voted"}
      \/ \A c \in published[n].audience : \A name \in Promised(published[n].kind) :
           \/ <<n, name>> \in got[c] \cup ToSet(queue[c])
           \/ c \in overrun
           \/ reader[c] = "done" \/ writer[c] = "done"

(* A connection whose peer has gone, or one of whose goroutines has given   *)
(* up, is forgotten: unregistered, closed, and both goroutines end.         *)
GoneIsForgotten ==
  \A c \in Conn :
    (link[c] \in {"gone", "closed"} \/ writer[c] = "done")
      ~> (/\ c \notin clients
          /\ link[c] = "closed"
          /\ reader[c] = "done"
          /\ writer[c] = "done")
=============================================================================
