------------------------------ MODULE WsHub_proofs ------------------------------
(***************************************************************************)
(* What is proved of the WebSocket hub, for any number of connections.      *)
(***************************************************************************)
EXTENDS WsHub, TLAPS

ReaderSteps == {"none", "greeting", "reading", "subscribing", "answering", "done"}

(* The parts of the state that decide where a send may go. *)
SubsTyped ==
  /\ closed \subseteq Conn
  /\ roomSubs \in [RoomKey -> SUBSET Conn]
  /\ gameSubs \in [Game -> SUBSET Conn]
  /\ reader \in [Conn -> ReaderSteps]

CloseInv == SubsTyped /\ NeverSendsOnClosed

LEMMA SubscribedOthers ==
  ASSUME NEW Keys, NEW subs \in [Keys -> SUBSET Conn], NEW key \in Keys \cup {None},
         NEW c \in Conn
  PROVE  /\ Subscribed(subs, key, c) \in [Keys -> SUBSET Conn]
         /\ \A d \in Conn \ {c}, k \in Keys : d \notin subs[k] => d \notin Subscribed(subs, key, c)[k]
BY DEF Subscribed

LEMMA WithoutOne ==
  ASSUME NEW Keys, NEW subs \in [Keys -> SUBSET Conn], NEW c \in Conn
  PROVE  /\ Without(subs, c) \in [Keys -> SUBSET Conn]
         /\ \A k \in Keys : c \notin Without(subs, c)[k] /\ Without(subs, c)[k] \subseteq subs[k]
BY DEF Without

LEMMA CloseStep ==
  ASSUME CloseInv, [Next]_vars
  PROVE  CloseInv'
<1> USE DEF CloseInv, SubsTyped, NeverSendsOnClosed, ReaderSteps
<1>1. ASSUME NEW c \in Conn, NEW room \in Room \cup {None}, NEW game \in Game \cup {None},
             \/ ServeWS(c, room, game)
             \/ SubscribeRoom(c, room) /\ game = None
             \/ SubscribeGame(c, game) /\ room = None
      PROVE  CloseInv'
  <2>1. c \notin closed /\ closed' = closed
    BY <1>1 DEF ServeWS, SubscribeRoom, SubscribeGame
  <2>2. roomSubs' = Subscribed(roomSubs, room, c) /\ gameSubs' = Subscribed(gameSubs, game, c)
    BY <1>1 DEF ServeWS, SubscribeRoom, SubscribeGame, Subscribed
  <2>3. reader' \in [Conn -> ReaderSteps] /\ \A d \in Conn \ {c} : reader'[d] = reader[d]
    BY <1>1 DEF ServeWS, SubscribeRoom, SubscribeGame
  <2>4. room \in RoomKey \cup {None}
    BY DEF RoomKey
  <2>5. /\ roomSubs' \in [RoomKey -> SUBSET Conn]
        /\ \A d \in Conn \ {c}, k \in RoomKey : d \notin roomSubs[k] => d \notin roomSubs'[k]
    BY <2>2, <2>4, SubscribedOthers
  <2>6. /\ gameSubs' \in [Game -> SUBSET Conn]
        /\ \A d \in Conn \ {c}, k \in Game : d \notin gameSubs[k] => d \notin gameSubs'[k]
    BY <2>2, SubscribedOthers
  <2> QED
    BY <2>1, <2>3, <2>5, <2>6
<1>2. ASSUME NEW c \in Conn, ReadFails(c)
      PROVE  CloseInv'
  <2>1. reader' = [reader EXCEPT ![c] = "done"]
    BY <1>2 DEF ReadFails
  <2>2. CASE c \in clients
    <3>1. /\ roomSubs' = Without(roomSubs, c) /\ gameSubs' = Without(gameSubs, c)
          /\ closed' = closed \cup {c}
      BY <1>2, <2>2 DEF ReadFails, Unregister
    <3> QED
      BY <2>1, <3>1, WithoutOne
  <2>3. CASE c \notin clients
    BY <1>2, <2>1, <2>3 DEF ReadFails, Unregister
  <2> QED
    BY <2>2, <2>3
<1>3. ASSUME NEW c \in Conn, Greet(c) \/ Answer(c)
      PROVE  CloseInv'
  BY <1>3 DEF Greet, Answer, hubVars
<1>4. ASSUME UNCHANGED <<closed, roomSubs, gameSubs, reader>>
      PROVE  CloseInv'
  BY <1>4
<1>5. ASSUME NEW c \in Conn, WriterStep(c) \/ PeerLeaves(c)
      PROVE  UNCHANGED <<closed, roomSubs, gameSubs, reader>>
  BY <1>5 DEF WriterStep, Write, WriteFails, PingFails, WriterSeesClose, PeerLeaves, hubVars
<1>6. ASSUME NEW kind, NEW room, NEW game, NEW audience, NEW step,
             Commit(kind, room, game, audience, step)
      PROVE  UNCHANGED <<closed, roomSubs, gameSubs, reader>>
  BY <1>6 DEF Commit, hubVars
<1>7. ASSUME NEW n \in 1 .. Len(published), ReadsBack(n) \/ EndsSilently(n) \/ Broadcast(n)
      PROVE  UNCHANGED <<closed, roomSubs, gameSubs, reader>>
  BY <1>7 DEF ReadsBack, EndsSilently, Broadcast, hubVars
<1>8. CASE UNCHANGED vars
  BY <1>8, <1>4 DEF vars, hubVars
<1> QED
  BY <1>1, <1>2, <1>3, <1>4, <1>5, <1>6, <1>7, <1>8
     DEF Next, ReaderStep, PlayerJoinsOrLeaves, GameStarts, PhaseChanges

(***************************************************************************)
(* No send on a closed channel, whatever the goroutines of however many     *)
(* connections, and the handlers that publish, do in between.               *)
(***************************************************************************)
THEOREM NobodySendsOnClosed == Spec => []NeverSendsOnClosed
<1>1. Init => CloseInv
  BY DEF Init, CloseInv, SubsTyped, ReaderSteps, NeverSendsOnClosed
<1>2. CloseInv /\ [Next]_vars => CloseInv'
  BY CloseStep
<1>3. CloseInv => NeverSendsOnClosed
  BY DEF CloseInv
<1> QED
  BY <1>1, <1>2, <1>3, PTL DEF Spec

-----------------------------------------------------------------------------
(* Sequences and what is in them. *)

LEMMA SetOfOne == ASSUME NEW x PROVE x \in ToSet(<<x>>)
BY DEF ToSet

LEMMA SetOfConcat ==
  ASSUME NEW S, NEW s \in Seq(S), NEW t \in Seq(S)
  PROVE  /\ s \o t \in Seq(S)
         /\ \A x : x \in ToSet(s) \/ x \in ToSet(t) => x \in ToSet(s \o t)
<1>1. s \o t \in Seq(S) /\ Len(s \o t) = Len(s) + Len(t)
  OBVIOUS
<1>2. ASSUME NEW i \in DOMAIN s
      PROVE  i \in DOMAIN (s \o t) /\ (s \o t)[i] = s[i]
  BY <1>1
<1>3. ASSUME NEW i \in DOMAIN t
      PROVE  Len(s) + i \in DOMAIN (s \o t) /\ (s \o t)[Len(s) + i] = t[i]
  BY <1>1
<1> QED
  BY <1>1, <1>2, <1>3 DEF ToSet

LEMMA SetOfAppend ==
  ASSUME NEW S, NEW s \in Seq(S), NEW x \in S
  PROVE  /\ Append(s, x) \in Seq(S)
         /\ ToSet(s) \subseteq ToSet(Append(s, x))
         /\ x \in ToSet(Append(s, x))
<1>1. Append(s, x) \in Seq(S) /\ Len(Append(s, x)) = Len(s) + 1
  OBVIOUS
<1>2. ASSUME NEW i \in DOMAIN s
      PROVE  i \in DOMAIN Append(s, x) /\ Append(s, x)[i] = s[i]
  BY <1>1
<1>3. Len(s) + 1 \in DOMAIN Append(s, x) /\ Append(s, x)[Len(s) + 1] = x
  BY <1>1
<1> QED
  BY <1>1, <1>2, <1>3 DEF ToSet

LEMMA SetOfTail ==
  ASSUME NEW S, NEW s \in Seq(S), s # <<>>
  PROVE  /\ Tail(s) \in Seq(S) /\ Head(s) \in S
         /\ ToSet(s) \subseteq {Head(s)} \cup ToSet(Tail(s))
<1>1. Tail(s) \in Seq(S) /\ Head(s) \in S /\ Len(Tail(s)) = Len(s) - 1 /\ Len(s) \in Nat
  OBVIOUS
<1>2. ASSUME NEW i \in DOMAIN s
      PROVE  s[i] = Head(s) \/ (i - 1 \in DOMAIN Tail(s) /\ s[i] = Tail(s)[i - 1])
  BY <1>1
<1> QED
  BY <1>1, <1>2 DEF ToSet

-----------------------------------------------------------------------------
(* What a handler has still to broadcast. *)
Item ==
  [scope : {"room"}, key : RoomKey, name : Names]
    \cup [scope : {"game"}, key : Game, name : Names]

To(b) == IF b.scope = "room" THEN roomSubs[b.key] ELSE gameSubs[b.key]

Entry == [kind : Kinds, game : Game \cup {None}, audience : SUBSET Conn,
          step : HandlerSteps, left : Seq(Item)]

(* Only a handler that reads back may end without having published.         *)
ReadingBack(request) ==
  request.step \in {"reading", "silent"} => request.kind \in {"players", "restarted", "voted"}

Message == Nat \X (Names \cup {"ws.control"})

TellTyped ==
  /\ SubsTyped
  /\ published \in Seq(Entry)
  /\ \A n \in 1 .. Len(published) : ReadingBack(published[n])
  /\ queue \in [Conn -> Seq(Message)]
  /\ got \in [Conn -> SUBSET Message]
  /\ writer \in [Conn -> {"none", "running", "done"}]
  /\ \A c \in Conn : reader[c] \in {"none", "greeting"} => writer[c] = "none"

Told(c, event) ==
  \/ event \in got[c] \cup ToSet(queue[c])
  \/ c \in overrun
  \/ reader[c] = "done" \/ writer[c] = "done"

Pending(n, c, name) ==
  \E b \in ToSet(published[n].left) : b.name = name /\ c \in To(b)

(* Whoever was promised an event has been told of it or will be, unless its *)
(* handler turns out to publish nothing.                                    *)
ToldOrPending ==
  \A n \in 1 .. Len(published) : \A c \in published[n].audience :
    \A name \in Promised(published[n].kind) :
      \/ published[n].step = "silent"
      \/ Told(c, <<n, name>>)
      \/ Pending(n, c, name)

TellInv == TellTyped /\ ToldOrPending

(* The broadcasts of a commit reach its audience. *)
Reaches(seq, c, name) == \E b \in ToSet(seq) : b.name = name /\ c \in To(b)

LEMMA ReachesConcat ==
  ASSUME NEW s \in Seq(Item), NEW t \in Seq(Item)
  PROVE  /\ s \o t \in Seq(Item)
         /\ \A c, name : Reaches(s, c, name) \/ Reaches(t, c, name) => Reaches(s \o t, c, name)
BY SetOfConcat DEF Reaches

LEMMA RoomItem ==
  ASSUME NEW name \in Names, NEW room \in RoomKey
  PROVE  /\ PublishRoom(name, room) \in Seq(Item)
         /\ \A c \in roomSubs[room] : Reaches(PublishRoom(name, room), c, name)
<1> DEFINE b == [scope |-> "room", key |-> room, name |-> name]
<1>1. b \in Item /\ To(b) = roomSubs[room] /\ b.name = name
  BY DEF Item, To
<1>2. PublishRoom(name, room) = <<b>>
  BY DEF PublishRoom
<1> HIDE DEF b
<1> QED
  BY <1>1, <1>2, SetOfOne DEF Reaches

LEMMA GameItem ==
  ASSUME NEW name \in Names, NEW room \in RoomKey, NEW game \in Game
  PROVE  /\ PublishRoomAndGame(name, room, game) \in Seq(Item)
         /\ \A c \in roomSubs[room] : Reaches(PublishRoomAndGame(name, room, game), c, name)
         /\ \A c \in gameSubs[game] : Reaches(PublishRoomAndGame(name, room, game), c, name)
<1> DEFINE b == [scope |-> "game", key |-> game, name |-> name]
<1>1. b \in Item /\ To(b) = gameSubs[game] /\ b.name = name
  BY DEF Item, To
<1>2. PublishRoomAndGame(name, room, game) = PublishRoom(name, room) \o <<b>>
  BY DEF PublishRoomAndGame
<1> HIDE DEF b
<1>3. <<b>> \in Seq(Item) /\ \A c \in gameSubs[game] : Reaches(<<b>>, c, name)
  BY <1>1, SetOfOne DEF Reaches
<1>4. PublishRoom(name, room) \in Seq(Item)
      /\ \A c \in roomSubs[room] : Reaches(PublishRoom(name, room), c, name)
  BY RoomItem
<1> DEFINE s == PublishRoom(name, room)
           t == <<b>>
           both == PublishRoomAndGame(name, room, game)
<1>5. /\ s \in Seq(Item) /\ t \in Seq(Item) /\ both = s \o t
      /\ \A c \in roomSubs[room] : Reaches(s, c, name)
      /\ \A c \in gameSubs[game] : Reaches(t, c, name)
  BY <1>2, <1>3, <1>4
<1> HIDE DEF s, t, both
<1>6. /\ both \in Seq(Item)
      /\ \A c \in roomSubs[room] : Reaches(both, c, name)
      /\ \A c \in gameSubs[game] : Reaches(both, c, name)
  BY <1>5, ReachesConcat
<1> QED
  BY <1>6 DEF both

LEMMA PhaseItems ==
  ASSUME NEW to, NEW room \in RoomKey, NEW game \in Game
  PROVE  /\ PublishGamePhaseChanged(to, room, game) \in Seq(Item)
         /\ \A c \in roomSubs[room] \cup gameSubs[game] :
              /\ Reaches(PublishGamePhaseChanged(to, room, game), c, "game.phase_changed")
              /\ to = "voting" =>
                   Reaches(PublishGamePhaseChanged(to, room, game), c, "game.vote_started")
<1> DEFINE s == PublishRoomAndGame("game.phase_changed", room, game)
           t == PublishRoomAndGame("game.vote_started", room, game)
           all == PublishGamePhaseChanged(to, room, game)
<1>1. /\ s \in Seq(Item) /\ t \in Seq(Item)
      /\ \A c \in roomSubs[room] \cup gameSubs[game] :
           Reaches(s, c, "game.phase_changed") /\ Reaches(t, c, "game.vote_started")
  BY GameItem DEF Names
<1>2. all = s \o (IF to = "voting" THEN t ELSE <<>>)
  BY DEF PublishGamePhaseChanged
<1>3. <<>> \in Seq(Item)
  OBVIOUS
<1> HIDE DEF s, t, all
<1>4. /\ all \in Seq(Item)
      /\ \A c \in roomSubs[room] \cup gameSubs[game] :
           /\ Reaches(all, c, "game.phase_changed")
           /\ to = "voting" => Reaches(all, c, "game.vote_started")
  <2>1. CASE to = "voting"
    <3>1. all = s \o t
      BY <1>2, <2>1
    <3> QED
      BY <1>1, <3>1, ReachesConcat
  <2>2. CASE to # "voting"
    <3> DEFINE e == <<>>
    <3>1. all = s \o e /\ e \in Seq(Item)
      BY <1>2, <1>3, <2>2
    <3> HIDE DEF e
    <3> QED
      BY <1>1, <2>2, <3>1, ReachesConcat
  <2> QED
    BY <2>1, <2>2
<1> QED
  BY <1>4 DEF all

LEMMA StartItems ==
  ASSUME NEW room \in RoomKey, NEW game \in Game
  PROVE  /\ PublishGameStarted(room, game) \in Seq(Item)
         /\ \A c \in roomSubs[room] :
              /\ Reaches(PublishGameStarted(room, game), c, "game.started")
              /\ Reaches(PublishGameStarted(room, game), c, "game.phase_changed")
<1> DEFINE s == PublishRoomAndGame("game.started", room, game)
           t == PublishGamePhaseChanged("role_reveal", room, game)
           all == PublishGameStarted(room, game)
<1>1. /\ s \in Seq(Item) /\ t \in Seq(Item)
      /\ \A c \in roomSubs[room] : Reaches(s, c, "game.started")
                                   /\ Reaches(t, c, "game.phase_changed")
  BY GameItem, PhaseItems DEF Names
<1>2. all = s \o t
  BY DEF PublishGameStarted
<1> HIDE DEF s, t, all
<1>3. /\ all \in Seq(Item)
      /\ \A c \in roomSubs[room] : Reaches(all, c, "game.started")
                                   /\ Reaches(all, c, "game.phase_changed")
  BY <1>1, <1>2, ReachesConcat
<1> QED
  BY <1>3 DEF all

(* A commit's broadcasts go to all its followers: those of the room for what *)
(* happens to a room, those of the game for what happens in it.             *)
LEMMA RoomBroadcasts ==
  ASSUME NEW kind \in {"players", "started", "restarted"}, NEW room \in Room,
         NEW game \in Game \cup {None}, kind # "players" => game \in Game
  PROVE  /\ Broadcasts(kind, room, game) \in Seq(Item)
         /\ \A c \in roomSubs[room], name \in Promised(kind) :
              Reaches(Broadcasts(kind, room, game), c, name)
<1>0. room \in RoomKey
  BY DEF RoomKey
<1> DEFINE r == PublishRoom("room.player", room)
           u == PublishRoom("room.updated", room)
           s == PublishGameStarted(room, game)
           all == Broadcasts(kind, room, game)
<1>1. /\ r \in Seq(Item) /\ u \in Seq(Item)
      /\ \A c \in roomSubs[room] : Reaches(u, c, "room.updated")
  BY <1>0, RoomItem DEF Names
<1>2. CASE kind = "players"
  <2>1. all = r \o u /\ Promised(kind) = {"room.updated"}
    BY <1>2 DEF Broadcasts, PublishPlayers, Promised
  <2> HIDE DEF r, u, all
  <2>2. /\ all \in Seq(Item)
        /\ \A c \in roomSubs[room], name \in Promised(kind) : Reaches(all, c, name)
    BY <1>1, <2>1, ReachesConcat
  <2> QED
    BY <2>2 DEF all
<1>3. CASE kind # "players"
  <2>1. /\ s \in Seq(Item)
        /\ \A c \in roomSubs[room] : Reaches(s, c, "game.started")
                                     /\ Reaches(s, c, "game.phase_changed")
    BY <1>0, <1>3, StartItems
  <2>2. all = s \/ all = u \o s
    BY <1>3 DEF Broadcasts, PublishRestart
  <2>3. Promised(kind) = {"game.started", "game.phase_changed"}
    BY <1>3 DEF Promised
  <2>3a. u \in Seq(Item) /\ s \in Seq(Item)
    BY <1>1, <2>1
  <2> HIDE DEF r, u, s, all
  <2>4. all \in Seq(Item) /\ \A c, name : Reaches(s, c, name) => Reaches(all, c, name)
    <3>1. CASE all = s
      BY <2>3a, <3>1
    <3>2. CASE all = u \o s
      BY <2>3a, <3>2, ReachesConcat
    <3> QED
      BY <2>2, <3>1, <3>2
  <2>5. \A c \in roomSubs[room], name \in Promised(kind) : Reaches(all, c, name)
    BY <2>1, <2>3, <2>4
  <2> QED
    BY <2>4, <2>5 DEF all
<1> QED
  BY <1>2, <1>3

LEMMA GameBroadcasts ==
  ASSUME NEW kind \in {"discussion", "voting", "voted"}, NEW room, NEW game \in Game
  PROVE  /\ Broadcasts(kind, room, game) \in Seq(Item)
         /\ \A c \in gameSubs[game], name \in Promised(kind) :
              Reaches(Broadcasts(kind, room, game), c, name)
<1>0. RoomID \in RoomKey
  BY DEF RoomKey
<1> DEFINE p == PublishGamePhaseChanged("vote_result", RoomID, game)
           v == PublishRoomAndGame("game.vote_result", RoomID, game)
           all == Broadcasts(kind, room, game)
<1>1. CASE kind = "voted"
  <2>1. /\ p \in Seq(Item) /\ v \in Seq(Item)
        /\ \A c \in gameSubs[game] : Reaches(p, c, "game.phase_changed")
                                     /\ Reaches(v, c, "game.vote_result")
    BY <1>0, PhaseItems, GameItem DEF Names
  <2>2. all = p \o v /\ Promised(kind) = {"game.phase_changed", "game.vote_result"}
    BY <1>1 DEF Broadcasts, PublishVote, Promised
  <2> HIDE DEF p, v, all
  <2>3. /\ all \in Seq(Item)
        /\ \A c \in gameSubs[game], name \in Promised(kind) : Reaches(all, c, name)
    BY <2>1, <2>2, ReachesConcat
  <2> QED
    BY <2>3 DEF all
<1>2. CASE kind # "voted"
  <2>1. all = PublishGamePhaseChanged(kind, RoomID, game)
    BY <1>2 DEF Broadcasts
  <2>2. \A name \in Promised(kind) :
          name = "game.phase_changed" \/ (kind = "voting" /\ name = "game.vote_started")
    BY <1>2 DEF Promised
  <2> QED
    BY <1>0, <2>1, <2>2, PhaseItems
<1> QED
  BY <1>1, <1>2

-----------------------------------------------------------------------------
(* Nothing that was told or is pending is lost on a connection that goes on, *)
(* as long as nobody publishes.                                             *)
SubsKept(c) ==
  /\ \A k \in RoomKey : c \in roomSubs[k] => c \in roomSubs'[k]
  /\ \A k \in Game : c \in gameSubs[k] => c \in gameSubs'[k]

Gone(c) == reader[c] = "done" \/ writer[c] = "done"

Held(c) == got[c] \cup ToSet(queue[c])

NothingLost(c) ==
  \/ Gone(c)'
  \/ /\ ~Gone(c)
     /\ c \in overrun => c \in overrun'
     /\ \A event \in Held(c) : event # Control => event \in Held(c)'
     /\ SubsKept(c)

LEMMA QuietStep ==
  ASSUME TellInv, TellTyped', UNCHANGED published, \A c \in Conn : NothingLost(c)
  PROVE  ToldOrPending'
<1> SUFFICES ASSUME NEW n \in 1 .. Len(published), NEW c \in published[n].audience,
                    NEW name \in Promised(published[n].kind)
             PROVE  published[n].step = "silent" \/ Told(c, <<n, name>>)' \/ Pending(n, c, name)'
  BY DEF ToldOrPending
<1>1. c \in Conn /\ published[n].left \in Seq(Item)
  <2>1. published \in Seq(Entry)
    BY DEF TellInv, TellTyped
  <2> HIDE DEF Entry
  <2>2. published[n] \in Entry
    BY <2>1
  <2> QED
    BY <2>2 DEF Entry
<1>2. published[n].step = "silent" \/ Told(c, <<n, name>>) \/ Pending(n, c, name)
  BY DEF TellInv, ToldOrPending
<1>3. <<n, name>> # Control
  BY DEF Control
<1>4. CASE Gone(c)'
  BY <1>4 DEF Gone, Told
<1>5. CASE ~Gone(c)'
  <2>1. /\ ~Gone(c)
        /\ c \in overrun => c \in overrun'
        /\ \A event \in Held(c) : event # Control => event \in Held(c)'
        /\ SubsKept(c)
    BY <1>1, <1>5 DEF NothingLost
  <2>2. CASE Told(c, <<n, name>>)
    BY <1>3, <2>1, <2>2 DEF Told, Gone, Held
  <2>3. CASE Pending(n, c, name)
    <3>1. PICK b \in ToSet(published[n].left) : b.name = name /\ c \in To(b)
      BY <2>3 DEF Pending
    <3>2. b \in Item
      BY <1>1, <3>1 DEF ToSet
    <3>3. c \in To(b)'
      BY <2>1, <3>1, <3>2 DEF SubsKept, To, Item
    <3> QED
      BY <3>1, <3>3 DEF Pending
  <2> QED
    BY <1>2, <2>2, <2>3
<1> QED
  BY <1>4, <1>5

LEMMA SendTells ==
  ASSUME TellTyped, NEW to \in SUBSET Conn, NEW event \in Message, Send(to, event)
  PROVE  /\ queue' \in [Conn -> Seq(Message)]
         /\ \A c \in Conn : ToSet(queue[c]) \subseteq ToSet(queue'[c])
         /\ overrun \subseteq overrun'
         /\ \A c \in to : event \in ToSet(queue'[c]) \/ c \in overrun'
<1>1. ASSUME NEW c \in Conn
      PROVE  /\ queue'[c] \in Seq(Message)
             /\ ToSet(queue[c]) \subseteq ToSet(queue'[c])
             /\ c \in to => event \in ToSet(queue'[c]) \/ c \in overrun'
  <2>1. queue[c] \in Seq(Message)
    BY DEF TellTyped
  <2>2. CASE c \in to /\ HasPlace(c)
    <3>1. queue'[c] = Append(queue[c], event)
      BY <2>2 DEF Send
    <3> QED
      BY <2>1, <3>1, SetOfAppend
  <2>3. CASE ~(c \in to /\ HasPlace(c))
    <3>1. queue'[c] = queue[c] /\ (c \in to => c \in overrun')
      BY <2>3 DEF Send
    <3> QED
      BY <2>1, <3>1
  <2> QED
    BY <2>2, <2>3
<1>2. queue' = [c \in Conn |-> queue'[c]] /\ overrun \subseteq overrun'
  BY DEF Send
<1> QED
  BY <1>1, <1>2

(* The reader's steps publish nothing and lose nothing.                     *)
LEMMA ReaderTells ==
  ASSUME TellInv, CloseInv', NEW c \in Conn,
         \/ \E room \in Room \cup {None}, game \in Game \cup {None} : ServeWS(c, room, game)
         \/ \E room \in Room \cup {None} : SubscribeRoom(c, room)
         \/ ReaderStep(c)
  PROVE  TellInv'
<1> USE DEF TellInv, ReaderSteps
<1>0. /\ SubsTyped' /\ SubsTyped /\ TellTyped
      /\ Control \in Message
  BY DEF CloseInv, TellTyped, Control, Message
<1>1. ASSUME NEW room \in Room \cup {None}, NEW game \in Game \cup {None},
             \/ ServeWS(c, room, game)
             \/ SubscribeRoom(c, room) /\ game = None
             \/ SubscribeGame(c, game) /\ room = None
      PROVE  TellInv'
  <2>1. /\ roomSubs' = Subscribed(roomSubs, room, c) /\ gameSubs' = Subscribed(gameSubs, game, c)
        /\ UNCHANGED <<published, got, queue, overrun, writer>>
        /\ \A d \in Conn :
             \/ reader'[d] = reader[d]
             \/ d = c /\ reader[d] = "none"
             \/ d = c /\ reader[d] = "reading" /\ reader'[d] = "subscribing"
             \/ d = c /\ reader[d] = "subscribing" /\ reader'[d] = "answering"
    BY <1>0, <1>1 DEF ServeWS, SubscribeRoom, SubscribeGame, SubsTyped, Subscribed
  <2>2. \A d : SubsKept(d)
    BY <1>0, <2>1 DEF SubsKept, Subscribed, SubsTyped, RoomKey
  <2>3. \A d \in Conn : reader'[d] \in {"none", "greeting"} => writer'[d] = "none"
    BY <1>0, <2>1 DEF TellTyped
  <2>4. TellTyped'
    BY <1>0, <2>1, <2>3 DEF TellTyped
  <2>5. \A d \in Conn : NothingLost(d)
    BY <1>0, <2>1, <2>2 DEF NothingLost, Gone, Held, TellTyped
  <2> QED
    BY <2>1, <2>4, <2>5, QuietStep
<1>2. CASE Greet(c)
  <2>1. /\ UNCHANGED <<published, got, roomSubs, gameSubs>> /\ Send({c}, Control)
        /\ reader[c] = "greeting"
        /\ reader' = [reader EXCEPT ![c] = "reading"]
        /\ writer' = [writer EXCEPT ![c] = "running"]
    BY <1>2 DEF Greet, hubVars
  <2>2. /\ queue' \in [Conn -> Seq(Message)] /\ overrun \subseteq overrun'
        /\ \A d \in Conn : ToSet(queue[d]) \subseteq ToSet(queue'[d])
    BY <1>0, <2>1, SendTells
  <2>3. TellTyped'
    BY <1>0, <2>1, <2>2 DEF TellTyped, SubsTyped
  <2>4. \A d \in Conn : SubsKept(d)
    BY <2>1 DEF SubsKept
  <2>5. \A d \in Conn : NothingLost(d)
    BY <1>0, <2>1, <2>2, <2>4 DEF NothingLost, Gone, Held, TellTyped, SubsTyped
  <2> QED
    BY <2>1, <2>3, <2>5, QuietStep
<1>3. CASE ReadFails(c)
  <2>1. /\ UNCHANGED <<published, got, queue, overrun, writer>>
        /\ reader' = [reader EXCEPT ![c] = "done"]
    BY <1>3 DEF ReadFails
  <2>2. \A d \in Conn \ {c} : SubsKept(d)
    <3>1. CASE c \in clients
      BY <1>0, <1>3, <3>1 DEF ReadFails, Unregister, SubsKept, Without, SubsTyped
    <3>2. CASE c \notin clients
      BY <1>3, <3>2 DEF ReadFails, Unregister, SubsKept
    <3> QED
      BY <3>1, <3>2
  <2>3. TellTyped'
    BY <1>0, <2>1 DEF TellTyped, SubsTyped
  <2>4. ASSUME NEW d \in Conn
        PROVE  NothingLost(d)
    <3>1. CASE d = c
      BY <1>0, <2>1, <3>1 DEF NothingLost, Gone, SubsTyped
    <3>2. CASE d # c
      BY <1>0, <2>1, <2>2, <3>2 DEF NothingLost, Gone, Held, SubsTyped
    <3> QED
      BY <3>1, <3>2
  <2> QED
    BY <2>1, <2>3, <2>4, QuietStep
<1>4. CASE Answer(c)
  <2>1. /\ UNCHANGED <<published, got, roomSubs, gameSubs, writer>> /\ Send({c}, Control)
        /\ reader[c] = "answering"
        /\ reader' = [reader EXCEPT ![c] = "reading"]
    BY <1>4 DEF Answer, hubVars
  <2>2. /\ queue' \in [Conn -> Seq(Message)] /\ overrun \subseteq overrun'
        /\ \A d \in Conn : ToSet(queue[d]) \subseteq ToSet(queue'[d])
    BY <1>0, <2>1, SendTells
  <2>3. TellTyped'
    BY <1>0, <2>1, <2>2 DEF TellTyped, SubsTyped
  <2>4. \A d \in Conn : SubsKept(d)
    BY <2>1 DEF SubsKept
  <2>5. \A d \in Conn : NothingLost(d)
    BY <1>0, <2>1, <2>2, <2>4 DEF NothingLost, Gone, Held, TellTyped, SubsTyped
  <2> QED
    BY <2>1, <2>3, <2>5, QuietStep
<1> QED
  BY <1>1, <1>2, <1>3, <1>4 DEF ReaderStep

(* Nor do the writer's: what it takes off the queue it writes, or it ends.  *)
LEMMA WriterTells ==
  ASSUME TellInv, NEW c \in Conn, WriterStep(c) \/ PeerLeaves(c)
  PROVE  TellInv'
<1> USE DEF TellInv
<1>0. TellTyped /\ SubsTyped /\ queue[c] \in Seq(Message)
  BY DEF TellTyped
<1>1. /\ UNCHANGED <<published, reader, overrun, closed, roomSubs, gameSubs>>
      /\ \A d \in Conn : SubsKept(d)
  BY DEF WriterStep, Write, WriteFails, PingFails, WriterSeesClose, PeerLeaves, hubVars, SubsKept
<1>2. CASE Write(c)
  <2>1. /\ queue[c] # <<>> /\ queue' = [queue EXCEPT ![c] = Tail(@)] /\ UNCHANGED writer
        /\ got' = [got EXCEPT ![c] = @ \cup ({Head(queue[c])} \ {Control})]
    BY <1>2 DEF Write, Dequeue
  <2>2. /\ Tail(queue[c]) \in Seq(Message) /\ Head(queue[c]) \in Message
        /\ ToSet(queue[c]) \subseteq {Head(queue[c])} \cup ToSet(Tail(queue[c]))
    BY <1>0, <2>1, SetOfTail
  <2>3. TellTyped'
    BY <1>0, <1>1, <2>1, <2>2 DEF TellTyped, SubsTyped
  <2>4. \A d \in Conn : \A event \in Held(d) : event # Control => event \in Held(d)'
    BY <1>0, <2>1, <2>2 DEF Held, TellTyped
  <2>5. \A d \in Conn : NothingLost(d)
    BY <1>1, <2>1, <2>4 DEF NothingLost, Gone
  <2> QED
    BY <1>1, <2>3, <2>5, QuietStep
<1>3. CASE WriteFails(c) \/ PingFails(c) \/ WriterSeesClose(c)
  <2>1. /\ writer[c] = "running" /\ writer' = [writer EXCEPT ![c] = "done"] /\ UNCHANGED got
        /\ queue' = queue \/ (queue[c] # <<>> /\ queue' = [queue EXCEPT ![c] = Tail(@)])
    BY <1>3 DEF WriteFails, PingFails, WriterSeesClose, WriterEnds, Dequeue
  <2>2. queue' \in [Conn -> Seq(Message)]
    <3>1. queue \in [Conn -> Seq(Message)]
      BY <1>0 DEF TellTyped
    <3>2. queue[c] # <<>> => Tail(queue[c]) \in Seq(Message)
      BY <1>0, SetOfTail
    <3>3. CASE queue' = queue
      BY <3>1, <3>3
    <3>4. CASE queue[c] # <<>> /\ queue' = [queue EXCEPT ![c] = Tail(@)]
      BY <3>1, <3>2, <3>4
    <3> QED
      BY <2>1, <3>3, <3>4
  <2>3. TellTyped'
    BY <1>0, <1>1, <2>1, <2>2 DEF TellTyped, SubsTyped
  <2>4. ASSUME NEW d \in Conn
        PROVE  NothingLost(d)
    <3>1. CASE d = c
      BY <1>0, <2>1, <3>1 DEF NothingLost, Gone, TellTyped
    <3>2. CASE d # c
      BY <1>0, <1>1, <2>1, <3>2 DEF NothingLost, Gone, Held, TellTyped
    <3> QED
      BY <3>1, <3>2
  <2> QED
    BY <1>1, <2>3, <2>4, QuietStep
<1>4. CASE PeerLeaves(c)
  <2>1. UNCHANGED <<queue, got, writer>>
    BY <1>4 DEF PeerLeaves
  <2>2. TellTyped'
    BY <1>0, <1>1, <2>1 DEF TellTyped, SubsTyped
  <2>3. \A d \in Conn : NothingLost(d)
    BY <1>1, <2>1 DEF NothingLost, Gone, Held
  <2> QED
    BY <1>1, <2>2, <2>3, QuietStep
<1> QED
  BY <1>2, <1>3, <1>4 DEF WriterStep

(* A commit promises its audience what it is about to broadcast to it.      *)
LEMMA CommitTells ==
  ASSUME TellInv, NEW kind \in Kinds, NEW room, NEW game \in Game \cup {None},
         NEW audience \in SUBSET Conn, NEW step \in {"reading", "publishing"},
         step = "reading" => kind \in {"players", "restarted", "voted"},
         Commit(kind, room, game, audience, step),
         Broadcasts(kind, room, game) \in Seq(Item),
         \A c \in audience, name \in Promised(kind) :
           Reaches(Broadcasts(kind, room, game), c, name)
  PROVE  TellInv'
<1> USE DEF TellInv
<1> DEFINE b == Broadcasts(kind, room, game)
           e == [kind |-> kind, game |-> game, audience |-> audience, step |-> step,
                 left |-> b]
<1>1. /\ e \in Entry /\ e.kind = kind /\ e.audience = audience /\ e.left = b
      /\ ReadingBack(e)
  BY DEF Entry, HandlerSteps, ReadingBack
<1>2. /\ published' = Append(published, e)
      /\ UNCHANGED <<queue, reader, writer, got, overrun, closed, roomSubs, gameSubs>>
  BY DEF Commit, hubVars
<1>3. /\ TellTyped /\ published \in Seq(Entry)
      /\ \A n \in 1 .. Len(published) : ReadingBack(published[n])
  BY DEF TellTyped
<1>4. \A c \in audience, name \in Promised(kind) : Reaches(b, c, name)
  OBVIOUS
<1> HIDE DEF b, e
<1>5. /\ published' \in Seq(Entry)
      /\ Len(published') = Len(published) + 1
      /\ \A n \in 1 .. Len(published) : published'[n] = published[n]
      /\ published'[Len(published) + 1] = e
  BY <1>1, <1>2, <1>3
<1>5a. \A n \in 1 .. Len(published') : ReadingBack(published'[n])
  BY <1>1, <1>3, <1>5
<1>6. TellTyped'
  BY <1>2, <1>3, <1>5, <1>5a DEF TellTyped, SubsTyped, ReadingBack
<1>7. ASSUME NEW n \in 1 .. Len(published'), NEW c \in published'[n].audience,
             NEW name \in Promised(published'[n].kind)
      PROVE  published'[n].step = "silent" \/ Told(c, <<n, name>>)' \/ Pending(n, c, name)'
  <2>1. CASE n \in 1 .. Len(published)
    <3>1. published'[n] = published[n]
      BY <1>5, <2>1
    <3>2. published[n].step = "silent" \/ Told(c, <<n, name>>) \/ Pending(n, c, name)
      BY <1>7, <2>1, <3>1 DEF ToldOrPending
    <3> QED
      BY <1>2, <3>1, <3>2 DEF Told, Pending, To
  <2>2. CASE n = Len(published) + 1
    <3>1. published'[n] = e
      BY <1>5, <2>2
    <3>2. Reaches(b, c, name)
      BY <1>1, <1>4, <1>7, <3>1
    <3>3. published'[n].left = b
      BY <1>1, <3>1
    <3> QED
      BY <1>2, <3>2, <3>3 DEF Reaches, Pending, To
  <2> QED
    BY <1>3, <1>5, <2>1, <2>2
<1>8. ToldOrPending'
  BY <1>7 DEF ToldOrPending
<1> QED
  BY <1>6, <1>8

(* A broadcast tells whom it is for, and leaves the others pending.         *)
LEMMA BroadcastTells ==
  ASSUME TellInv, NEW n \in 1 .. Len(published), Broadcast(n)
  PROVE  TellInv'
<1> USE DEF TellInv
<1>1. published \in Seq(Entry) /\ TellTyped /\ SubsTyped
  BY DEF TellTyped
<1>2. \A m \in 1 .. Len(published) : published[m] \in Entry /\ ReadingBack(published[m])
  BY <1>1 DEF TellTyped
<1> DEFINE left == published[n].left
           next == Head(left)
           e == [published[n] EXCEPT !.left = Tail(left)]
<1>3. left \in Seq(Item) /\ left # <<>>
  BY <1>2 DEF Entry, Broadcast
<1>4. published' = [published EXCEPT ![n] = e]
  BY DEF Broadcast
<1>5. /\ UNCHANGED <<reader, writer, got, closed, roomSubs, gameSubs>>
      /\ Send(To(next), <<n, next.name>>)
  BY DEF Broadcast, hubVars, To
<1>6. published[n] \in Entry
  BY <1>2
<1> HIDE DEF left
<1>7. /\ Tail(left) \in Seq(Item) /\ next \in Item
      /\ ToSet(left) \subseteq {next} \cup ToSet(Tail(left))
  BY <1>3, SetOfTail
<1> HIDE DEF next
<1>8. /\ e \in Entry /\ e.left = Tail(left) /\ e.step = published[n].step
      /\ e.kind = published[n].kind /\ e.audience = published[n].audience
  BY <1>6, <1>7 DEF Entry
<1> HIDE DEF e
<1>9. /\ published' \in Seq(Entry) /\ Len(published') = Len(published)
      /\ published'[n] = e
      /\ \A m \in 1 .. Len(published) : m # n => published'[m] = published[m]
  BY <1>1, <1>4, <1>8
<1>10. To(next) \in SUBSET Conn /\ <<n, next.name>> \in Message
  BY <1>1, <1>7 DEF To, Item, Message, SubsTyped
<1>11. /\ queue' \in [Conn -> Seq(Message)] /\ overrun \subseteq overrun'
       /\ \A c \in Conn : ToSet(queue[c]) \subseteq ToSet(queue'[c])
       /\ \A c \in To(next) : <<n, next.name>> \in ToSet(queue'[c]) \/ c \in overrun'
  BY <1>1, <1>5, <1>10, SendTells
<1>11a. \A m \in 1 .. Len(published') : ReadingBack(published'[m])
  BY <1>2, <1>8, <1>9 DEF ReadingBack
<1>12. TellTyped'
  BY <1>1, <1>5, <1>9, <1>11, <1>11a DEF TellTyped, SubsTyped, ReadingBack
<1>13. ASSUME NEW m \in 1 .. Len(published'), NEW c \in published'[m].audience,
              NEW name \in Promised(published'[m].kind)
       PROVE  published'[m].step = "silent" \/ Told(c, <<m, name>>)' \/ Pending(m, c, name)'
  <2>1. /\ m \in 1 .. Len(published) /\ published'[m].kind = published[m].kind
        /\ published'[m].audience = published[m].audience
        /\ published'[m].step = published[m].step
    BY <1>8, <1>9, <1>13
  <2>2. c \in Conn
    <3>1. published[m] \in Entry
      BY <1>2, <2>1
    <3> QED
      BY <1>13, <2>1, <3>1 DEF Entry
  <2>3. published[m].step = "silent" \/ Told(c, <<m, name>>) \/ Pending(m, c, name)
    BY <1>13, <2>1 DEF ToldOrPending
  <2>4. CASE Told(c, <<m, name>>)
    BY <1>5, <1>11, <2>2, <2>4 DEF Told
  <2>5. CASE Pending(m, c, name) /\ m # n
    <3>1. published'[m] = published[m]
      BY <1>9, <2>1, <2>5
    <3> QED
      BY <1>5, <2>5, <3>1 DEF Pending, To
  <2>6. CASE Pending(m, c, name) /\ m = n
    <3>1. PICK b \in ToSet(left) : b.name = name /\ c \in To(b)
      BY <2>6 DEF Pending, left
    <3>2. CASE b = next
      BY <1>11, <2>6, <3>1, <3>2 DEF Told
    <3>3. CASE b \in ToSet(Tail(left))
      <4>1. published'[m].left = Tail(left)
        BY <1>8, <1>9, <2>6
      <4> QED
        BY <1>5, <3>1, <3>3, <4>1 DEF Pending, To
    <3> QED
      BY <1>7, <3>1, <3>2, <3>3
  <2> QED
    BY <2>1, <2>3, <2>4, <2>5, <2>6
<1>14. ToldOrPending'
  BY <1>13 DEF ToldOrPending
<1> QED
  BY <1>12, <1>14

(* Once it has read back, a handler has all of it left to broadcast, or     *)
(* ends and is not counted on any more.                                     *)
LEMMA ReadingBackTells ==
  ASSUME TellInv, NEW n \in 1 .. Len(published), ReadsBack(n) \/ EndsSilently(n)
  PROVE  TellInv'
<1> USE DEF TellInv
<1>1. /\ published \in Seq(Entry) /\ TellTyped
      /\ \A m \in 1 .. Len(published) : published[m] \in Entry /\ ReadingBack(published[m])
  <2>1. published \in Seq(Entry) /\ \A m \in 1 .. Len(published) : ReadingBack(published[m])
    BY DEF TellTyped
  <2> HIDE DEF Entry
  <2> QED
    BY <2>1
<1>2. PICK step \in {"publishing", "silent"} :
        published' = [published EXCEPT ![n] = [published[n] EXCEPT !.step = step]]
  BY DEF ReadsBack, EndsSilently
<1>3. /\ published[n].step = "reading"
      /\ UNCHANGED <<queue, reader, writer, got, overrun, closed, roomSubs, gameSubs>>
  BY DEF ReadsBack, EndsSilently, hubVars
<1> DEFINE e == [published[n] EXCEPT !.step = step]
<1>4. /\ e \in Entry /\ e.step = step /\ ReadingBack(e)
      /\ e.kind = published[n].kind /\ e.audience = published[n].audience
      /\ e.left = published[n].left
  <2>1. published[n] \in Entry /\ ReadingBack(published[n])
    BY <1>1
  <2> QED
    BY <1>3, <2>1 DEF Entry, HandlerSteps, ReadingBack
<1> HIDE DEF e
<1>5. /\ published' \in Seq(Entry) /\ Len(published') = Len(published)
      /\ published'[n] = e
      /\ \A m \in 1 .. Len(published) : m # n => published'[m] = published[m]
  <2>1. published' = [published EXCEPT ![n] = e]
    BY <1>2 DEF e
  <2> QED
    BY <1>1, <1>4, <2>1
<1>6. \A m \in 1 .. Len(published') : ReadingBack(published'[m])
  BY <1>1, <1>4, <1>5
<1>7. TellTyped'
  BY <1>1, <1>3, <1>5, <1>6 DEF TellTyped, SubsTyped, ReadingBack
<1>8. ASSUME NEW m \in 1 .. Len(published'), NEW c \in published'[m].audience,
             NEW name \in Promised(published'[m].kind)
      PROVE  published'[m].step = "silent" \/ Told(c, <<m, name>>)' \/ Pending(m, c, name)'
  <2>1. /\ m \in 1 .. Len(published) /\ published'[m].kind = published[m].kind
        /\ published'[m].audience = published[m].audience
        /\ published'[m].left = published[m].left
        /\ published[m].step = "silent" => published'[m].step = "silent"
    BY <1>3, <1>4, <1>5, <1>8
  <2>2. published[m].step = "silent" \/ Told(c, <<m, name>>) \/ Pending(m, c, name)
    BY <1>8, <2>1 DEF ToldOrPending
  <2> QED
    BY <1>3, <2>1, <2>2 DEF Told, Pending, To
<1>9. ToldOrPending'
  BY <1>8 DEF ToldOrPending
<1> QED
  BY <1>7, <1>9

LEMMA TellStep ==
  ASSUME CloseInv, TellInv, [Next]_vars
  PROVE  TellInv'
<1>1. CloseInv'
  BY CloseStep
<1>2. ASSUME NEW c \in Conn, NEW room \in Room \cup {None}, NEW game \in Game \cup {None},
             ServeWS(c, room, game) \/ SubscribeRoom(c, room)
      PROVE  TellInv'
  BY <1>1, <1>2, ReaderTells
<1>3. ASSUME NEW c \in Conn, ReaderStep(c)
      PROVE  TellInv'
  BY <1>1, <1>3, ReaderTells
<1>4. ASSUME NEW c \in Conn, WriterStep(c) \/ PeerLeaves(c)
      PROVE  TellInv'
  BY <1>4, WriterTells
<1>5. \A room \in Room : roomSubs[room] \in SUBSET Conn
  BY DEF TellInv, TellTyped, SubsTyped, RoomKey
<1>6. \A game \in Game : gameSubs[game] \in SUBSET Conn
  BY DEF TellInv, TellTyped, SubsTyped
<1>7. ASSUME NEW room \in Room, PlayerJoinsOrLeaves(room)
      PROVE  TellInv'
  <2>1. Commit("players", room, None, roomSubs[room], "reading")
    BY <1>7 DEF PlayerJoinsOrLeaves
  <2>2. "players" \in Kinds
    BY DEF Kinds
  <2>3. /\ Broadcasts("players", room, None) \in Seq(Item)
        /\ \A c \in roomSubs[room], name \in Promised("players") :
             Reaches(Broadcasts("players", room, None), c, name)
    BY RoomBroadcasts
  <2> QED
    BY <1>5, <2>1, <2>2, <2>3, CommitTells
<1>8. ASSUME NEW kind \in Kinds, NEW room \in Room, NEW game \in Game, GameStarts(kind, room, game)
      PROVE  TellInv'
  <2>1. PICK step \in {"reading", "publishing"} :
          /\ Commit(kind, room, game, roomSubs[room], step)
          /\ kind \in {"started", "restarted"}
          /\ step = "reading" => kind = "restarted"
    BY <1>8 DEF GameStarts
  <2> QED
    BY <1>5, <2>1, CommitTells, RoomBroadcasts
<1>9. ASSUME NEW kind \in Kinds, NEW room \in Room, NEW game \in Game, PhaseChanges(kind, room, game)
      PROVE  TellInv'
  <2>1. PICK step \in {"reading", "publishing"} :
          /\ Commit(kind, room, game, gameSubs[game], step)
          /\ kind \in {"discussion", "voting", "voted"}
          /\ step = "reading" => kind = "voted"
    BY <1>9 DEF PhaseChanges
  <2>2. /\ Broadcasts(kind, room, game) \in Seq(Item)
        /\ \A c \in gameSubs[game], name \in Promised(kind) :
             Reaches(Broadcasts(kind, room, game), c, name)
    BY <2>1, GameBroadcasts
  <2>3. gameSubs[game] \in SUBSET Conn /\ (step = "reading" => kind \in {"players", "restarted", "voted"})
    BY <1>6, <2>1
  <2> QED
    BY <2>1, <2>2, <2>3, CommitTells
<1>10. ASSUME NEW n \in 1 .. Len(published), ReadsBack(n) \/ EndsSilently(n) \/ Broadcast(n)
       PROVE  TellInv'
  BY <1>10, ReadingBackTells, BroadcastTells
<1>11. CASE UNCHANGED vars
  <2>1. UNCHANGED <<published, queue, reader, writer, got, overrun, closed, roomSubs, gameSubs>>
    BY <1>11 DEF vars, hubVars
  <2>2. TellTyped'
    BY <2>1 DEF TellInv, TellTyped, SubsTyped
  <2>3. \A c, event : Told(c, event) => Told(c, event)'
    BY <2>1 DEF Told
  <2>4. \A b : To(b)' = To(b)
    BY <2>1 DEF To
  <2>5. \A n, c, name : Pending(n, c, name) => Pending(n, c, name)'
    BY <2>1, <2>4 DEF Pending
  <2>6. ToldOrPending'
    BY <2>1, <2>3, <2>5 DEF TellInv, ToldOrPending
  <2> QED
    BY <2>2, <2>6 DEF TellInv
<1> QED
  BY <1>2, <1>3, <1>4, <1>7, <1>8, <1>9, <1>10, <1>11 DEF Next

(***************************************************************************)
(* Whoever followed a room or a game when something was committed has been  *)
(* told by the time the handler is done, whatever else the hub did between  *)
(* its broadcasts, unless a queue was full or the connection has ended.     *)
(* A game's start and the phases the host opens are told without fail; what *)
(* is read back first, if the handler publishes at all.                     *)
(***************************************************************************)
THEOREM FollowersAreAllTold == Spec => []FollowersAreTold
<1>1. Init => CloseInv /\ TellInv
  BY HubConstants
  DEF Init, CloseInv, SubsTyped, ReaderSteps, NeverSendsOnClosed, TellInv, TellTyped,
      ToldOrPending
<1>2. CloseInv /\ TellInv /\ [Next]_vars => (CloseInv /\ TellInv)'
  BY CloseStep, TellStep
<1>3. TellInv => FollowersAreTold
  <2>1. ASSUME TellInv, NEW n \in 1 .. Len(published), published[n].step = "silent"
        PROVE  published[n].kind \in {"players", "restarted", "voted"}
    BY <2>1 DEF TellInv, TellTyped, ReadingBack
  <2>2. ASSUME TellInv, NEW n \in 1 .. Len(published), published[n].step = "publishing",
               published[n].left = <<>>, NEW c \in published[n].audience,
               NEW name \in Promised(published[n].kind)
        PROVE  Told(c, <<n, name>>)
    <3>1. Told(c, <<n, name>>) \/ Pending(n, c, name)
      BY <2>2 DEF TellInv, ToldOrPending
    <3>2. ToSet(published[n].left) = {}
      BY <2>2 DEF ToSet
    <3> QED
      BY <3>1, <3>2 DEF Pending
  <2> QED
    BY <2>1, <2>2 DEF FollowersAreTold, HandlerIsDone, Told
<1> QED
  BY <1>1, <1>2, <1>3, PTL DEF Spec

-----------------------------------------------------------------------------
(* The rest of the types: queues hold events of commits, and no more than    *)
(* there are places.                                                        *)
Queued ==
  /\ queue \in [Conn -> Seq(Event)]
  /\ \A c \in Conn : Len(queue[c]) <= QueueLen

RestTyped ==
  /\ clients \subseteq Conn /\ overrun \subseteq Conn
  /\ link \in [Conn -> {"none", "up", "gone", "closed"}]
  /\ Len(published) <= MaxPublished
  /\ Queued
  /\ got \in [Conn -> SUBSET Event]

LEMMA SendQueues ==
  ASSUME Queued, overrun \subseteq Conn, NEW to \in SUBSET Conn, NEW event \in Event,
         Send(to, event)
  PROVE  Queued' /\ overrun' \subseteq Conn
<1>1. \A c \in Conn : queue[c] \in Seq(Event) /\ Len(queue[c]) <= QueueLen
  BY DEF Queued
<1>2. ASSUME NEW c \in Conn
      PROVE  queue'[c] \in Seq(Event) /\ Len(queue'[c]) <= QueueLen
  <2> DEFINE q == queue[c]
  <2>1. q \in Seq(Event) /\ Len(q) <= QueueLen
    BY <1>1
  <2>2. queue'[c] = q \/ (Len(q) < QueueLen /\ queue'[c] = Append(q, event))
    BY DEF Send, HasPlace
  <2> HIDE DEF q
  <2>3. Append(q, event) \in Seq(Event) /\ Len(Append(q, event)) = Len(q) + 1
    BY <2>1
  <2> QED
    BY <2>1, <2>2, <2>3, HubConstants
<1>3. queue' = [c \in Conn |-> queue'[c]]
  BY DEF Send
<1>4. overrun' \subseteq Conn
  BY DEF Send
<1> QED
  BY <1>2, <1>3, <1>4 DEF Queued

LEMMA DequeueQueues ==
  ASSUME Queued, NEW c \in Conn, Dequeue(c)
  PROVE  Queued' /\ Head(queue[c]) \in Event
<1> DEFINE q == queue[c]
<1>1. q \in Seq(Event) /\ Len(q) <= QueueLen /\ q # <<>>
  BY DEF Queued, Dequeue
<1>2. queue' = [queue EXCEPT ![c] = Tail(q)]
  BY DEF Dequeue
<1> HIDE DEF q
<1>3. Tail(q) \in Seq(Event) /\ Len(Tail(q)) <= QueueLen /\ Head(q) \in Event
  BY <1>1, HubConstants
<1> QED
  BY <1>2, <1>3 DEF Queued, q

LEMMA RestStep ==
  ASSUME CloseInv, TellInv, RestTyped, [Next]_vars
  PROVE  RestTyped'
<1>0. Control \in Event /\ SubsTyped /\ published \in Seq(Entry)
  BY DEF Event, CloseInv, TellInv, TellTyped
<1>1. ASSUME NEW c \in Conn, NEW room, NEW game, ServeWS(c, room, game)
      PROVE  RestTyped'
  BY <1>1 DEF ServeWS, RestTyped, Queued
<1>1a. ASSUME NEW c \in Conn, NEW room, NEW game, SubscribeRoom(c, room) \/ SubscribeGame(c, game)
       PROVE  RestTyped'
  BY <1>1a DEF SubscribeRoom, SubscribeGame, RestTyped, Queued
<1>2. ASSUME NEW c \in Conn, Answer(c)
      PROVE  RestTyped'
  <2>1. Send({c}, Control) /\ UNCHANGED <<clients, link, published, got>>
    BY <1>2 DEF Answer, hubVars
  <2>2. Queued' /\ overrun' \subseteq Conn
    BY <1>0, <2>1, SendQueues DEF RestTyped
  <2> QED
    BY <2>1, <2>2 DEF RestTyped
<1>3. ASSUME NEW c \in Conn, Greet(c)
      PROVE  RestTyped'
  <2>1. Send({c}, Control) /\ UNCHANGED <<clients, link, published, got>>
    BY <1>3 DEF Greet, hubVars
  <2>2. Queued' /\ overrun' \subseteq Conn
    BY <1>0, <2>1, SendQueues DEF RestTyped
  <2> QED
    BY <2>1, <2>2 DEF RestTyped
<1>4. ASSUME NEW c \in Conn, ReadFails(c)
      PROVE  RestTyped'
  BY <1>4 DEF ReadFails, Unregister, RestTyped, Queued
<1>5. ASSUME NEW c \in Conn, Write(c)
      PROVE  RestTyped'
  <2>1. /\ Dequeue(c) /\ UNCHANGED <<clients, link, published, overrun>>
        /\ got' = [got EXCEPT ![c] = @ \cup ({Head(queue[c])} \ {Control})]
    BY <1>5 DEF Write, hubVars
  <2>2. Queued' /\ Head(queue[c]) \in Event
    BY <2>1, DequeueQueues DEF RestTyped
  <2> HIDE DEF Event
  <2> QED
    BY <2>1, <2>2 DEF RestTyped
<1>6. ASSUME NEW c \in Conn, WriteFails(c) \/ PingFails(c) \/ WriterSeesClose(c)
      PROVE  RestTyped'
  <2>1. /\ UNCHANGED <<clients, published, overrun, got>>
        /\ link' = [link EXCEPT ![c] = "closed"]
        /\ Dequeue(c) \/ UNCHANGED queue
    BY <1>6 DEF WriteFails, PingFails, WriterSeesClose, WriterEnds, hubVars
  <2>2. Queued'
    BY <2>1, DequeueQueues DEF RestTyped, Queued
  <2> QED
    BY <2>1, <2>2 DEF RestTyped
<1>7. ASSUME NEW c \in Conn, PeerLeaves(c)
      PROVE  RestTyped'
  BY <1>7 DEF PeerLeaves, hubVars, RestTyped, Queued
<1>8. ASSUME NEW kind, NEW room, NEW game, NEW audience, NEW step,
             Commit(kind, room, game, audience, step)
      PROVE  RestTyped'
  <2> DEFINE e == [kind |-> kind, game |-> game, audience |-> audience, step |-> step,
                   left |-> Broadcasts(kind, room, game)]
  <2>1. /\ published' = Append(published, e) /\ Len(published) < MaxPublished
        /\ UNCHANGED <<clients, link, queue, overrun, got>>
    BY <1>8 DEF Commit, hubVars
  <2> HIDE DEF e
  <2>2. Len(published') <= MaxPublished
    <3>1. Len(published') = Len(published) + 1 /\ Len(published) \in Nat
      BY <1>0, <2>1
    <3> QED
      BY <2>1, <3>1, HubConstants
  <2> QED
    BY <2>1, <2>2 DEF RestTyped, Queued
<1>9. ASSUME NEW n \in 1 .. Len(published), Broadcast(n)
      PROVE  RestTyped'
  <2> DEFINE left == published[n].left
             next == Head(left)
             e == [published[n] EXCEPT !.left = Tail(left)]
  <2>1. published[n] \in Entry
    BY <1>0
  <2>2. left \in Seq(Item) /\ left # <<>>
    BY <1>9, <2>1 DEF Entry, Broadcast
  <2>3. /\ Send(To(next), <<n, next.name>>) /\ UNCHANGED <<clients, link, got>>
        /\ published' = [published EXCEPT ![n] = e]
    BY <1>9 DEF Broadcast, hubVars, To
  <2> HIDE DEF left, e
  <2>4. next \in Item
    BY <2>2
  <2> HIDE DEF next
  <2>5. n \in 1 .. MaxPublished
    BY <1>0, HubConstants DEF RestTyped
  <2>6. To(next) \in SUBSET Conn /\ <<n, next.name>> \in Event
    BY <1>0, <2>4, <2>5 DEF To, Item, Event, SubsTyped
  <2>7. Queued' /\ overrun' \subseteq Conn
    BY <2>3, <2>6, SendQueues DEF RestTyped
  <2>8. Len(published') = Len(published)
    BY <1>0, <2>3
  <2> QED
    BY <2>3, <2>7, <2>8 DEF RestTyped
<1>10. ASSUME NEW n \in 1 .. Len(published), ReadsBack(n) \/ EndsSilently(n)
       PROVE  RestTyped'
  <2>1. /\ UNCHANGED <<clients, link, queue, overrun, got>>
        /\ \E step : published' = [published EXCEPT ![n].step = step]
    BY <1>10 DEF ReadsBack, EndsSilently, hubVars
  <2>2. Len(published') = Len(published)
    BY <1>0, <2>1
  <2> QED
    BY <2>1, <2>2 DEF RestTyped, Queued
<1>11. CASE UNCHANGED vars
  BY <1>11 DEF vars, hubVars, RestTyped, Queued
<1> QED
  BY <1>1, <1>1a, <1>2, <1>3, <1>4, <1>5, <1>6, <1>7, <1>8, <1>9, <1>10, <1>11
     DEF Next, ReaderStep, WriterStep, PlayerJoinsOrLeaves, GameStarts, PhaseChanges

(***************************************************************************)
(* The hub's state has its types, of which the ones that count: a client's  *)
(* channel never holds more than its places, whoever sends, and what is     *)
(* queued or written is an event of a commit or the hub's own.              *)
(***************************************************************************)
THEOREM HubTypeCorrect == Spec => []TypeOK
<1>1. Init => CloseInv /\ TellInv /\ RestTyped
  <2> SUFFICES ASSUME Init PROVE CloseInv /\ TellInv /\ RestTyped
    OBVIOUS
  <2>1. CloseInv /\ TellInv
    BY HubConstants DEF Init, CloseInv, SubsTyped, ReaderSteps, NeverSendsOnClosed, TellInv, TellTyped,
      ToldOrPending
  <2>2. RestTyped
    BY HubConstants DEF Init, RestTyped, Queued
  <2> QED
    BY <2>1, <2>2
<1>2. CloseInv /\ TellInv /\ RestTyped /\ [Next]_vars => (CloseInv /\ TellInv /\ RestTyped)'
  BY CloseStep, TellStep, RestStep
<1>3. CloseInv /\ TellInv /\ RestTyped => TypeOK
  <2> SUFFICES ASSUME CloseInv, TellInv, RestTyped PROVE TypeOK
    OBVIOUS
  <2>1. \A n \in 1 .. Len(published) : published[n] \in Entry
    BY DEF TellInv, TellTyped
  <2>2. \A n \in 1 .. Len(published) : /\ published[n].kind \in Kinds
                                       /\ published[n].game \in Game \cup {None}
                                       /\ published[n].audience \subseteq Conn
                                       /\ published[n].step \in HandlerSteps
    BY <2>1 DEF Entry
  <2>3. \A c \in Conn : queue[c] \in Seq(Event) /\ Len(queue[c]) <= QueueLen
    BY DEF RestTyped, Queued
  <2> QED
    BY <2>2, <2>3 DEF TypeOK, CloseInv, SubsTyped, ReaderSteps, TellInv, TellTyped, RestTyped
<1> QED
  BY <1>1, <1>2, <1>3, PTL DEF Spec
=============================================================================
