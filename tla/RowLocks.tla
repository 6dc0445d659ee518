------------------------------- MODULE RowLocks -------------------------------
(***************************************************************************)
(* The row locks and pooled connections of the requests of one room.        *)
(*                                                                          *)
(* Every handler is the list of what it asks of the database, in order: its *)
(* transactions, with the rows they lock.  A transaction keeps its          *)
(* connection and its locks to its end; a query made beside it takes another *)
(* connection of the pool.  (The middleware's queries before and those for  *)
(* the answer after are left out: they hold nothing and wait for nobody.)   *)
(* PostgreSQL aborts a transaction out of a cycle of waits; it does not see *)
(* who waits for the pool, and nothing else gives up.                       *)
(***************************************************************************)
EXTENDS Integers, Sequences, FiniteSets

CONSTANTS
  Requests,     \* bound: how many requests are made
  Seats,        \* the players of the room, as they joined
  Room, Game,   \* the rows of the room and of its game
  Nobody,       \* who makes a request of no one's, or dies of none
  Conns         \* DB_MAX_OPEN_CONNS

Request == 1 .. Requests
Player == {Seats[i] : i \in DOMAIN Seats}

ASSUME LockConstants ==
  /\ Requests \in Nat /\ Conns \in Nat \ {0}
  /\ Seats \in Seq(Player) /\ \A i, j \in DOMAIN Seats : Seats[i] = Seats[j] => i = j
  /\ {Room, Game, Nobody} \cap Player = {} /\ Cardinality({Room, Game, Nobody}) = 3

VARIABLES
  status,       \* the room's committed status
  kind,         \* the kind of each request, "none" before it is made
  todo,         \* what it still asks of the database
  inTx,         \* whether it is in a transaction, on a connection of its own
  holds         \* the locks it holds: rows with modes

vars == <<status, kind, todo, inTx, holds>>

(* FOR KEY SHARE of the rows an insert refers to, FOR NO KEY UPDATE of an    *)
(* update, and SELECT ... FOR UPDATE.                                       *)
Modes == {"share", "nokey", "update"}

Conflict(m, n) == "update" \in {m, n} \/ {m, n} = {"nokey"}

Kinds == {"join", "leave", "host leaves", "start", "restart", "confirm",
          "vote", "act", "host moves on"}

Row == {Room, Game} \cup Player

Free == Conns - Cardinality({r \in Request : inTx[r]})

Step ==
  [do : {"query", "begin", "bury", "lobby?", "commit"}]
    \cup [do : {"lock"}, row : Row, mode : Modes]

TypeOK ==
  /\ status \in {"lobby", "in_game"}
  /\ kind \in [Request -> Kinds \cup {"none"}]
  /\ todo \in [Request -> Seq(Step)]
  /\ inTx \in [Request -> BOOLEAN] /\ Free >= 0
  /\ holds \in [Request -> SUBSET (Row \X Modes)]
  /\ \A r \in Request : ~inTx[r] => holds[r] = {}

Init ==
  /\ status \in {"lobby", "in_game"}
  /\ kind = [r \in Request |-> "none"]
  /\ todo = [r \in Request |-> <<>>]
  /\ inTx = [r \in Request |-> FALSE]
  /\ holds = [r \in Request |-> {}]

-----------------------------------------------------------------------------
(* What is asked of the database. *)

Lock(row, mode) == [do |-> "lock", row |-> row, mode |-> mode]
Do(what) == [do |-> what]

Transaction(steps) == <<Do("begin")>> \o steps \o <<Do("commit")>>

(* The lists of these players, each once, and the one in which they joined: *)
(* an UPDATE of them all has no order, a SELECT ... FOR UPDATE orders them.  *)
InAnyOrder(players) ==
  {list \in [1 .. Cardinality(players) -> players] :
     \A i, j \in DOMAIN list : list[i] = list[j] => i = j}

InOrder(players) ==
  {list \in InAnyOrder(players) :
     \A i, j \in DOMAIN list : i < j =>
       \E k, l \in DOMAIN Seats : k < l /\ Seats[k] = list[i] /\ Seats[l] = list[j]}

LockAll(list, mode) == [i \in DOMAIN list |-> Lock(list[i], mode)]

(* AdvanceIfComplete: somebody may die of it. *)
Advance == Transaction(<<Lock(Game, "update"), Do("bury")>>)

JoinRoom == Transaction(<<Lock(Room, "update")>>)

LeaveRoom(p) ==
  Transaction(<<Lock(Room, "update"), Lock(p, "update")>>)

(* A row that the transaction has locked FOR UPDATE is not locked again: of  *)
(* the host the others are left, connected or gone.                         *)
LeaveRoomAsHost(p, others) ==
  Transaction(<<Lock(Room, "update"), Lock(p, "update")>> \o LockAll(others, "update"))

(* StartInTx inserts rows that refer to what is locked already; all players *)
(* are marked alive, those who left included.                               *)
StartGame(p, connected, gone) ==
  Transaction(<<Lock(Room, "update"), Do("lobby?"), Lock(p, "update")>>
              \o LockAll(connected, "update") \o LockAll(gone, "nokey"))

RestartRoom(p, connected, gone) ==
  Transaction(<<Lock(Room, "update"), Lock(p, "update"), Lock(Game, "update")>>
              \o LockAll(connected, "update") \o LockAll(gone, "nokey"))

ConfirmRoleReveal ==
  Transaction(<<Lock(Game, "update")>>) \o Advance

(* Faulty variant: the voter's row is locked before the game's.             *)
SubmitVoteLockingVoterFirst(voter, target) ==
  Transaction(<<Lock(voter, "update"), Lock(Game, "update"), Do("query"),
                Lock(target, "share")>>)
    \o Advance

(* HasVoted does not use the transaction.  The insert refers to both.       *)
SubmitVote(voter, target) ==
  Transaction(<<Lock(Game, "update"), Do("query"),
                Lock(voter, "share"), Lock(target, "share")>>)
    \o Advance

(* Faulty variant: whether one has acted is asked outside the transaction.  *)
SubmitActionOffTransaction(player, target) ==
  Transaction(<<Lock(Game, "update"), Do("query"),
                Lock(player, "share"), Lock(target, "share")>>)
    \o Advance

(* HasNightActionSubmittedTx does. *)
SubmitAction(player, target) ==
  Transaction(<<Lock(Game, "update"), Lock(player, "share"), Lock(target, "share")>>)
    \o Advance

ManualTransition == Transaction(<<Lock(Game, "update")>>)

-----------------------------------------------------------------------------
Arrives(r, what, steps) ==
  /\ kind[r] = "none" /\ \A q \in 1 .. r - 1 : kind[q] # "none"
  /\ kind' = [kind EXCEPT ![r] = what]
  /\ todo' = [todo EXCEPT ![r] = steps]
  /\ UNCHANGED <<status, inTx, holds>>

(* The players but p: those connected, and those who are gone.              *)
Apart(p, here) == InOrder(here) \X InAnyOrder(Player \ (here \cup {p}))

RoomRequest(r) ==
  \/ Arrives(r, "join", JoinRoom)
  \/ \E p \in Player :
       \/ Arrives(r, "leave", LeaveRoom(p))
       \/ \E others \in InOrder(Player \ {p}) :
            Arrives(r, "host leaves", LeaveRoomAsHost(p, others))
       \/ \E here \in SUBSET (Player \ {p}) : \E lists \in Apart(p, here) :
            Arrives(r, "start", StartGame(p, lists[1], lists[2]))

(* Requests that find a game.                                               *)
GameRequest(r) ==
  /\ status = "in_game"
  /\ \/ Arrives(r, "confirm", ConfirmRoleReveal)
     \/ Arrives(r, "host moves on", ManualTransition)
     \/ \E p \in Player : \E here \in SUBSET (Player \ {p}) : \E lists \in Apart(p, here) :
          Arrives(r, "restart", RestartRoom(p, lists[1], lists[2]))
     \/ \E p, q \in Player :
          \/ p # q /\ Arrives(r, "vote", SubmitVote(p, q))
          \/ Arrives(r, "act", SubmitAction(p, q))

Asks(r, what) == todo[r] # <<>> /\ Head(todo[r]).do = what

Done(r) == todo' = [todo EXCEPT ![r] = Tail(@)]

Query(r) ==
  /\ Asks(r, "query")
  /\ Free > 0
  /\ Done(r)
  /\ UNCHANGED <<status, kind, inTx, holds>>

Begin(r) ==
  /\ Asks(r, "begin")
  /\ Free > 0
  /\ inTx' = [inTx EXCEPT ![r] = TRUE]
  /\ Done(r)
  /\ UNCHANGED <<status, kind, holds>>

(* Whom a request waits for. *)
Blockers(r) ==
  IF ~Asks(r, "lock") THEN {}
  ELSE {q \in Request \ {r} : \E held \in holds[q] :
          held[1] = Head(todo[r]).row /\ Conflict(held[2], Head(todo[r]).mode)}

Acquire(r) ==
  /\ Asks(r, "lock")
  /\ Blockers(r) = {}
  /\ holds' = [holds EXCEPT ![r] = @ \cup {<<Head(todo[r]).row, Head(todo[r]).mode>>}]
  /\ Done(r)
  /\ UNCHANGED <<status, kind, inTx>>

(* SetPlayerAlive, if the phase was complete and somebody is to die.        *)
Bury(r, victim) ==
  /\ Asks(r, "bury")
  /\ todo' = [todo EXCEPT ![r] =
       (IF victim = Nobody THEN <<>> ELSE <<Lock(victim, "nokey")>>) \o Tail(@)]
  /\ UNCHANGED <<status, kind, inTx, holds>>

(* Only a lobby is started. *)
FindLobby(r) ==
  /\ Asks(r, "lobby?")
  /\ status = "lobby"
  /\ Done(r)
  /\ UNCHANGED <<status, kind, inTx, holds>>

(* Faulty variant: the connection returns to the pool with its locks.       *)
ReleaseKeepingLocks(r) ==
  /\ inTx' = [inTx EXCEPT ![r] = FALSE]
  /\ UNCHANGED holds

Release(r) ==
  /\ inTx' = [inTx EXCEPT ![r] = FALSE]
  /\ holds' = [holds EXCEPT ![r] = {}]

Commit(r) ==
  /\ Asks(r, "commit")
  /\ Release(r)
  /\ status' = IF kind[r] = "start" THEN "in_game" ELSE status
  /\ Done(r)
  /\ UNCHANGED kind

(* A check of the handler fails: what was begun is rolled back.             *)
Refused(r) ==
  /\ todo[r] # <<>>
  /\ Release(r)
  /\ todo' = [todo EXCEPT ![r] = <<>>]
  /\ UNCHANGED <<status, kind>>

(* Requests each of which waits for another of them.                        *)
Deadlocked(rs) == rs # {} /\ \A r \in rs : Blockers(r) \cap rs # {}

Cycle(rs) == Deadlocked(rs) /\ \A fewer \in SUBSET rs : Deadlocked(fewer) => fewer = rs

(* PostgreSQL aborts one transaction of a cycle. *)
Abort(r) ==
  /\ \E rs \in SUBSET Request : r \in rs /\ Cycle(rs)
  /\ Refused(r)

-----------------------------------------------------------------------------
Proceed(r) ==
  \/ Query(r) \/ Begin(r) \/ Acquire(r) \/ Commit(r) \/ Abort(r)
  \/ \E victim \in Player \cup {Nobody} : Bury(r, victim)
  \/ FindLobby(r) \/ (Asks(r, "lobby?") /\ Refused(r))

Next ==
  \E r \in Request : RoomRequest(r) \/ GameRequest(r) \/ Proceed(r) \/ Refused(r)

(* A request that can go on does. *)
Fairness == \A r \in Request : WF_vars(Proceed(r))

Spec == Init /\ [][Next]_vars /\ Fairness

-----------------------------------------------------------------------------
(* Requests of players wait for each other in a cycle only if the host, who  *)
(* leaves or restarts, is among them: only these lock several players' rows, *)
(* or a player's before the game's.                                         *)
DeadlocksNeedTheHost ==
  ~\E rs \in SUBSET {r \in Request : kind[r] \notin {"host leaves", "restart"}} : Deadlocked(rs)

(* A vote holds a connection and the game's row, and waits for a connection. *)
VoteStarves ==
  Free = 0 /\ \E r \in Request : kind[r] = "vote" /\ inTx[r] /\ Asks(r, "query")

CanGoOn(r) ==
  \/ Asks(r, "bury") \/ Asks(r, "lobby?") \/ Asks(r, "commit")
  \/ Free > 0 /\ (Asks(r, "begin") \/ Asks(r, "query"))
  \/ Asks(r, "lock") /\ Blockers(r) = {}
  \/ \E rs \in SUBSET Request : r \in rs /\ Cycle(rs)

(* The requests never stand still together, each waiting for a row or a      *)
(* connection that another has, in a way PostgreSQL does not see, unless a   *)
(* vote is among them that cannot get its second connection.                *)
OnlyVotesStarve ==
  (\E r \in Request : todo[r] # <<>>) => VoteStarves \/ \E r \in Request : CanGoOn(r)

(* Every request is answered, in time, unless a vote cannot get its second   *)
(* connection while the requests that wait for it have all the others.      *)
AnsweredUnlessVoteStarves == <>[](VoteStarves \/ \A r \in Request : todo[r] = <<>>)
=============================================================================
