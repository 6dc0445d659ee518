--------------------------- MODULE RowLocks_proofs ---------------------------
(***************************************************************************)
(* What is proved of the row locks, for any number of requests, players and *)
(* connections: at no time does the pool lend more than it has, and only the *)
(* host, leaving or restarting, can be part of a cycle of waits.            *)
(*                                                                          *)
(* A handler's locks are lists, so the invariant speaks of lists: what is    *)
(* left of a request is transactions that lock one row before all others,   *)
(* the key, and hold it to their end.  The lemmas of the first half show    *)
(* that every handler starts with such a list.                              *)
(***************************************************************************)
EXTENDS RowLocks, FiniteSetTheorems, SequenceTheorems, TLAPS

(* The two requests of the host that lock what no other request does.       *)
HostKinds == {"host leaves", "restart"}

RoomKinds == {"join", "leave", "start"} \cup HostKinds

GameKinds == {"confirm", "vote", "act", "host moves on"}

DoorKinds == {"join", "leave"}

(* The row every transaction of a request locks first. *)
Key(k) == IF k \in RoomKinds THEN Room ELSE Game

Locks(step) == step.do = "lock"

(* What is left of a list of transactions each of which locks the key first, *)
(* and only first.                                                          *)
Formed(s, key) ==
  /\ s # <<>> => s[Len(s)].do = "commit"
  /\ \A i \in DOMAIN s : s[i].do = "begin" =>
       /\ i + 1 \in DOMAIN s
       /\ Locks(s[i + 1]) /\ s[i + 1].row = key /\ s[i + 1].mode = "update"
  /\ \A i \in DOMAIN s : i + 1 \in DOMAIN s => (s[i].do = "commit" <=> s[i + 1].do = "begin")
  /\ \A i \in DOMAIN s : i > 1 /\ Locks(s[i]) /\ s[i].row = key => s[i - 1].do = "begin"

(* Beside the key only players' rows are locked. *)
LocksPlayers(s, key) == \A i \in DOMAIN s : Locks(s[i]) => s[i].row \in {key} \cup Player

(* A start asks for the lobby right after it has locked the room.           *)
AsksFirst(s) ==
  /\ \A i \in DOMAIN s : s[i].do = "begin" => i + 2 \in DOMAIN s /\ s[i + 2].do = "lobby?"
  /\ \A i \in DOMAIN s : Locks(s[i]) /\ s[i].row = Room =>
       i + 1 \in DOMAIN s /\ s[i + 1].do = "lobby?"
  /\ \A i \in DOMAIN s : Locks(s[i]) /\ s[i].row # Room =>
       \A j \in DOMAIN s : j > i => s[j].do # "lobby?"

(* Who comes or goes locks one player's row at most, last.                  *)
LocksOneLast(s) ==
  \A i \in DOMAIN s : Locks(s[i]) /\ s[i].row # Room => \A j \in DOMAIN s : j > i => ~Locks(s[j])

BuriesNobody(s) == \A i \in DOMAIN s : s[i].do # "bury"

(* Only a vote makes a query beside its transaction.                        *)
NeverQueries(s) == \A i \in DOMAIN s : s[i].do # "query"

Shaped(s, k) ==
  /\ Formed(s, Key(k))
  /\ k \notin GameKinds => BuriesNobody(s)
  /\ k # "vote" => NeverQueries(s)
  /\ k \notin HostKinds => LocksPlayers(s, Key(k))
  /\ k = "start" => AsksFirst(s)
  /\ k \in DoorKinds => LocksOneLast(s)

Holds(r, row) == \E held \in holds[r] : held[1] = row

HoldsAPlayer(r) == \E p \in Player : Holds(r, p)

AtKey(r) == Locks(todo[r][1]) /\ todo[r][1].row = Key(kind[r])

InTransaction(r) ==
  /\ ~inTx[r] => holds[r] = {} /\ (todo[r] # <<>> => todo[r][1].do = "begin")
  /\ inTx[r] => /\ todo[r] # <<>> /\ todo[r][1].do # "begin"
                /\ AtKey(r) => holds[r] = {} /\ todo[r][1].mode = "update"
                /\ ~AtKey(r) => <<Key(kind[r]), "update">> \in holds[r]

AskedForLobby(r) == inTx[r] /\ \A i \in DOMAIN todo[r] : todo[r][i].do # "lobby?"

ByKind(r) ==
  /\ kind[r] \notin HostKinds => \A held \in holds[r] : held[1] \in {Key(kind[r])} \cup Player
  /\ kind[r] = "start" => /\ HoldsAPlayer(r) => AskedForLobby(r)
                          /\ AskedForLobby(r) => status = "lobby"
  /\ kind[r] \in DoorKinds => (HoldsAPlayer(r) => \A i \in DOMAIN todo[r] : ~Locks(todo[r][i]))
  /\ kind[r] \in GameKinds => status = "in_game"
  /\ kind[r] = "none" => todo[r] = <<>>

RequestInv(r) == Shaped(todo[r], kind[r]) /\ InTransaction(r) /\ ByKind(r)

(* Locks that conflict are never held at once. *)
Compatible(some, others) ==
  \A h \in some, k \in others : h[1] = k[1] => ~Conflict(h[2], k[2])

Exclusive == \A q, r \in Request : q # r => Compatible(holds[q], holds[r])

LockInv == TypeOK /\ Exclusive /\ \A r \in Request : RequestInv(r)

-----------------------------------------------------------------------------
(* The rows are different ones. *)
LEMMA RowsDiffer == Room # Game /\ \A p \in Player : p # Room /\ p # Game /\ p # Nobody
<1>1. ASSUME Room = Game PROVE FALSE
  <2>1. {Room, Game, Nobody} = {Game, Nobody}
    BY <1>1
  <2>2. IsFiniteSet({Nobody}) /\ Cardinality({Nobody}) = 1
    BY FS_Singleton
  <2>3. {Nobody} \cup {Game} = {Game, Nobody}
    OBVIOUS
  <2>4. Cardinality({Nobody} \cup {Game}) = IF Game \in {Nobody} THEN Cardinality({Nobody})
                                                               ELSE Cardinality({Nobody}) + 1
    BY <2>2, FS_AddElement
  <2>5. Cardinality({Game, Nobody}) = 1 \/ Cardinality({Game, Nobody}) = 1 + 1
    BY <2>2, <2>3, <2>4
  <2>6. Cardinality({Game, Nobody}) = 3
    BY <2>1, LockConstants
  <2> QED
    BY <2>5, <2>6
<1> QED
  BY <1>1, LockConstants

(* Lists of steps, and what is left of them after the first. *)
LEMMA Steps ==
  /\ \A row \in Row, mode \in Modes :
       /\ Lock(row, mode) \in Step /\ Lock(row, mode).do = "lock"
       /\ Lock(row, mode).row = row /\ Lock(row, mode).mode = mode
  /\ \A what \in {"query", "begin", "bury", "lobby?", "commit"} :
       Do(what) \in Step /\ Do(what).do = what
BY DEF Lock, Do, Step

LEMMA TailOf ==
  ASSUME NEW s \in Seq(Step), s # <<>>
  PROVE  /\ Tail(s) \in Seq(Step) /\ Head(s) = s[1] /\ s[1] \in Step /\ 1 \in DOMAIN s
         /\ Len(s) \in Nat \ {0} /\ Len(Tail(s)) = Len(s) - 1 /\ DOMAIN s = 1 .. Len(s)
         /\ DOMAIN Tail(s) = 1 .. Len(s) - 1
         /\ \A i \in DOMAIN Tail(s) : i + 1 \in DOMAIN s /\ Tail(s)[i] = s[i + 1]
OBVIOUS

LEMMA TailShaped ==
  ASSUME NEW k, NEW s \in Seq(Step), s # <<>>, Shaped(s, k)
  PROVE  /\ Shaped(Tail(s), k)
         /\ Tail(s) = <<>> => s[1].do = "commit"
         /\ Tail(s) # <<>> => (s[1].do = "commit" <=> Tail(s)[1].do = "begin")
<1> DEFINE t == Tail(s)
<1>1. /\ t \in Seq(Step) /\ Len(s) \in Nat \ {0} /\ Len(t) = Len(s) - 1
      /\ DOMAIN s = 1 .. Len(s) /\ DOMAIN t = 1 .. Len(s) - 1
      /\ \A i \in DOMAIN t : i + 1 \in DOMAIN s /\ t[i] = s[i + 1]
      /\ t = <<>> <=> Len(t) = 0
  <2>1. t \in Seq(Step)
    BY TailOf
  <2> QED
    BY <2>1, TailOf
<1> HIDE DEF t
<1>2. Formed(t, Key(k))
  <2> USE <1>1 DEF Shaped, Formed
  <2>1. t # <<>> => t[Len(t)].do = "commit"
    OBVIOUS
  <2>2. ASSUME NEW i \in DOMAIN t, t[i].do = "begin"
        PROVE  /\ i + 1 \in DOMAIN t
               /\ Locks(t[i + 1]) /\ t[i + 1].row = Key(k) /\ t[i + 1].mode = "update"
    <3>1. i + 1 \in DOMAIN s /\ s[i + 1].do = "begin"
      BY <2>2
    <3>2. i + 2 \in DOMAIN s /\ Locks(s[i + 2]) /\ s[i + 2].row = Key(k) /\ s[i + 2].mode = "update"
      BY <3>1
    <3> QED
      BY <3>2
  <2>3. \A i \in DOMAIN t : i + 1 \in DOMAIN t => (t[i].do = "commit" <=> t[i + 1].do = "begin")
    OBVIOUS
  <2>4. \A i \in DOMAIN t : i > 1 /\ Locks(t[i]) /\ t[i].row = Key(k) => t[i - 1].do = "begin"
    OBVIOUS
  <2> QED
    BY <2>1, <2>2, <2>3, <2>4
<1>3. k \notin HostKinds => LocksPlayers(t, Key(k))
  BY <1>1 DEF Shaped, LocksPlayers
<1>4. k = "start" => AsksFirst(t)
  <2> SUFFICES ASSUME AsksFirst(s) PROVE AsksFirst(t)
    BY DEF Shaped
  <2> USE <1>1 DEF AsksFirst
  <2>1. ASSUME NEW i \in DOMAIN t, t[i].do = "begin"
        PROVE  i + 2 \in DOMAIN t /\ t[i + 2].do = "lobby?"
    <3>1. i + 1 \in DOMAIN s /\ s[i + 1].do = "begin"
      BY <2>1
    <3>2. (i + 1) + 2 \in DOMAIN s /\ s[(i + 1) + 2].do = "lobby?"
      BY <3>1
    <3>3. (i + 1) + 2 = (i + 2) + 1
      OBVIOUS
    <3> QED
      BY <3>2, <3>3
  <2>2. ASSUME NEW i \in DOMAIN t, Locks(t[i]), t[i].row = Room
        PROVE  i + 1 \in DOMAIN t /\ t[i + 1].do = "lobby?"
    <3>1. i + 1 \in DOMAIN s /\ Locks(s[i + 1]) /\ s[i + 1].row = Room
      BY <2>2
    <3>2. i + 2 \in DOMAIN s /\ s[i + 2].do = "lobby?"
      BY <3>1
    <3> QED
      BY <3>2
  <2>3. ASSUME NEW i \in DOMAIN t, Locks(t[i]), t[i].row # Room, NEW j \in DOMAIN t, j > i
        PROVE  t[j].do # "lobby?"
    <3>1. i + 1 \in DOMAIN s /\ Locks(s[i + 1]) /\ s[i + 1].row # Room /\ j + 1 \in DOMAIN s
          /\ j + 1 > i + 1
      BY <2>3
    <3> QED
      BY <3>1
  <2> QED
    BY <2>1, <2>2, <2>3
<1>5. k \in DoorKinds => LocksOneLast(t)
  <2> SUFFICES ASSUME LocksOneLast(s), NEW i \in DOMAIN t, Locks(t[i]), t[i].row # Room,
                      NEW j \in DOMAIN t, j > i
               PROVE  ~Locks(t[j])
    BY DEF Shaped, LocksOneLast
  <2>1. i + 1 \in DOMAIN s /\ Locks(s[i + 1]) /\ s[i + 1].row # Room /\ j + 1 \in DOMAIN s
        /\ j + 1 > i + 1
    BY <1>1
  <2> QED
    BY <1>1, <2>1 DEF LocksOneLast
<1>a. /\ k \notin GameKinds => BuriesNobody(t)
      /\ k # "vote" => NeverQueries(t)
  BY <1>1 DEF Shaped, BuriesNobody, NeverQueries
<1>6. t = <<>> => s[1].do = "commit"
  BY <1>1 DEF Shaped, Formed
<1>7. t # <<>> => (s[1].do = "commit" <=> t[1].do = "begin")
  <2> SUFFICES ASSUME t # <<>> PROVE s[1].do = "commit" <=> t[1].do = "begin"
    OBVIOUS
  <2>1. 1 \in DOMAIN s /\ 1 + 1 \in DOMAIN s /\ t[1] = s[1 + 1]
    BY <1>1
  <2> QED
    BY <2>1 DEF Shaped, Formed
<1> QED
  BY <1>2, <1>3, <1>4, <1>5, <1>a, <1>6, <1>7 DEF Shaped, t

(* SetPlayerAlive takes the place of the question whom it is to be.         *)
LEMMA BuryShaped ==
  ASSUME NEW k \in GameKinds, NEW s \in Seq(Step), s # <<>>, Shaped(s, k), s[1].do = "bury",
         NEW victim \in Player
  PROVE  LET t == <<Lock(victim, "nokey")>> \o Tail(s)
         IN  /\ t \in Seq(Step) /\ t # <<>> /\ t[1] = Lock(victim, "nokey")
             /\ Shaped(t, k)
<1> DEFINE t == <<Lock(victim, "nokey")>> \o Tail(s)
           x == Lock(victim, "nokey")
<1>1. x \in Step /\ Locks(x) /\ x.row = victim /\ x.do = "lock"
  BY Steps DEF Row, Modes, Locks
<1>2. victim # Key(k)
  BY LockConstants DEF Key, GameKinds, RoomKinds, HostKinds
<1> HIDE DEF x
<1>3. /\ t \in Seq(Step) /\ t # <<>> /\ Len(t) = Len(s) /\ Len(s) \in Nat \ {0} /\ t[1] = x
      /\ DOMAIN s = 1 .. Len(s) /\ DOMAIN t = 1 .. Len(s)
      /\ \A i \in DOMAIN s : i # 1 => t[i] = s[i]
  <2>1. /\ Tail(s) \in Seq(Step) /\ Len(Tail(s)) = Len(s) - 1 /\ Len(s) \in Nat \ {0}
        /\ DOMAIN s = 1 .. Len(s)
        /\ \A i \in 1 .. Len(s) - 1 : Tail(s)[i] = s[i + 1]
    BY TailOf
  <2> DEFINE u == Tail(s)
  <2> HIDE DEF u
  <2>2. t = <<x>> \o u /\ u \in Seq(Step) /\ Len(u) = Len(s) - 1
        /\ \A i \in 1 .. Len(s) - 1 : u[i] = s[i + 1]
    BY <2>1 DEF u, x
  <2> HIDE DEF t
  <2>3. t \in Seq(Step) /\ t # <<>> /\ Len(t) = Len(s) /\ t[1] = x
        /\ \A i \in 2 .. Len(s) : t[i] = u[i - 1]
    <3> DEFINE v == <<x>>
    <3>1. v \in Seq(Step) /\ Len(v) = 1 /\ v[1] = x /\ t = v \o u
      BY <1>1, <2>2
    <3> HIDE DEF v
    <3>2. t \in Seq(Step) /\ Len(t) = Len(s)
      <4>1. v \o u \in Seq(Step)
        BY <2>2, <3>1
      <4>2. Len(v \o u) = Len(v) + Len(u)
        BY <2>2, <3>1
      <4>3. t \in Seq(Step)
        BY <3>1, <4>1
      <4>4. Len(t) = 1 + (Len(s) - 1)
        BY <2>2, <3>1, <4>2
      <4>5. Len(s) \in Nat
        BY <2>1
      <4> QED
        BY <4>3, <4>4, <4>5
    <3>3. t[1] = x /\ t # <<>>
      BY <2>1, <2>2, <3>1
    <3>4. \A i \in 2 .. Len(s) : t[i] = u[i - 1]
      BY <2>1, <2>2, <3>1
    <3> QED
      BY <3>2, <3>3, <3>4
  <2>4. ASSUME NEW i \in 2 .. Len(s)
        PROVE  t[i] = s[i]
    BY <2>1, <2>2, <2>3
  <2> QED
    BY <2>1, <2>3, <2>4
<1> HIDE DEF t
<1>4. Formed(t, Key(k))
  <2> USE <1>1, <1>2, <1>3 DEF Shaped, Formed
  <2>0. s[1].do # "commit" /\ s[1].do # "begin" /\ x.do # "commit" /\ x.do # "begin" /\ Len(s) # 1
    OBVIOUS
  <2>1. t[Len(t)].do = "commit"
    BY <2>0
  <2>2. \A i \in DOMAIN t : t[i].do = "begin" =>
          /\ i + 1 \in DOMAIN t
          /\ Locks(t[i + 1]) /\ t[i + 1].row = Key(k) /\ t[i + 1].mode = "update"
    BY <2>0
  <2>3. \A i \in DOMAIN t : i + 1 \in DOMAIN t => (t[i].do = "commit" <=> t[i + 1].do = "begin")
    BY <2>0
  <2>4. ASSUME NEW i \in DOMAIN t, i > 1, Locks(t[i]), t[i].row = Key(k)
        PROVE  t[i - 1].do = "begin"
    <3>1. s[i - 1].do = "begin"
      BY <2>4
    <3> QED
      BY <2>0, <2>4, <3>1
  <2> QED
    BY <2>1, <2>2, <2>3, <2>4
<1>5. LocksPlayers(t, Key(k))
  BY <1>1, <1>3 DEF Shaped, LocksPlayers, GameKinds, HostKinds
<1>a. k # "vote" => NeverQueries(t)
  BY <1>1, <1>3 DEF Shaped, NeverQueries
<1>6. Shaped(t, k)
  BY <1>4, <1>5, <1>a DEF Shaped, GameKinds, DoorKinds
<1> QED
  BY <1>3, <1>6 DEF t, x

-----------------------------------------------------------------------------
(* The lists the handlers start with. *)
PlayerLocks == [do : {"lock"}, row : Player, mode : Modes]

LEMMA PlayersAreFinite ==
  ASSUME NEW players \in SUBSET Player
  PROVE  IsFiniteSet(players) /\ Cardinality(players) \in Nat
<1>1. IsFiniteSet(1 .. Len(Seats)) /\ Seats \in [1 .. Len(Seats) -> Player]
  <2>1. Seats \in Seq(Player)
    BY LockConstants
  <2>2. Len(Seats) \in Nat /\ Seats \in [1 .. Len(Seats) -> Player]
    BY <2>1
  <2> QED
    BY <2>2, FS_Interval
<1>2. Seats \in Surjection(1 .. Len(Seats), Player)
  BY <1>1 DEF Surjection, Player
<1>3. IsFiniteSet(Player)
  BY <1>1, <1>2, FS_Surjection
<1> QED
  BY <1>3, FS_Subset, FS_CardinalityType

LEMMA LockAllOf ==
  ASSUME NEW players \in SUBSET Player, NEW list \in InAnyOrder(players), NEW mode \in Modes
  PROVE  LockAll(list, mode) \in Seq(PlayerLocks)
<1> DEFINE n == Cardinality(players)
<1>1. n \in Nat /\ list \in [1 .. n -> players]
  BY PlayersAreFinite DEF InAnyOrder
<1> HIDE DEF n
<1>2. \A i \in 1 .. n : Lock(list[i], mode) \in PlayerLocks
  BY <1>1 DEF Lock, PlayerLocks
<1>3. LockAll(list, mode) \in [1 .. n -> PlayerLocks]
  BY <1>1, <1>2 DEF LockAll
<1> QED
  BY <1>1, <1>3, SeqDef

LEMMA PlayerLock ==
  ASSUME NEW x \in PlayerLocks
  PROVE  x \in Step /\ x.do = "lock" /\ Locks(x) /\ x.row \in Player /\ x.row # Room /\ x.row # Game
BY LockConstants DEF PlayerLocks, Step, Row, Locks

LEMMA ThenPlayers ==
  ASSUME NEW s \in Seq(Step), NEW locks \in Seq(PlayerLocks)
  PROVE  /\ s \o locks \in Seq(Step)
         /\ Len(s) \in Nat /\ Len(s \o locks) \in Nat /\ Len(s \o locks) >= Len(s)
         /\ \A i \in 1 .. Len(s) : (s \o locks)[i] = s[i]
         /\ \A i \in Len(s) + 1 .. Len(s \o locks) : (s \o locks)[i] \in PlayerLocks
<1>1. locks \in Seq(Step)
  <2>1. PlayerLocks \subseteq Step
    BY PlayerLock
  <2> QED
    BY <2>1, SeqMonotonic
<1>2. s \o locks \in Seq(Step)
  BY <1>1
<1>3. /\ Len(s) \in Nat /\ Len(locks) \in Nat /\ Len(s \o locks) = Len(s) + Len(locks)
      /\ \A i \in 1 .. Len(s) : (s \o locks)[i] = s[i]
  BY <1>1
<1>4. ASSUME NEW i \in Len(s) + 1 .. Len(s \o locks)
      PROVE  (s \o locks)[i] \in PlayerLocks
  <2>1. i - Len(s) \in 1 .. Len(locks)
    BY <1>3
  <2>2. locks[i - Len(s)] \in PlayerLocks
    BY <2>1
  <2>3. (s \o locks)[i] = locks[i - Len(s)]
    BY <1>1, <1>3
  <2> QED
    BY <2>2, <2>3
<1> QED
  BY <1>2, <1>3, <1>4

(* A transaction that locks its key first, and only first.                  *)
LEMMA TransactionShaped ==
  ASSUME NEW key \in {Room, Game}, NEW steps \in Seq(Step),
         Len(steps) >= 1, steps[1] = Lock(key, "update"),
         \A i \in 2 .. Len(steps) :
           /\ steps[i].do \notin {"begin", "commit"}
           /\ Locks(steps[i]) => steps[i].row # key
  PROVE  LET t == Transaction(steps)
         IN  /\ t \in Seq(Step) /\ Len(t) = Len(steps) + 2
             /\ t[1].do = "begin" /\ t[Len(steps) + 2].do = "commit"
             /\ \A i \in 1 .. Len(steps) : t[i + 1] = steps[i]
             /\ Formed(t, key)
<1> DEFINE t == Transaction(steps)
           b == Do("begin")
           c == Do("commit")
           n == Len(steps)
<1>1. b \in Step /\ b.do = "begin" /\ c \in Step /\ c.do = "commit" /\ n \in Nat /\ n >= 1
  BY Steps
<1>2. t = <<b>> \o steps \o <<c>>
  BY DEF Transaction
<1> HIDE DEF t, b, c
<1>3. t \in Seq(Step) /\ Len(t) = n + 2
  BY <1>1, <1>2
<1>4. t[1] = b /\ t[n + 2] = c
  BY <1>1, <1>2
<1>5. \A i \in 1 .. n : t[i + 1] = steps[i]
  BY <1>1, <1>2
<1>6. steps[1].do = "lock" /\ steps[1].row = key /\ steps[1].mode = "update"
  BY Steps DEF Row, Modes
<1> HIDE DEF n
<1>7. DOMAIN t = 1 .. n + 2 /\ t[2] = steps[1]
  <2>1. t[1 + 1] = steps[1]
    BY <1>1, <1>5
  <2> QED
    BY <1>1, <1>3, <2>1
<1>8. \A i \in 3 .. n + 1 : t[i].do \notin {"begin", "commit"} /\ (Locks(t[i]) => t[i].row # key)
  <2> SUFFICES ASSUME NEW i \in 3 .. n + 1
               PROVE  t[i].do \notin {"begin", "commit"} /\ (Locks(t[i]) => t[i].row # key)
    OBVIOUS
  <2>1. i - 1 \in 2 .. n /\ t[(i - 1) + 1] = steps[i - 1] /\ (i - 1) + 1 = i
    BY <1>1, <1>5
  <2>2. t[i] = steps[i - 1]
    BY <2>1
  <2> QED
    BY <2>1, <2>2 DEF n
<1>9. Formed(t, key)
  <2> USE <1>1, <1>3, <1>4, <1>6, <1>7, <1>8 DEF Formed
  <2>1. t # <<>> => t[Len(t)].do = "commit"
    OBVIOUS
  <2>2. \A i \in DOMAIN t : t[i].do = "begin" => i = 1
    OBVIOUS
  <2>3. \A i \in DOMAIN t : t[i].do = "commit" => i = n + 2
    OBVIOUS
  <2>4. \A i \in DOMAIN t : t[i].do = "begin" =>
          /\ i + 1 \in DOMAIN t
          /\ Locks(t[i + 1]) /\ t[i + 1].row = key /\ t[i + 1].mode = "update"
    BY <2>2 DEF Locks
  <2>5. \A i \in DOMAIN t : i + 1 \in DOMAIN t => (t[i].do = "commit" <=> t[i + 1].do = "begin")
    BY <2>2, <2>3
  <2>6. \A i \in DOMAIN t : i > 1 /\ Locks(t[i]) /\ t[i].row = key => t[i - 1].do = "begin"
    BY DEF Locks
  <2> QED
    BY <2>1, <2>4, <2>5, <2>6
<1> QED
  BY <1>1, <1>3, <1>4, <1>5, <1>9 DEF t, n

LEMMA RoomTransaction ==
  ASSUME NEW steps \in Seq(Step), Len(steps) >= 1, steps[1] = Lock(Room, "update"),
         \A i \in 2 .. Len(steps) : steps[i].do \in {"lock", "lobby?"}
                                   /\ (Locks(steps[i]) => steps[i].row # Room)
  PROVE  /\ Transaction(steps) \in Seq(Step) /\ Len(Transaction(steps)) = Len(steps) + 2
         /\ Transaction(steps)[1].do = "begin"
         /\ Transaction(steps)[Len(steps) + 2].do = "commit"
         /\ \A i \in 1 .. Len(steps) : Transaction(steps)[i + 1] = steps[i]
         /\ Formed(Transaction(steps), Room)
         /\ BuriesNobody(Transaction(steps)) /\ NeverQueries(Transaction(steps))
<1>1. \A i \in 2 .. Len(steps) : steps[i].do \notin {"begin", "commit"}
                                /\ (Locks(steps[i]) => steps[i].row # Room)
  OBVIOUS
<1> DEFINE t == Transaction(steps)
           n == Len(steps)
<1>2. /\ t \in Seq(Step) /\ Len(t) = n + 2 /\ t[1].do = "begin" /\ t[n + 2].do = "commit"
      /\ \A i \in 1 .. n : t[i + 1] = steps[i]
      /\ Formed(t, Room)
  BY <1>1, TransactionShaped
<1>3. n \in Nat /\ \A i \in 1 .. n : steps[i].do \in {"lock", "lobby?"}
  BY Steps DEF Row, Modes
<1> HIDE DEF t, n
<1>4. BuriesNobody(t) /\ NeverQueries(t)
  <2> SUFFICES ASSUME NEW i \in 1 .. n + 2
               PROVE  t[i].do \notin {"bury", "query"}
    BY <1>2 DEF BuriesNobody, NeverQueries
  <2>1. CASE i \in {1, n + 2}
    BY <1>2, <2>1
  <2>2. CASE i \notin {1, n + 2}
    <3>1. i - 1 \in 1 .. n /\ (i - 1) + 1 = i
      BY <1>3, <2>2
    <3>2. t[i] = steps[i - 1]
      BY <1>2, <3>1
    <3> QED
      BY <1>3, <3>1, <3>2
  <2> QED
    BY <2>1, <2>2
<1> QED
  BY <1>2, <1>4 DEF t, n

(* One transaction after another. *)
LEMMA ThenShaped ==
  ASSUME NEW key, NEW s \in Seq(Step), NEW t \in Seq(Step), s # <<>>, t # <<>>,
         Formed(s, key), Formed(t, key), LocksPlayers(s, key), LocksPlayers(t, key),
         s[1].do = "begin", t[1].do = "begin"
  PROVE  /\ s \o t \in Seq(Step) /\ s \o t # <<>> /\ (s \o t)[1].do = "begin"
         /\ Formed(s \o t, key) /\ LocksPlayers(s \o t, key)
         /\ NeverQueries(s) /\ NeverQueries(t) => NeverQueries(s \o t)
<1> DEFINE u == s \o t
           m == Len(s)
           n == Len(t)
<1>1. m \in Nat \ {0} /\ n \in Nat \ {0} /\ DOMAIN s = 1 .. m /\ DOMAIN t = 1 .. n
  OBVIOUS
<1>2. u \in Seq(Step) /\ Len(u) = m + n
  OBVIOUS
<1>3. \A i \in 1 .. m : u[i] = s[i]
  OBVIOUS
<1>4. \A i \in 1 .. n : u[m + i] = t[i]
  OBVIOUS
<1>a. s[m].do = "commit" /\ t[n].do = "commit"
  BY DEF Formed
<1> HIDE DEF u, m, n
<1>5. DOMAIN u = 1 .. m + n /\ u # <<>>
  BY <1>1, <1>2
<1>6. ASSUME NEW i \in DOMAIN u
      PROVE  \/ i \in DOMAIN s /\ u[i] = s[i]
             \/ i - m \in DOMAIN t /\ u[i] = t[i - m]
  <2>1. CASE i <= m
    BY <1>1, <1>3, <1>5, <2>1
  <2>2. CASE i > m
    <3>1. i - m \in 1 .. n /\ m + (i - m) = i
      BY <1>1, <1>5, <2>2
    <3> QED
      BY <1>1, <1>4, <3>1
  <2> QED
    BY <1>1, <1>5, <2>1, <2>2
<1>7. Formed(u, key)
  <2>1. u[Len(u)].do = "commit"
    BY <1>1, <1>2, <1>4, <1>a
  <2>2. ASSUME NEW i \in DOMAIN u, u[i].do = "begin"
        PROVE  /\ i + 1 \in DOMAIN u
               /\ Locks(u[i + 1]) /\ u[i + 1].row = key /\ u[i + 1].mode = "update"
    <3>1. CASE i \in DOMAIN s /\ u[i] = s[i]
      <4>1. /\ i + 1 \in DOMAIN s
            /\ Locks(s[i + 1]) /\ s[i + 1].row = key /\ s[i + 1].mode = "update"
        BY <2>2, <3>1 DEF Formed
      <4> QED
        BY <1>1, <1>3, <1>5, <4>1
    <3>2. CASE i - m \in DOMAIN t /\ u[i] = t[i - m]
      <4>1. /\ i - m + 1 \in DOMAIN t
            /\ Locks(t[i - m + 1]) /\ t[i - m + 1].row = key /\ t[i - m + 1].mode = "update"
        BY <2>2, <3>2 DEF Formed
      <4>2. m + (i - m + 1) = i + 1 /\ i + 1 \in DOMAIN u
        BY <1>1, <1>5, <4>1
      <4>3. u[i + 1] = t[i - m + 1]
        BY <1>1, <1>4, <4>1, <4>2
      <4> QED
        BY <4>1, <4>2, <4>3
    <3> QED
      BY <1>6, <3>1, <3>2
  <2>3. ASSUME NEW i \in DOMAIN u, i + 1 \in DOMAIN u
        PROVE  u[i].do = "commit" <=> u[i + 1].do = "begin"
    <3>1. CASE i < m
      <4>1. i \in DOMAIN s /\ i + 1 \in DOMAIN s /\ u[i] = s[i] /\ u[i + 1] = s[i + 1]
        BY <1>1, <1>3, <1>5, <3>1
      <4> QED
        BY <4>1 DEF Formed
    <3>2. CASE i = m
      <4>1. u[i] = s[m] /\ u[i + 1] = t[1]
        BY <1>1, <1>3, <1>4, <3>2
      <4> QED
        BY <1>a, <4>1
    <3>3. CASE i > m
      <4>1. i - m \in DOMAIN t /\ i - m + 1 \in DOMAIN t
        BY <1>1, <1>5, <2>3, <3>3
      <4>2. m + (i - m) = i /\ m + (i - m + 1) = i + 1
        BY <1>1, <1>5
      <4>3. u[i] = t[i - m] /\ u[i + 1] = t[i - m + 1]
        BY <1>1, <1>4, <4>1, <4>2
      <4> QED
        BY <4>1, <4>3 DEF Formed
    <3> QED
      BY <1>1, <1>5, <3>1, <3>2, <3>3
  <2>4. ASSUME NEW i \in DOMAIN u, i > 1, Locks(u[i]), u[i].row = key
        PROVE  u[i - 1].do = "begin"
    <3>1. CASE i <= m
      <4>1. i \in DOMAIN s /\ i - 1 \in 1 .. m /\ u[i] = s[i] /\ u[i - 1] = s[i - 1]
        BY <1>1, <1>3, <1>5, <2>4, <3>1
      <4> QED
        BY <2>4, <4>1 DEF Formed
    <3>2. CASE i = m + 1
      <4>1. u[i] = t[1]
        BY <1>1, <1>4, <3>2
      <4> QED
        BY <2>4, <4>1 DEF Locks
    <3>3. CASE i > m + 1
      <4>1. i - m \in DOMAIN t /\ i - m > 1 /\ i - m - 1 \in 1 .. n
        BY <1>1, <1>5, <3>3
      <4>2. m + (i - m) = i /\ m + (i - m - 1) = i - 1
        BY <1>1, <1>5
      <4>3. u[i] = t[i - m] /\ u[i - 1] = t[i - m - 1]
        BY <1>1, <1>4, <4>1, <4>2
      <4> QED
        BY <2>4, <4>1, <4>3 DEF Formed
    <3> QED
      BY <1>1, <1>5, <3>1, <3>2, <3>3
  <2> QED
    BY <2>1, <2>2, <2>3, <2>4 DEF Formed
<1>8. LocksPlayers(u, key)
  BY <1>6 DEF LocksPlayers
<1>9. u[1].do = "begin"
  BY <1>1, <1>3
<1>10. NeverQueries(s) /\ NeverQueries(t) => NeverQueries(u)
  BY <1>6 DEF NeverQueries
<1> QED
  BY <1>2, <1>5, <1>7, <1>8, <1>9, <1>10 DEF u

Ready(s, k) == s \in Seq(Step) /\ s # <<>> /\ s[1].do = "begin" /\ Shaped(s, k)

LEMMA JoinReady == Ready(JoinRoom, "join")
<1> DEFINE a == Lock(Room, "update")
           steps == <<a>>
<1>1. a \in Step /\ a.do = "lock" /\ a.row = Room
  BY Steps DEF Row, Modes
<1>2. steps \in Seq(Step) /\ Len(steps) = 1 /\ steps[1] = Lock(Room, "update")
  BY <1>1
<1> HIDE DEF a, steps
<1> DEFINE t == Transaction(steps)
<1>3. /\ t \in Seq(Step) /\ Len(t) = 3 /\ t[1].do = "begin" /\ t[3].do = "commit"
      /\ \A i \in 1 .. 1 : t[i + 1] = steps[i]
      /\ Formed(t, Room) /\ BuriesNobody(t) /\ NeverQueries(t)
  <2>1. \A i \in 2 .. Len(steps) : steps[i].do \in {"lock", "lobby?"}
                                  /\ (Locks(steps[i]) => steps[i].row # Room)
    BY <1>2
  <2>2. /\ t \in Seq(Step) /\ Len(t) = Len(steps) + 2
        /\ t[1].do = "begin" /\ t[Len(steps) + 2].do = "commit"
        /\ \A i \in 1 .. Len(steps) : t[i + 1] = steps[i]
        /\ Formed(t, Room) /\ BuriesNobody(t) /\ NeverQueries(t)
    <3>1. Len(steps) >= 1
      BY <1>2
    <3> QED
      BY <1>2, <2>1, <3>1, RoomTransaction
  <2> QED
    BY <1>2, <2>2
<1>4. t = JoinRoom
  BY DEF JoinRoom, steps, a
<1> HIDE DEF t
<1>5. t[1 + 1] = steps[1]
  BY <1>3
<1>6. LocksPlayers(t, Room)
  BY <1>1, <1>3, <1>5 DEF LocksPlayers, Locks, steps
<1>7. LocksOneLast(t)
  BY <1>1, <1>3, <1>5 DEF LocksOneLast, Locks, steps
<1>8. Key("join") = Room
  BY DEF Key, RoomKinds
<1> QED
  BY <1>3, <1>4, <1>6, <1>7, <1>8 DEF Ready, Shaped

LEMMA LeaveReady == ASSUME NEW p \in Player PROVE Ready(LeaveRoom(p), "leave")
<1> DEFINE a == Lock(Room, "update")
           l == Lock(p, "update")
           steps == <<a, l>>
<1>1. /\ a \in Step /\ a.do = "lock" /\ a.row = Room
      /\ l \in Step /\ l.do = "lock" /\ l.row = p /\ p # Room
  BY Steps, LockConstants DEF Row, Modes
<1>2. /\ steps \in Seq(Step) /\ Len(steps) = 2
      /\ steps[1] = Lock(Room, "update") /\ steps[2] = l
  BY <1>1
<1> HIDE DEF a, l, steps
<1> DEFINE t == Transaction(steps)
<1>3. /\ t \in Seq(Step) /\ Len(t) = 4 /\ t[1].do = "begin" /\ t[4].do = "commit"
      /\ \A i \in 1 .. 2 : t[i + 1] = steps[i]
      /\ Formed(t, Room) /\ BuriesNobody(t) /\ NeverQueries(t)
  <2>1. \A i \in 2 .. Len(steps) : steps[i].do \in {"lock", "lobby?"}
                                  /\ (Locks(steps[i]) => steps[i].row # Room)
    BY <1>1, <1>2
  <2>2. /\ t \in Seq(Step) /\ Len(t) = Len(steps) + 2
        /\ t[1].do = "begin" /\ t[Len(steps) + 2].do = "commit"
        /\ \A i \in 1 .. Len(steps) : t[i + 1] = steps[i]
        /\ Formed(t, Room) /\ BuriesNobody(t) /\ NeverQueries(t)
    <3>1. Len(steps) >= 1
      BY <1>2
    <3> QED
      BY <1>2, <2>1, <3>1, RoomTransaction
  <2> QED
    BY <1>2, <2>2
<1>4. t = LeaveRoom(p)
  BY DEF LeaveRoom, steps, a, l
<1> HIDE DEF t
<1>5. t[2] = a /\ t[3] = l /\ DOMAIN t = 1 .. 4
  <2>1. t[1 + 1] = steps[1] /\ t[2 + 1] = steps[2]
    BY <1>3
  <2> QED
    BY <1>2, <1>3, <2>1 DEF a
<1>6. LocksPlayers(t, Room)
  BY <1>1, <1>3, <1>5 DEF LocksPlayers, Locks
<1>7. LocksOneLast(t)
  BY <1>1, <1>3, <1>5 DEF LocksOneLast, Locks
<1>8. Key("leave") = Room
  BY DEF Key, RoomKinds
<1>9. Shaped(t, "leave")
  BY <1>3, <1>6, <1>7, <1>8 DEF Shaped
<1>10. t # <<>>
  <2>1. Len(t) = 4
    BY <1>3
  <2> QED
    BY <2>1
<1> QED
  BY <1>3, <1>4, <1>9, <1>10 DEF Ready

(* A list that begins with the lock of the room, and goes on to those of    *)
(* players and of the game.                                                 *)
LEMMA HostReady ==
  ASSUME NEW k \in HostKinds, NEW steps \in Seq(Step), Len(steps) >= 1,
         steps[1] = Lock(Room, "update"),
         \A i \in 2 .. Len(steps) : steps[i].do = "lock" /\ steps[i].row # Room
  PROVE  Ready(Transaction(steps), k)
<1> DEFINE t == Transaction(steps)
<1>1. /\ t \in Seq(Step) /\ Len(t) = Len(steps) + 2 /\ t[1].do = "begin"
      /\ Formed(t, Room) /\ BuriesNobody(t) /\ NeverQueries(t)
  BY RoomTransaction
<1>2. Key(k) = Room /\ k # "start" /\ k \notin DoorKinds
  BY DEF Key, RoomKinds, HostKinds, DoorKinds
<1> HIDE DEF t
<1>3. t # <<>>
  BY <1>1
<1>4. Ready(t, k)
  BY <1>1, <1>2, <1>3 DEF Ready, Shaped
<1> QED
  BY <1>4 DEF t

LEMMA LeaveAsHostReady ==
  ASSUME NEW p \in Player, NEW players \in SUBSET Player, NEW others \in InOrder(players)
  PROVE  Ready(LeaveRoomAsHost(p, others), "host leaves")
<1> DEFINE a == Lock(Room, "update")
           l == Lock(p, "update")
           first == <<a, l>>
           rest == LockAll(others, "update")
           steps == first \o rest
<1>1. /\ a \in Step /\ a.do = "lock" /\ a.row = Room
      /\ l \in Step /\ l.do = "lock" /\ l.row # Room
  BY Steps, LockConstants DEF Row, Modes
<1>2. first \in Seq(Step) /\ Len(first) = 2 /\ first[1] = a /\ first[2] = l
  BY <1>1
<1>3. rest \in Seq(PlayerLocks)
  BY LockAllOf DEF InOrder, Modes
<1> HIDE DEF first, rest
<1>4. /\ steps \in Seq(Step) /\ Len(steps) \in Nat /\ Len(steps) >= 2
      /\ \A i \in 1 .. 2 : steps[i] = first[i]
      /\ \A i \in 3 .. Len(steps) : steps[i] \in PlayerLocks
  <2>1. /\ steps \in Seq(Step) /\ Len(steps) \in Nat /\ Len(steps) >= Len(first)
        /\ \A i \in 1 .. Len(first) : steps[i] = first[i]
        /\ \A i \in Len(first) + 1 .. Len(steps) : steps[i] \in PlayerLocks
    BY <1>2, <1>3, ThenPlayers
  <2> QED
    BY <1>2, <2>1
<1> HIDE DEF a, l, steps
<1>5. \A i \in 3 .. Len(steps) : steps[i].do = "lock" /\ steps[i].row # Room
  BY <1>4, PlayerLock
<1>6. steps[1] = a /\ steps[2] = l
  BY <1>2, <1>4
<1>7. \A i \in 2 .. Len(steps) : steps[i].do = "lock" /\ steps[i].row # Room
  BY <1>1, <1>4, <1>5, <1>6
<1>8. Ready(Transaction(steps), "host leaves")
  <2>1. Len(steps) >= 1 /\ steps[1] = Lock(Room, "update") /\ "host leaves" \in HostKinds
    BY <1>4, <1>6 DEF HostKinds, a
  <2> QED
    BY <1>4, <1>7, <2>1, HostReady
<1> QED
  BY <1>8 DEF LeaveRoomAsHost, steps, first, rest, a, l

LEMMA RestartReady ==
  ASSUME NEW p \in Player, NEW here \in SUBSET Player, NEW lists \in Apart(p, here)
  PROVE  Ready(RestartRoom(p, lists[1], lists[2]), "restart")
<1> DEFINE a == Lock(Room, "update")
           l == Lock(p, "update")
           g == Lock(Game, "update")
           first == <<a, l, g>>
           connected == LockAll(lists[1], "update")
           gone == LockAll(lists[2], "nokey")
           most == first \o connected
           steps == most \o gone
<1>1. /\ a \in Step /\ a.do = "lock" /\ a.row = Room
      /\ l \in Step /\ l.do = "lock" /\ l.row # Room
      /\ g \in Step /\ g.do = "lock" /\ g.row # Room
  BY Steps, RowsDiffer DEF Row, Modes
<1>2. first \in Seq(Step) /\ Len(first) = 3 /\ first[1] = a /\ first[2] = l /\ first[3] = g
  BY <1>1
<1>3. connected \in Seq(PlayerLocks) /\ gone \in Seq(PlayerLocks)
  <2>1. Player \ (here \cup {p}) \in SUBSET Player
    OBVIOUS
  <2>2. lists[1] \in InAnyOrder(here) /\ lists[2] \in InAnyOrder(Player \ (here \cup {p}))
    BY DEF Apart, InOrder
  <2> QED
    BY <2>1, <2>2, LockAllOf DEF Modes
<1> HIDE DEF first, connected, gone
<1>4. /\ most \in Seq(Step) /\ Len(most) \in Nat /\ Len(most) >= 3
      /\ \A i \in 1 .. 3 : most[i] = first[i]
      /\ \A i \in 4 .. Len(most) : most[i] \in PlayerLocks
  <2>1. /\ most \in Seq(Step) /\ Len(most) \in Nat /\ Len(most) >= Len(first)
        /\ \A i \in 1 .. Len(first) : most[i] = first[i]
        /\ \A i \in Len(first) + 1 .. Len(most) : most[i] \in PlayerLocks
    BY <1>2, <1>3, ThenPlayers
  <2> QED
    BY <1>2, <2>1
<1> HIDE DEF most
<1>5. /\ steps \in Seq(Step) /\ Len(steps) \in Nat /\ Len(steps) >= Len(most)
      /\ \A i \in 1 .. Len(most) : steps[i] = most[i]
      /\ \A i \in Len(most) + 1 .. Len(steps) : steps[i] \in PlayerLocks
  BY <1>3, <1>4, ThenPlayers
<1> HIDE DEF a, l, g, steps
<1>6. steps[1] = a /\ steps[2] = l /\ steps[3] = g
  BY <1>2, <1>4, <1>5
<1>7. \A i \in 4 .. Len(steps) : steps[i] \in PlayerLocks
  BY <1>4, <1>5
<1>8. \A i \in 4 .. Len(steps) : steps[i].do = "lock" /\ steps[i].row # Room
  BY <1>7, PlayerLock
<1>9. \A i \in 2 .. Len(steps) : steps[i].do = "lock" /\ steps[i].row # Room
  BY <1>1, <1>5, <1>6, <1>8
<1>10. Ready(Transaction(steps), "restart")
  <2>1. Len(steps) >= 1 /\ steps[1] = Lock(Room, "update") /\ "restart" \in HostKinds
    BY <1>4, <1>5, <1>6 DEF HostKinds, a
  <2> QED
    BY <1>5, <1>9, <2>1, HostReady
<1> QED
  BY <1>10 DEF RestartRoom, steps, most, first, connected, gone, a, l, g

LEMMA StartReady ==
  ASSUME NEW p \in Player, NEW here \in SUBSET Player, NEW lists \in Apart(p, here)
  PROVE  Ready(StartGame(p, lists[1], lists[2]), "start")
<1> DEFINE a == Lock(Room, "update")
           q == Do("lobby?")
           l == Lock(p, "update")
           first == <<a, q, l>>
           connected == LockAll(lists[1], "update")
           gone == LockAll(lists[2], "nokey")
           most == first \o connected
           steps == most \o gone
           n == Len(steps)
           t == Transaction(steps)
<1>1. /\ a \in Step /\ a.do = "lock" /\ a.row = Room
      /\ q \in Step /\ q.do = "lobby?"
      /\ l \in PlayerLocks /\ l \in Step
  BY Steps DEF Row, Modes, PlayerLocks, Lock
<1>2. first \in Seq(Step) /\ Len(first) = 3 /\ first[1] = a /\ first[2] = q /\ first[3] = l
  BY <1>1
<1>3. connected \in Seq(PlayerLocks) /\ gone \in Seq(PlayerLocks)
  <2>1. Player \ (here \cup {p}) \in SUBSET Player
    OBVIOUS
  <2>2. lists[1] \in InAnyOrder(here) /\ lists[2] \in InAnyOrder(Player \ (here \cup {p}))
    BY DEF Apart, InOrder
  <2> QED
    BY <2>1, <2>2, LockAllOf DEF Modes
<1> HIDE DEF first, connected, gone
<1>4. /\ most \in Seq(Step) /\ Len(most) \in Nat /\ Len(most) >= 3
      /\ \A i \in 1 .. 3 : most[i] = first[i]
      /\ \A i \in 4 .. Len(most) : most[i] \in PlayerLocks
  <2>1. /\ most \in Seq(Step) /\ Len(most) \in Nat /\ Len(most) >= Len(first)
        /\ \A i \in 1 .. Len(first) : most[i] = first[i]
        /\ \A i \in Len(first) + 1 .. Len(most) : most[i] \in PlayerLocks
    BY <1>2, <1>3, ThenPlayers
  <2> QED
    BY <1>2, <2>1
<1> HIDE DEF most
<1>5. /\ steps \in Seq(Step) /\ n \in Nat /\ n >= Len(most)
      /\ \A i \in 1 .. Len(most) : steps[i] = most[i]
      /\ \A i \in Len(most) + 1 .. n : steps[i] \in PlayerLocks
  BY <1>3, <1>4, ThenPlayers
<1> HIDE DEF a, q, l, steps
<1>6. steps[1] = a /\ steps[2] = q
  BY <1>2, <1>4, <1>5
<1>7. \A i \in 3 .. n : steps[i] \in PlayerLocks
  <2>1. steps[3] \in PlayerLocks
    BY <1>1, <1>2, <1>4, <1>5
  <2> QED
    BY <1>4, <1>5, <2>1
<1>8. \A i \in 3 .. n : steps[i].do = "lock" /\ steps[i].row \in Player /\ steps[i].row # Room
  BY <1>7, PlayerLock
<1>9. /\ t \in Seq(Step) /\ Len(t) = n + 2 /\ t[1].do = "begin" /\ t[n + 2].do = "commit"
      /\ \A i \in 1 .. n : t[i + 1] = steps[i]
      /\ Formed(t, Room) /\ BuriesNobody(t) /\ NeverQueries(t)
  <2>1. \A i \in 2 .. Len(steps) : steps[i].do \in {"lock", "lobby?"}
                                  /\ (Locks(steps[i]) => steps[i].row # Room)
    BY <1>1, <1>5, <1>6, <1>8 DEF Locks
  <2>2. Len(steps) >= 1 /\ steps[1] = Lock(Room, "update")
    BY <1>4, <1>5, <1>6 DEF a
  <2>3. /\ t \in Seq(Step) /\ Len(t) = Len(steps) + 2
        /\ t[1].do = "begin" /\ t[Len(steps) + 2].do = "commit"
        /\ \A i \in 1 .. Len(steps) : t[i + 1] = steps[i]
        /\ Formed(t, Room) /\ BuriesNobody(t) /\ NeverQueries(t)
    BY <1>5, <2>1, <2>2, RoomTransaction
  <2> QED
    BY <2>3
<1> HIDE DEF n, t
<1>10. n >= 3 /\ n \in Nat /\ DOMAIN t = 1 .. n + 2 /\ t # <<>>
  BY <1>4, <1>5, <1>9
<1>11. t[2] = a /\ t[3] = q
  <2>1. t[1 + 1] = steps[1] /\ t[2 + 1] = steps[2]
    BY <1>9, <1>10
  <2> QED
    BY <1>6, <2>1
<1>12. ASSUME NEW i \in 4 .. n + 1
       PROVE  t[i].do = "lock" /\ t[i].row \in Player /\ t[i].row # Room
  <2>1. i - 1 \in 3 .. n /\ (i - 1) + 1 = i
    BY <1>10
  <2>2. t[i] = steps[i - 1]
    BY <1>9, <1>10, <2>1
  <2> QED
    BY <1>8, <2>1, <2>2
<1>13. LocksPlayers(t, Room)
  BY <1>1, <1>9, <1>10, <1>11, <1>12 DEF LocksPlayers, Locks
<1>14. AsksFirst(t)
  <2>1. \A i \in DOMAIN t : t[i].do = "begin" => i = 1
    BY <1>1, <1>9, <1>10, <1>11, <1>12
  <2>2. \A i \in DOMAIN t : t[i].do = "lobby?" => i = 3
    BY <1>1, <1>9, <1>10, <1>11, <1>12
  <2>3. \A i \in DOMAIN t : Locks(t[i]) /\ t[i].row = Room => i = 2
    BY <1>1, <1>9, <1>10, <1>11, <1>12 DEF Locks
  <2>4. \A i \in DOMAIN t : Locks(t[i]) /\ t[i].row # Room => i > 3
    BY <1>1, <1>9, <1>10, <1>11, <1>12 DEF Locks
  <2>5. \A i \in DOMAIN t : t[i].do = "begin" => i + 2 \in DOMAIN t /\ t[i + 2].do = "lobby?"
    BY <1>1, <1>10, <1>11, <2>1
  <2>6. \A i \in DOMAIN t : Locks(t[i]) /\ t[i].row = Room =>
          i + 1 \in DOMAIN t /\ t[i + 1].do = "lobby?"
    BY <1>1, <1>10, <1>11, <2>3
  <2>7. \A i \in DOMAIN t : Locks(t[i]) /\ t[i].row # Room =>
          \A j \in DOMAIN t : j > i => t[j].do # "lobby?"
    BY <1>10, <2>2, <2>4
  <2> QED
    BY <2>5, <2>6, <2>7 DEF AsksFirst
<1>15. Key("start") = Room
  BY DEF Key, RoomKinds
<1>16. Ready(t, "start")
  BY <1>9, <1>10, <1>13, <1>14, <1>15 DEF Ready, Shaped, DoorKinds
<1> QED
  BY <1>16 DEF t, StartGame, steps, most, first, connected, gone, a, q, l

(* A transaction of the game. *)
LEMMA GameTransaction ==
  ASSUME NEW steps \in Seq(Step), Len(steps) >= 1, steps[1] = Lock(Game, "update"),
         \A i \in 2 .. Len(steps) :
           \/ steps[i] \in PlayerLocks
           \/ steps[i].do \in {"query", "bury"}
  PROVE  LET t == Transaction(steps)
         IN  /\ t \in Seq(Step) /\ t # <<>> /\ t[1].do = "begin"
             /\ Formed(t, Game) /\ LocksPlayers(t, Game)
             /\ (\A i \in 2 .. Len(steps) : steps[i].do # "query") => NeverQueries(t)
<1> DEFINE t == Transaction(steps)
           n == Len(steps)
<1>1. \A i \in 2 .. n : /\ steps[i].do \notin {"begin", "commit"}
                        /\ Locks(steps[i]) => steps[i].row \in Player /\ steps[i].row # Game
  BY PlayerLock DEF Locks
<1>2. steps[1].row = Game
  BY Steps DEF Row, Modes
<1>3. /\ t \in Seq(Step) /\ Len(t) = n + 2 /\ t[1].do = "begin" /\ t[n + 2].do = "commit"
      /\ \A i \in 1 .. n : t[i + 1] = steps[i]
      /\ Formed(t, Game)
  BY <1>1, TransactionShaped
<1>4. n \in Nat
  OBVIOUS
<1> HIDE DEF t, n
<1>5. t # <<>> /\ DOMAIN t = 1 .. n + 2
  BY <1>3, <1>4
<1>6. ASSUME NEW i \in DOMAIN t, Locks(t[i])
      PROVE  t[i].row \in {Game} \cup Player
  <2>1. i \in 2 .. n + 1
    BY <1>3, <1>4, <1>5, <1>6 DEF Locks
  <2>2. i - 1 \in 1 .. n /\ (i - 1) + 1 = i
    BY <1>4, <2>1
  <2>3. t[i] = steps[i - 1]
    BY <1>3, <2>2
  <2>4. CASE i = 2
    BY <1>2, <2>3, <2>4
  <2>5. CASE i # 2
    <3>1. i - 1 \in 2 .. n
      BY <1>4, <2>1, <2>5
    <3> QED
      BY <1>1, <1>6, <2>3, <3>1
  <2> QED
    BY <2>4, <2>5
<1>7. ASSUME \A i \in 2 .. n : steps[i].do # "query", NEW i \in DOMAIN t
      PROVE  t[i].do # "query"
  <2>0. steps[1].do # "query"
    BY Steps DEF Row, Modes
  <2>1. CASE i \in {1, n + 2}
    BY <1>3, <2>1
  <2>2. CASE i \notin {1, n + 2}
    <3>1. i - 1 \in 1 .. n /\ (i - 1) + 1 = i
      BY <1>4, <1>5, <2>2
    <3>2. t[i] = steps[i - 1]
      BY <1>3, <3>1
    <3>3. steps[i - 1].do # "query"
      BY <1>4, <1>7, <2>0, <3>1
    <3> QED
      BY <3>2, <3>3
  <2> QED
    BY <2>1, <2>2
<1>8. (\A i \in 2 .. n : steps[i].do # "query") => NeverQueries(t)
  BY <1>7 DEF NeverQueries
<1> QED
  BY <1>3, <1>5, <1>6, <1>8 DEF t, n, LocksPlayers

LEMMA GameKeys ==
  ASSUME NEW k \in GameKinds, NEW s \in Seq(Step), s # <<>>, s[1].do = "begin",
         Formed(s, Game), LocksPlayers(s, Game), k # "vote" => NeverQueries(s)
  PROVE  Ready(s, k)
BY DEF Ready, Shaped, Key, GameKinds, RoomKinds, HostKinds, DoorKinds

LEMMA AdvanceReady ==
  /\ Advance \in Seq(Step) /\ Advance # <<>> /\ Advance[1].do = "begin"
  /\ Formed(Advance, Game) /\ LocksPlayers(Advance, Game) /\ NeverQueries(Advance)
<1> DEFINE a == Lock(Game, "update")
           b == Do("bury")
           steps == <<a, b>>
<1>1. a \in Step /\ b \in Step /\ b.do = "bury"
  BY Steps DEF Row, Modes
<1>2. steps \in Seq(Step) /\ Len(steps) = 2 /\ steps[1] = a /\ steps[2] = b
  BY <1>1
<1>3. Advance = Transaction(steps)
  BY DEF Advance
<1> HIDE DEF steps, b
<1>4. \A i \in 2 .. Len(steps) : steps[i].do = "bury"
  BY <1>1, <1>2
<1> QED
  BY <1>2, <1>3, <1>4, GameTransaction

LEMMA ThenAdvance ==
  ASSUME NEW k \in GameKinds, NEW t \in Seq(Step), t # <<>>, t[1].do = "begin",
         Formed(t, Game), LocksPlayers(t, Game), k # "vote" => NeverQueries(t)
  PROVE  Ready(t \o Advance, k)
BY AdvanceReady, ThenShaped, GameKeys

LEMMA MovesOnReady == Ready(ManualTransition, "host moves on") /\ Ready(ConfirmRoleReveal, "confirm")
<1> DEFINE a == Lock(Game, "update")
           steps == <<a>>
           t == Transaction(steps)
<1>1. a \in Step
  BY Steps DEF Row, Modes
<1>2. steps \in Seq(Step) /\ Len(steps) = 1 /\ steps[1] = a
  BY <1>1
<1> HIDE DEF steps
<1>3. /\ t \in Seq(Step) /\ t # <<>> /\ t[1].do = "begin"
      /\ Formed(t, Game) /\ LocksPlayers(t, Game) /\ NeverQueries(t)
  BY <1>2, GameTransaction
<1>4. ManualTransition = t /\ ConfirmRoleReveal = t \o Advance
  BY DEF ManualTransition, ConfirmRoleReveal, steps
<1> HIDE DEF t
<1> QED
  BY <1>3, <1>4, GameKeys, ThenAdvance DEF GameKinds

LEMMA VoteReady ==
  ASSUME NEW voter \in Player, NEW target \in Player
  PROVE  Ready(SubmitVote(voter, target), "vote")
<1> DEFINE a == Lock(Game, "update")
           q == Do("query")
           v == Lock(voter, "share")
           w == Lock(target, "share")
           steps == <<a, q, v, w>>
           t == Transaction(steps)
<1>1. /\ a \in Step /\ q \in Step /\ q.do = "query" /\ v \in Step /\ w \in Step
      /\ v \in PlayerLocks /\ w \in PlayerLocks
  BY Steps, PlayerLock DEF Row, Modes, PlayerLocks, Lock
<1> HIDE DEF q, v, w
<1>2. /\ steps \in Seq(Step) /\ Len(steps) = 4
      /\ steps[1] = a /\ steps[2] = q /\ steps[3] = v /\ steps[4] = w
  BY <1>1
<1> HIDE DEF steps
<1>3. \A i \in 2 .. Len(steps) : steps[i] \in PlayerLocks \/ steps[i].do \in {"query", "bury"}
  BY <1>1, <1>2
<1>4. /\ t \in Seq(Step) /\ t # <<>> /\ t[1].do = "begin"
      /\ Formed(t, Game) /\ LocksPlayers(t, Game)
  BY <1>2, <1>3, GameTransaction
<1>5. SubmitVote(voter, target) = t \o Advance
  BY DEF SubmitVote, steps, q, v, w
<1> HIDE DEF t
<1> QED
  BY <1>4, <1>5, ThenAdvance DEF GameKinds

LEMMA ActionReady ==
  ASSUME NEW player \in Player, NEW target \in Player
  PROVE  Ready(SubmitAction(player, target), "act")
<1> DEFINE a == Lock(Game, "update")
           v == Lock(player, "share")
           w == Lock(target, "share")
           steps == <<a, v, w>>
           t == Transaction(steps)
<1>1. a \in Step /\ v \in Step /\ w \in Step /\ v \in PlayerLocks /\ w \in PlayerLocks
  BY Steps, PlayerLock DEF Row, Modes, PlayerLocks, Lock
<1> HIDE DEF v, w
<1>2. /\ steps \in Seq(Step) /\ Len(steps) = 3
      /\ steps[1] = a /\ steps[2] = v /\ steps[3] = w
  BY <1>1
<1> HIDE DEF steps
<1>3. \A i \in 2 .. Len(steps) : steps[i] \in PlayerLocks /\ steps[i].do # "query"
  BY <1>1, <1>2, PlayerLock
<1>4. /\ t \in Seq(Step) /\ t # <<>> /\ t[1].do = "begin"
      /\ Formed(t, Game) /\ LocksPlayers(t, Game) /\ NeverQueries(t)
  BY <1>2, <1>3, GameTransaction
<1>5. SubmitAction(player, target) = t \o Advance
  BY DEF SubmitAction, steps, v, w
<1> HIDE DEF t
<1> QED
  BY <1>4, <1>5, ThenAdvance DEF GameKinds

-----------------------------------------------------------------------------
(* What one request does leaves the others what they are.                   *)
Busy == {r \in Request : inTx[r]}

LEMMA BusyCount ==
  /\ IsFiniteSet(Request)
  /\ \A rs \in SUBSET Request : IsFiniteSet(rs) /\ Cardinality(rs) \in Nat
<1>1. IsFiniteSet(Request)
  BY LockConstants, FS_Interval DEF Request
<1> QED
  BY <1>1, FS_Subset, FS_CardinalityType

LEMMA FreeMoves ==
  ASSUME Free >= 0, NEW r \in Request,
         \A q \in Request \ {r} : inTx'[q] => inTx[q],
         inTx'[r] => inTx[r] \/ Free > 0
  PROVE  (Free >= 0)'
<1> DEFINE now == Cardinality(Busy)
           then == Cardinality(Busy')
<1>1. Busy \in SUBSET Request /\ Busy' \in SUBSET Request
  BY DEF Busy
<1>2. now \in Nat /\ then \in Nat /\ IsFiniteSet(Busy) /\ IsFiniteSet(Busy')
  BY <1>1, BusyCount
<1>3. Conns \in Nat /\ Free = Conns - now /\ Free' = Conns - then
  BY LockConstants DEF Free, Busy
<1>4. CASE inTx[r] \/ ~inTx'[r]
  <2>1. Busy' \in SUBSET Busy
    BY <1>4 DEF Busy
  <2>2. then <= now
    BY <1>2, <2>1, FS_Subset
  <2> QED
    BY <1>2, <1>3, <2>2
<1>5. CASE ~inTx[r] /\ inTx'[r]
  <2>1. Busy' \in SUBSET (Busy \cup {r})
    BY DEF Busy
  <2>2. IsFiniteSet(Busy \cup {r})
        /\ (Cardinality(Busy \cup {r}) = now \/ Cardinality(Busy \cup {r}) = now + 1)
    BY <1>2, FS_AddElement
  <2>3. then <= Cardinality(Busy \cup {r})
    BY <2>1, <2>2, FS_Subset
  <2>4. Free > 0
    BY <1>5
  <2> QED
    BY <1>2, <1>3, <2>2, <2>3, <2>4
<1> QED
  BY <1>4, <1>5

LEMMA KeyIsHeld ==
  ASSUME LockInv, NEW r \in Request, inTx[r], ~AtKey(r)
  PROVE  <<Key(kind[r]), "update">> \in holds[r]
BY DEF LockInv, RequestInv, InTransaction

(* A step of one request: the state of each other is the same, and its own   *)
(* goes with theirs.                                                        *)
Typed ==
  /\ kind \in [Request -> Kinds \cup {"none"}] /\ todo \in [Request -> Seq(Step)]
  /\ inTx \in [Request -> BOOLEAN] /\ holds \in [Request -> SUBSET (Row \X Modes)]

Same(q) ==
  /\ kind'[q] = kind[q] /\ todo'[q] = todo[q]
  /\ inTx'[q] = inTx[q] /\ holds'[q] = holds[q]

LEMMA OneMoves ==
  ASSUME LockInv, NEW r \in Request, Typed', \A q \in Request \ {r} : Same(q),
         \/ status' = status
         \/ status' = "in_game" /\ \A q \in Request \ {r} : ~(kind[q] = "start" /\ AskedForLobby(q)),
         inTx'[r] => inTx[r] \/ Free > 0,
         \A q \in Request \ {r} : Compatible(holds'[r], holds[q]),
         RequestInv(r)'
  PROVE  LockInv'
<1>1. TypeOK
  BY DEF LockInv
<1>2. \A q \in Request \ {r} : kind'[q] = kind[q] /\ todo'[q] = todo[q] /\ holds'[q] = holds[q]
  BY DEF Same
<1>4. \A q \in Request \ {r} : inTx'[q] = inTx[q]
  BY DEF Same
<1>6. (Free >= 0)'
  BY <1>1, <1>4, FreeMoves DEF TypeOK
<1>7. ASSUME NEW q \in Request \ {r}
      PROVE  RequestInv(q)'
  <2>1. RequestInv(q)
    BY DEF LockInv
  <2>2. inTx'[q] <=> inTx[q]
    BY <1>4
  <2>3. /\ kind'[q] = kind[q] /\ todo'[q] = todo[q] /\ holds'[q] = holds[q]
    BY <1>2
  <2>4. Shaped(todo[q], kind[q])'
    BY <2>1, <2>3 DEF RequestInv
  <2>5. InTransaction(q)'
    BY <2>1, <2>2, <2>3 DEF RequestInv, InTransaction, AtKey
  <2>6. /\ HoldsAPlayer(q)' <=> HoldsAPlayer(q)
        /\ AskedForLobby(q)' <=> AskedForLobby(q)
    BY <2>2, <2>3 DEF HoldsAPlayer, Holds, AskedForLobby
  <2>7. /\ kind[q] \in GameKinds => status' = "in_game"
        /\ kind[q] = "start" /\ AskedForLobby(q) => status' = "lobby"
    BY <2>1 DEF RequestInv, ByKind
  <2>8. ByKind(q)'
    BY <2>1, <2>3, <2>6, <2>7 DEF RequestInv, ByKind
  <2> QED
    BY <2>4, <2>5, <2>8 DEF RequestInv
<1>8. \A q \in Request : RequestInv(q)'
  BY <1>7
<1>9. \A q \in Request : ~inTx'[q] => holds'[q] = {}
  BY <1>8 DEF RequestInv, InTransaction
<1>10. Exclusive'
  <2>1. \A g, e : Compatible(g, e) => Compatible(e, g)
    BY DEF Compatible, Conflict
  <2> SUFFICES ASSUME NEW p \in Request, NEW q \in Request, p # q
               PROVE  Compatible(holds'[p], holds'[q])
    BY DEF Exclusive, Compatible
  <2>2. CASE p = r
    BY <1>2, <2>2
  <2>3. CASE q = r
    BY <1>2, <2>1, <2>3
  <2>4. CASE p # r /\ q # r
    BY <1>2, <2>4 DEF LockInv, Exclusive
  <2> QED
    BY <2>2, <2>3, <2>4
<1>11. TypeOK'
  <2>1. status' \in {"lobby", "in_game"}
    BY <1>1 DEF TypeOK
  <2> QED
    BY <1>6, <1>9, <2>1 DEF TypeOK, Typed
<1> QED
  BY <1>8, <1>10, <1>11 DEF LockInv

-----------------------------------------------------------------------------
(* Each step keeps the invariant. *)
LEMMA Unmoved ==
  ASSUME LockInv, NEW r \in Request
  PROVE  /\ Typed /\ TypeOK /\ RequestInv(r)
         /\ todo[r] \in Seq(Step) /\ holds[r] \in SUBSET (Row \X Modes)
         /\ \A q \in Request \ {r} : Compatible(holds[r], holds[q])
BY DEF LockInv, TypeOK, Typed, Exclusive

LEMMA ArrivesMoves ==
  ASSUME LockInv, NEW r \in Request, NEW what \in Kinds, NEW steps, Ready(steps, what),
         Arrives(r, what, steps), what \in GameKinds => status = "in_game"
  PROVE  LockInv'
<1>1. TypeOK /\ RequestInv(r) /\ Typed
  BY Unmoved
<1>2. todo[r] = <<>> /\ ~inTx[r] /\ holds[r] = {}
  BY <1>1 DEF Arrives, RequestInv, ByKind, InTransaction
<1>3. /\ steps \in Seq(Step) /\ steps # <<>> /\ steps[1].do = "begin" /\ Shaped(steps, what)
      /\ what # "none"
  BY DEF Ready, Kinds
<1>4. /\ kind' = [kind EXCEPT ![r] = what] /\ todo' = [todo EXCEPT ![r] = steps]
      /\ UNCHANGED <<status, inTx, holds>>
  BY DEF Arrives
<1>5. kind'[r] = what /\ todo'[r] = steps /\ holds'[r] = {}
  BY <1>1, <1>2, <1>4 DEF Typed
<1>6. ~inTx'[r]
  BY <1>2, <1>4
<1>7. RequestInv(r)'
  <2>1. InTransaction(r)'
    BY <1>3, <1>5, <1>6 DEF InTransaction
  <2>2. ~AskedForLobby(r)' /\ ~HoldsAPlayer(r)'
    BY <1>5, <1>6 DEF AskedForLobby, HoldsAPlayer, Holds
  <2>3. ByKind(r)'
    BY <1>3, <1>4, <1>5, <2>2 DEF ByKind
  <2> QED
    BY <1>3, <1>5, <2>1, <2>3 DEF RequestInv
<1>8. Typed' /\ \A q \in Request \ {r} : Same(q)
  BY <1>1, <1>3, <1>4 DEF Typed, Same
<1>9. \A q \in Request \ {r} : Compatible(holds'[r], holds[q])
  BY <1>5 DEF Compatible
<1> QED
  BY <1>4, <1>6, <1>7, <1>8, <1>9, OneMoves

(* A step that is neither a begin nor a commit is made in a transaction that *)
(* goes on, and the next one is not the lock of the key.                    *)
LEMMA GoesOn ==
  ASSUME LockInv, NEW r \in Request, todo[r] # <<>>,
         todo[r][1].do \in {"query", "lobby?", "lock", "bury"}
  PROVE  /\ inTx[r] /\ Tail(todo[r]) \in Seq(Step) /\ Tail(todo[r]) # <<>>
         /\ Shaped(Tail(todo[r]), kind[r])
         /\ Tail(todo[r])[1].do # "begin" /\ Tail(todo[r])[1] = todo[r][2]
         /\ ~(Locks(Tail(todo[r])[1]) /\ Tail(todo[r])[1].row = Key(kind[r]))
         /\ \A i \in DOMAIN Tail(todo[r]) : i + 1 \in DOMAIN todo[r]
                                            /\ Tail(todo[r])[i] = todo[r][i + 1]
         /\ \A i \in DOMAIN todo[r] \ {1} : i - 1 \in DOMAIN Tail(todo[r])
                                            /\ todo[r][i] = Tail(todo[r])[i - 1]
<1> DEFINE s == todo[r]
           t == Tail(s)
<1>1. s \in Seq(Step) /\ s # <<>> /\ Shaped(s, kind[r]) /\ InTransaction(r)
  BY DEF LockInv, TypeOK, RequestInv
<1>2. inTx[r]
  BY <1>1 DEF InTransaction
<1>3. /\ t \in Seq(Step) /\ Len(s) \in Nat \ {0} /\ Len(t) = Len(s) - 1
      /\ DOMAIN s = 1 .. Len(s) /\ DOMAIN t = 1 .. Len(s) - 1
      /\ \A i \in DOMAIN t : i + 1 \in DOMAIN s /\ t[i] = s[i + 1]
  BY <1>1, TailOf
<1>4. Shaped(t, kind[r]) /\ t # <<>> /\ t[1].do # "begin"
  BY <1>1, TailShaped
<1> HIDE DEF t, s
<1>5. 1 \in DOMAIN t /\ t[1] = s[2] /\ 2 \in DOMAIN s
  <2>1. 1 \in DOMAIN t
    BY <1>3, <1>4
  <2> QED
    BY <1>3, <2>1
<1>6. ~(Locks(t[1]) /\ t[1].row = Key(kind[r]))
  <2>1. Locks(s[2]) /\ s[2].row = Key(kind[r]) => s[2 - 1].do = "begin"
    BY <1>1, <1>5 DEF Shaped, Formed
  <2> QED
    BY <1>5, <2>1 DEF s
<1>7. \A i \in DOMAIN s \ {1} : i - 1 \in DOMAIN t /\ s[i] = t[i - 1]
  <2> SUFFICES ASSUME NEW i \in DOMAIN s \ {1}
               PROVE  i - 1 \in DOMAIN t /\ s[i] = t[i - 1]
    OBVIOUS
  <2>1. i - 1 \in DOMAIN t /\ (i - 1) + 1 = i
    BY <1>3
  <2> QED
    BY <1>3, <2>1
<1> QED
  BY <1>2, <1>3, <1>4, <1>5, <1>6, <1>7 DEF t, s

LEMMA PassesMoves ==
  ASSUME LockInv, NEW r \in Request, todo[r] # <<>>,
         todo[r][1].do \in {"query", "lobby?", "bury"},
         todo[r][1].do = "lobby?" => status = "lobby",
         todo' = [todo EXCEPT ![r] = Tail(todo[r])],
         UNCHANGED <<status, kind, inTx, holds>>
  PROVE  LockInv'
<1> DEFINE s == todo[r]
           t == Tail(s)
<1>1. TypeOK /\ RequestInv(r) /\ Typed /\ s \in Seq(Step)
  BY Unmoved
<1>2. /\ inTx[r] /\ t \in Seq(Step) /\ t # <<>> /\ Shaped(t, kind[r])
      /\ t[1].do # "begin" /\ ~(Locks(t[1]) /\ t[1].row = Key(kind[r]))
      /\ \A i \in DOMAIN t : i + 1 \in DOMAIN s /\ t[i] = s[i + 1]
      /\ \A i \in DOMAIN s \ {1} : i - 1 \in DOMAIN t /\ s[i] = t[i - 1]
  BY GoesOn
<1>3. todo'[r] = t /\ kind'[r] = kind[r] /\ holds'[r] = holds[r]
  BY <1>1 DEF TypeOK
<1>4. inTx'[r]
  BY <1>2
<1>5. ~AtKey(r)
  BY DEF AtKey, Locks
<1>6. <<Key(kind[r]), "update">> \in holds[r]
  BY <1>2, <1>5, KeyIsHeld
<1>7. 1 \in DOMAIN s
  BY <1>1, TailOf
<1> HIDE DEF t, s
<1>8. RequestInv(r)'
  <2>1. InTransaction(r)'
    BY <1>2, <1>3, <1>4, <1>6 DEF InTransaction, AtKey
  <2>2. HoldsAPlayer(r)' <=> HoldsAPlayer(r)
    BY <1>3 DEF HoldsAPlayer, Holds
  <2>3. AskedForLobby(r) => AskedForLobby(r)'
    BY <1>2, <1>3, <1>4 DEF AskedForLobby, s
  <2>4. kind[r] = "start" /\ AskedForLobby(r)' => status = "lobby"
    <3> SUFFICES ASSUME kind[r] = "start", AskedForLobby(r)', s[1].do # "lobby?"
                 PROVE  status = "lobby"
      BY DEF s
    <3>0. \A i \in DOMAIN t : t[i].do # "lobby?"
      BY <1>3 DEF AskedForLobby
    <3>1. ASSUME NEW i \in DOMAIN s
          PROVE  s[i].do # "lobby?"
      <4>1. CASE i = 1
        BY <4>1
      <4>2. CASE i # 1
        <5>1. i - 1 \in DOMAIN t /\ s[i] = t[i - 1]
          BY <1>2, <4>2
        <5> QED
          BY <3>0, <5>1
      <4> QED
        BY <4>1, <4>2
    <3> QED
      BY <1>1, <1>2, <3>1 DEF AskedForLobby, RequestInv, ByKind, s
  <2>5. kind[r] \in DoorKinds /\ HoldsAPlayer(r) => \A i \in DOMAIN t : ~Locks(t[i])
    BY <1>1, <1>2 DEF RequestInv, ByKind, s
  <2>6. kind[r] # "none"
    BY <1>1 DEF RequestInv, ByKind
  <2>7. ByKind(r)'
    BY <1>1, <1>3, <2>2, <2>3, <2>4, <2>5, <2>6 DEF RequestInv, ByKind
  <2> QED
    BY <1>2, <1>3, <2>1, <2>7 DEF RequestInv
<1>9. Typed' /\ \A q \in Request \ {r} : Same(q)
  <2>1. todo' = [todo EXCEPT ![r] = t]
    BY DEF t, s
  <2>2. todo' \in [Request -> Seq(Step)] /\ \A q \in Request \ {r} : todo'[q] = todo[q]
    BY <1>1, <1>2, <2>1 DEF Typed
  <2> QED
    BY <1>1, <2>2 DEF Typed, Same
<1>10. \A q \in Request \ {r} : Compatible(holds'[r], holds[q])
  BY <1>3, Unmoved
<1> QED
  BY <1>2, <1>8, <1>9, <1>10, OneMoves

LEMMA BeginMoves ==
  ASSUME LockInv, NEW r \in Request, Begin(r)
  PROVE  LockInv'
<1> DEFINE s == todo[r]
           t == Tail(s)
           k == kind[r]
<1>1. TypeOK /\ RequestInv(r) /\ Typed /\ s \in Seq(Step)
  BY Unmoved
<1>2. s # <<>> /\ Free > 0 /\ s[1].do = "begin"
  BY <1>1, TailOf DEF Begin, Asks
<1>3. ~inTx[r] /\ holds[r] = {}
  BY <1>1, <1>2 DEF RequestInv, InTransaction
<1>4. /\ t \in Seq(Step) /\ 1 \in DOMAIN s /\ DOMAIN s = 1 .. Len(s) /\ Len(s) \in Nat
      /\ DOMAIN t = 1 .. Len(s) - 1 /\ \A i \in DOMAIN t : t[i] = s[i + 1]
  BY <1>1, <1>2, TailOf
<1>5. Shaped(t, k) /\ t # <<>> /\ t[1].do # "begin"
  BY <1>1, <1>2, TailShaped DEF RequestInv
<1>6. Locks(t[1]) /\ t[1].row = Key(k) /\ t[1].mode = "update"
  <2>1. 1 + 1 \in DOMAIN s /\ Locks(s[1 + 1]) /\ s[1 + 1].row = Key(k) /\ s[1 + 1].mode = "update"
    BY <1>1, <1>2, <1>4 DEF RequestInv, Shaped, Formed
  <2>2. t[1] = s[1 + 1]
    BY <1>4, <2>1
  <2> QED
    BY <2>1, <2>2
<1>7. k = "start" => 2 \in DOMAIN t /\ t[2].do = "lobby?"
  <2> SUFFICES ASSUME k = "start" PROVE 2 \in DOMAIN t /\ t[2].do = "lobby?"
    OBVIOUS
  <2>1. 1 + 2 \in DOMAIN s /\ s[1 + 2].do = "lobby?"
    BY <1>1, <1>2, <1>4 DEF RequestInv, Shaped, AsksFirst
  <2>2. 2 \in DOMAIN t /\ 2 + 1 = 1 + 2
    BY <1>4, <2>1
  <2>3. t[2] = s[2 + 1]
    BY <1>4, <2>2
  <2> QED
    BY <2>1, <2>2, <2>3
<1>8. /\ todo' = [todo EXCEPT ![r] = t] /\ inTx' = [inTx EXCEPT ![r] = TRUE]
      /\ UNCHANGED <<status, kind, holds>>
  BY DEF Begin, Done
<1> HIDE DEF t, s
<1>9. todo'[r] = t /\ kind'[r] = k /\ holds'[r] = {}
  BY <1>1, <1>3, <1>8 DEF Typed
<1>10. inTx'[r]
  BY <1>1, <1>8 DEF Typed
<1>11. RequestInv(r)'
  <2>1. InTransaction(r)'
    BY <1>5, <1>6, <1>9, <1>10 DEF InTransaction, AtKey
  <2>2. ~HoldsAPlayer(r)' /\ (k = "start" => ~AskedForLobby(r)')
    BY <1>7, <1>9 DEF HoldsAPlayer, Holds, AskedForLobby
  <2>3. k # "none" /\ (k \in GameKinds => status = "in_game")
    BY <1>1, <1>2 DEF RequestInv, ByKind, s
  <2>4. ByKind(r)'
    BY <1>8, <1>9, <2>2, <2>3 DEF ByKind
  <2> QED
    BY <1>5, <1>9, <2>1, <2>4 DEF RequestInv
<1>12. Typed' /\ \A q \in Request \ {r} : Same(q)
  <2>1. todo' \in [Request -> Seq(Step)] /\ \A q \in Request \ {r} : todo'[q] = todo[q]
    BY <1>1, <1>4, <1>8 DEF Typed
  <2>2. inTx' \in [Request -> BOOLEAN] /\ \A q \in Request \ {r} : inTx'[q] = inTx[q]
    BY <1>1, <1>8 DEF Typed
  <2> QED
    BY <1>1, <1>8, <2>1, <2>2 DEF Typed, Same
<1>13. \A q \in Request \ {r} : Compatible(holds'[r], holds[q])
  BY <1>9 DEF Compatible
<1> QED
  BY <1>2, <1>8, <1>11, <1>12, <1>13, OneMoves

LEMMA AcquireMoves ==
  ASSUME LockInv, NEW r \in Request, Acquire(r)
  PROVE  LockInv'
<1> DEFINE s == todo[r]
           t == Tail(s)
           k == kind[r]
           row == s[1].row
           mode == s[1].mode
<1>1. TypeOK /\ RequestInv(r) /\ Typed /\ s \in Seq(Step)
  BY Unmoved
<1>2. s # <<>> /\ Blockers(r) = {} /\ s[1].do = "lock" /\ Head(s) = s[1]
  BY <1>1, TailOf DEF Acquire, Asks
<1>3. /\ inTx[r] /\ t \in Seq(Step) /\ t # <<>> /\ Shaped(t, k)
      /\ t[1].do # "begin" /\ ~(Locks(t[1]) /\ t[1].row = Key(k))
      /\ \A i \in DOMAIN t : i + 1 \in DOMAIN s /\ t[i] = s[i + 1]
      /\ \A i \in DOMAIN s \ {1} : i - 1 \in DOMAIN t /\ s[i] = t[i - 1]
  BY <1>2, GoesOn
<1>4. /\ 1 \in DOMAIN s /\ s[1] \in Step /\ DOMAIN t = 1 .. Len(s) - 1 /\ Len(s) \in Nat
  BY <1>1, <1>2, TailOf
<1>5. row \in Row /\ mode \in Modes /\ Locks(s[1])
  BY <1>2, <1>4 DEF Step, Locks
<1>6. /\ todo' = [todo EXCEPT ![r] = t] /\ holds' = [holds EXCEPT ![r] = @ \cup {<<row, mode>>}]
      /\ UNCHANGED <<status, kind, inTx>>
  BY <1>2 DEF Acquire, Done
<1>7. ASSUME NEW q \in Request \ {r}, NEW held \in holds[q], held[1] = row
      PROVE  ~Conflict(held[2], mode)
  BY <1>2, <1>7 DEF Blockers, Asks
<1>8. (Key(k) = row /\ mode = "update") \/ <<Key(k), "update">> \in holds[r]
  <2>1. CASE AtKey(r)
    BY <1>1, <1>3, <2>1 DEF RequestInv, InTransaction, AtKey
  <2>2. CASE ~AtKey(r)
    BY <1>3, <2>2, KeyIsHeld
  <2> QED
    BY <2>1, <2>2
<1>a. Shaped(s, k) /\ ByKind(r)
  BY <1>1 DEF RequestInv
<1>b. k \notin HostKinds => row \in {Key(k)} \cup Player
  BY <1>4, <1>5, <1>a DEF Shaped, LocksPlayers
<1>c. \A i \in DOMAIN t : i + 1 > 1
  BY <1>4
<1>d. k = "start" /\ row # Room => \A i \in DOMAIN t : t[i].do # "lobby?"
  BY <1>3, <1>4, <1>5, <1>a, <1>c DEF Shaped, AsksFirst
<1>e. k \in DoorKinds /\ row # Room => \A i \in DOMAIN t : ~Locks(t[i])
  BY <1>3, <1>4, <1>5, <1>a, <1>c DEF Shaped, LocksOneLast
<1> HIDE DEF t, s, row, mode
<1>9. todo'[r] = t /\ kind'[r] = k /\ holds'[r] = holds[r] \cup {<<row, mode>>}
  BY <1>1, <1>6 DEF Typed
<1>10. inTx'[r]
  BY <1>3, <1>6
<1>11. RequestInv(r)'
  <2>1. InTransaction(r)'
    BY <1>3, <1>8, <1>9, <1>10 DEF InTransaction, AtKey
  <2>2. HoldsAPlayer(r)' => HoldsAPlayer(r) \/ (row \in Player /\ row # Room)
    <3>1. HoldsAPlayer(r)' => \E held \in holds'[r] : held[1] \in Player
      BY DEF HoldsAPlayer, Holds
    <3>2. ASSUME NEW held \in holds'[r], held[1] \in Player
          PROVE  HoldsAPlayer(r) \/ row \in Player
      <4>1. CASE held \in holds[r]
        BY <3>2, <4>1 DEF HoldsAPlayer, Holds
      <4>2. CASE held = <<row, mode>>
        BY <3>2, <4>2
      <4> QED
        BY <1>9, <4>1, <4>2
    <3> QED
      BY <3>1, <3>2, RowsDiffer
  <2>3. k = "start" => (AskedForLobby(r) <=> \A i \in DOMAIN t : t[i].do # "lobby?")
    <3>1. AskedForLobby(r) => \A i \in DOMAIN t : t[i].do # "lobby?"
      BY <1>3 DEF AskedForLobby, s
    <3>2. ASSUME \A i \in DOMAIN t : t[i].do # "lobby?", NEW i \in DOMAIN s
          PROVE  s[i].do # "lobby?"
      <4>1. CASE i = 1
        BY <1>2, <4>1
      <4>2. CASE i # 1
        <5>1. i - 1 \in DOMAIN t /\ s[i] = t[i - 1]
          BY <1>3, <4>2
        <5> QED
          BY <3>2, <5>1
      <4> QED
        BY <4>1, <4>2
    <3> QED
      BY <1>3, <3>1, <3>2 DEF AskedForLobby, s
  <2>4. AskedForLobby(r)' <=> \A i \in DOMAIN t : t[i].do # "lobby?"
    BY <1>9, <1>10 DEF AskedForLobby
  <2>5. k = "start" => /\ HoldsAPlayer(r)' => AskedForLobby(r)'
                       /\ AskedForLobby(r)' => status = "lobby"
    BY <1>a, <1>d, <2>2, <2>3, <2>4 DEF ByKind
  <2>6. k \in DoorKinds /\ HoldsAPlayer(r)' => \A i \in DOMAIN t : ~Locks(t[i])
    <3>1. k \in DoorKinds => ~HoldsAPlayer(r)
      BY <1>4, <1>5, <1>a DEF ByKind, s
    <3> QED
      BY <1>e, <2>2, <3>1
  <2>7. k # "none" /\ (k \in GameKinds => status = "in_game")
    BY <1>2, <1>a DEF ByKind, s
  <2>8. k \notin HostKinds => \A held \in holds'[r] : held[1] \in {Key(k)} \cup Player
    BY <1>9, <1>a, <1>b DEF ByKind
  <2>9. ByKind(r)'
    BY <1>6, <1>9, <2>5, <2>6, <2>7, <2>8 DEF ByKind
  <2> QED
    BY <1>3, <1>9, <2>1, <2>9 DEF RequestInv
<1>12. Typed' /\ \A q \in Request \ {r} : Same(q)
  <2>1. todo' \in [Request -> Seq(Step)] /\ \A q \in Request \ {r} : todo'[q] = todo[q]
    BY <1>1, <1>3, <1>6 DEF Typed
  <2>2. holds' \in [Request -> SUBSET (Row \X Modes)]
        /\ \A q \in Request \ {r} : holds'[q] = holds[q]
    BY <1>1, <1>5, <1>6 DEF Typed
  <2> QED
    BY <1>1, <1>6, <2>1, <2>2 DEF Typed, Same
<1>13. ASSUME NEW q \in Request \ {r}
       PROVE  Compatible(holds'[r], holds[q])
  <2>1. Compatible(holds[r], holds[q])
    BY Unmoved
  <2>2. Compatible({<<row, mode>>}, holds[q])
    BY <1>7 DEF Compatible, Conflict
  <2> QED
    BY <1>9, <2>1, <2>2 DEF Compatible
<1> QED
  BY <1>3, <1>6, <1>11, <1>12, <1>13, OneMoves

(* Whoever ends a transaction, or is refused, holds nothing after it.       *)
LEMMA ReleaseMoves ==
  ASSUME LockInv, NEW r \in Request, Release(r), kind' = kind,
         NEW t \in Seq(Step), todo' = [todo EXCEPT ![r] = t],
         todo[r] # <<>>, Shaped(t, kind[r]), t # <<>> => t[1].do = "begin",
         \/ status' = status
         \/ status' = "in_game" /\ \A q \in Request \ {r} : ~(kind[q] = "start" /\ AskedForLobby(q))
  PROVE  LockInv'
<1>1. TypeOK /\ RequestInv(r) /\ Typed
  BY Unmoved
<1>2. todo'[r] = t /\ kind'[r] = kind[r] /\ holds'[r] = {}
  BY <1>1 DEF Typed, Release
<1>3. ~inTx'[r]
  BY <1>1 DEF Typed, Release
<1>4. RequestInv(r)'
  <2>1. InTransaction(r)'
    BY <1>2, <1>3 DEF InTransaction
  <2>2. ~HoldsAPlayer(r)' /\ ~AskedForLobby(r)'
    BY <1>2, <1>3 DEF HoldsAPlayer, Holds, AskedForLobby
  <2>3. kind[r] # "none" /\ (kind[r] \in GameKinds => status' = "in_game")
    BY <1>1 DEF RequestInv, ByKind
  <2>4. ByKind(r)'
    BY <1>2, <2>2, <2>3 DEF ByKind
  <2> QED
    BY <1>2, <2>1, <2>4 DEF RequestInv
<1>5. Typed' /\ \A q \in Request \ {r} : Same(q)
  <2>1. todo' \in [Request -> Seq(Step)] /\ \A q \in Request \ {r} : todo'[q] = todo[q]
    BY <1>1 DEF Typed
  <2>2. inTx' \in [Request -> BOOLEAN] /\ \A q \in Request \ {r} : inTx'[q] = inTx[q]
    BY <1>1 DEF Typed, Release
  <2>3. holds' \in [Request -> SUBSET (Row \X Modes)]
        /\ \A q \in Request \ {r} : holds'[q] = holds[q]
    BY <1>1 DEF Typed, Release
  <2> QED
    BY <1>1, <2>1, <2>2, <2>3 DEF Typed, Same
<1>6. \A q \in Request \ {r} : Compatible(holds'[r], holds[q])
  BY <1>2 DEF Compatible
<1> QED
  BY <1>3, <1>4, <1>5, <1>6, OneMoves

(* While a start is in its transaction, behind the lock of the room, no      *)
(* other has found the room a lobby.                                        *)
LEMMA OneStart ==
  ASSUME LockInv, NEW q \in Request, NEW r \in Request, q # r, kind[q] = "start", kind[r] = "start",
         AskedForLobby(q), inTx[r], ~AtKey(r)
  PROVE  FALSE
<1>1. Key("start") = Room
  BY DEF Key, RoomKinds
<1>2. <<Room, "update">> \in holds[r]
  BY <1>1, KeyIsHeld
<1>3. inTx[q] /\ todo[q] # <<>> /\ todo[q] \in Seq(Step) /\ AsksFirst(todo[q])
  BY Unmoved DEF AskedForLobby, RequestInv, InTransaction, Shaped
<1>4. 1 \in DOMAIN todo[q]
  BY <1>3, TailOf
<1>5. ~AtKey(q)
  BY <1>1, <1>3, <1>4 DEF AtKey, AsksFirst, AskedForLobby
<1>6. <<Room, "update">> \in holds[q]
  BY <1>1, <1>3, <1>5, KeyIsHeld
<1>7. Compatible(holds[q], holds[r])
  BY DEF LockInv, Exclusive
<1> QED
  BY <1>2, <1>6, <1>7 DEF Compatible, Conflict

LEMMA CommitMoves ==
  ASSUME LockInv, NEW r \in Request, Commit(r)
  PROVE  LockInv'
<1> DEFINE s == todo[r]
           t == Tail(s)
<1>1. TypeOK /\ RequestInv(r) /\ s \in Seq(Step)
  BY Unmoved
<1>2. s # <<>> /\ s[1].do = "commit"
  BY <1>1, TailOf DEF Commit, Asks
<1>3. t \in Seq(Step) /\ Shaped(t, kind[r]) /\ (t # <<>> => t[1].do = "begin")
  BY <1>1, <1>2, TailOf, TailShaped DEF RequestInv
<1>4. inTx[r] /\ ~AtKey(r)
  BY <1>1, <1>2 DEF RequestInv, InTransaction, AtKey, Locks
<1>5. \/ status' = status
      \/ status' = "in_game" /\ \A q \in Request \ {r} : ~(kind[q] = "start" /\ AskedForLobby(q))
  <2>1. CASE kind[r] = "start"
    BY <1>4, <2>1, OneStart DEF Commit
  <2>2. CASE kind[r] # "start"
    BY <2>2 DEF Commit
  <2> QED
    BY <2>1, <2>2
<1>6. kind' = kind /\ Release(r) /\ todo' = [todo EXCEPT ![r] = t]
  BY DEF Commit, Done
<1> HIDE DEF t
<1> QED
  BY <1>2, <1>3, <1>5, <1>6, ReleaseMoves

LEMMA RefusedMoves ==
  ASSUME LockInv, NEW r \in Request, Refused(r)
  PROVE  LockInv'
<1> DEFINE t == <<>>
<1>1. t \in Seq(Step) /\ t = <<>> /\ DOMAIN t = {}
  OBVIOUS
<1>2. todo[r] # <<>> /\ kind' = kind /\ status' = status /\ Release(r)
      /\ todo' = [todo EXCEPT ![r] = t]
  BY DEF Refused
<1> HIDE DEF t
<1>3. Shaped(t, kind[r])
  BY <1>1 DEF Shaped, Formed, LocksPlayers, AsksFirst, LocksOneLast, BuriesNobody,
              NeverQueries
<1> QED
  BY <1>1, <1>2, <1>3, ReleaseMoves

LEMMA BuryMoves ==
  ASSUME LockInv, NEW r \in Request, NEW victim \in Player \cup {Nobody}, Bury(r, victim)
  PROVE  LockInv'
<1> DEFINE s == todo[r]
           k == kind[r]
<1>1. TypeOK /\ RequestInv(r) /\ Typed /\ s \in Seq(Step)
  BY Unmoved
<1>2. s # <<>> /\ s[1].do = "bury" /\ 1 \in DOMAIN s /\ Tail(s) \in Seq(Step)
  BY <1>1, TailOf DEF Bury, Asks
<1>3. CASE victim = Nobody
  <2>1. todo' = [todo EXCEPT ![r] = <<>> \o Tail(s)]
    BY <1>3 DEF Bury
  <2>2. <<>> \o Tail(s) = Tail(s)
    BY <1>2
  <2> QED
    BY <1>2, <2>1, <2>2, PassesMoves DEF Bury
<1>4. CASE victim \in Player
  <2> DEFINE t == <<Lock(victim, "nokey")>> \o Tail(s)
  <2>1. k \in GameKinds
    BY <1>1, <1>2 DEF RequestInv, Shaped, BuriesNobody
  <2>2. /\ t \in Seq(Step) /\ t # <<>> /\ t[1] = Lock(victim, "nokey")
        /\ Shaped(t, k)
    BY <1>1, <1>2, <1>4, <2>1, BuryShaped DEF RequestInv
  <2>3. Key(k) = Game /\ k # "start" /\ k \notin DoorKinds /\ k # "none"
    BY <2>1 DEF Key, GameKinds, RoomKinds, HostKinds, DoorKinds
  <2>4. t[1].do = "lock" /\ t[1].row = victim /\ victim # Game
    BY <1>4, <2>2, Steps, RowsDiffer DEF Row, Modes
  <2>5. todo' = [todo EXCEPT ![r] = t] /\ UNCHANGED <<status, kind, inTx, holds>>
    BY <1>4, RowsDiffer DEF Bury
  <2> HIDE DEF t, s
  <2>6. inTx[r] /\ ~AtKey(r)
    BY <1>1, <1>2 DEF RequestInv, InTransaction, AtKey, Locks, s
  <2>7. todo'[r] = t /\ kind'[r] = k /\ holds'[r] = holds[r]
    BY <1>1, <2>5 DEF Typed
  <2>8. inTx'[r]
    BY <2>5, <2>6
  <2>9. RequestInv(r)'
    <3>1. <<Key(k), "update">> \in holds[r]
      BY <2>6, KeyIsHeld
    <3>2. ~AtKey(r)' /\ t[1].do # "begin"
      BY <2>3, <2>4, <2>7 DEF AtKey
    <3>3. InTransaction(r)'
      BY <2>2, <2>7, <2>8, <3>1, <3>2 DEF InTransaction
    <3>4. /\ k \notin HostKinds => \A held \in holds[r] : held[1] \in {Key(k)} \cup Player
          /\ status = "in_game"
      BY <1>1, <2>1 DEF RequestInv, ByKind
    <3>5. ByKind(r)'
      BY <2>3, <2>5, <2>7, <3>4 DEF ByKind
    <3> QED
      BY <2>2, <2>7, <3>3, <3>5 DEF RequestInv
  <2>10. Typed' /\ \A q \in Request \ {r} : Same(q)
    <3>1. todo' \in [Request -> Seq(Step)] /\ \A q \in Request \ {r} : todo'[q] = todo[q]
      BY <1>1, <2>2, <2>5 DEF Typed
    <3> QED
      BY <1>1, <2>5, <3>1 DEF Typed, Same
  <2>11. \A q \in Request \ {r} : Compatible(holds'[r], holds[q])
    BY <2>7, Unmoved
  <2> QED
    BY <2>5, <2>6, <2>9, <2>10, <2>11, OneMoves
<1> QED
  BY <1>3, <1>4

-----------------------------------------------------------------------------
LEMMA LockStart == Init => LockInv
<1> SUFFICES ASSUME Init PROVE LockInv
  OBVIOUS
<1>1. Free >= 0
  <2>1. {r \in Request : inTx[r]} = {}
    BY DEF Init
  <2>2. Cardinality({r \in Request : inTx[r]}) = 0
    BY <2>1, FS_EmptySet
  <2> QED
    BY <2>2, LockConstants DEF Free
<1>2. TypeOK
  <2>1. <<>> \in Seq(Step)
    OBVIOUS
  <2> QED
    BY <1>1, <2>1 DEF Init, TypeOK
<1>3. ASSUME NEW r \in Request
      PROVE  RequestInv(r)
  <2>1. todo[r] = <<>> /\ ~inTx[r] /\ holds[r] = {} /\ kind[r] = "none"
    BY DEF Init
  <2>2. DOMAIN <<>> = {}
    OBVIOUS
  <2>3. Shaped(todo[r], kind[r])
    BY <2>1, <2>2 DEF Shaped, Formed, LocksPlayers, AsksFirst, LocksOneLast, BuriesNobody,
              NeverQueries
  <2>4. InTransaction(r)
    BY <2>1 DEF InTransaction
  <2>5. ByKind(r)
    BY <2>1 DEF ByKind, HoldsAPlayer, Holds, AskedForLobby, GameKinds
  <2> QED
    BY <2>3, <2>4, <2>5 DEF RequestInv
<1>4. Exclusive
  BY DEF Init, Exclusive, Compatible
<1> QED
  BY <1>2, <1>3, <1>4 DEF LockInv

LEMMA LockStep == LockInv /\ [Next]_vars => LockInv'
<1> SUFFICES ASSUME LockInv, [Next]_vars PROVE LockInv'
  OBVIOUS
<1>1. ASSUME NEW r \in Request, RoomRequest(r)
      PROVE  LockInv'
  <2>1. CASE Arrives(r, "join", JoinRoom)
    BY <2>1, JoinReady, ArrivesMoves DEF Kinds, GameKinds
  <2>2. ASSUME NEW p \in Player, Arrives(r, "leave", LeaveRoom(p))
        PROVE  LockInv'
    BY <2>2, LeaveReady, ArrivesMoves DEF Kinds, GameKinds
  <2>3. ASSUME NEW p \in Player, NEW others \in InOrder(Player \ {p}),
               Arrives(r, "host leaves", LeaveRoomAsHost(p, others))
        PROVE  LockInv'
    <3>1. Ready(LeaveRoomAsHost(p, others), "host leaves")
      BY LeaveAsHostReady
    <3> QED
      BY <2>3, <3>1, ArrivesMoves DEF Kinds, GameKinds
  <2>4. ASSUME NEW p \in Player, NEW here \in SUBSET (Player \ {p}), NEW lists \in Apart(p, here),
               Arrives(r, "start", StartGame(p, lists[1], lists[2]))
        PROVE  LockInv'
    <3>1. here \in SUBSET Player
      OBVIOUS
    <3>2. Ready(StartGame(p, lists[1], lists[2]), "start")
      BY <3>1, StartReady
    <3> QED
      BY <2>4, <3>2, ArrivesMoves DEF Kinds, GameKinds
  <2> QED
    BY <1>1, <2>1, <2>2, <2>3, <2>4 DEF RoomRequest
<1>2. ASSUME NEW r \in Request, GameRequest(r)
      PROVE  LockInv'
  <2>0. status = "in_game"
    BY <1>2 DEF GameRequest
  <2>1. CASE Arrives(r, "confirm", ConfirmRoleReveal)
    BY <2>0, <2>1, MovesOnReady, ArrivesMoves DEF Kinds
  <2>2. CASE Arrives(r, "host moves on", ManualTransition)
    BY <2>0, <2>2, MovesOnReady, ArrivesMoves DEF Kinds
  <2>3. ASSUME NEW p \in Player, NEW here \in SUBSET (Player \ {p}), NEW lists \in Apart(p, here),
               Arrives(r, "restart", RestartRoom(p, lists[1], lists[2]))
        PROVE  LockInv'
    <3>1. here \in SUBSET Player
      OBVIOUS
    <3>2. Ready(RestartRoom(p, lists[1], lists[2]), "restart")
      BY <3>1, RestartReady
    <3> QED
      BY <2>0, <2>3, <3>2, ArrivesMoves DEF Kinds
  <2>4. ASSUME NEW p \in Player, NEW q \in Player, Arrives(r, "vote", SubmitVote(p, q))
        PROVE  LockInv'
    BY <2>0, <2>4, VoteReady, ArrivesMoves DEF Kinds
  <2>5. ASSUME NEW p \in Player, NEW q \in Player, Arrives(r, "act", SubmitAction(p, q))
        PROVE  LockInv'
    BY <2>0, <2>5, ActionReady, ArrivesMoves DEF Kinds
  <2> QED
    BY <1>2, <2>1, <2>2, <2>3, <2>4, <2>5 DEF GameRequest
<1>3. ASSUME NEW r \in Request, Query(r) \/ FindLobby(r)
      PROVE  LockInv'
  <2>1. todo[r] # <<>> /\ Head(todo[r]) = todo[r][1]
    BY <1>3, Unmoved, TailOf DEF Query, FindLobby, Asks
  <2>2. todo[r][1].do \in {"query", "lobby?", "bury"}
        /\ (todo[r][1].do = "lobby?" => status = "lobby")
    BY <1>3, <2>1 DEF Query, FindLobby, Asks
  <2>3. todo' = [todo EXCEPT ![r] = Tail(todo[r])] /\ UNCHANGED <<status, kind, inTx, holds>>
    BY <1>3 DEF Query, FindLobby, Done
  <2> QED
    BY <2>1, <2>2, <2>3, PassesMoves
<1>4. ASSUME NEW r \in Request, Proceed(r)
      PROVE  LockInv'
  <2>1. CASE Query(r) \/ FindLobby(r)
    BY <1>3, <2>1
  <2>2. CASE Begin(r)
    BY <2>2, BeginMoves
  <2>3. CASE Acquire(r)
    BY <2>3, AcquireMoves
  <2>4. CASE Commit(r)
    BY <2>4, CommitMoves
  <2>5. CASE Abort(r) \/ (Asks(r, "lobby?") /\ Refused(r))
    BY <2>5, RefusedMoves DEF Abort
  <2>6. ASSUME NEW victim \in Player \cup {Nobody}, Bury(r, victim)
        PROVE  LockInv'
    BY <2>6, BuryMoves
  <2> QED
    BY <1>4, <2>1, <2>2, <2>3, <2>4, <2>5, <2>6 DEF Proceed
<1>5. ASSUME NEW r \in Request, Refused(r)
      PROVE  LockInv'
  BY <1>5, RefusedMoves
<1>6. CASE UNCHANGED vars
  BY <1>6 DEF vars, LockInv, TypeOK, Free, Exclusive, RequestInv, InTransaction, AtKey, ByKind,
              HoldsAPlayer, Holds, AskedForLobby
<1> QED
  BY <1>1, <1>2, <1>4, <1>5, <1>6 DEF Next

LEMMA LockInvariant == Spec => []LockInv
BY LockStart, LockStep, PTL DEF Spec

(* At any moment the pool has lent no more connections than it has, who is   *)
(* in no transaction holds no lock, and what is left of every request is a   *)
(* list of steps.                                                           *)
THEOREM LocksTypeCorrect == Spec => []TypeOK
<1>1. LockInv => TypeOK
  BY DEF LockInv
<1> QED
  BY <1>1, LockInvariant, PTL

-----------------------------------------------------------------------------
(* Who waits for whom. *)
Waits(r) == Asks(r, "lock")

LEMMA WaiterInTransaction ==
  ASSUME LockInv, NEW r \in Request, kind[r] \notin HostKinds, Waits(r), holds[r] # {}
  PROVE  <<Key(kind[r]), "update">> \in holds[r] /\ Head(todo[r]).row \in Player
<1>1. RequestInv(r) /\ todo[r] \in Seq(Step)
  BY Unmoved
<1>2. todo[r] # <<>> /\ Head(todo[r]) = todo[r][1] /\ 1 \in DOMAIN todo[r] /\ Locks(todo[r][1])
  BY <1>1, TailOf DEF Waits, Asks, Locks
<1>3. inTx[r] /\ ~AtKey(r)
  BY <1>1 DEF RequestInv, InTransaction
<1>4. todo[r][1].row \in {Key(kind[r])} \cup Player
  BY <1>1, <1>2 DEF RequestInv, Shaped, LocksPlayers
<1> QED
  BY <1>2, <1>3, <1>4, KeyIsHeld DEF AtKey

(* Of those who hold a player's row and wait for another lock, ...           *)
LEMMA HolderOfAPlayer ==
  ASSUME LockInv, NEW r \in Request, kind[r] \notin HostKinds, Waits(r), HoldsAPlayer(r)
  PROVE  \/ status = "lobby" /\ <<Room, "update">> \in holds[r]
         \/ status = "in_game" /\ <<Game, "update">> \in holds[r]
<1>1. RequestInv(r) /\ todo[r] \in Seq(Step) /\ kind[r] \in Kinds \cup {"none"}
  BY Unmoved DEF TypeOK
<1>2. todo[r] # <<>> /\ 1 \in DOMAIN todo[r] /\ Locks(todo[r][1])
  BY <1>1, TailOf DEF Waits, Asks, Locks
<1>3. <<Key(kind[r]), "update">> \in holds[r]
  BY WaiterInTransaction DEF HoldsAPlayer, Holds
<1>4. kind[r] \notin DoorKinds /\ kind[r] # "none"
  BY <1>1, <1>2 DEF RequestInv, ByKind
<1>5. CASE kind[r] = "start"
  BY <1>1, <1>3, <1>5 DEF RequestInv, ByKind, Key, RoomKinds
<1>6. CASE kind[r] \in GameKinds
  BY <1>1, <1>3, <1>6 DEF RequestInv, ByKind, Key, RoomKinds, GameKinds, HostKinds
<1> QED
  BY <1>1, <1>4, <1>5, <1>6 DEF Kinds, GameKinds, DoorKinds, HostKinds

(* ... there is at most one.                                                *)
LEMMA OneHolderOfAPlayer ==
  ASSUME LockInv, NEW q \in Request, NEW r \in Request, q # r,
         kind[q] \notin HostKinds, Waits(q), HoldsAPlayer(q),
         kind[r] \notin HostKinds, Waits(r), HoldsAPlayer(r)
  PROVE  FALSE
<1>1. Compatible(holds[q], holds[r])
  BY DEF LockInv, Exclusive
<1>2. \E row : <<row, "update">> \in holds[q] /\ <<row, "update">> \in holds[r]
  BY HolderOfAPlayer
<1> QED
  BY <1>1, <1>2 DEF Compatible, Conflict

LEMMA NoDeadlockWithoutTheHost ==
  ASSUME LockInv, NEW rs \in SUBSET {r \in Request : kind[r] \notin HostKinds}, Deadlocked(rs)
  PROVE  FALSE
<1>1. ASSUME NEW r \in rs
      PROVE  \E q \in rs \ {r} : Holds(q, Head(todo[r]).row)
  BY DEF Deadlocked, Blockers, Holds
<1>2. \A r \in rs : r \in Request /\ kind[r] \notin HostKinds /\ Waits(r)
  BY DEF Deadlocked, Blockers, Waits
<1>3. ASSUME NEW r \in rs, holds[r] # {}
      PROVE  \E q \in rs \ {r} : HoldsAPlayer(q)
  <2>1. Head(todo[r]).row \in Player
    BY <1>2, <1>3, WaiterInTransaction
  <2> QED
    BY <1>1, <2>1 DEF HoldsAPlayer
<1>4. PICK r \in rs : holds[r] # {}
  BY <1>1 DEF Deadlocked, Holds
<1>5. PICK q \in rs : HoldsAPlayer(q)
  BY <1>3, <1>4
<1>6. PICK p \in rs \ {q} : HoldsAPlayer(p)
  BY <1>3, <1>5 DEF HoldsAPlayer, Holds
<1> QED
  BY <1>2, <1>5, <1>6, OneHolderOfAPlayer

(* Requests wait for each other in a cycle only if the host, who leaves or   *)
(* restarts, is among them: whoever else waits with a player's row in hand   *)
(* has the row of the room of a lobby or of the game of a room in game, for  *)
(* itself, and so there are no two of them.                                 *)
THEOREM OnlyTheHostDeadlocks == Spec => []DeadlocksNeedTheHost
<1>1. LockInv => DeadlocksNeedTheHost
  BY NoDeadlockWithoutTheHost DEF DeadlocksNeedTheHost, HostKinds
<1> QED
  BY <1>1, LockInvariant, PTL

-----------------------------------------------------------------------------
(* A finite number of requests that wait for each other has a cycle in it.  *)
LEMMA DeadlockHasACycle ==
  ASSUME NEW rs \in SUBSET Request, Deadlocked(rs)
  PROVE  \E r \in rs : \E few \in SUBSET Request : r \in few /\ Cycle(few)
<1> DEFINE T == {some \in SUBSET rs : Deadlocked(some)}
           R == StrictSubsetOrdering(Request)
<1>1. T \subseteq FiniteSubsetsOf(Request) /\ T # {}
  BY BusyCount DEF FiniteSubsetsOf
<1>2. IsWellFoundedOn(R, FiniteSubsetsOf(Request))
  BY FS_StrictSubsetOrderingWellFounded
<1>3. PICK few \in T : \A fewer \in T : <<fewer, few>> \notin R
  <2> HIDE DEF T, R
  <2> QED
    BY <1>1, <1>2, WFMin
<1>4. few \in SUBSET Request /\ few \in SUBSET rs /\ Deadlocked(few)
  OBVIOUS
<1>5. ASSUME NEW fewer \in SUBSET few, Deadlocked(fewer)
      PROVE  fewer = few
  <2>1. fewer \in T /\ fewer \in SUBSET Request
    BY <1>4, <1>5
  <2>2. <<fewer, few>> \notin R
    BY <1>3, <2>1
  <2> QED
    BY <1>4, <2>1, <2>2 DEF StrictSubsetOrdering
<1>6. Cycle(few) /\ few # {}
  BY <1>4, <1>5 DEF Cycle, Deadlocked
<1> QED
  BY <1>4, <1>6

(* What a request asks for first. *)
LEMMA AsksForSomething ==
  ASSUME LockInv, NEW r \in Request, todo[r] # <<>>
  PROVE  /\ \E what \in {"query", "begin", "bury", "lobby?", "commit", "lock"} : Asks(r, what)
         /\ Asks(r, "begin") => ~inTx[r]
         /\ ~inTx[r] => Asks(r, "begin")
         /\ Asks(r, "query") => kind[r] = "vote" /\ inTx[r]
<1>1. RequestInv(r) /\ todo[r] \in Seq(Step)
  BY Unmoved
<1>2. Head(todo[r]) = todo[r][1] /\ 1 \in DOMAIN todo[r] /\ todo[r][1] \in Step
  BY <1>1, TailOf
<1>3. todo[r][1].do \in {"query", "begin", "bury", "lobby?", "commit", "lock"}
  BY <1>2 DEF Step
<1>4. todo[r][1].do = "begin" <=> ~inTx[r]
  BY <1>1 DEF RequestInv, InTransaction
<1>5. todo[r][1].do = "query" => kind[r] = "vote"
  BY <1>1, <1>2 DEF RequestInv, Shaped, NeverQueries
<1> QED
  BY <1>2, <1>3, <1>4, <1>5 DEF Asks

LEMMA NotAllStandStill ==
  ASSUME LockInv, NEW r \in Request, todo[r] # <<>>, ~VoteStarves,
         \A q \in Request : ~CanGoOn(q)
  PROVE  FALSE
<1>1. Free \in Int /\ Free >= 0
  <2>1. Cardinality(Busy) \in Nat /\ Free = Conns - Cardinality(Busy)
    BY BusyCount DEF Busy, Free
  <2>2. Conns \in Nat /\ Free >= 0
    BY LockConstants DEF LockInv, TypeOK
  <2> QED
    BY <2>1, <2>2
<1>2. Busy # {}
  <2> SUFFICES ASSUME Busy = {} PROVE FALSE
    OBVIOUS
  <2>0. Free = Conns - Cardinality(Busy) /\ Cardinality(Busy) = 0
    BY FS_EmptySet DEF Busy, Free
  <2>1. Free > 0
    BY <2>0, LockConstants
  <2>2. Asks(r, "begin")
    BY AsksForSomething DEF Busy
  <2> QED
    BY <2>1, <2>2 DEF CanGoOn
<1>3. ASSUME NEW q \in Busy
      PROVE  Asks(q, "lock") /\ Blockers(q) # {}
  <2>1. q \in Request /\ inTx[q] /\ todo[q] # <<>>
    BY Unmoved DEF Busy, RequestInv, InTransaction
  <2>2. ~Asks(q, "begin") /\ ~CanGoOn(q)
    BY <2>1, AsksForSomething
  <2>3. ~Asks(q, "query")
    <3> SUFFICES ASSUME Asks(q, "query") PROVE FALSE
      OBVIOUS
    <3>1. kind[q] = "vote"
      BY <2>1, AsksForSomething
    <3>2. Free = 0
      BY <1>1, <2>2 DEF CanGoOn
    <3> QED
      BY <2>1, <3>1, <3>2 DEF VoteStarves
  <2>4. Asks(q, "lock")
    BY <2>1, <2>2, <2>3, AsksForSomething DEF CanGoOn
  <2> QED
    BY <2>2, <2>4 DEF CanGoOn
<1>4. ASSUME NEW q \in Busy
      PROVE  Blockers(q) \cap Busy # {}
  <2>1. PICK p \in Blockers(q) : TRUE
    BY <1>3
  <2>2. p \in Request /\ holds[p] # {}
    BY <2>1 DEF Blockers
  <2>3. inTx[p]
    BY <2>2, Unmoved DEF RequestInv, InTransaction
  <2> QED
    BY <2>1, <2>2, <2>3 DEF Busy
<1>5. Busy \in SUBSET Request /\ Deadlocked(Busy)
  BY <1>2, <1>4 DEF Deadlocked, Busy
<1>6. PICK q \in Busy : \E few \in SUBSET Request : q \in few /\ Cycle(few)
  BY <1>5, DeadlockHasACycle
<1> QED
  BY <1>5, <1>6 DEF CanGoOn

(* Rows and connections are waited for together, by any number of requests:  *)
(* when all of them stand still, PostgreSQL has a cycle to break or a vote   *)
(* waits for its second connection while it and the others have them all.   *)
THEOREM NobodyElseStarves == Spec => []OnlyVotesStarve
<1>1. LockInv => OnlyVotesStarve
  BY NotAllStandStill DEF OnlyVotesStarve
<1> QED
  BY <1>1, LockInvariant, PTL

===================================================================================
