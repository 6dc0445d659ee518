------------------------- MODULE WebSocketService_proofs -------------------------
(***************************************************************************)
(* Theorems about the client's connection for any number of overlapping     *)
(* calls, timers, channels and faults.                                      *)
(***************************************************************************)
EXTENDS WebSocketService, TLAPS

Opening(t) == task[t].wait \in {"cancel", "ready"} \cup Closing

(* A channel that is awaited is a real one, what is listened to has opened,  *)
(* and nothing is opened or shown before there is a room.                   *)
OpeningsAreSound ==
  /\ \A t \in Task : Awaits(t, "ready") => task[t].opens \in Channel
                                           /\ channels[task[t].opens].room \in Room
  /\ \A c \in Channel : channels[c].listened => channels[c].net \in {"up", "down"}
  /\ room = None => ~timer /\ status # "connected" /\ \A t \in Task : ~Opening(t)

(* A channel is awaited by the task that opens it alone, and not listened to *)
(* before it is ready.                                                      *)
OpenedOnce ==
  /\ \A t \in Task : Awaits(t, "ready") => ~channels[task[t].opens].listened
  /\ \A t, u \in Task :
       Awaits(t, "ready") /\ Awaits(u, "ready") /\ task[t].opens = task[u].opens => t = u

(* What leads, or has led, to a connection to the room: a task that has yet  *)
(* to choose its channel or has chosen one of that room, or such a channel  *)
(* that is listened to.                                                     *)
LeadsThere(t) ==
  \/ task[t].wait \in {"cancel"} \cup Closing
  \/ Awaits(t, "ready") /\ channels[task[t].opens].room = room

Followed == \E c \in Channel : channels[c].listened /\ channels[c].room = room

WantedIsFollowed ==
  Wanted => timer \/ Followed \/ \E t \in Task : LeadsThere(t)

ShownIsListenedTo ==
  status = "connected" => UnderWay \/ timer \/ \E c \in Channel : channels[c].listened

ServiceInv ==
  TypeOK /\ OpeningsAreSound /\ OpenedOnce /\ WantedIsFollowed /\ ShownIsListenedTo

-----------------------------------------------------------------------------
Made == [room : Room, net : {"connecting", "up", "down", "refused"}, listened : BOOLEAN]

(* Channels keep their rooms, whatever becomes of them, until a new channel  *)
(* takes the place of one that is not in use.                               *)
SameRooms == \A c \in Channel : channels'[c].room = channels[c].room

LEMMA Constants ==
  /\ None \notin Channel /\ None \notin Room /\ None \notin Waits /\ Unused.room = None
  /\ Idle.wait = None /\ Idle.opens = None
BY ServiceConstants DEF Channel, Unused, Idle

(* There is but one unused channel: it is closed, and stays what it is.      *)
Unmade == [room : {None}, net : {"down"}, listened : {FALSE}]

LEMMA OneUnmade ==
  ASSUME NEW e \in Unmade
  PROVE  e = Unused
BY DEF Unmade, Unused

LEMMA Entries ==
  ASSUME NEW e \in Made \cup {Unused}
  PROVE  /\ [e EXCEPT !.net = "down"] \in Made \cup {Unused}
         /\ [e EXCEPT !.net = "down"].room = e.room
         /\ [e EXCEPT !.net = "down"].net = "down"
         /\ [e EXCEPT !.net = "down"].listened = e.listened
         /\ [e EXCEPT !.listened = FALSE] \in Made \cup {Unused}
         /\ [e EXCEPT !.listened = FALSE].room = e.room
         /\ [e EXCEPT !.listened = FALSE].net = e.net
         /\ ~[e EXCEPT !.listened = FALSE].listened
<1>1. CASE e \in Made
  <2>1. /\ [e EXCEPT !.net = "down"] \in Made
        /\ [e EXCEPT !.listened = FALSE] \in Made
    BY <1>1 DEF Made
  <2>2. /\ [e EXCEPT !.net = "down"].room = e.room
        /\ [e EXCEPT !.net = "down"].net = "down"
        /\ [e EXCEPT !.net = "down"].listened = e.listened
    BY <1>1 DEF Made
  <2>3. /\ [e EXCEPT !.listened = FALSE].room = e.room
        /\ [e EXCEPT !.listened = FALSE].net = e.net
    BY <1>1 DEF Made
  <2>4. ~[e EXCEPT !.listened = FALSE].listened
    BY <1>1 DEF Made
  <2> QED
    BY <2>1, <2>2, <2>3, <2>4
<1>2. CASE e = Unused
  <2>1. /\ [e EXCEPT !.net = "down"] = Unused
        /\ [e EXCEPT !.listened = FALSE] = Unused
    <3>1. /\ [Unused EXCEPT !.net = "down"] \in Unmade
          /\ [Unused EXCEPT !.listened = FALSE] \in Unmade
      BY DEF Unused, Unmade
    <3> QED
      BY <1>2, <3>1, OneUnmade
  <2>2. Unused.net = "down" /\ ~Unused.listened
    BY DEF Unused
  <2> QED
    BY <1>2, <2>1, <2>2
<1> QED
  BY <1>1, <1>2

LEMMA Downed ==
  ASSUME TypeOK, NEW c \in Channel, channels' = [channels EXCEPT ![c].net = "down"]
  PROVE  /\ channels' \in [Channel -> Made \cup {Unused}] /\ SameRooms
         /\ \A d \in Channel : channels'[d].net \in {channels[d].net, "down"}
         /\ \A d \in Channel : channels'[d].listened = channels[d].listened
<1> DEFINE e == [channels[c] EXCEPT !.net = "down"]
<1>1. channels \in [Channel -> Made \cup {Unused}] /\ channels' = [channels EXCEPT ![c] = e]
  BY DEF TypeOK, Made
<1>2. /\ e \in Made \cup {Unused} /\ e.room = channels[c].room
      /\ e.net = "down" /\ e.listened = channels[c].listened
  BY <1>1, Entries
<1> HIDE DEF e
<1> QED
  BY <1>1, <1>2 DEF SameRooms

(* An opening that fails is of a channel that was made. *)
LEMMA Failed ==
  ASSUME TypeOK, NEW c \in Channel, channels[c].room \in Room,
         channels' = [channels EXCEPT ![c].net = "refused"]
  PROVE  /\ channels' \in [Channel -> Made \cup {Unused}] /\ SameRooms
         /\ \A d \in Channel : channels'[d].listened = channels[d].listened
         /\ \A d \in Channel \ {c} : channels'[d].net = channels[d].net
<1> DEFINE e == [channels[c] EXCEPT !.net = "refused"]
<1>1. channels \in [Channel -> Made \cup {Unused}] /\ channels' = [channels EXCEPT ![c] = e]
  BY DEF TypeOK, Made
<1>2. channels[c] \in Made
  BY <1>1, Constants
<1>3. e \in Made
  BY <1>2 DEF Made
<1>4. e.room = channels[c].room /\ e.listened = channels[c].listened
  BY <1>2 DEF Made
<1> HIDE DEF e
<1> QED
  BY <1>1, <1>3, <1>4 DEF SameRooms

LEMMA Unlistened ==
  ASSUME TypeOK, NEW c \in Channel, channels' = [channels EXCEPT ![c].listened = FALSE]
  PROVE  /\ channels' \in [Channel -> Made \cup {Unused}] /\ SameRooms
         /\ \A d \in Channel : channels'[d].net = channels[d].net
         /\ \A d \in Channel : channels'[d].listened => channels[d].listened
<1> DEFINE e == [channels[c] EXCEPT !.listened = FALSE]
<1>1. channels \in [Channel -> Made \cup {Unused}] /\ channels' = [channels EXCEPT ![c] = e]
  BY DEF TypeOK, Made
<1>2. /\ e \in Made \cup {Unused} /\ e.room = channels[c].room
      /\ e.net = channels[c].net /\ ~e.listened
  BY <1>1, Entries
<1> HIDE DEF e
<1> QED
  BY <1>1, <1>2 DEF SameRooms

(* The two halves of _closeChannel. *)
LEMMA SubscriptionCancelled ==
  ASSUME TypeOK, CancelSubscription
  PROVE  /\ channels' \in [Channel -> Made \cup {Unused}] /\ SameRooms
         /\ \A c \in Channel : channels'[c].net = channels[c].net
         /\ \A c \in Channel : channels'[c].listened => channels[c].listened
<1>1. CASE sub = None
  BY <1>1 DEF TypeOK, CancelSubscription, SameRooms, Made
<1>2. CASE sub # None
  BY <1>2, Unlistened DEF TypeOK, CancelSubscription
<1> QED
  BY <1>1, <1>2

LEMMA SinkClosed ==
  ASSUME TypeOK, CloseSink
  PROVE  /\ channels' \in [Channel -> Made \cup {Unused}] /\ SameRooms
         /\ \A c \in Channel : channels'[c].net \in {channels[c].net, "down"}
         /\ \A c \in Channel : channels'[c].listened = channels[c].listened
<1>1. CASE channel = None \/ channels[channel].net = "refused"
  BY <1>1 DEF TypeOK, CloseSink, SameRooms, Made
<1>2. CASE ~(channel = None \/ channels[channel].net = "refused")
  BY <1>2, Downed DEF TypeOK, CloseSink
<1> QED
  BY <1>1, <1>2

LEMMA TaskMoves ==
  ASSUME TypeOK, NEW t \in Task, NEW wait \in Waits, Await(t, wait)
  PROVE  /\ task' \in [Task -> [wait : Waits, opens : Channel \cup {None}] \cup {Idle}]
         /\ task'[t].wait = wait /\ task'[t] # Idle
         /\ \A u \in Task \ {t} : task'[u] = task[u]
BY Constants DEF TypeOK, Await, Idle

(* What awaits a channel goes on alone as long as nobody else begins to and  *)
(* nothing more is listened to.                                             *)
LEMMA StillOpenedOnce ==
  ASSUME OpenedOnce,
         \A u \in Task : Awaits(u, "ready")' => Awaits(u, "ready") /\ task'[u] = task[u],
         \A u \in Task : Awaits(u, "ready") => task[u].opens \in Channel,
         \A c \in Channel : channels'[c].listened => channels[c].listened
  PROVE  OpenedOnce'
BY DEF OpenedOnce

-----------------------------------------------------------------------------
(* What the steps that end a task, and those that open a connection, do.    *)
LEMMA TaskEnds ==
  ASSUME TypeOK, NEW t \in Task, task' = [task EXCEPT ![t] = Idle]
  PROVE  /\ task' \in [Task -> [wait : Waits, opens : Channel \cup {None}] \cup {Idle}]
         /\ task'[t] = Idle /\ task'[t].wait = None
         /\ \A u \in Task \ {t} : task'[u] = task[u]
BY Constants DEF TypeOK

LEMMA ConnectionOpens ==
  ASSUME ServiceInv, NEW t \in Task, NEW says \in {"connecting", "reconnecting"},
         OpenConnection(t, says), room' \in Room, manual' \in BOOLEAN,
         calls' \in 0 .. MaxCalls
  PROVE  ServiceInv'
<1> USE Constants DEF ServiceInv
<1>1. Await(t, "cancel") /\ timer' = FALSE /\ status' = says /\ CancelSubscription
      /\ UNCHANGED <<channel, sub, faults>> /\ task[t] = Idle
  BY DEF OpenConnection, Starts, Task
<1>2. /\ task' \in [Task -> [wait : Waits, opens : Channel \cup {None}] \cup {Idle}]
      /\ task'[t].wait = "cancel" /\ task'[t] # Idle
      /\ \A u \in Task \ {t} : task'[u] = task[u]
  BY <1>1, TaskMoves DEF Waits
<1>3. /\ channels' \in [Channel -> Made \cup {Unused}] /\ SameRooms
      /\ \A c \in Channel : channels'[c].net = channels[c].net
      /\ \A c \in Channel : channels'[c].listened => channels[c].listened
  BY <1>1, SubscriptionCancelled
<1>4. TypeOK'
  BY <1>1, <1>2, <1>3 DEF TypeOK, Made, Statuses
<1>5. OpeningsAreSound'
  <2>1. \A u \in Task : Awaits(u, "ready")' => task'[u].opens \in Channel
                                            /\ channels'[task'[u].opens].room \in Room
    BY <1>2, <1>3 DEF OpeningsAreSound, Awaits, SameRooms
  <2>2. \A c \in Channel : channels'[c].listened => channels'[c].net \in {"up", "down"}
    BY <1>3 DEF OpeningsAreSound
  <2> QED
    BY <2>1, <2>2 DEF OpeningsAreSound
<1>6. WantedIsFollowed'
  BY <1>2 DEF WantedIsFollowed, LeadsThere
<1>7. ShownIsListenedTo'
  BY <1>1 DEF ShownIsListenedTo
<1>8. OpenedOnce'
  <2>1. \A u \in Task : Awaits(u, "ready")' => Awaits(u, "ready") /\ task'[u] = task[u]
    BY <1>2 DEF Awaits
  <2> QED
    BY <1>3, <2>1, StillOpenedOnce DEF OpeningsAreSound
<1> QED
  BY <1>4, <1>5, <1>6, <1>7, <1>8

(* A channel that is ready is listened to, and up unless it was closed.     *)
LEMMA Opened ==
  ASSUME TypeOK, NEW c \in Channel, channels[c].room \in Room,
         channels' = [channels EXCEPT ![c].listened = TRUE,
                                      ![c].net = IF @ = "down" THEN @ ELSE "up"]
  PROVE  /\ channels' \in [Channel -> Made \cup {Unused}] /\ SameRooms
         /\ channels'[c].listened /\ channels'[c].net \in {"up", "down"}
         /\ \A d \in Channel \ {c} : channels'[d] = channels[d]
<1> DEFINE e == [channels[c] EXCEPT !.listened = TRUE,
                                   !.net = IF @ = "down" THEN @ ELSE "up"]
<1>1. channels \in [Channel -> Made \cup {Unused}] /\ channels' = [channels EXCEPT ![c] = e]
  BY DEF TypeOK, Made
<1>2. channels[c] \in Made
  BY <1>1, Constants
<1>3. e \in Made
  BY <1>2 DEF Made
<1>4. e.room = channels[c].room /\ e.net \in {"up", "down"}
  BY <1>2 DEF Made
<1>5. e.listened
  BY <1>2 DEF Made
<1> HIDE DEF e
<1> QED
  BY <1>1, <1>3, <1>4, <1>5 DEF SameRooms

-----------------------------------------------------------------------------
(* Each step keeps the invariant.  First the end of _closeChannel, whichever *)
(* call it is part of.                                                      *)
LEMMA CloseMoves ==
  ASSUME ServiceInv, NEW t \in Task, NEW before \in Waits, NEW after \in Waits \ {"ready"},
         Awaits(t, before), CloseSink, Await(t, after), Opening(t)' <=> Opening(t),
         before # "ready", UNCHANGED <<fields, channel, calls, faults>>
  PROVE  ServiceInv'
<1> USE Constants DEF ServiceInv
<1>1. /\ task' \in [Task -> [wait : Waits, opens : Channel \cup {None}] \cup {Idle}]
      /\ task'[t].wait = after /\ task'[t] # Idle
      /\ \A u \in Task \ {t} : task'[u] = task[u]
  BY TaskMoves
<1>2. /\ channels' \in [Channel -> Made \cup {Unused}] /\ SameRooms
      /\ \A c \in Channel : channels'[c].net \in {channels[c].net, "down"}
      /\ \A c \in Channel : channels'[c].listened = channels[c].listened
  BY SinkClosed
<1>3. UNCHANGED <<room, manual, timer, status, channel, calls, faults>> /\ sub' = None
  BY DEF fields, CloseSink
<1>4. TypeOK'
  BY <1>1, <1>2, <1>3 DEF TypeOK, Made
<1>5. OpeningsAreSound'
  <2>1. \A u \in Task : Awaits(u, "ready")' => task'[u].opens \in Channel
                                            /\ channels'[task'[u].opens].room \in Room
    BY <1>1, <1>2 DEF OpeningsAreSound, Awaits, SameRooms
  <2>2. \A c \in Channel : channels'[c].listened => channels'[c].net \in {"up", "down"}
    BY <1>2 DEF OpeningsAreSound
  <2>3. \A u \in Task : Opening(u)' <=> Opening(u)
    BY <1>1 DEF Opening
  <2> QED
    BY <1>3, <2>1, <2>2, <2>3 DEF OpeningsAreSound
<1>6. WantedIsFollowed'
  <2>1. \A u \in Task : LeadsThere(u) => LeadsThere(u)'
    <3> SUFFICES ASSUME NEW u \in Task, LeadsThere(u)
                 PROVE  LeadsThere(u)'
      OBVIOUS
    <3>1. CASE u = t
      BY <3>1, <1>1 DEF LeadsThere, Awaits, Opening
    <3>2. CASE u # t
      BY <3>2, <1>1, <1>2, <1>3 DEF LeadsThere, Awaits, OpeningsAreSound, SameRooms
    <3> QED
      BY <3>1, <3>2
  <2>2. Followed => Followed'
    BY <1>2, <1>3 DEF Followed, SameRooms
  <2> QED
    BY <1>3, <2>1, <2>2 DEF WantedIsFollowed, Wanted
<1>7. ShownIsListenedTo'
  BY <1>1 DEF ShownIsListenedTo, UnderWay
<1>8. OpenedOnce'
  <2>1. \A u \in Task : Awaits(u, "ready")' => Awaits(u, "ready") /\ task'[u] = task[u]
    BY <1>1 DEF Awaits
  <2> QED
    BY <1>2, <2>1, StillOpenedOnce DEF OpeningsAreSound
<1> QED
  BY <1>4, <1>5, <1>6, <1>7, <1>8

LEMMA OpenChannelMoves ==
  ASSUME ServiceInv, NEW t \in Task, OpenChannel(t)
  PROVE  ServiceInv'
<1> USE Constants DEF ServiceInv
<1>1. PICK c \in Channel :
        /\ channel' = c /\ c \notin InUse
        /\ channels' = [d \in Channel |->
             IF d = c THEN [room |-> room, net |-> "connecting", listened |-> FALSE]
             ELSE IF d \in InUse THEN channels[d] ELSE Unused]
        /\ task' = [task EXCEPT ![t] = [wait |-> "ready", opens |-> c]]
  BY DEF OpenChannel
<1>2. /\ UNCHANGED <<room, manual, timer, status, sub, calls, faults>>
      /\ task[t].wait \in Closing
  BY DEF OpenChannel, fields
<1>3. room \in Room
  BY <1>2 DEF OpeningsAreSound, Opening, Awaits, TypeOK
<1>4. /\ task' \in [Task -> [wait : Waits, opens : Channel \cup {None}] \cup {Idle}]
      /\ task'[t] # Idle /\ task'[t].wait = "ready" /\ task'[t].opens = c
      /\ \A u \in Task \ {t} : task'[u] = task[u]
  BY <1>1 DEF TypeOK, Waits, Idle
<1>5. channels' \in [Channel -> Made \cup {Unused}]
  <2>1. [room |-> room, net |-> "connecting", listened |-> FALSE] \in Made
    BY <1>3 DEF Made
  <2> QED
    BY <1>1, <2>1 DEF TypeOK, Made
<1>6. channels'[c].room = room /\ ~channels'[c].listened
  BY <1>1
<1>7. \A d \in Channel \ {c} : d \in InUse => channels'[d] = channels[d]
  BY <1>1
<1>8. \A d \in Channel : channels[d].listened => d # c /\ channels'[d] = channels[d]
  BY <1>1, <1>7 DEF InUse
<1>9. \A d \in Channel : channels'[d].listened => channels[d].listened
  BY <1>1, <1>6 DEF Unused
<1>10. \A u \in Task \ {t} : Awaits(u, "ready") =>
         task'[u].opens \in Channel /\ channels'[task'[u].opens] = channels[task[u].opens]
  BY <1>1, <1>4, <1>7 DEF InUse, OpeningsAreSound
<1>11. TypeOK'
  BY <1>1, <1>2, <1>4, <1>5 DEF TypeOK, Made
<1>12. OpeningsAreSound'
  <2>1. \A u \in Task : Awaits(u, "ready")' => task'[u].opens \in Channel
                                            /\ channels'[task'[u].opens].room \in Room
    BY <1>3, <1>4, <1>6, <1>10 DEF OpeningsAreSound, Awaits
  <2>2. \A d \in Channel : channels'[d].listened => channels'[d].net \in {"up", "down"}
    BY <1>8, <1>9 DEF OpeningsAreSound
  <2> QED
    BY <1>2, <1>3, <2>1, <2>2 DEF OpeningsAreSound
<1>13. WantedIsFollowed'
  BY <1>2, <1>4, <1>6 DEF WantedIsFollowed, LeadsThere, Awaits
<1>14. ShownIsListenedTo'
  BY <1>4 DEF ShownIsListenedTo, UnderWay
<1>15. OpenedOnce'
  <2>1. \A u \in Task \ {t} : Awaits(u, "ready")' =>
          Awaits(u, "ready") /\ task'[u] = task[u] /\ task'[u].opens # c
    BY <1>1, <1>4 DEF Awaits, InUse
  <2>2. \A u \in Task : Awaits(u, "ready")' => ~channels'[task'[u].opens].listened
    BY <1>4, <1>6, <1>10, <2>1 DEF OpenedOnce, Awaits
  <2> QED
    BY <1>4, <2>1, <2>2 DEF OpenedOnce
<1> QED
  BY <1>11, <1>12, <1>13, <1>14, <1>15

LEMMA ChannelReadyMoves ==
  ASSUME ServiceInv, NEW t \in Task, ChannelReady(t)
  PROVE  ServiceInv'
<1> USE Constants DEF ServiceInv
<1> DEFINE c == task[t].opens
<1>1. c \in Channel /\ channels[c].room \in Room
  BY DEF ChannelReady, OpeningsAreSound
<1>2. /\ Awaits(t, "ready") /\ status' = "connected" /\ sub' = c
      /\ task' = [task EXCEPT ![t] = Idle]
      /\ UNCHANGED <<room, manual, timer, channel, calls, faults>>
      /\ channels' = [channels EXCEPT ![c].listened = TRUE,
                                      ![c].net = IF @ = "down" THEN @ ELSE "up"]
  BY DEF ChannelReady
<1> HIDE DEF c
<1>3. /\ channels' \in [Channel -> Made \cup {Unused}] /\ SameRooms
      /\ channels'[c].listened /\ channels'[c].net \in {"up", "down"}
      /\ \A d \in Channel \ {c} : channels'[d] = channels[d]
  BY <1>1, <1>2, Opened
<1>4. /\ task' \in [Task -> [wait : Waits, opens : Channel \cup {None}] \cup {Idle}]
      /\ task'[t] = Idle /\ task'[t].wait = None
      /\ \A u \in Task \ {t} : task'[u] = task[u]
  BY <1>2, TaskEnds
<1>5. TypeOK'
  BY <1>1, <1>2, <1>3, <1>4 DEF TypeOK, Made, Statuses
<1>6. OpeningsAreSound'
  <2>1. \A u \in Task : Awaits(u, "ready")' => task'[u].opens \in Channel
                                            /\ channels'[task'[u].opens].room \in Room
    BY <1>3, <1>4 DEF OpeningsAreSound, Awaits, SameRooms, Waits
  <2>2. \A d \in Channel : channels'[d].listened => channels'[d].net \in {"up", "down"}
    BY <1>3 DEF OpeningsAreSound
  <2>3. room' # None
    BY <1>2 DEF OpeningsAreSound, Opening, Awaits
  <2> QED
    BY <2>1, <2>2, <2>3 DEF OpeningsAreSound
<1>7. WantedIsFollowed'
  <2>1. Followed => Followed'
    BY <1>2, <1>3 DEF Followed, SameRooms
  <2>2. LeadsThere(t) => Followed'
    BY <1>1, <1>2, <1>3 DEF Followed, LeadsThere, Awaits, SameRooms, Closing, c
  <2>3. \A u \in Task \ {t} : LeadsThere(u) => LeadsThere(u)'
    BY <1>2, <1>3, <1>4 DEF LeadsThere, Awaits, SameRooms, OpeningsAreSound
  <2> QED
    BY <1>2, <2>1, <2>2, <2>3 DEF WantedIsFollowed, Wanted
<1>8. ShownIsListenedTo'
  BY <1>1, <1>3 DEF ShownIsListenedTo
<1>9. OpenedOnce'
  <2>1. \A u \in Task : Awaits(u, "ready")' =>
          /\ Awaits(u, "ready") /\ task'[u] = task[u]
          /\ task[u].opens \in Channel /\ task[u].opens # c
    BY <1>2, <1>4 DEF Awaits, Waits, OpenedOnce, OpeningsAreSound, c
  <2> QED
    BY <1>3, <2>1 DEF OpenedOnce
<1> QED
  BY <1>5, <1>6, <1>7, <1>8, <1>9

LEMMA OpeningFailsMoves ==
  ASSUME ServiceInv, NEW t \in Task, OpeningFails(t)
  PROVE  ServiceInv'
<1> USE Constants DEF ServiceInv
<1> DEFINE c == task[t].opens
<1>1. c \in Channel /\ channels[c].room \in Room /\ ~channels[c].listened /\ room # None
  BY DEF OpeningFails, OpeningsAreSound, OpenedOnce, Opening, Awaits
<1>2. /\ status' = "error" /\ timer' = (timer \/ (~manual /\ room # None))
      /\ task' = [task EXCEPT ![t] = Idle]
      /\ UNCHANGED <<room, manual, channel, sub, calls>>
      /\ channels' = [channels EXCEPT ![c].net = "refused"]
      /\ faults' \in 0 .. MaxFaults
  BY ServiceConstants DEF OpeningFails, Refused, ScheduleReconnect, TypeOK
<1> HIDE DEF c
<1>3. /\ channels' \in [Channel -> Made \cup {Unused}] /\ SameRooms
      /\ \A d \in Channel : channels'[d].listened = channels[d].listened
      /\ \A d \in Channel \ {c} : channels'[d].net = channels[d].net
  BY <1>1, <1>2, Failed
<1>4. /\ task' \in [Task -> [wait : Waits, opens : Channel \cup {None}] \cup {Idle}]
      /\ task'[t] = Idle /\ task'[t].wait = None
      /\ \A u \in Task \ {t} : task'[u] = task[u]
  BY <1>2, TaskEnds
<1>5. TypeOK'
  <2>1. timer' \in BOOLEAN
    BY <1>2 DEF TypeOK
  <2> QED
    BY <1>2, <1>3, <1>4, <2>1 DEF TypeOK, Made, Statuses
<1>6. OpeningsAreSound'
  <2>1. \A u \in Task : Awaits(u, "ready")' => task'[u].opens \in Channel
                                            /\ channels'[task'[u].opens].room \in Room
    BY <1>3, <1>4 DEF OpeningsAreSound, Awaits, SameRooms, Waits
  <2>2. \A d \in Channel : channels'[d].listened => channels'[d].net \in {"up", "down"}
    BY <1>1, <1>3 DEF OpeningsAreSound
  <2> QED
    BY <1>1, <1>2, <2>1, <2>2 DEF OpeningsAreSound
<1>7. WantedIsFollowed'
  BY <1>2 DEF WantedIsFollowed, Wanted
<1>8. ShownIsListenedTo'
  BY <1>2 DEF ShownIsListenedTo
<1>9. OpenedOnce'
  <2>1. \A u \in Task : Awaits(u, "ready")' => Awaits(u, "ready") /\ task'[u] = task[u]
    BY <1>4 DEF Awaits, Waits
  <2> QED
    BY <1>3, <2>1, StillOpenedOnce DEF OpeningsAreSound
<1> QED
  BY <1>5, <1>6, <1>7, <1>8, <1>9

LEMMA DisconnectMoves ==
  ASSUME ServiceInv, NEW t \in Task, Disconnect(t)
  PROVE  ServiceInv'
<1> USE Constants DEF ServiceInv
<1>1. /\ manual' = TRUE /\ timer' = FALSE /\ CancelSubscription /\ Await(t, "cancelToLeave")
      /\ UNCHANGED <<room, status, channel, sub, faults>> /\ calls' \in 0 .. MaxCalls
  BY ServiceConstants DEF Disconnect, Called, TypeOK
<1>2. /\ task' \in [Task -> [wait : Waits, opens : Channel \cup {None}] \cup {Idle}]
      /\ task'[t].wait = "cancelToLeave" /\ task'[t] # Idle
      /\ \A u \in Task \ {t} : task'[u] = task[u]
  BY <1>1, TaskMoves DEF Waits
<1>3. /\ channels' \in [Channel -> Made \cup {Unused}] /\ SameRooms
      /\ \A c \in Channel : channels'[c].net = channels[c].net
      /\ \A c \in Channel : channels'[c].listened => channels[c].listened
  BY <1>1, SubscriptionCancelled
<1>4. TypeOK'
  BY <1>1, <1>2, <1>3 DEF TypeOK, Made
<1>5. OpeningsAreSound'
  <2>1. \A u \in Task : Awaits(u, "ready")' => task'[u].opens \in Channel
                                            /\ channels'[task'[u].opens].room \in Room
    BY <1>2, <1>3 DEF OpeningsAreSound, Awaits, SameRooms
  <2>2. \A c \in Channel : channels'[c].listened => channels'[c].net \in {"up", "down"}
    BY <1>3 DEF OpeningsAreSound
  <2>3. \A u \in Task : Opening(u)' => Opening(u)
    BY <1>2 DEF Opening, Closing
  <2> QED
    BY <1>1, <2>1, <2>2, <2>3 DEF OpeningsAreSound
<1>6. WantedIsFollowed'
  BY <1>1 DEF WantedIsFollowed, Wanted
<1>7. ShownIsListenedTo'
  BY <1>2 DEF ShownIsListenedTo, UnderWay
<1>8. OpenedOnce'
  <2>1. \A u \in Task : Awaits(u, "ready")' => Awaits(u, "ready") /\ task'[u] = task[u]
    BY <1>2 DEF Awaits
  <2> QED
    BY <1>3, <2>1, StillOpenedOnce DEF OpeningsAreSound
<1> QED
  BY <1>4, <1>5, <1>6, <1>7, <1>8

LEMMA DisconnectedMoves ==
  ASSUME ServiceInv, NEW t \in Task, Disconnected(t)
  PROVE  ServiceInv'
<1> USE Constants DEF ServiceInv
<1>1. /\ channel' = None /\ status' = "disconnected" /\ task[t].wait \in ClosingToLeave
      /\ task' = [task EXCEPT ![t] = Idle]
      /\ UNCHANGED <<room, manual, timer, sub, channels, calls, faults>>
  BY DEF Disconnected
<1>2. /\ task' \in [Task -> [wait : Waits, opens : Channel \cup {None}] \cup {Idle}]
      /\ task'[t] = Idle /\ task'[t].wait = None
      /\ \A u \in Task \ {t} : task'[u] = task[u]
  BY <1>1, TaskEnds
<1>3. TypeOK'
  BY <1>1, <1>2 DEF TypeOK, Statuses
<1>4. OpeningsAreSound'
  <2>1. \A u \in Task : Awaits(u, "ready")' => Awaits(u, "ready") /\ task'[u] = task[u]
    BY <1>2 DEF Awaits, Waits
  <2>2. \A u \in Task : Opening(u)' => Opening(u)
    BY <1>2 DEF Opening, Waits
  <2> QED
    BY <1>1, <2>1, <2>2 DEF OpeningsAreSound
<1>5. WantedIsFollowed'
  <2>1. \A u \in Task : LeadsThere(u) => LeadsThere(u)'
    BY <1>1, <1>2 DEF LeadsThere, Awaits, Closing, ClosingToLeave
  <2>2. Followed => Followed'
    BY <1>1 DEF Followed
  <2> QED
    BY <1>1, <2>1, <2>2 DEF WantedIsFollowed, Wanted
<1>6. ShownIsListenedTo'
  BY <1>1 DEF ShownIsListenedTo
<1>7. OpenedOnce'
  <2>1. \A u \in Task : Awaits(u, "ready")' => Awaits(u, "ready") /\ task'[u] = task[u]
    BY <1>2 DEF Awaits, Waits
  <2> QED
    BY <1>1, <2>1, StillOpenedOnce DEF OpeningsAreSound
<1> QED
  BY <1>3, <1>4, <1>5, <1>6, <1>7

LEMMA ConnectionIsLostMoves ==
  ASSUME ServiceInv, NEW c \in Channel, ConnectionIsLost(c)
  PROVE  ServiceInv'
<1> USE Constants DEF ServiceInv
<1>1. /\ UNCHANGED <<room, manual, timer, status, channel, sub, task, calls>>
      /\ channels' = [channels EXCEPT ![c].net = "down"]
      /\ faults' \in 0 .. MaxFaults
  BY ServiceConstants DEF ConnectionIsLost, fields, TypeOK
<1>2. /\ channels' \in [Channel -> Made \cup {Unused}] /\ SameRooms
      /\ \A d \in Channel : channels'[d].net \in {channels[d].net, "down"}
      /\ \A d \in Channel : channels'[d].listened = channels[d].listened
  BY <1>1, Downed
<1>3. TypeOK'
  BY <1>1, <1>2 DEF TypeOK, Made
<1>4. OpeningsAreSound'
  BY <1>1, <1>2 DEF OpeningsAreSound, Awaits, Opening, SameRooms
<1>5. WantedIsFollowed'
  <2>1. \A u \in Task : LeadsThere(u) => LeadsThere(u)'
    BY <1>1, <1>2 DEF LeadsThere, Awaits, SameRooms, OpeningsAreSound
  <2>2. Followed => Followed'
    BY <1>1, <1>2 DEF Followed, SameRooms
  <2> QED
    BY <1>1, <2>1, <2>2 DEF WantedIsFollowed, Wanted
<1>6. ShownIsListenedTo'
  BY <1>1, <1>2 DEF ShownIsListenedTo, UnderWay
<1>7. OpenedOnce'
  <2>1. \A u \in Task : Awaits(u, "ready")' => Awaits(u, "ready") /\ task'[u] = task[u]
    BY <1>1 DEF Awaits
  <2> QED
    BY <1>2, <2>1, StillOpenedOnce DEF OpeningsAreSound
<1> QED
  BY <1>3, <1>4, <1>5, <1>6, <1>7

LEMMA LossIsNoticedMoves ==
  ASSUME ServiceInv, NEW c \in Channel, LossIsNoticed(c)
  PROVE  ServiceInv'
<1> USE Constants DEF ServiceInv
<1>1. /\ UNCHANGED <<room, manual, channel, sub, task, calls, faults>>
      /\ channels' = [channels EXCEPT ![c].listened = FALSE]
      /\ timer' = (timer \/ (~manual /\ room # None))
      /\ status' \in {"disconnected", "reconnecting"}
  BY DEF LossIsNoticed, OnConnectionLost, ScheduleReconnect
<1>2. /\ channels' \in [Channel -> Made \cup {Unused}] /\ SameRooms
      /\ \A d \in Channel : channels'[d].net = channels[d].net
      /\ \A d \in Channel : channels'[d].listened => channels[d].listened
  BY <1>1, Unlistened
<1>3. TypeOK'
  <2>1. timer' \in BOOLEAN
    BY <1>1 DEF TypeOK
  <2> QED
    BY <1>1, <1>2, <2>1 DEF TypeOK, Made, Statuses
<1>4. OpeningsAreSound'
  <2>1. room = None => ~timer'
    BY <1>1 DEF OpeningsAreSound
  <2> QED
    BY <1>1, <1>2, <2>1 DEF OpeningsAreSound, Awaits, Opening, SameRooms
<1>5. WantedIsFollowed'
  BY <1>1 DEF WantedIsFollowed, Wanted
<1>6. ShownIsListenedTo'
  BY <1>1 DEF ShownIsListenedTo
<1>7. OpenedOnce'
  <2>1. \A u \in Task : Awaits(u, "ready")' => Awaits(u, "ready") /\ task'[u] = task[u]
    BY <1>1 DEF Awaits
  <2> QED
    BY <1>2, <2>1, StillOpenedOnce DEF OpeningsAreSound
<1> QED
  BY <1>3, <1>4, <1>5, <1>6, <1>7

-----------------------------------------------------------------------------
LEMMA CallsAreBounded ==
  ASSUME TypeOK, Called
  PROVE  calls' \in 0 .. MaxCalls
BY ServiceConstants DEF TypeOK, Called

LEMMA ServiceInit == Init => ServiceInv
<1> SUFFICES ASSUME Init PROVE ServiceInv
  OBVIOUS
<1> USE Constants, ServiceConstants DEF Init
<1>1. TypeOK
  <2>1. room \in Room \cup {None} /\ manual \in BOOLEAN /\ timer \in BOOLEAN
    OBVIOUS
  <2>2. /\ status \in Statuses /\ channel \in Channel \cup {None}
        /\ sub \in Channel \cup {None}
    BY DEF Statuses
  <2>3. channels \in [Channel ->
          [room : Room, net : {"connecting", "up", "down", "refused"}, listened : BOOLEAN]
            \cup {Unused}]
    OBVIOUS
  <2>4. task \in [Task -> [wait : Waits, opens : Channel \cup {None}] \cup {Idle}]
    OBVIOUS
  <2>5. calls \in 0 .. MaxCalls /\ faults \in 0 .. MaxFaults
    OBVIOUS
  <2> QED
    BY <2>1, <2>2, <2>3, <2>4, <2>5 DEF TypeOK
<1>2. OpeningsAreSound /\ OpenedOnce
  BY DEF OpeningsAreSound, OpenedOnce, Awaits, Opening, Waits, Closing, ClosingToLeave, Unused
<1>3. WantedIsFollowed /\ ShownIsListenedTo
  BY DEF WantedIsFollowed, Wanted, ShownIsListenedTo
<1> QED
  BY <1>1, <1>2, <1>3 DEF ServiceInv

LEMMA ServiceStep == ServiceInv /\ [Next]_vars => ServiceInv'
<1> SUFFICES ASSUME ServiceInv, [Next]_vars
             PROVE  ServiceInv'
  OBVIOUS
<1>1. ASSUME NEW t \in Task, NEW code \in Room, Connect(t, code)
      PROVE  ServiceInv'
  <2>1. OpenConnection(t, "connecting") /\ room' \in Room
    BY <1>1 DEF Connect, ServiceInv, TypeOK
  <2>2. manual' \in BOOLEAN
    BY <1>1 DEF Connect
  <2>3. calls' \in 0 .. MaxCalls
    BY <1>1, CallsAreBounded DEF Connect, ServiceInv
  <2> QED
    BY <2>1, <2>2, <2>3, ConnectionOpens
<1>2. ASSUME NEW t \in Task, Retry(t)
      PROVE  ServiceInv'
  <2>1. OpenConnection(t, "reconnecting") /\ room' \in Room
    BY <1>2 DEF Retry, ServiceInv, TypeOK
  <2>2. manual' \in BOOLEAN
    BY <1>2 DEF Retry
  <2>3. calls' \in 0 .. MaxCalls
    BY <1>2, CallsAreBounded DEF Retry, ServiceInv
  <2> QED
    BY <2>1, <2>2, <2>3, ConnectionOpens
<1>3. ASSUME NEW t \in Task, TimerFires(t)
      PROVE  ServiceInv'
  <2>1. /\ OpenConnection(t, "reconnecting") /\ room' \in Room /\ manual' \in BOOLEAN
        /\ calls' \in 0 .. MaxCalls
    BY <1>3 DEF TimerFires, ServiceInv, OpeningsAreSound, TypeOK
  <2> QED
    BY <2>1, ConnectionOpens
<1>4. ASSUME NEW t \in Task, ChannelCancelled(t)
      PROVE  ServiceInv'
  <2>1. PICK after \in Closing :
          /\ Awaits(t, "cancel") /\ CloseSink /\ Await(t, after)
          /\ UNCHANGED <<fields, channel, calls, faults>>
    BY <1>4 DEF ChannelCancelled, AwaitClosing, Closing
  <2>2. task'[t].wait = after
    BY <2>1, TaskMoves DEF Waits, ServiceInv
  <2>3. Opening(t)' <=> Opening(t)
    BY <2>1, <2>2 DEF Opening, Awaits
  <2> QED
    BY <2>1, <2>3, CloseMoves DEF Waits, Closing
<1>5. ASSUME NEW t \in Task, LeavingCancelled(t)
      PROVE  ServiceInv'
  <2>1. PICK after \in ClosingToLeave :
          /\ Awaits(t, "cancelToLeave") /\ CloseSink /\ Await(t, after)
          /\ UNCHANGED <<fields, channel, calls, faults>>
    BY <1>5 DEF LeavingCancelled, AwaitClosing, ClosingToLeave
  <2>2. task'[t].wait = after
    BY <2>1, TaskMoves DEF Waits, ServiceInv
  <2>3. Opening(t)' <=> Opening(t)
    BY <2>1, <2>2 DEF Opening, Awaits, Closing, ClosingToLeave
  <2> QED
    BY <2>1, <2>3, CloseMoves DEF Waits, ClosingToLeave
<1>6. CASE UNCHANGED vars
  BY <1>6 DEF ServiceInv, vars, fields, TypeOK, OpeningsAreSound, OpenedOnce,
    WantedIsFollowed, Wanted, ShownIsListenedTo, Awaits, Opening, LeadsThere, Followed, UnderWay
<1> QED
  BY <1>1, <1>2, <1>3, <1>4, <1>5, <1>6, OpenChannelMoves, ChannelReadyMoves, OpeningFailsMoves,
    DisconnectMoves, DisconnectedMoves, ConnectionIsLostMoves, LossIsNoticedMoves
    DEF Next, TaskStep

LEMMA ServiceInvariant == Spec => []ServiceInv
BY ServiceInit, ServiceStep, PTL DEF Spec

(***************************************************************************)
(* The fields of the service have their types: whichever calls overlap, and *)
(* whatever becomes of the network, the subscription is to a channel, and   *)
(* the channel has a room.                                                  *)
(***************************************************************************)
THEOREM ServiceTypeCorrect == Spec => []TypeOK
<1>1. ServiceInv => TypeOK
  BY DEF ServiceInv
<1> QED
  BY <1>1, ServiceInvariant, PTL

(***************************************************************************)
(* The service never sits there wanting a connection: connect, retry,       *)
(* disconnect and the timer may overlap in any way, and if there is no      *)
(* connection to the room then a task, the timer, or the end of a channel   *)
(* that has yet to be noticed will open one.                                *)
(***************************************************************************)
THEOREM ConnectionIsNeverForgotten == Spec => []NeverForgotten
<1>1. ServiceInv => NeverForgotten
  <2> SUFFICES ASSUME ServiceInv, Wanted
               PROVE  OnTheAir \/ UnderWay \/ timer \/ LossPending
    BY DEF NeverForgotten
  <2>1. CASE Followed
    <3>1. PICK c \in Channel : channels[c].listened /\ channels[c].room = room
      BY <2>1 DEF Followed
    <3>2. channels[c].net \in {"up", "down"}
      BY <3>1 DEF ServiceInv, OpeningsAreSound
    <3> QED
      BY <3>1, <3>2 DEF OnTheAir, Heard, LossPending
  <2>2. CASE \E t \in Task : LeadsThere(t)
    BY <2>2, Constants DEF LeadsThere, Awaits, UnderWay, Waits
  <2> QED
    BY <2>1, <2>2 DEF ServiceInv, WantedIsFollowed
<1> QED
  BY <1>1, ServiceInvariant, PTL

(***************************************************************************)
(* "connected" is never shown of nothing: a channel is listened to and up,  *)
(* and of the room asked for last unless somebody has disconnected, or what *)
(* will put the status right is under way.                                  *)
(***************************************************************************)
THEOREM ConnectedIsHonest == Spec => []StatusIsHonest
<1>1. ServiceInv => StatusIsHonest
  <2> SUFFICES ASSUME ServiceInv, status = "connected", ~UnderWay, ~timer, ~LossPending
               PROVE  \E c \in Channel : Heard(c) /\ (manual \/ channels[c].room = room)
    BY DEF StatusIsHonest
  <2>1. \A c \in Channel : channels[c].listened => Heard(c)
    <3> SUFFICES ASSUME NEW c \in Channel, channels[c].listened
                 PROVE  channels[c].net = "up"
      BY DEF Heard
    <3> QED
      BY DEF ServiceInv, OpeningsAreSound, LossPending
  <2>2. CASE manual
    BY <2>1, <2>2 DEF ServiceInv, ShownIsListenedTo
  <2>3. CASE ~manual
    <3>1. Wanted
      BY <2>3 DEF Wanted, ServiceInv, OpeningsAreSound
    <3>2. \A t \in Task : ~LeadsThere(t)
      BY Constants DEF LeadsThere, Awaits, UnderWay, Waits
    <3> QED
      BY <2>1, <3>1, <3>2 DEF ServiceInv, WantedIsFollowed, Followed
  <2> QED
    BY <2>2, <2>3
<1> QED
  BY <1>1, ServiceInvariant, PTL
===============================================================================
