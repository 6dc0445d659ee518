--------------------------- MODULE WebSocketService ---------------------------
(***************************************************************************)
(* The client's connection to the hub: WebSocketService of the Flutter app. *)
(*                                                                          *)
(* Dart runs one thing at a time and hands over at every await, so calls of *)
(* connect, retry and disconnect and the reconnect timer overlap: each is a *)
(* task, one step per stretch between two awaits.  Closing the old channel, *)
(* which every opening begins with, is two of them, and the fields are read *)
(* again after each.                                                        *)
(***************************************************************************)
EXTENDS Integers

CONSTANTS
  Room,         \* room codes
  None,         \* no room, no channel, no subscription
  MaxTasks,     \* bound: tasks under way at once
  MaxChannels,  \* bound: channels somebody still refers to
  MaxCalls,     \* bound: calls the screens make
  MaxFaults     \* bound: openings that fail and connections that are lost

VARIABLES
  room,         \* _roomCode
  manual,       \* _manualDisconnect
  timer,        \* whether _reconnectTimer runs
  status,       \* the last status published
  channel,      \* _channel, or None
  sub,          \* the channel of _channelSubscription, or None
  channels,     \* of each channel its room, its state, and whether a listener
                \* of ours is told of what happens to it
  task,         \* what each task awaits, and the channel it opens
  calls, faults

fields == <<room, manual, timer, status>>
vars == <<fields, channel, sub, channels, task, calls, faults>>

Statuses == {"disconnected", "connecting", "connected", "reconnecting", "error"}

Closing == {"close", "closeUnopened"}
ClosingToLeave == {"closeToLeave", "closeUnopenedToLeave"}

Waits == {"cancel", "ready", "cancelToLeave"} \cup Closing \cup ClosingToLeave

ASSUME ServiceConstants ==
  /\ None \notin Room \cup Nat \cup Waits
  /\ MaxTasks \in Nat /\ MaxChannels \in Nat
  /\ MaxCalls \in Nat /\ MaxFaults \in Nat

Task == 1 .. MaxTasks

Channel == 1 .. MaxChannels

Idle == [wait |-> None, opens |-> None]

Unused == [room |-> None, net |-> "down", listened |-> FALSE]

TypeOK ==
  /\ room \in Room \cup {None}
  /\ manual \in BOOLEAN /\ timer \in BOOLEAN
  /\ status \in Statuses
  /\ channel \in Channel \cup {None} /\ sub \in Channel \cup {None}
  /\ channels \in [Channel ->
       [room : Room, net : {"connecting", "up", "down", "refused"}, listened : BOOLEAN]
         \cup {Unused}]
  /\ task \in [Task -> [wait : Waits, opens : Channel \cup {None}] \cup {Idle}]
  /\ calls \in 0 .. MaxCalls /\ faults \in 0 .. MaxFaults

Init ==
  /\ room = None
  /\ manual = FALSE /\ timer = FALSE
  /\ status = "disconnected"
  /\ channel = None /\ sub = None
  /\ channels = [c \in Channel |-> Unused]
  /\ task = [t \in Task |-> Idle]
  /\ calls = 0 /\ faults = 0

-----------------------------------------------------------------------------
Awaits(t, wait) == task[t].wait = wait

(* A new task takes the first place that is free.                           *)
Starts(t) == \A u \in 1 .. t : (task[u] = Idle) <=> (u = t)

Await(t, wait) == task' = [task EXCEPT ![t].wait = wait]

Called == calls < MaxCalls /\ calls' = calls + 1

(* _closeChannel up to its first await: a listener that is cancelled hears   *)
(* nothing more.                                                            *)
CancelSubscription ==
  channels' = IF sub = None THEN channels ELSE [channels EXCEPT ![sub].listened = FALSE]

(* A channel of which nobody knows whether it ever opens, or that never has. *)
Unopened(c) ==
  \/ channels[c].net = "refused"
  \/ \E t \in Task : Awaits(t, "ready") /\ task[t].opens = c

(* _closeChannel from there to its second await.                            *)
CloseSink ==
  /\ sub' = None
  /\ channels' = IF channel = None \/ channels[channel].net = "refused" THEN channels
                 ELSE [channels EXCEPT ![channel].net = "down"]

(* Closing a channel ends once its listener has heard of it, which a channel *)
(* that never opens does not have: the library's future need not complete.  *)
AwaitClosing(t, wait, unopened) ==
  Await(t, IF channel # None /\ Unopened(channel) THEN unopened ELSE wait)

(* _openConnection up to its first await; the caller's own fields are set.  *)
OpenConnection(t, says) ==
  /\ Starts(t)
  /\ Await(t, "cancel")
  /\ timer' = FALSE
  /\ status' = says
  /\ CancelSubscription
  /\ UNCHANGED <<channel, sub, faults>>

(* _scheduleReconnect *)
ScheduleReconnect ==
  timer' = (timer \/ (~manual /\ room # None))

(* Faulty variant: the flag is reset before the early return. *)
ConnectForgivingFirst(t, code) ==
  /\ Called
  /\ room' = code
  /\ manual' = FALSE
  /\ IF room = code /\ channel # None
     THEN UNCHANGED <<timer, status, channel, sub, channels, task, faults>>
     ELSE OpenConnection(t, "connecting")

(* connect: whoever is on a channel of the same room already has nothing to  *)
(* do.                                                                      *)
Connect(t, code) ==
  /\ Called
  /\ ~(room = code /\ channel # None)
  /\ room' = code
  /\ manual' = FALSE
  /\ OpenConnection(t, "connecting")

(* Faulty variant: no room is no reason not to connect. *)
RetryAnyway(t) ==
  /\ Called
  /\ manual' = FALSE
  /\ OpenConnection(t, "reconnecting")
  /\ UNCHANGED room

Retry(t) ==
  /\ Called
  /\ room # None
  /\ manual' = FALSE
  /\ OpenConnection(t, "reconnecting")
  /\ UNCHANGED room

TimerFires(t) ==
  /\ timer
  /\ OpenConnection(t, "reconnecting")
  /\ UNCHANGED <<room, manual, calls>>

ChannelCancelled(t) ==
  /\ Awaits(t, "cancel")
  /\ CloseSink
  /\ AwaitClosing(t, "close", "closeUnopened")
  /\ UNCHANGED <<fields, channel, calls, faults>>

(* Channels nobody refers to and nobody listens to are gone.                *)
InUse ==
  {sub} \cup {task[t].opens : t \in Task} \cup {c \in Channel : channels[c].listened}

(* The room is the one of now, not of when the task was called.             *)
OpenChannel(t) ==
  /\ task[t].wait \in Closing
  /\ \E c \in Channel :
       /\ channel' = c
       /\ c \notin InUse /\ \A d \in 1 .. c - 1 : d \in InUse
       /\ channels' = [d \in Channel |->
            IF d = c THEN [room |-> room, net |-> "connecting", listened |-> FALSE]
            ELSE IF d \in InUse THEN channels[d] ELSE Unused]
       /\ task' = [task EXCEPT ![t] = [wait |-> "ready", opens |-> c]]
  /\ UNCHANGED <<fields, sub, calls, faults>>

(* The channel is ready, though somebody may have closed it meanwhile.      *)
ChannelReady(t) ==
  /\ Awaits(t, "ready")
  /\ LET c == task[t].opens
     IN  /\ channels' = [channels EXCEPT ![c].listened = TRUE,
                                         ![c].net = IF @ = "down" THEN @ ELSE "up"]
         /\ sub' = c
  /\ status' = "connected"
  /\ task' = [task EXCEPT ![t] = Idle]
  /\ UNCHANGED <<room, manual, timer, channel, calls, faults>>

(* An opening fails because somebody has closed the channel, or by itself.  *)
Refused(c) ==
  /\ channels' = [channels EXCEPT ![c].net = "refused"]
  /\ IF channels[c].net = "down" THEN UNCHANGED faults
                                 ELSE faults < MaxFaults /\ faults' = faults + 1

(* Faulty variant: a failure is reported and nothing else. *)
OpeningFailsForGood(t) ==
  /\ Awaits(t, "ready")
  /\ Refused(task[t].opens)
  /\ status' = "error"
  /\ task' = [task EXCEPT ![t] = Idle]
  /\ UNCHANGED <<room, manual, timer, channel, sub, calls>>

OpeningFails(t) ==
  /\ Awaits(t, "ready")
  /\ Refused(task[t].opens)
  /\ status' = "error"
  /\ ScheduleReconnect
  /\ task' = [task EXCEPT ![t] = Idle]
  /\ UNCHANGED <<room, manual, channel, sub, calls>>

Disconnect(t) ==
  /\ Called
  /\ Starts(t)
  /\ manual' = TRUE
  /\ timer' = FALSE
  /\ CancelSubscription
  /\ Await(t, "cancelToLeave")
  /\ UNCHANGED <<room, status, channel, sub, faults>>

LeavingCancelled(t) ==
  /\ Awaits(t, "cancelToLeave")
  /\ CloseSink
  /\ AwaitClosing(t, "closeToLeave", "closeUnopenedToLeave")
  /\ UNCHANGED <<fields, channel, calls, faults>>

Disconnected(t) ==
  /\ task[t].wait \in ClosingToLeave
  /\ channel' = None
  /\ status' = "disconnected"
  /\ task' = [task EXCEPT ![t] = Idle]
  /\ UNCHANGED <<room, manual, timer, sub, channels, calls, faults>>

ConnectionIsLost(c) ==
  /\ channels[c].net = "up"
  /\ faults < MaxFaults
  /\ faults' = faults + 1
  /\ channels' = [channels EXCEPT ![c].net = "down"]
  /\ UNCHANGED <<fields, channel, sub, task, calls>>

(* Faulty variant: the loss is not told. *)
OnConnectionLostQuietly ==
  /\ ScheduleReconnect
  /\ UNCHANGED status

(* _onConnectionLost *)
OnConnectionLost ==
  /\ ScheduleReconnect
  /\ status' = IF manual THEN "disconnected" ELSE "reconnecting"

(* The listener of a channel that is down is told so, once.                 *)
LossIsNoticed(c) ==
  /\ channels[c].net = "down" /\ channels[c].listened
  /\ channels' = [channels EXCEPT ![c].listened = FALSE]
  /\ OnConnectionLost
  /\ UNCHANGED <<room, manual, channel, sub, task, calls, faults>>

-----------------------------------------------------------------------------
TaskStep(t) ==
  \/ ChannelCancelled(t) \/ OpenChannel(t) \/ ChannelReady(t) \/ OpeningFails(t)
  \/ LeavingCancelled(t) \/ Disconnected(t)

Next ==
  \/ \E t \in Task :
       \/ \E code \in Room : Connect(t, code)
       \/ Retry(t) \/ Disconnect(t)
       \/ TimerFires(t)
       \/ TaskStep(t)
  \/ \E c \in Channel : ConnectionIsLost(c) \/ LossIsNoticed(c)

MayHang(t) == task[t].wait \in {"closeUnopened", "closeUnopenedToLeave"}

(* What Dart's event loop owes: awaited futures complete, but for closing a  *)
(* channel that has not opened, the timer fires, listeners are told.  Nobody *)
(* need call, and the network need not fail.                                *)
Fairness ==
  /\ \A t \in Task : WF_vars(~MayHang(t) /\ TaskStep(t))
  /\ WF_vars(\E t \in Task : TimerFires(t))
  /\ WF_vars(\E c \in Channel : LossIsNoticed(c))

Spec == Init /\ [][Next]_vars /\ Fairness

-----------------------------------------------------------------------------
Wanted == room # None /\ ~manual

Heard(c) == channels[c].listened /\ channels[c].net = "up"

OnTheAir == \E c \in Channel : Heard(c) /\ channels[c].room = room

LossPending == \E c \in Channel : channels[c].listened /\ channels[c].net = "down"

UnderWay == \E t \in Task : task[t] # Idle

(* The service never sits there wanting a connection: if it has none to the  *)
(* room it is meant for, something is left that will open one.              *)
NeverForgotten == Wanted => OnTheAir \/ UnderWay \/ timer \/ LossPending

(* "connected" is shown of a connection that is there, to the room asked for *)
(* last unless somebody disconnects, or whose end is about to be noticed or *)
(* made.                                                                    *)
StatusIsHonest ==
  status = "connected" =>
    \/ \E c \in Channel : Heard(c) /\ (manual \/ channels[c].room = room)
    \/ UnderWay \/ timer \/ LossPending

(* The network answers, at least from some time on, within the three seconds *)
(* of the timer: it fires on nobody.                                        *)
AnswersInTime == <>[][\A t \in Task : TimerFires(t) => ~UnderWay]_vars

(***************************************************************************)
(* A network that stops failing and answers in time has the app connected   *)
(* again, for good, to the room asked for last, unless somebody disconnects, *)
(* or a call hangs in closing a channel that had not opened: connecting     *)
(* after a failure begins with that, and nothing limits the wait.  (Where   *)
(* the network does not answer in time openings may overlap for ever: each  *)
(* closes the channel of the one before, whose end starts the timer of the  *)
(* next.)                                                                   *)
(***************************************************************************)
ComesBack ==
  AnswersInTime => <>[](Wanted => OnTheAir \/ \E t \in Task : Awaits(t, "closeUnopened"))
=============================================================================
