------------------------------ MODULE ClientApp ------------------------------
(***************************************************************************)
(* The Flutter client between its start and a game: the session it keeps on *)
(* the device (SessionNotifier, SessionRepositoryImpl) and its polling of a *)
(* game (GameNotifier).                                                     *)
(*                                                                          *)
(* The three keys of a session are written and removed one by one, each     *)
(* with an await; the application may be killed, or a write may throw,      *)
(* between any two.  Requests for the game's state overlap and end in any   *)
(* order.                                                                   *)
(*                                                                          *)
(* The server is the backend of this repository, not the client's own mock  *)
(* of one, of whose answers more can be read.  What is shown of a session   *)
(* is left out, and so are restartGame, which needs the room's code from an *)
(* answer that was read, and the way from the home screen to a game (see    *)
(* WebSocketService for the lobby's connection).                            *)
(***************************************************************************)
EXTENDS Integers, Sequences

CONSTANTS
  Session,      \* the sessions the server hands out
  Logout,       \* bound: the logouts that may be under way at once
  None,         \* no session
  MaxAsking,    \* bound: requests under way (15 s of timeout, one every 3 s)
  MaxFaults     \* bound: kills, failed reads and writes

ASSUME ClientConstants ==
  /\ None \notin Session /\ "save" \notin Logout
  /\ MaxAsking \in Nat \ {0} /\ MaxFaults \in Nat

VARIABLES
  stored,       \* what the device keeps under each key
  status,       \* SessionState.status
  session,      \* the keys of SessionState, in memory
  writing,      \* the keys a save and each logout have still to write
  saved,        \* the session being saved
  alone,        \* history: no saves and logouts overlapped since the last to begin began
  owed,         \* history: what was saved or cleared last, if it was alone and nothing began since
  overwriting,  \* history: a save began over a session and none has been completed since
  screen,       \* where the user is
  game,         \* GameState and what GameNotifier waits for
  faults        \* how many faults there were

vars == <<stored, status, session, writing, saved, alone, owed, overwriting, screen,
          game, faults>>

sessionVars == <<stored, status, session, writing, saved, alone, owed, overwriting>>

SessionKeys == {"playerId", "playerName", "sessionToken"}

Task == {"save"} \cup Logout

Whole(s) == [k \in SessionKeys |-> s]

NoSession == Whole(None)

(* The order of saveSession and of clearSession. *)
KeysInOrder == <<"playerId", "playerName", "sessionToken">>

Ask == 1 .. MaxAsking

(* The first of the requests under way is initialize's own refresh, which   *)
(* it awaits.                                                               *)
NoGame == [loading |-> FALSE, polling |-> FALSE, asks |-> {}]

Init ==
  /\ stored = NoSession
  /\ status = "initial" /\ session = NoSession
  /\ writing = [t \in Task |-> <<>>] /\ saved = None
  /\ alone = TRUE /\ owed = NoSession /\ overwriting = FALSE
  /\ screen = "splash" /\ game = NoGame
  /\ faults = 0

TypeOK ==
  /\ stored \in [SessionKeys -> Session \cup {None}]
  /\ status \in {"initial", "authenticated", "unauthenticated", "failure"}
  /\ session \in [SessionKeys -> Session \cup {None}]
  /\ writing \in [Task -> Seq(SessionKeys)]
  /\ saved \in Session \cup {None}
  /\ {alone, overwriting} \subseteq BOOLEAN
  /\ owed = None \/ owed \in {Whole(s) : s \in Session \cup {None}}
  /\ screen \in {"splash", "home", "game"}
  /\ faults \in 0 .. MaxFaults
  /\ game \in [loading : BOOLEAN, polling : BOOLEAN, asks : SUBSET Ask]
  /\ screen # "game" => game = NoGame

Fault == faults < MaxFaults /\ faults' = faults + 1

-----------------------------------------------------------------------------
(* The session. *)

(* Faulty variant: a session is one if it has a token.                      *)
ReadSessionByToken ==
  IF stored["sessionToken"] = None THEN NoSession ELSE stored

(* readSession: no session unless all three keys are there. *)
ReadSession ==
  IF \E k \in SessionKeys : stored[k] = None THEN NoSession ELSE stored

(* bootstrap, from the splash screen, which goes home when it has ended.    *)
Bootstrap ==
  /\ screen = "splash"
  /\ session' = ReadSession
  /\ status' = IF ReadSession = NoSession THEN "unauthenticated" ELSE "authenticated"
  /\ screen' = "home"
  /\ UNCHANGED <<stored, writing, saved, alone, owed, overwriting, game, faults>>

BootstrapFails ==
  /\ screen = "splash"
  /\ Fault
  /\ status' = "failure"
  /\ UNCHANGED <<stored, session, writing, saved, alone, owed, overwriting, screen, game>>

Idle(t) == writing[t] = <<>>

Alone(t) == \A u \in Task \ {t} : Idle(u)

(* setPlayer, when a room was created or joined; one at a time (isSubmitting). *)
SetPlayer(s) ==
  /\ screen = "home"
  /\ saved = None /\ saved' = s
  /\ writing' = [writing EXCEPT !["save"] = KeysInOrder]
  /\ owed' = None /\ alone' = Alone("save")
  /\ overwriting' = (overwriting \/ stored["sessionToken"] # None)
  /\ UNCHANGED <<stored, status, session, screen, game, faults>>

(* clearSession, the way out on the home screen of somebody with a session, *)
(* which can be pressed again before it has ended.                          *)
ClearSession(t) ==
  /\ screen = "home"
  /\ session["playerId"] # None
  /\ Idle(t)
  /\ writing' = [writing EXCEPT ![t] = KeysInOrder]
  /\ owed' = None /\ alone' = Alone(t)
  /\ UNCHANGED <<stored, status, session, saved, overwriting, screen, game, faults>>

Value(t) == IF t = "save" THEN saved ELSE None

(* After the last of the keys the notifier's own state is set. *)
Complete(t) ==
  /\ session' = Whole(Value(t))
  /\ status' = IF t = "save" THEN "authenticated" ELSE "unauthenticated"
  /\ saved' = IF t = "save" THEN None ELSE saved
  /\ owed' = IF alone THEN Whole(Value(t)) ELSE None
  /\ overwriting' = FALSE
  /\ UNCHANGED alone

(* Faulty variant: the last write is not awaited.                           *)
WriteKeyUnawaited(t) ==
  /\ ~Idle(t)
  /\ stored' = IF Len(writing[t]) = 1 THEN stored
               ELSE [stored EXCEPT ![Head(writing[t])] = Value(t)]
  /\ writing' = [writing EXCEPT ![t] = Tail(@)]
  /\ IF Len(writing[t]) = 1 THEN Complete(t)
     ELSE UNCHANGED <<status, session, saved, alone, owed, overwriting>>
  /\ UNCHANGED <<screen, game, faults>>

WriteKey(t) ==
  /\ ~Idle(t)
  /\ stored' = [stored EXCEPT ![Head(writing[t])] = Value(t)]
  /\ writing' = [writing EXCEPT ![t] = Tail(@)]
  /\ IF Len(writing[t]) = 1 THEN Complete(t)
     ELSE UNCHANGED <<status, session, saved, alone, owed, overwriting>>
  /\ UNCHANGED <<screen, game, faults>>

(* A write throws: what was written stays, the state is not set.            *)
WriteFails(t) ==
  /\ ~Idle(t)
  /\ Fault
  /\ writing' = [writing EXCEPT ![t] = <<>>]
  /\ saved' = IF t = "save" THEN None ELSE saved
  /\ UNCHANGED <<stored, status, session, alone, owed, overwriting, screen, game>>

(* The application is killed and started again: the device keeps what was   *)
(* written, the memory is as at first.                                      *)
Restart ==
  /\ Fault
  /\ status' = "initial" /\ session' = NoSession
  /\ writing' = [t \in Task |-> <<>>] /\ saved' = None
  /\ screen' = "splash" /\ game' = NoGame
  /\ UNCHANGED <<stored, alone, owed, overwriting>>

-----------------------------------------------------------------------------
(* The game. *)

(* refresh, up to its await. *)
Refresh(a) ==
  game' = [game EXCEPT !.asks = @ \cup {a}, !.loading = TRUE]

(* A screen of the game opens: initialize, of a new notifier.               *)
Initialize ==
  /\ screen = "home" /\ \A t \in Task : Idle(t)
  /\ status = "authenticated"
  /\ screen' = "game"
  /\ Refresh(1)
  /\ UNCHANGED <<sessionVars, faults>>

(* A tick of the periodic timer, or the button that tries again.            *)
Poll ==
  /\ game.polling
  /\ \E a \in Ask \ game.asks : Refresh(a)
  /\ UNCHANGED <<sessionVars, screen, faults>>

(* Faulty variant: the exception leaves refresh, and with it initialize.    *)
RefreshEndsUncaught(a) ==
  /\ a \in game.asks
  /\ game' = [game EXCEPT !.asks = @ \ {a}]
  /\ UNCHANGED <<sessionVars, screen, faults>>

(***************************************************************************)
(* refresh from its await on.  There is no answer in time, or an error, or  *)
(* a state that GameSnapshot does not read: the server's states are wrapped *)
(* in "data", which nobody unwraps here, and have no "room", "game" and     *)
(* "currentPlayerId".  So every refresh ends in its catch, with nothing of  *)
(* the game to show; and initialize's is followed by the polling.           *)
(***************************************************************************)
RefreshEnds(a) ==
  /\ a \in game.asks
  /\ game' = [loading |-> FALSE, polling |-> game.polling \/ a = 1, asks |-> game.asks \ {a}]
  /\ UNCHANGED <<sessionVars, screen, faults>>

(* Faulty variant: the timer outlives the screen.                           *)
LeaveGameTicking ==
  /\ screen = "game" /\ screen' = "home"
  /\ game' = [NoGame EXCEPT !.polling = game.polling]
  /\ UNCHANGED <<sessionVars, faults>>

(* The screen closes: the notifier stops its timer and is disposed of, and  *)
(* answers that are still to come find nobody.                              *)
LeaveGame ==
  /\ screen = "game" /\ screen' = "home"
  /\ game' = NoGame
  /\ UNCHANGED <<sessionVars, faults>>

-----------------------------------------------------------------------------
Next ==
  \/ Bootstrap \/ BootstrapFails \/ Restart
  \/ \E t \in Logout : ClearSession(t)
  \/ \E s \in Session : SetPlayer(s)
  \/ \E t \in Task : WriteKey(t) \/ WriteFails(t)
  \/ Initialize \/ Poll \/ LeaveGame
  \/ \E a \in Ask : RefreshEnds(a)

(* The timer ticks, and requests are answered or time out.                  *)
Fairness ==
  /\ WF_vars(Poll)
  /\ \A a \in Ask : WF_vars(RefreshEnds(a))

Spec == Init /\ [][Next]_vars /\ Fairness

-----------------------------------------------------------------------------
(* A start finds the session that was saved last, or none after a logout,   *)
(* whatever was interrupted before that and however often.                  *)
RestoredIsOwed ==
  [][Bootstrap /\ owed # None => session' = owed]_vars

(* Nobody is restored with the keys of two sessions, or with some missing,  *)
(* unless a save over an earlier session was cut short: a save interrupted  *)
(* after a logout, or a logout itself, leaves nothing that is restored.     *)
RestoredWhole ==
  overwriting \/ session \in {Whole(s) : s \in Session \cup {None}}

(* A client that stays in the game asks for its state again and again,      *)
(* though every answer fails it, the one included that initialize waits for *)
(* before anything is polled.  (It shows none of them.)                     *)
KeepsAsking ==
  <>[](screen = "game") => []<><<Poll>>_vars

(* The loading indicator is shown only while an answer can still end it.    *)
LoadingMeansAsking ==
  game.loading => game.asks # {}
=============================================================================
