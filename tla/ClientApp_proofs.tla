---------------------------- MODULE ClientApp_proofs ----------------------------
(***************************************************************************)
(* Theorems about the client for any sessions, any number of requests under *)
(* way, of changes of the game and of faults.                               *)
(***************************************************************************)
EXTENDS ClientApp, TLAPS

(* What a save or a logout may have left to write: the end of its order. *)
Rests == {<<>>, <<"sessionToken">>, <<"playerName", "sessionToken">>, KeysInOrder}

Left(t) == {writing[t][i] : i \in DOMAIN writing[t]}

LEMMA RestsShrink ==
  ASSUME NEW rest \in Rests, rest # <<>>
  PROVE  /\ Tail(rest) \in Rests /\ Head(rest) \in SessionKeys
         /\ {rest[i] : i \in DOMAIN rest}
              = {Head(rest)} \cup {Tail(rest)[i] : i \in DOMAIN Tail(rest)}
         /\ Head(rest) \notin {Tail(rest)[i] : i \in DOMAIN Tail(rest)}
         /\ Len(rest) = 1 <=> Tail(rest) = <<>>
         /\ Len(rest) = 1 <=> Head(rest) = "sessionToken"
<1>1. CASE rest = <<"sessionToken">>
  BY <1>1 DEF Rests, SessionKeys
<1>2. CASE rest = <<"playerName", "sessionToken">>
  BY <1>2 DEF Rests, SessionKeys
<1>3. CASE rest = KeysInOrder
  BY <1>3 DEF Rests, SessionKeys, KeysInOrder
<1> QED
  BY <1>1, <1>2, <1>3 DEF Rests

-----------------------------------------------------------------------------
(* The steps by what they touch. *)
SessionStep ==
  \/ Bootstrap \/ BootstrapFails \/ Restart
  \/ \E t \in Logout : ClearSession(t)
  \/ \E s \in Session : SetPlayer(s)
  \/ \E t \in Task : WriteKey(t) \/ WriteFails(t)

GameStep == Initialize \/ Poll \/ LeaveGame \/ \E a \in Ask : RefreshEnds(a)

LEMMA StepsAreOfTwoKinds ==
  ASSUME [Next]_vars
  PROVE  SessionStep \/ GameStep \/ UNCHANGED vars
BY DEF Next, SessionStep, GameStep

LEMMA GameKeepsSession ==
  ASSUME GameStep
  PROVE  UNCHANGED sessionVars
BY DEF GameStep, Initialize, Poll, RefreshEnds, LeaveGame

Games == [loading : BOOLEAN, polling : BOOLEAN, asks : SUBSET Ask]

(* What the notifier keeps stays well formed, and a loading indicator has    *)
(* an answer to wait for.                                                   *)
Sound(g) == g \in Games /\ (g.loading => g.asks # {})

GameOK ==
  /\ Sound(game)
  /\ screen # "game" => game = NoGame
  /\ screen \in {"splash", "home", "game"}
  /\ faults \in 0 .. MaxFaults

LEMMA NoGameIsSound == Sound(NoGame) /\ ~NoGame.polling /\ NoGame.asks = {}
BY DEF NoGame, Games, Sound

LEMMA GameStaysOK ==
  ASSUME GameOK, GameStep
  PROVE  GameOK'
<1>0. game \in Games
  BY DEF GameOK, Sound
<1>1. ASSUME NEW a \in Ask, Refresh(a)
      PROVE  Sound(game')
  BY <1>0, <1>1 DEF Refresh, Sound, Games
<1>2. CASE Initialize
  <2>1. 1 \in Ask
    BY ClientConstants DEF Ask
  <2> QED
    BY <1>1, <1>2, <2>1 DEF Initialize, GameOK
<1>3. CASE Poll
  BY <1>1, <1>3, NoGameIsSound DEF Poll, GameOK
<1>4. CASE LeaveGame
  BY <1>4, NoGameIsSound DEF LeaveGame, GameOK
<1>5. ASSUME NEW a \in Ask, RefreshEnds(a)
      PROVE  GameOK'
  <2>1. Sound(game')
    BY <1>0, <1>5 DEF RefreshEnds, Sound, Games
  <2>2. screen = "game"
    BY <1>5, NoGameIsSound DEF RefreshEnds, GameOK
  <2> QED
    BY <1>5, <2>1, <2>2 DEF RefreshEnds, GameOK
<1> QED
  BY <1>2, <1>3, <1>4, <1>5 DEF GameStep

-----------------------------------------------------------------------------
(* Types. *)
SessionTyped ==
  /\ stored \in [SessionKeys -> Session \cup {None}]
  /\ status \in {"initial", "authenticated", "unauthenticated", "failure"}
  /\ session \in [SessionKeys -> Session \cup {None}]
  /\ writing \in [Task -> Rests]
  /\ saved \in Session \cup {None}
  /\ {alone, overwriting} \subseteq BOOLEAN
  /\ owed = None \/ owed \in {Whole(s) : s \in Session \cup {None}}

LEMMA Typed == SessionTyped /\ GameOK => TypeOK
<1>1. Rests \subseteq Seq(SessionKeys)
  BY DEF Rests, KeysInOrder, SessionKeys
<1> QED
  BY <1>1 DEF SessionTyped, GameOK, Sound, Games, TypeOK

LEMMA WholeTyped ==
  ASSUME NEW s \in Session \cup {None}
  PROVE  /\ Whole(s) \in [SessionKeys -> Session \cup {None}]
         /\ \A k \in SessionKeys : Whole(s)[k] = s
BY DEF Whole

(* What a write leaves to write, and what it has written.                   *)
LEMMA Written ==
  ASSUME SessionTyped, NEW t \in Task, WriteKey(t)
  PROVE  /\ writing' \in [Task -> Rests]
         /\ \A u \in Task \ {t} : writing'[u] = writing[u]
         /\ stored' \in [SessionKeys -> Session \cup {None}]
         /\ \E key \in SessionKeys :
              /\ Left(t) = {key} \cup Left(t)' /\ key \notin Left(t)'
              /\ stored' = [stored EXCEPT ![key] = Value(t)]
              /\ key = "sessionToken" <=> Idle(t)'
              /\ Idle(t)' => Complete(t)
              /\ ~Idle(t)' => UNCHANGED <<status, session, saved, alone, owed, overwriting>>
<1> DEFINE rest == writing[t]
           key == Head(rest)
<1>1. rest \in Rests /\ rest # <<>> /\ writing' = [writing EXCEPT ![t] = Tail(rest)]
  BY DEF SessionTyped, WriteKey, Idle
<1>2. /\ stored' = [stored EXCEPT ![key] = Value(t)] /\ Value(t) \in Session \cup {None}
      /\ IF Len(rest) = 1 THEN Complete(t)
         ELSE UNCHANGED <<status, session, saved, alone, owed, overwriting>>
  BY DEF SessionTyped, WriteKey, Value
<1>3. /\ Tail(rest) \in Rests /\ key \in SessionKeys
      /\ Len(rest) = 1 <=> Tail(rest) = <<>>
      /\ Len(rest) = 1 <=> key = "sessionToken"
  BY <1>1, RestsShrink
<1>4. writing'[t] = Tail(rest) /\ \A u \in Task \ {t} : writing'[u] = writing[u]
  BY <1>1 DEF SessionTyped
<1>5. Left(t) = {key} \cup Left(t)' /\ key \notin Left(t)'
  BY <1>1, <1>4, RestsShrink DEF Left
<1>6. stored' \in [SessionKeys -> Session \cup {None}] /\ writing' \in [Task -> Rests]
  BY <1>1, <1>2, <1>3 DEF SessionTyped
<1>7. Idle(t)' <=> Len(rest) = 1
  BY <1>3, <1>4 DEF Idle
<1> QED
  BY <1>2, <1>3, <1>4, <1>5, <1>6, <1>7

LEMMA SessionTypesKept ==
  ASSUME SessionTyped, SessionStep
  PROVE  SessionTyped'
<1> USE DEF SessionTyped
<1>0. /\ <<>> \in Rests /\ KeysInOrder \in Rests
      /\ NoSession \in [SessionKeys -> Session \cup {None}]
  BY DEF Rests, NoSession, Whole
<1>1. CASE Bootstrap \/ BootstrapFails \/ Restart
  BY <1>0, <1>1 DEF Bootstrap, BootstrapFails, Restart, ReadSession
<1>1a. ASSUME NEW t \in Logout, ClearSession(t)
       PROVE  SessionTyped'
  BY <1>0, <1>1a DEF ClearSession, Alone, Idle
<1>2. ASSUME NEW s \in Session, SetPlayer(s)
      PROVE  SessionTyped'
  BY <1>0, <1>2 DEF SetPlayer, Alone, Idle
<1>3. ASSUME NEW t \in Task, WriteKey(t)
      PROVE  SessionTyped'
  <2>1. writing' \in [Task -> Rests] /\ stored' \in [SessionKeys -> Session \cup {None}]
    BY <1>3, Written
  <2>2. CASE Idle(t)'
    <3>1. Complete(t) /\ Value(t) \in Session \cup {None}
      BY <1>3, <2>2, Written DEF Value
    <3> QED
      BY <2>1, <3>1, WholeTyped DEF Complete
  <2>3. CASE ~Idle(t)'
    BY <1>3, <2>1, <2>3, Written
  <2> QED
    BY <2>2, <2>3
<1>4. ASSUME NEW t \in Task, WriteFails(t)
      PROVE  SessionTyped'
  BY <1>0, <1>4 DEF WriteFails
<1> QED
  BY <1>1, <1>1a, <1>2, <1>3, <1>4 DEF SessionStep

LEMMA SessionStepKeepsGame ==
  ASSUME GameOK, SessionStep
  PROVE  GameOK'
<1>1. CASE Restart
  BY <1>1, NoGameIsSound, ClientConstants DEF Restart, Fault, GameOK
<1>2. CASE Bootstrap \/ BootstrapFails \/ \E t \in Logout : ClearSession(t)
  BY <1>2, ClientConstants DEF Bootstrap, BootstrapFails, ClearSession, Fault, GameOK
<1>3. CASE \/ \E s \in Session : SetPlayer(s)
           \/ \E t \in Task : WriteKey(t) \/ WriteFails(t)
  BY <1>3, ClientConstants DEF SetPlayer, WriteKey, WriteFails, Fault, GameOK
<1> QED
  BY <1>1, <1>2, <1>3 DEF SessionStep

(* The parts are kept by every step. *)
LEMMA TypesKept ==
  ASSUME SessionTyped, GameOK, [Next]_vars
  PROVE  (SessionTyped /\ GameOK)'
<1>1. CASE SessionStep
  BY <1>1, SessionTypesKept, SessionStepKeepsGame
<1>2. CASE GameStep
  BY <1>2, GameStaysOK, GameKeepsSession DEF SessionTyped, sessionVars
<1>3. CASE UNCHANGED vars
  BY <1>3 DEF vars, SessionTyped, GameOK
<1> QED
  BY <1>1, <1>2, <1>3, StepsAreOfTwoKinds

LEMMA InitiallyTyped == Init => SessionTyped /\ GameOK
<1> SUFFICES ASSUME Init PROVE SessionTyped /\ GameOK
  OBVIOUS
<1>1. <<>> \in Rests
  BY DEF Rests
<1>2. NoSession \in {Whole(s) : s \in Session \cup {None}}
  BY DEF NoSession
<1>3. NoSession \in [SessionKeys -> Session \cup {None}]
  BY WholeTyped DEF NoSession
<1>4. SessionTyped
  BY <1>1, <1>2, <1>3 DEF Init, SessionTyped
<1>5. GameOK
  BY NoGameIsSound, ClientConstants DEF Init, GameOK
<1> QED
  BY <1>4, <1>5

(***************************************************************************)
(* The client's state is well formed however saves, logouts, requests and   *)
(* faults interleave.                                                       *)
(***************************************************************************)
THEOREM ClientTypeCorrect == Spec => []TypeOK
BY InitiallyTyped, TypesKept, Typed, PTL DEF Spec

(***************************************************************************)
(* The screen never shows loading when no request is left to end it.        *)
(***************************************************************************)
THEOREM LoadingEnds == Spec => []LoadingMeansAsking
<1>1. SessionTyped /\ GameOK => LoadingMeansAsking
  BY DEF LoadingMeansAsking, GameOK, Sound
<1> QED
  BY <1>1, InitiallyTyped, TypesKept, PTL DEF Spec

-----------------------------------------------------------------------------
(***************************************************************************)
(* The session on the device.  A save writes the token last and a logout    *)
(* removes it last, so while there is a token, every key is of its session  *)
(* or gone, unless a save over an earlier session has not been completed:   *)
(* a save that finds no token overwrites none, and what a logout beside it   *)
(* removes is gone.                                                         *)
(***************************************************************************)
WritesInOrder ==
  /\ Idle("save") <=> saved = None
  /\ ~Idle("save") => \A k \in SessionKeys \ Left("save") : stored[k] \in {None, saved}

TokenGoesLast ==
  /\ session["playerId"] # None => stored["sessionToken"] # None
  /\ ~overwriting /\ ~Idle("save") => stored["sessionToken"] = None

OneSessionStored ==
  ~overwriting /\ stored["sessionToken"] # None =>
    \A k \in SessionKeys : stored[k] \in {None, stored["sessionToken"]}

SessionInv ==
  SessionTyped /\ WritesInOrder /\ TokenGoesLast /\ OneSessionStored /\ RestoredWhole

(* What a save or a logout that overlapped nothing has written is there, and *)
(* what was saved or cleared last with nothing since is all there is.       *)
OwedInv ==
  /\ \A t, u \in Task : ~Idle(t) /\ ~Idle(u) /\ alone => t = u
  /\ \A t \in Task : alone /\ ~Idle(t) =>
       \A k \in SessionKeys \ Left(t) : stored[k] = Value(t)
  /\ owed # None => stored = owed /\ \A t \in Task : Idle(t)


LEMMA SessionStepsKeepSession ==
  ASSUME SessionInv, SessionStep
  PROVE  SessionInv'
<1> USE DEF SessionInv, WritesInOrder, TokenGoesLast, OneSessionStored, RestoredWhole
<1>0. SessionTyped'
  BY SessionTypesKept
<1>0a. /\ None \notin Session /\ {"playerId", "sessionToken"} \subseteq SessionKeys
       /\ "save" \in Task /\ \A t \in Logout : t \in Task /\ t # "save"
       /\ \A t \in Task : t = "save" \/ t \in Logout
       /\ NoSession = Whole(None)
  BY ClientConstants DEF SessionKeys, Task, NoSession
<1>1. CASE Bootstrap
  <2>1. session' = ReadSession /\ UNCHANGED <<stored, writing, saved, overwriting>>
    BY <1>1 DEF Bootstrap
  <2>2. session'["playerId"] # None => stored["sessionToken"] # None
    BY <1>0a, <2>1, WholeTyped DEF ReadSession
  <2>3. ~overwriting => session' \in {Whole(s) : s \in Session \cup {None}}
    <3>1. CASE \E k \in SessionKeys : stored[k] = None
      BY <1>0a, <2>1, <3>1 DEF ReadSession
    <3>2. CASE \A k \in SessionKeys : stored[k] # None
      <4>1. ~overwriting => \A k \in SessionKeys : stored[k] = stored["sessionToken"]
        BY <1>0a, <3>2
      <4>2. ~overwriting => stored = Whole(stored["sessionToken"])
        BY <4>1 DEF SessionTyped, Whole
      <4>3. session' = stored /\ stored["sessionToken"] \in Session
        BY <1>0a, <2>1, <3>2 DEF ReadSession, SessionTyped
      <4> QED
        BY <4>2, <4>3
    <3> QED
      BY <3>1, <3>2
  <2> QED
    BY <1>0, <2>1, <2>2, <2>3 DEF Idle, Left
<1>2. CASE BootstrapFails
  BY <1>0, <1>2 DEF BootstrapFails, Idle, Left
<1>3. ASSUME NEW t \in Logout, ClearSession(t)
      PROVE  SessionInv'
  <2>1. /\ UNCHANGED <<stored, session, saved, overwriting>>
        /\ writing' = [writing EXCEPT ![t] = KeysInOrder]
    BY <1>3 DEF ClearSession
  <2>2. writing'["save"] = writing["save"]
    BY <1>0a, <2>1 DEF SessionTyped
  <2> QED
    BY <1>0, <2>1, <2>2 DEF Idle, Left
<1>4. CASE Restart
  <2>1. /\ UNCHANGED <<stored, overwriting>> /\ session' = NoSession
        /\ saved' = None /\ \A t \in Task : writing'[t] = <<>>
    BY <1>4 DEF Restart
  <2> QED
    BY <1>0, <1>0a, <2>1, WholeTyped DEF Idle
<1>5. ASSUME NEW s \in Session, SetPlayer(s)
      PROVE  SessionInv'
  <2>1. /\ UNCHANGED <<stored, session>> /\ saved' = s
        /\ writing' = [writing EXCEPT !["save"] = KeysInOrder]
        /\ overwriting' = (overwriting \/ stored["sessionToken"] # None)
    BY <1>5 DEF SetPlayer
  <2>2. writing'["save"] = KeysInOrder
    BY <1>0a, <2>1 DEF SessionTyped
  <2>3. SessionKeys \subseteq Left("save")' /\ KeysInOrder # <<>>
    BY <2>2 DEF Left, KeysInOrder, SessionKeys
  <2> QED
    BY <1>0, <1>0a, <2>1, <2>2, <2>3 DEF Idle
<1>6. ASSUME NEW t \in Task, WriteFails(t)
      PROVE  SessionInv'
  <2>1. /\ UNCHANGED <<stored, session, overwriting>>
        /\ writing' = [writing EXCEPT ![t] = <<>>]
        /\ saved' = IF t = "save" THEN None ELSE saved
    BY <1>6 DEF WriteFails
  <2>2. writing'[t] = <<>> /\ \A u \in Task \ {t} : writing'[u] = writing[u]
    BY <2>1 DEF SessionTyped
  <2> QED
    BY <1>0, <1>0a, <2>1, <2>2 DEF Idle, Left
<1>7. CASE WriteKey("save")
  <2>1. /\ "save" \in Task /\ ~Idle("save") /\ saved \in Session /\ Value("save") = saved
    BY <1>0a, <1>7 DEF WriteKey, Value, SessionTyped
  <2>2. PICK key \in SessionKeys :
          /\ Left("save") = {key} \cup Left("save")'
          /\ stored' = [stored EXCEPT ![key] = saved]
          /\ key = "sessionToken" <=> Idle("save")'
          /\ Idle("save")' => Complete("save")
          /\ ~Idle("save")' => UNCHANGED <<session, saved, overwriting>>
    BY <1>7, <2>1, Written
  <2>4. /\ stored'[key] = saved
        /\ \A k \in SessionKeys \ {key} : stored'[k] = stored[k]
    BY <2>2 DEF SessionTyped
  <2>5. \A k \in SessionKeys \ Left("save")' : stored'[k] \in {None, saved}
    BY <2>1, <2>2, <2>4
  <2>6. CASE Idle("save")'
    <3>1. session' = Whole(saved) /\ saved' = None /\ overwriting' = FALSE
      BY <2>1, <2>2, <2>6 DEF Complete
    <3>2. \A k \in SessionKeys : stored'[k] \in {None, saved}
      BY <2>5, <2>6 DEF Idle, Left
    <3> QED
      BY <1>0, <1>0a, <2>1, <2>2, <2>4, <2>6, <3>1, <3>2 DEF Idle
  <2>7. CASE ~Idle("save")'
    <3>1. UNCHANGED <<session, saved, overwriting>> /\ stored'["sessionToken"] = stored["sessionToken"]
      BY <1>0a, <2>2, <2>4, <2>7
    <3> QED
      BY <1>0, <1>0a, <2>1, <2>5, <2>7, <3>1 DEF Idle
  <2> QED
    BY <2>6, <2>7
<1>8. ASSUME NEW t \in Logout, WriteKey(t)
      PROVE  SessionInv'
  <2>1. ~Idle(t) /\ Value(t) = None /\ t # "save"
    BY <1>0a, <1>8 DEF WriteKey, Value
  <2>2. PICK key \in SessionKeys :
          /\ stored' = [stored EXCEPT ![key] = None]
          /\ key = "sessionToken" <=> Idle(t)'
          /\ Idle(t)' => Complete(t)
          /\ ~Idle(t)' => UNCHANGED <<session, saved, overwriting>>
    BY <1>0a, <1>8, <2>1, Written
  <2>3. writing'["save"] = writing["save"]
    BY <1>0a, <1>8, <2>1, Written
  <2>4. /\ stored'[key] = None
        /\ \A k \in SessionKeys \ {key} : stored'[k] = stored[k]
    BY <2>2 DEF SessionTyped
  <2>5. Left("save")' = Left("save") /\ (Idle("save")' <=> Idle("save"))
    BY <2>3 DEF Left, Idle
  <2>6. CASE Idle(t)'
    <3>1. session' = Whole(None) /\ saved' = saved /\ overwriting' = FALSE
      BY <2>1, <2>2, <2>6 DEF Complete
    <3> QED
      BY <1>0, <1>0a, <2>2, <2>4, <2>5, <2>6, <3>1, WholeTyped
  <2>7. CASE ~Idle(t)'
    BY <1>0, <1>0a, <2>1, <2>2, <2>4, <2>5, <2>7
  <2> QED
    BY <2>6, <2>7
<1> QED
  BY <1>0a, <1>1, <1>2, <1>3, <1>4, <1>5, <1>6, <1>7, <1>8 DEF SessionStep

LEMMA SessionKept ==
  ASSUME SessionInv, [Next]_vars
  PROVE  SessionInv'
<1>1. CASE SessionStep
  BY <1>1, SessionStepsKeepSession
<1>2. ASSUME UNCHANGED sessionVars
      PROVE  SessionInv'
  BY <1>2 DEF sessionVars, SessionInv, SessionTyped, WritesInOrder, TokenGoesLast,
              OneSessionStored, RestoredWhole, Idle, Left
<1> QED
  BY <1>1, <1>2, StepsAreOfTwoKinds, GameKeepsSession DEF vars, sessionVars

LEMMA InitialSession == Init => SessionInv /\ OwedInv
<1> SUFFICES ASSUME Init PROVE SessionInv /\ OwedInv
  OBVIOUS
<1>1. /\ SessionTyped /\ \A t \in Task : Idle(t)
      /\ saved = None /\ session = Whole(None) /\ stored = Whole(None) /\ owed = Whole(None)
  BY InitiallyTyped DEF Init, Idle, NoSession
<1>2. "save" \in Task
  BY DEF Task
<1>3. "playerId" \in SessionKeys /\ "sessionToken" \in SessionKeys
  BY DEF SessionKeys
<1>4. SessionInv
  BY <1>1, <1>2, <1>3, WholeTyped
     DEF SessionInv, WritesInOrder, TokenGoesLast, OneSessionStored, RestoredWhole
<1>5. OwedInv
  BY <1>1, <1>2 DEF OwedInv
<1> QED
  BY <1>4, <1>5

(***************************************************************************)
(* Whatever is killed, fails or overlaps, nobody is restored with the keys  *)
(* of two sessions or with some missing, unless a save over an earlier      *)
(* session was cut short.                                                   *)
(***************************************************************************)
THEOREM SessionsAreWhole == Spec => []RestoredWhole
<1>1. SessionInv => RestoredWhole
  BY DEF SessionInv
<1> QED
  BY <1>1, InitialSession, SessionKept, PTL DEF Spec

-----------------------------------------------------------------------------
LEMMA OwedKept ==
  ASSUME SessionTyped, OwedInv, [Next]_vars
  PROVE  OwedInv'
<1>0. "save" \in Task /\ \A t \in Logout : t \in Task
  BY DEF Task
<1>1. ASSUME UNCHANGED <<stored, writing, saved, alone, owed>>
      PROVE  OwedInv'
  BY <1>1 DEF OwedInv, Idle, Left, Value
<1>2. CASE Restart
  <2>1. UNCHANGED <<stored, owed>> /\ \A t \in Task : writing'[t] = <<>>
    BY <1>2 DEF Restart
  <2> QED
    BY <1>0, <2>1 DEF OwedInv, Idle
<1>3. ASSUME NEW t \in Task, owed' = None, alone' = Alone(t), UNCHANGED stored,
             writing' = [writing EXCEPT ![t] = KeysInOrder]
      PROVE  OwedInv'
  <2>1. writing'[t] = KeysInOrder /\ \A u \in Task \ {t} : writing'[u] = writing[u]
    BY <1>3 DEF SessionTyped
  <2>2. SessionKeys \subseteq Left(t)'
    BY <2>1 DEF Left, KeysInOrder, SessionKeys
  <2>3. alone' => \A u \in Task : ~Idle(u)' => u = t
    BY <1>3, <2>1 DEF Alone, Idle
  <2> QED
    BY <1>3, <2>2, <2>3 DEF OwedInv
<1>4. ASSUME NEW t \in Logout, ClearSession(t)
      PROVE  OwedInv'
  BY <1>0, <1>3, <1>4 DEF ClearSession
<1>5. ASSUME NEW s \in Session, SetPlayer(s)
      PROVE  OwedInv'
  BY <1>0, <1>3, <1>5 DEF SetPlayer
<1>6. ASSUME NEW t \in Task, WriteFails(t)
      PROVE  OwedInv'
  <2>1. /\ UNCHANGED <<stored, alone, owed>> /\ ~Idle(t)
        /\ writing' = [writing EXCEPT ![t] = <<>>]
        /\ saved' = IF t = "save" THEN None ELSE saved
    BY <1>6 DEF WriteFails
  <2>2. writing'[t] = <<>> /\ \A u \in Task \ {t} : writing'[u] = writing[u]
    BY <2>1 DEF SessionTyped
  <2>3. \A u \in Task \ {t} : alone => Idle(u)'
    BY <2>1, <2>2 DEF OwedInv, Idle
  <2>4. owed = None
    BY <2>1 DEF OwedInv
  <2> QED
    BY <2>1, <2>2, <2>3, <2>4 DEF OwedInv, Idle
<1>7. ASSUME NEW t \in Task, WriteKey(t)
      PROVE  OwedInv'
  <2>1. ~Idle(t) /\ owed = None
    BY <1>7 DEF WriteKey, OwedInv
  <2>2. PICK key \in SessionKeys :
          /\ Left(t) = {key} \cup Left(t)'
          /\ stored' = [stored EXCEPT ![key] = Value(t)]
          /\ Idle(t)' => Complete(t)
          /\ ~Idle(t)' => UNCHANGED <<saved, alone, owed>>
    BY <1>7, Written
  <2>3. \A u \in Task \ {t} : Idle(u)' <=> Idle(u)
    BY <1>7, Written DEF Idle
  <2>4. /\ stored'[key] = Value(t)
        /\ \A k \in SessionKeys \ {key} : stored'[k] = stored[k]
    BY <2>2 DEF SessionTyped
  <2>5. alone => /\ \A u \in Task \ {t} : Idle(u)'
                 /\ \A k \in SessionKeys \ Left(t)' : stored'[k] = Value(t)
    BY <2>1, <2>2, <2>3, <2>4 DEF OwedInv
  <2>6. CASE Idle(t)'
    <3>1. alone' = alone /\ owed' = IF alone THEN Whole(Value(t)) ELSE None
      BY <2>2, <2>6 DEF Complete
    <3>2. Left(t)' = {}
      BY <2>6 DEF Idle, Left
    <3>3. stored' \in [SessionKeys -> Session \cup {None}]
      BY <1>7, Written
    <3>4. alone => stored' = Whole(Value(t))
      BY <2>5, <3>2, <3>3 DEF Whole
    <3> QED
      <4>1. CASE alone
        <5>1. stored' = owed' /\ \A u \in Task : Idle(u)'
          BY <2>5, <2>6, <3>1, <3>4, <4>1
        <5> QED
          BY <5>1 DEF OwedInv
      <4>2. CASE ~alone
        <5>1. ~alone' /\ owed' = None
          BY <3>1, <4>2
        <5> QED
          BY <5>1 DEF OwedInv
      <4> QED
        BY <4>1, <4>2
  <2>7. CASE ~Idle(t)'
    <3>1. UNCHANGED <<saved, alone, owed>>
      BY <2>2, <2>7
    <3>2. Value(t)' = Value(t)
      BY <3>1 DEF Value
    <3> QED
      BY <2>1, <2>5, <2>7, <3>1, <3>2 DEF OwedInv
  <2> QED
    BY <2>6, <2>7
<1>8. CASE Bootstrap \/ BootstrapFails
  <2>1. UNCHANGED <<stored, writing, saved, alone, owed>>
    BY <1>8 DEF Bootstrap, BootstrapFails
  <2> QED
    BY <1>1, <2>1
<1>9. CASE GameStep \/ UNCHANGED vars
  <2>1. UNCHANGED <<stored, writing, saved, alone, owed>>
    BY <1>9, GameKeepsSession DEF sessionVars, vars
  <2> QED
    BY <1>1, <2>1
<1> QED
  BY <1>2, <1>4, <1>5, <1>6, <1>7, <1>8, <1>9, StepsAreOfTwoKinds DEF SessionStep

LEMMA OwedIsRead ==
  ASSUME SessionTyped, OwedInv, Bootstrap, owed # None
  PROVE  session' = owed
<1>1. stored = owed /\ session' = ReadSession
  BY DEF OwedInv, Bootstrap
<1>2. PICK s \in Session \cup {None} : stored = Whole(s)
  BY <1>1 DEF SessionTyped
<1>3. CASE \E k \in SessionKeys : stored[k] = None
  BY <1>1, <1>2, <1>3, WholeTyped DEF ReadSession, NoSession
<1>4. CASE ~\E k \in SessionKeys : stored[k] = None
  BY <1>1, <1>4 DEF ReadSession
<1> QED
  BY <1>3, <1>4

(***************************************************************************)
(* A start finds exactly what the last save or logout left, as long as no    *)
(* other one overlapped it or was begun after it; a later kill, failing     *)
(* read or restart changes nothing about that.                              *)
(***************************************************************************)
THEOREM SavedIsRestored == Spec => RestoredIsOwed
<1>1. SessionTyped /\ GameOK /\ OwedInv /\ [Next]_vars
        => [Bootstrap /\ owed # None => session' = owed]_vars
  BY OwedIsRead
<1>2. SessionTyped /\ GameOK /\ OwedInv /\ [Next]_vars => (SessionTyped /\ GameOK /\ OwedInv)'
  BY TypesKept, OwedKept
<1> QED
  BY <1>1, <1>2, InitiallyTyped, InitialSession, PTL DEF Spec, RestoredIsOwed
=============================================================================
