------------------------------- MODULE TownGame -------------------------------
(***************************************************************************)
(* The game as its players are promised it: nights and days in turn, each   *)
(* round played at once and by everybody.  In a night every living killer   *)
(* picks a victim and a living doctor a patient; in a ballot every living   *)
(* player names another living player; who dies follows from those choices  *)
(* alone, and the game is over when a side has won, and only then.          *)
(*                                                                          *)
(* There are no requests, no transactions and no phases that only collect   *)
(* or only announce.  GameEngine shows how its rows and requests implement  *)
(* this game (ImplementsTown).                                              *)
(***************************************************************************)
EXTENDS Integers, FiniteSets

CONSTANTS
  Seat,         \* the players who are dealt a card
  NumKillers,   \* how many of them are killers
  None          \* no choice

VARIABLES
  scene,        \* "night", "day" (until the ballot), "verdict", "over" or "left"
  day,          \* which day it is, from 1
  card,         \* the card of each player, dealt once
  living,       \* the players still in the game, until they have left it
  winner,       \* the side that has won, "none" so far
  deeds,        \* what each player chose in the day's night, once it is over
  ballot        \* whom each player named in the day's ballot, once it is over

townVars == <<scene, day, card, living, winner, deeds, ballot>>

Holding(c) == {p \in Seat : card[p] = c}
Nothing    == [p \in Seat |-> None]

(* The villagers have won when no killer lives, the killers when they are   *)
(* at least half of the living.                                             *)
Won(alive) ==
  LET killers == Cardinality(alive \cap Holding("killer"))
  IN  IF killers = 0 THEN "villagers"
      ELSE IF 2 * killers >= Cardinality(alive) THEN "killers"
      ELSE "none"

Open ==
  /\ scene = "night"
  /\ day = 1
  /\ card \in [Seat -> {"killer", "doctor", "villager"}]
  /\ Cardinality(Holding("killer")) = NumKillers
  /\ Cardinality(Holding("doctor")) = 1
  /\ living = Seat
  /\ winner = "none"
  /\ deeds = Nothing
  /\ ballot = Nothing

-----------------------------------------------------------------------------
(* A round of choices: those of `who' choose, nobody else does. *)
Round(choice, who) ==
  \A p \in Seat : IF p \in who THEN choice[p] \in living ELSE choice[p] = None

NightDeeds(choice) ==
  /\ Round(choice, living \cap (Holding("killer") \cup Holding("doctor")))
  /\ \A p \in Holding("killer") : choice[p] # p

FullBallot(choice) == Round(choice, living) /\ \A p \in Seat : choice[p] # p

Support(choice, who, t) == Cardinality({p \in who : choice[p] = t})

(* A most wanted player of the killers. *)
Hunted(choice) ==
  {t \in living :
     /\ \E k \in Holding("killer") : choice[k] = t
     /\ \A u \in living : Support(choice, Holding("killer"), u)
                            <= Support(choice, Holding("killer"), t)}

(* The player whom more of the living named than any other, if there is one. *)
Condemned(choice) ==
  {t \in living : \A u \in living \ {t} :
                    Support(choice, Seat, u) < Support(choice, Seat, t)}

(* The night is over: a hunted player is dead unless the doctor chose the same. *)
Dawn ==
  /\ scene = "night"
  /\ NightDeeds(deeds')
  /\ \E t \in Hunted(deeds') :
       living' = living \ {p \in {t} : \A d \in Holding("doctor") : deeds'[d] # p}
  /\ winner' = Won(living')
  /\ scene' = IF Won(living') = "none" THEN "day" ELSE "over"
  /\ UNCHANGED <<day, card, ballot>>

Verdict ==
  /\ scene = "day"
  /\ FullBallot(ballot')
  /\ living' = living \ Condemned(ballot')
  /\ winner' = Won(living')
  /\ scene' = "verdict"
  /\ UNCHANGED <<day, card, deeds>>

Nightfall ==
  /\ scene = "verdict"
  /\ winner = "none"
  /\ scene' = "night"
  /\ day' = day + 1
  /\ deeds' = Nothing
  /\ ballot' = Nothing
  /\ UNCHANGED <<card, living, winner>>

CurtainFalls ==
  /\ scene = "verdict"
  /\ winner # "none"
  /\ scene' = "over"
  /\ UNCHANGED <<day, card, living, winner, deeds, ballot>>

(* Once the game is over its players may leave it for another, all of them  *)
(* alive again; who lives in that one is not this game's to say.            *)
Leave ==
  /\ scene = "over"
  /\ scene' = "left"
  /\ living' = Seat
  /\ UNCHANGED <<day, card, winner, deeds, ballot>>

Elsewhere ==
  /\ scene = "left"
  /\ living' \in SUBSET Seat
  /\ UNCHANGED <<scene, day, card, winner, deeds, ballot>>

Play == Dawn \/ Verdict \/ Nightfall \/ CurtainFalls \/ Leave \/ Elsewhere

Spec == Open /\ [][Play]_townVars
=============================================================================
