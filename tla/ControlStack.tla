----------------------------- MODULE ControlStack -----------------------------
(***************************************************************************)
(* What a session of control stands on: the messages of any topic from        *)
(* publisher to subscriber, then the way of joint values from the robot to     *)
(* the controllers and back, and then the session itself; beside it, the pace  *)
(* of the nodes and what the console shows of them.  Each is over, and its     *)
(* variables are as at the start or as none, before the next begins.           *)
(***************************************************************************)
EXTENDS ControlSession, RobotDataPath, RobotMessages, NodeRates, ConsoleFeeds

stackVars == <<sessionVars, dataPathVars, messageVars, ratesVars, feedsVars>>

StackTypeOK == SessionTypeOK /\ DataPathTypeOK /\ MessagesTypeOK /\ RatesTypeOK /\ FeedsTypeOK

\* The rates, and the feeds, have been left.
RatesOver == RatesAt(MaxNow)
FeedsOver == FeedsAt(MaxLives, MaxStacks)

\* What comes before the session does not depend on its setup: one will do.
OneSetup == <<client, part>> = (CHOOSE s \in Setups : TRUE) /\ mode = "IDLE"

StackInit ==
    /\ SessionInit /\ MessagesInit
    /\ \/ DataPathOver /\ RatesOver /\ FeedsOver
       \/ /\ OneSetup
          /\ \/ DataPathInit /\ RatesOver /\ FeedsOver
             \/ DataPathOver /\ RatesInit /\ FeedsOver
             \/ DataPathOver /\ RatesOver /\ FeedsInit

MessagesStep ==
    /\ stage = "configure"
    /\ MessagesNext
    /\ UNCHANGED <<sessionVars, dataPathVars, ratesVars, feedsVars>>

DataPathStep ==
    /\ topic = NoValue
    /\ DataPathNext
    /\ UNCHANGED <<sessionVars, messageVars, ratesVars, feedsVars>>

RatesStep ==
    /\ ~RatesOver
    /\ RatesNext
    /\ UNCHANGED <<sessionVars, dataPathVars, messageVars, feedsVars>>

FeedsStep ==
    /\ life = 0 \/ stacks = 0
    /\ FeedsNext
    /\ UNCHANGED <<sessionVars, dataPathVars, messageVars, ratesVars>>

SessionStep ==
    /\ stage = "end" /\ RatesOver /\ FeedsOver
    /\ SessionNext
    /\ UNCHANGED <<dataPathVars, messageVars, ratesVars, feedsVars>>

StackNext == MessagesStep \/ DataPathStep \/ RatesStep \/ FeedsStep \/ SessionStep

StackSpec == StackInit /\ [][StackNext]_stackVars

=============================================================================
