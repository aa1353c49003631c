------------------------------ MODULE MCIntake ------------------------------
(***************************************************************************)
(* What must go on: the fan-out of FanOut, the scheduler that asks for     *)
(* polls, and the loop that scores the news.  They share no variable, so   *)
(* one run checks them all: focus says which of them moves.                *)
(***************************************************************************)
EXTENDS MCFanOut, AutomaticIntake, NewsFeed

VARIABLE focus

\* Two articles of one source within a millisecond, and one of another
\* source with the content of the first.
TwoSources == <<"kompas", "tempo">>
ArticleSource == [a \in NewsArticles |-> IF a = 3 THEN "tempo" ELSE "kompas"]
SharedContent == [a \in NewsArticles |-> IF a = 3 THEN 1 ELSE a]
HalfMilliseconds == <<2, 3, 4>>

\* What does not move starts in one state.
GoingInit ==
    /\ focus \in {"fanout", "intake", "scoring"}
    /\ FanInit
    /\ IntakeInit /\ (focus # "intake" => desired = "unset")
    /\ NewsInit

\* One component moves in a behaviour, from its start to its end.
MovesOnly(component) == focus = component /\ UNCHANGED focus

GoingNext ==
    \/ MovesOnly("fanout") /\ FanNext /\ UNCHANGED <<intakeVars, newsVars>>
    \/ MovesOnly("intake") /\ IntakeNext /\ UNCHANGED <<allVars, newsVars>>
    \/ MovesOnly("scoring") /\ NewsNext /\ UNCHANGED <<allVars, intakeVars, feed>>

GoingSpec ==
    /\ GoingInit /\ [][GoingNext]_<<focus, allVars, intakeVars, newsVars>>
    /\ \/ focus = "fanout" /\ FanFairness
       \/ focus = "intake" /\ IntakeFairness
       \/ focus = "scoring" /\ NewsFairness

-----------------------------------------------------------------------------
(* No company is left out by the scheduler, and no article by the scorer,  *)
(* for as long as they run.                                                *)
IntakeGoesOn == OthersArePolled /\ EveryArticleIsJudged
=============================================================================
