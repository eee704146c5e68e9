------------------------------- MODULE MCIntake -------------------------------
EXTENDS Intake, TLC

CONSTANTS miami, pensacola

\* Florida is on Eastern time but for the panhandle.
HomeDef ==
  (miami     :> [state |-> "FL", zip |-> 33101, zone |-> "Eastern"]) @@
  (pensacola :> [state |-> "FL", zip |-> 32501, zone |-> "Central"])

\* Around the afternoon and evening rules of the borrower's clock, at night and
\* in the morning, UTC, on a Thursday: its third day is a Sunday.
InstantDef == {4 * DAY + h * HOUR + 59 : h \in {7, 20, 21}} \cup {5 * DAY + 90}

\* Every three hours of the week.
AnytimeDef == {180 * i + 45 : i \in 0..55}

\* Within the windows of the rules, and on the days that follow.
LaterDef == {60, 135, 330, 1170, 1440}

Symmetry == Permutations(Request)
=============================================================================
