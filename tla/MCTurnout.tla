----------------------------- MODULE MCTurnout ------------------------------
EXTENDS Turnout
CONSTANTS m1, c1
OneReal == <<m1>>
OneCoupled == <<c1>>
Follows == [c \in {c1} |-> m1]
None == << >>
=============================================================================
