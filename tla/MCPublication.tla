--------------------------- MODULE MCPublication ----------------------------
EXTENDS Publication

Opt(s, p, e, t, src) ==
    [sample |-> s, publish |-> p, expires |-> e, takes |-> t, source |-> src]

\* A unit is 5 s.  Values are published every cycle (the default), every other
\* one, or at every cycle, as the period is shorter than a unit; cycles take as
\* long as they are apart; and a group.
AllOptions == {
    Opt(1, 1, 4, 0, "bms"), Opt(1, 2, 4, 0, "bms"), Opt(2, 0, 4, 0, "bms"),
    Opt(1, 2, 4, 1, "bms"), Opt(2, 2, 4, 0, "group")}

ASSUME OptionsFit == \A o \in AllOptions : Fits(o)
=============================================================================
