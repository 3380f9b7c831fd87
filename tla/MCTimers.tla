------------------------------ MODULE MCTimers ------------------------------
\* The timers on a few cards, request keys and seconds.
EXTENDS Timers

AnyWay == {-2, 1, 2}
=============================================================================
