--------------------------- MODULE MCFuturesPool ---------------------------
(* Instances of FuturesPool for TLC.                                       *)
EXTENDS FuturesPool

CONSTANTS sampler, commands, cells, status

Both == {sampler, commands}
OneName == {{status}}
\* jikong.py: _q(0x96, (2, 1)) and the wait for the next 0x02 frame.
JkRequests == {{cells, status}, {cells}}
=============================================================================
