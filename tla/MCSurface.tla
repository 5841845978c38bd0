----------------------------- MODULE MCSurface -----------------------------
EXTENDS Surface

\* A fader, and a lamp that waits in the queue behind it.
MCControls == <<"strip", "lamp">>

\* Two faders, of which the second waits behind the first.
MCTwoFaders == <<"strip", "main">>
=============================================================================
