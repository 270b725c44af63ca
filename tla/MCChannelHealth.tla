-------------------------- MODULE MCChannelHealth --------------------------
EXTENDS ChannelHealth, TLC

\* Waits of the first and of every later recovery attempt.
MCIntervals == <<1>>
=============================================================================
