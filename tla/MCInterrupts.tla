---------------------------- MODULE MCInterrupts ----------------------------
\* The keyboard, the interval timer and the mouse beside the clock; the
\* kernel has handlers for the keyboard and the clock only
EXTENDS Interrupts
=============================================================================
