------------------------ MODULE MCInterruptHandling ------------------------
EXTENDS InterruptHandling
CONSTANTS m1, m2
=============================================================================
