------------------------------ MODULE MCCheckQueue ------------------------------
EXTENDS CheckQueue
================================================================================
