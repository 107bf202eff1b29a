---------------------------- MODULE MCConfigEdits ----------------------------
(* TLC instances of ConfigEdits.  A Duration of 8 bits holds -128..127 ticks;
   with 4 ticks a day it wraps at 32 days, as Go's wraps at 106752. *)
EXTENDS ConfigEdits

SmallValues == {-1, 0, 1, 3, 31}
LargeValues == {-1, 0, 3, 31, 32, 40, 64}
==============================================================================
