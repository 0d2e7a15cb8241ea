------------------------ MODULE MCPhoneTelematics ------------------------
(* Constants for the runs of PhoneTelematics.  A ring of 6 or 10 numbers   *)
(* takes the place of the 100 of the code: what matters is how many        *)
(* numbers are used up between two callbacks that one listener compares.   *)
EXTENDS PhoneTelematics

CONSTANTS t1, n1  \* model values
=============================================================================
