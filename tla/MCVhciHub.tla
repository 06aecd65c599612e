------------------------------ MODULE MCVhciHub ------------------------------
(* TLC instance of VhciHub: every port count ioc_register accepts, every   *)
(* request length up to one past the largest descriptor.                   *)
EXTENDS VhciHub

AllPortCounts == 1..31

\* 0 .. DescSize + 1: below, at and above NonVarSize and the full length.
AllReplyLens == 0..(DescSize + 1)

\* Zeroed stack, and one byte pattern that is neither 0 nor 0xff.
StackBytes == {0, 165}

OneReplyLen == {DescSize}
ZeroStack == {0}
=============================================================================
