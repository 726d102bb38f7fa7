---------------------------- MODULE MCLitGateway ----------------------------
(* Instances of LitGateway for TLC.                                        *)
EXTENDS LitGateway

CONSTANTS c1, c2

\* Backing off shorter and longer than an interval.
Waits == {1, 4}
=============================================================================
