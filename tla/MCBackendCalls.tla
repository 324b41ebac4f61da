---------------------------- MODULE MCBackendCalls ----------------------------
(* Instances of BackendCalls for TLC.                                        *)
EXTENDS BackendCalls

CONSTANTS r1, r2, b1, b2

\* Every request is offered the primary b1 before the backup b2.
PrimaryFirst == {<<b1, b2>>}
===============================================================================
