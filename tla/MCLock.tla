-------------------------------- MODULE MCLock --------------------------------
\* Instances of LockingStrategy for TLC.
EXTENDS LockingStrategy, TLC

CONSTANTS n1, n2, n3, r1, r2, r3

\* One run on each node of the cluster.
ThreeNodes == r1 :> n1 @@ r2 :> n2 @@ r3 :> n3
=============================================================================
