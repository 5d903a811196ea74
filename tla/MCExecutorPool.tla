--------------------------- MODULE MCExecutorPool ---------------------------
EXTENDS ExecutorPool

CONSTANTS r1, r2, r3, u1, u2, backend, workers

MCOwner == [r \in Runs |-> IF r = r3 THEN u2 ELSE u1]
MCHome  == [r \in Runs |-> IF r = r2 THEN workers ELSE backend]
=============================================================================
