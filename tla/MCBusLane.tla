------------------------------ MODULE MCBusLane ------------------------------
(***************************************************************************)
(* Model-checking instances of BusLane.  First the constants shared by the *)
(* runs; then what the repository says of live steering, which a run       *)
(* refutes.                                                                *)
(***************************************************************************)
EXTENDS BusLaneInv

RoomKinds == {"addressed", "chatter"}
DmKinds   == {"addressed"}
NoTree    == {}

-----------------------------------------------------------------------------
\* "an undelivered or un-drained message is simply left pending and delivered by
\* a fresh turn -- never lost" (_route_steer): a message addressed to the agent
\* that the cursor has passed was shown or dropped by a rule, or was itself the
\* trigger of a turn, or is late, or its POST failed.  NoSilentLoss without the
\* messages hidden from the prompt.
SteeringNeverLoses ==
    \A m \in Addressed(log) : m <= cursor =>
        m \in shown \cup rateDropped \cup stopped \cup parked
                \cup late \cup unquoted \cup undelivered \cup overflow
=============================================================================
