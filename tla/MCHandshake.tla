-------------------------- MODULE MCHandshake --------------------------
(* Instances of Handshake for TLC. *)
EXTENDS Handshake

Own(start, legal) ==
    [to |-> "own", start |-> start, legal |-> legal, intact |-> TRUE]
To(dest, start) ==
    [to |-> dest, start |-> start, legal |-> TRUE, intact |-> TRUE]

\* A master that only reads, correctly, next to a second station.
CleanRequests == {Own("ping", TRUE), Own("get", TRUE), To("other", "ping")}

\* A master that also reads in vain: with an illegal count, as a broadcast; and
\* the ping status within a block.
AllRequests ==
    {Own("ping", TRUE), Own("ping", FALSE), Own("block", TRUE), Own("get", TRUE),
     To("all", "ping")}

\* Reads of the ping status, and of the block that contains it.
PingRequests == {Own("ping", TRUE), Own("block", TRUE), Own("config", TRUE)}
========================================================================
