-------------------------- MODULE MCKdcTicketTimes --------------------------
EXTENDS KdcTicketTimes

\* Requested from/till offsets: in the past, inside the skew, at the skew,
\* exactly the max life, between it and the max renewable life, exactly the
\* max renewable life, and beyond both.
MCOffsets == {-1, 1, 2, 3, 4, 5, 6}

=============================================================================
