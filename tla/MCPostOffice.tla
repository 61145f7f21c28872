--------------------------- MODULE MCPostOffice ---------------------------
(* MailTest on both machines; or two senders on one machine and two        *)
(* receivers, for the same mailbox, on the other.                          *)
EXTENDS PostOffice

MCScenarios ==
    { [c \in Clients |-> IF c[2] = 1 THEN MailTest(1 - c[1]) ELSE <<>>],
      [c \in Clients |-> IF c[1] = 0 THEN <<Send(1, 0, c[2] - 1)>> ELSE <<Receive(0)>>] }
=============================================================================
