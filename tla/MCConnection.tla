----------------------------- MODULE MCConnection -----------------------------
(* Instances of Connection for TLC.                                        *)
EXTENDS Connection

\* Both applications ping and close; the client also sends and flushes, and
\* makes two calls.
AllOps == [e \in Ends |-> IF e = "client" THEN {"Text", "Ping", "Flush", "Close"} ELSE {"Ping", "Close"}]
TwoOne == [e \in Ends |-> IF e = "client" THEN 2 ELSE 1]

\* Both applications close, the client also pings and the server also sends.
OnePinger == [e \in Ends |-> IF e = "client" THEN {"Ping", "Close"} ELSE {"Text", "Close"}]

\* Both applications close, one of them after a message.
CloseOps == [e \in Ends |-> IF e = "client" THEN {"Text", "Close"} ELSE {"Close"}]

=============================================================================
