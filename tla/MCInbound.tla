----------------------------- MODULE MCInbound -----------------------------
(* Message 2 is a msg_detailed_info about the answer 1.                    *)
EXTENDS InboundWindow

MCDetailed == [m \in 1 .. MaxTime |-> IF m = 2 THEN {1} ELSE {}]

Budget(sent, ids, skew, sleeps, reconnects, lost) ==
    [messages |-> sent, issues |-> ids, drift |-> skew,
     suspends |-> sleeps, stops |-> reconnects, faults |-> lost]

\* Redelivery, with a lost ack and a reconnect; or two threads that ask for ids.
MCBudgets == {Budget(4, 0, 0, 1, 1, 1), Budget(3, 3, 2, 1, 0, 0)}
=============================================================================
