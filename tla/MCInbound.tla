----------------------------- MODULE MCInbound -----------------------------
(* Small instances of InboundForwarding. Messages are numbers whose         *)
(* timestamp and chat are given here.                                       *)
EXTENDS InboundForwarding

MCOneChat == {1}
MCTwoMsgs == {1, 2}

\* One chat with two messages.
MCPairChatOf == [m \in MCTwoMsgs |-> 1]
MCPairTs == [m \in MCTwoMsgs |-> m]
MCSameSecond == [m \in MCTwoMsgs |-> 1]
============================================================================
