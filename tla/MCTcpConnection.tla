--------------------------- MODULE MCTcpConnection ---------------------------
(* Instances of TcpConnection for TLC: messages, their sizes, and what users *)
(* call where.                                                             *)
EXTENDS TcpConnection

CONSTANTS m1, m2, t1

MCBytes == (Msgs \X (1..3)) \cup {Zero}

MCTwoByteEach == [m \in Msgs |-> 2]
MCSizes == [m \in Msgs |-> IF m = m1 THEN 3 ELSE 1]

NoCalls == [p \in Places |-> {}]

\* The IO thread sends and closes from callbacks, and closes from the handler
\* of another channel; the other thread sends.
MCSendAndClose ==
  [NoCalls EXCEPT !["connection"] = {"send"},
                  !["message"] = {"send", "forceClose"},
                  !["writeComplete"] = {"send"},
                  !["other"] = {"forceClose"},
                  !["thread"] = {"send"}]

\* Both threads send and shut down.
MCShutdown ==
  [NoCalls EXCEPT !["connection"] = {"send", "shutdown"},
                  !["message"] = {"send", "shutdown"},
                  !["other"] = {"send"},
                  !["thread"] = {"send", "shutdown"}]

MCThreadForceCloses == [NoCalls EXCEPT !["thread"] = {"forceClose"}]
MCForceCloseOutside ==
  [NoCalls EXCEPT !["connection"] = {"send"}, !["thread"] = {"forceClose"}]
MCSendInConnection == [NoCalls EXCEPT !["connection"] = {"send"}]

=============================================================================
