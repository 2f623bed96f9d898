--------------------------- MODULE MCGovernedRead ---------------------------
(* Two MCP servers with one attempt file, a fault and a retry, beside a     *)
(* worker of the API; and the pure worker, with two faults and up to seven  *)
(* retries.                                                                 *)
EXTENDS GovernedRead

McpServers == [callers |-> {1, 2}, buffered |-> TRUE, persistent |-> TRUE,
               faultAttempts |-> 1, maxRetries |-> 1, workerEvents |-> 2, maxCalls |-> 2]

PureWorker == [callers |-> {1}, buffered |-> FALSE, persistent |-> FALSE,
               faultAttempts |-> 2, maxRetries |-> 7, workerEvents |-> 0, maxCalls |-> 1]

BothPrograms == {McpServers, PureWorker}
=============================================================================
