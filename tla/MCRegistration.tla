--------------------------- MODULE MCRegistration ---------------------------
(* Model values for the run of Registration. *)
EXTENDS Registration

\* Two events of one name; a command and a query of one name; a log message
\* with a kind of its own and no fixed name; a command without a name.
MCName == [created |-> "created", created2 |-> "created", get |-> "get",
           get2 |-> "get", log |-> "", unnamed |-> ""]
MCOverride == [t \in DOMAIN MCName |-> IF t = "log" THEN "log" ELSE ""]

MCApi == [event1 |-> "event", event2 |-> "event", queue1 |-> "queue", log1 |-> "queue",
          command1 |-> "command", query1 |-> "query", query2 |-> "query",
          command3 |-> "command"]
MCType == [event1 |-> "created", event2 |-> "created2", queue1 |-> "created",
           log1 |-> "log", command1 |-> "get", query1 |-> "get", query2 |-> "get2",
           command3 |-> "unnamed"]
MCCalls == DOMAIN MCApi
=============================================================================
