------------------------------ MODULE MCBulkUse ------------------------------
(* Instances of BulkUse for TLC.                                           *)
EXTENDS BulkUse

\* The usual programs; what makes no difference to a kind of backend has one value.
GoodPrograms ==
    {p \in ProgramType :
        /\ Usual(p)
        /\ p.kind \notin {"odbc", "oracle"} => p.again = "always"
        /\ p.kind # "postgresql" => p.callback = "none"
        /\ p.callback # "none" => p.loses}

\* postgresql in a transaction, with a failover callback that asks for a reconnection.
FailoverPrograms ==
    {p \in ProgramType : p.kind = "postgresql" /\ p.txn /\ p.loses /\ p.callback = "retries"
                         /\ p.again = "done" /\ p.resizes = "grows"}

===============================================================================
