------------------------------ MODULE MCDevtools ------------------------------
(* Every kind of event with each it shares something of the collector with. *)
EXTENDS Devtools

MCWorkloads ==
    {{"page", "query", "fetch", "realtime"}, {"page", "query", "fetch", "retry"},
     {"page", "query", "fetch", "clear"}, {"page", "query", "fetch", "connection"},
     {"page", "write", "connection"}, {"page", "write", "update", "clear"},
     {"panel", "query", "fetch"}, {"panel", "write"}}

=============================================================================
