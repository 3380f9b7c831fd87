-------------------------- MODULE MCWidgetRegistry --------------------------
\* A memo key with three operations and a task key with three, for two calls; one
\* of the requests also comes without a confirmation.
EXTENDS WidgetRegistry
CONSTANTS k1, k2
MCKeys == {k1, k2}
Asked(k, ops) == [key : {k}, op : ops, confirmed : {TRUE}]
Create == [kind |-> "create"]
MCRequests ==
    Asked(k1, {Create, [kind |-> "append", item |-> Note, version |-> 1],
               [kind |-> "add"]})
    \cup Asked(k2, {[kind |-> "complete", item |-> "monday", version |-> 1],
                    [kind |-> "reopen", item |-> "monday", version |-> 1],
                    [kind |-> "delete", item |-> "monday", version |-> 1]})
    \cup [key : {k1}, op : {Create}, confirmed : {FALSE}]
=============================================================================
