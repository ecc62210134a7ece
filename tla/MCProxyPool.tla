------------------------------ MODULE MCProxyPool ------------------------------
(* A small pool: a refresh of two products and a create that goes first.      *)
EXTENDS ProxyPool

MCBatch == [r \in Requests |-> IF r = "refresh" THEN <<"b1", "b2">> ELSE <<"i1">>]
MCPriority == [t \in Tasks |-> IF t = "i1" THEN 0 ELSE 2]
MCLists == {{}} \cup {{u} : u \in Urls}
===============================================================================
