---------------------------- MODULE MCDataHosts ----------------------------
(* The broker host, and the PostgreSQL host of a stack with the default    *)
(* backend; a production stack keeps its databases in RDS.                 *)
EXTENDS DataHosts

MCStacks == {[stack |-> "stage", backend |-> Unset], [stack |-> "production", backend |-> Unset]}
MCRoles == {"shop", "payments"}
MCWord == [r \in MCRoles |-> IF r = "shop" THEN "$SHOP_DB_USER" ELSE "$PAYMENTS_DB_USER"]
=============================================================================
