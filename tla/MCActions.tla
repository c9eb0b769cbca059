------------------------------- MODULE MCActions -------------------------------
(* Small instances of Actions. *)
EXTENDS Actions, MCFastUtilGraph

\* No guard reads the answer to the last request.
ActionsView == <<nodeVars, relVars, alive, ledger>>
=============================================================================
