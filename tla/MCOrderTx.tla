----------------------------- MODULE MCOrderTx ------------------------------
(* Instances of OrderTx for TLC. *)
EXTENDS OrderTx, TLC

CONSTANTS m1, m2, c1, c2

MCOwner == (c1 :> m1) @@ (c2 :> m2)
MCSupply == (c1 :> 2) @@ (c2 :> 1)

\* The statements of checkout whose result the code looks at.
MCChecked == {"checkout"} \X {"begin", "order", "item", "stock", "commit"}

\* The last of them, whose error path does not roll back.
MCCommit == {<<"checkout", "commit">>}

\* Those of payOrder whose results it ignores.
MCIgnored == {"pay"} \X {"credit", "status", "save", "commit"}
=============================================================================
