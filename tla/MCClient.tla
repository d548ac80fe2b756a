------------------------------ MODULE MCClient ------------------------------
(***************************************************************************)
(* Small instances of Client: two deployments of two providers, and two    *)
(* calls of the kinds that differ.                                         *)
(***************************************************************************)
EXTENDS Client

CONSTANTS r1, r2, d1, d2

TwoProviders == (d1 :> "p1") @@ (d2 :> "p2")

Cancelled == [KindOf |-> (r1 :> "chat") @@ (r2 :> "stream"), RetryCount |-> 1,
              FallbackEnabled |-> TRUE, MayCancel |-> TRUE, Removable |-> {}]
Removed == [KindOf |-> (r1 :> "chat") @@ (r2 :> "embedding"), RetryCount |-> 1,
            FallbackEnabled |-> TRUE, MayCancel |-> FALSE, Removable |-> {"p2"}]
Persistent == [KindOf |-> (r1 :> "stream") @@ (r2 :> "embedding"), RetryCount |-> 2,
               FallbackEnabled |-> FALSE, MayCancel |-> FALSE, Removable |-> {}]

MCSettings == {Cancelled, Removed, Persistent}
=============================================================================
