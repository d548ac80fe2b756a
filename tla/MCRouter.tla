------------------------------ MODULE MCRouter ------------------------------
(***************************************************************************)
(* Small instances of Router: two requests, two deployments of different   *)
(* providers, under the settings that take each path of the selection, of  *)
(* the cooldowns and of the administration.                                *)
(***************************************************************************)
EXTENDS Router, TLC

CONSTANTS r1, r2, d1, d2

Providers == (d1 :> "p1") @@ (d2 :> "p2")

NoScopes == [r \in Requests |-> ""]
OneTenant == [r \in Requests |-> "t"]
TwoTenants == [r \in Requests |-> IF r = r1 THEN "t" ELSE ""]
NoTags == [x \in Requests \cup Deployments |-> {}]
Tags == (r1 :> {"fast"}) @@ (r2 :> {}) @@ (d1 :> {"default"}) @@ (d2 :> {"fast"})

Base == [Strategy |-> "simple-shuffle", DefaultProvider |-> "",
         EnableTagFiltering |-> FALSE, ScopeOf |-> NoScopes,
         PickScopeOf |-> NoScopes, TagsOf |-> NoTags, RPMLimit |-> 0,
         TPMLimit |-> 0, Initial |-> <<d1, d2>>, Administered |-> {},
         MaxTime |-> 3, MaxReports |-> 3, MaxAdmin |-> 0]

Tenants == [Base EXCEPT !.ScopeOf = TwoTenants, !.PickScopeOf = TwoTenants,
                        !.TagsOf = Tags, !.EnableTagFiltering = TRUE]
Single == [Base EXCEPT !.Strategy = "least-busy", !.Initial = <<d1>>,
                       !.MaxReports = 4]
Admin == [Base EXCEPT !.Strategy = "round-robin", !.Administered = {d1},
                      !.MaxTime = 1, !.MaxAdmin = 2]
Limits == [Base EXCEPT !.DefaultProvider = "p2", !.RPMLimit = 2, !.TPMLimit = 4,
                       !.MaxTime = 2, !.MaxReports = 4]
Lowest == [Base EXCEPT !.Strategy = "lowest-tpm-rpm", !.RPMLimit = 2, !.MaxTime = 2]
Tagged == [Base EXCEPT !.Strategy = "tag-based", !.TagsOf = Tags, !.MaxTime = 1]

\* A chat reports under its tenant and picks without one (client.go).
Chats == [Base EXCEPT !.ScopeOf = OneTenant]

MCConfigs == {Tenants, Single, Admin, Limits, Lowest, Tagged, Chats}

=============================================================================
