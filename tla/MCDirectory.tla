----------------------------- MODULE MCDirectory -----------------------------
(***************************************************************************)
(* Small instances of Directory: each deployment has a few of the          *)
(* operations at work, so that their state spaces add up.                  *)
(***************************************************************************)
EXTENDS Directory

NoClaims == [groups |-> <<>>, team |-> "", teams |-> {}, org |-> "", email |-> "example.com"]
NoOIDC == [RolesMap |-> <<>>, UseRoleHierarchy |-> FALSE, DefaultRole |-> "", TeamAliasMap |-> <<>>,
           OrgAliasMap |-> <<>>, TeamIDJWTField |-> FALSE, TeamIDsJWTField |-> FALSE,
           OrgIDJWTField |-> FALSE, Domain |-> ""]
\* Nothing at work, on an empty memory store
Base == [Backend |-> "memory", Start |-> EmptyStore, Ops |-> {}, Teams |-> {"t1"}, Callers |-> {"c1", "c2"},
         Runners |-> {}, Crashes |-> FALSE, Charged |-> {}, MaxSpend |-> 1, MaxTime |-> 1,
         MaxFaults |-> 0, Durations |-> {}, Blocks |-> {}, MaxUses |-> 1, Roles |-> {""},
         SyncOrgs |-> {None}, SyncUserRole |-> FALSE, AutoCreate |-> TRUE,
         RemoveFromUnlistedTeams |-> TRUE, OIDC |-> NoOIDC, Claims |-> {NoClaims}, Sync |-> FALSE,
         TTL |-> 1, StateTTL |-> 1, MaxLogins |-> 0, MaxKeys |-> 1,
         MaxLogs |-> 0, Objects |-> {}, Actions |-> {}, Starts |-> {}, Limit |-> 1]
OnPostgres(s) == [s EXCEPT !.Backend = "postgres", !.MaxFaults = 1]

ATeam == [ZeroTeam EXCEPT !.is_active = TRUE, !.models = TRUE]
AUser == [ZeroUser EXCEPT !.is_active = TRUE, !.user_role = "internal_user"]
OneTeam == [EmptyStore EXCEPT !.teams["t1"] = [ATeam EXCEPT !.budget_duration = "1d", !.budget_reset_at = 1]]
OneUser == [EmptyStore EXCEPT !.users["u1"] = [AUser EXCEPT !.budget_duration = "1d", !.budget_reset_at = 1]]
Both == [OneTeam EXCEPT !.users = OneUser.users]
Organized == [OneUser EXCEPT !.organizations["o1"] = ZeroOrganization]

\* Concurrent requests for one team or user, and charges
TeamRequests == [Base EXCEPT !.Ops = {"UpdateTeam", "DeleteTeam", "BlockTeam"}, !.Charged = {"teams"},
                     !.Start = OneTeam, !.Durations = {"1d"}, !.Blocks = {TRUE}]
UserRequests == [Base EXCEPT !.Ops = {"UpdateUser", "DeleteUser", "SyncUserTeams"},
                     !.Teams = {}, !.Charged = {"users"}, !.Start = OneUser, !.Durations = {"1d"},
                     !.Roles = {"admin"}, !.SyncUserRole = TRUE]
\* One request at a time, beside the job runner
Scheduled == [Base EXCEPT !.Ops = {"NewTeam", "UpdateTeam"}, !.Callers = {"c1"}, !.Runners = {"r1"},
                     !.Charged = {"teams"}, !.MaxTime = 3, !.Start = OneTeam, !.Durations = {"1d", "1h"}]
\* Two instances reset the same budgets; one may crash
Instances == OnPostgres([Base EXCEPT !.Callers = {}, !.Runners = {"r1", "r2"}, !.Crashes = TRUE,
                     !.Charged = {"users"}, !.MaxTime = 3, !.Start = Both])
\* Organizations and their members
Organizations == [Base EXCEPT !.Ops = {"NewOrganization", "UpdateOrganization", "DeleteOrganization"},
                     !.Charged = {"organizations"}, !.Start = Organized]
Members == [Base EXCEPT !.Ops = {"AddOrganizationMember", "UpdateOrganizationMember",
                                 "DeleteOrganizationMember", "DeleteOrganization"},
                     !.Charged = {"organization_memberships"}, !.Start = Organized]
\* Invitation links, and the clock
Invitations == [Base EXCEPT !.Ops = {"CreateInvitation", "AcceptInvitation", "DeactivateInvitation",
                                     "DeleteInvitation"},
                     !.MaxTime = 2, !.Start = [Both EXCEPT !.organizations = Organized.organizations]]
\* Synchronisation, concurrent with another of the same user or with the handlers that move it
Synchronised == [Base EXCEPT !.Ops = {"SyncUserTeams"}, !.Teams = {"t1", "t2"}]
Moving == [Base EXCEPT !.Ops = {"SyncUserTeams", "AddTeamMember", "DeleteTeamMember", "NewTeam", "NewUser"},
                     !.Charged = {"team_memberships"}, !.SyncOrgs = {None, "o1"}, !.Start = Organized]
\* API keys, of which one is seeded by scripts/init_db.sql
KeysOnly == OnPostgres([Base EXCEPT !.Ops = {"GenerateKey", "UpdateKey", "BlockKey", "DeleteKey",
                                                "ChargeKey"},
                     !.Start = [EmptyStore EXCEPT !.api_keys["k1"] =
                                   [ZeroKey EXCEPT !.key_hash = "k1", !.key_name = "Test API Key",
                                                   !.is_active = TRUE]]])

\* Logins of two tabs; with a synchronisation, the provider's claims and the secret changing
Groups == [NoOIDC EXCEPT !.RolesMap = [admins |-> "proxy_admin", staff |-> "internal_user"],
                         !.UseRoleHierarchy = TRUE, !.TeamIDJWTField = TRUE,
                         !.TeamAliasMap = [one |-> "t1"], !.Domain = "example.com"]
Admin == [NoClaims EXCEPT !.groups = <<"staff", "admins">>, !.team = "one"]
Staff == [NoClaims EXCEPT !.groups = <<"staff">>]
Logins == [Base EXCEPT !.Ops = {"OIDCLogin", "Logout"}, !.OIDC = Groups, !.Claims = {Admin},
                     !.MaxLogins = 2, !.MaxTime = 2]
Acting == [Base EXCEPT !.Ops = {"OIDCLogin", "Request"}, !.OIDC = Groups, !.Claims = {Admin, Staff},
                     !.MaxLogins = 1, !.MaxTime = 3, !.StateTTL = 0]
Rekeyed == [Acting EXCEPT !.Claims = {Admin}, !.MaxTime = 2, !.MaxKeys = 2]
Provisioned == [Base EXCEPT !.Ops = {"OIDCLogin", "Bearer"}, !.OIDC = Groups, !.Claims = {Admin, Staff},
                     !.Sync = TRUE, !.SyncUserRole = TRUE, !.MaxLogins = 1, !.Start = OneUser]
\* The audit log
Listed == [Base EXCEPT !.Ops = {"auditBudgetExceeded", "DeleteAuditLogs", "ListAuditLogs"},
                     !.MaxLogs = 3, !.Objects = {"team"}, !.Starts = {2}, !.MaxTime = 3]
Counted == [Base EXCEPT !.Ops = {"auditBudgetExceeded", "auditControlAction", "DeleteAuditLogs",
                                 "GetAuditLogStats"},
                     !.MaxLogs = 2, !.Objects = {"api_key", "team"},
                     !.Actions = {"budget_exceeded", "config_update"}, !.MaxTime = 2]

ListedPg == [OnPostgres(Listed) EXCEPT !.MaxLogs = 2]
CountedPg == [OnPostgres(Counted) EXCEPT !.Ops = @ \ {"auditControlAction"}, !.Actions = {"budget_exceeded"},
                     !.Objects = {"team"}, !.MaxTime = 3]

AllSettings == {TeamRequests, OnPostgres(TeamRequests), UserRequests, OnPostgres(UserRequests),
               Scheduled, OnPostgres(Scheduled), Instances, Organizations, OnPostgres(Organizations),
               Members, OnPostgres(Members), Invitations, OnPostgres(Invitations),
               Synchronised, OnPostgres(Synchronised), Moving, [OnPostgres(Moving) EXCEPT !.MaxFaults = 0],
               [Moving EXCEPT !.RemoveFromUnlistedTeams = FALSE, !.AutoCreate = FALSE], KeysOnly,
               Logins, Acting, Rekeyed, Provisioned, [OnPostgres(Provisioned) EXCEPT !.MaxFaults = 0], Listed, ListedPg,
               Counted, CountedPg}

\* Where a deployment starts is not part of its settings
MCSettings == {[start |-> s.Start, set |-> [f \in DOMAIN s \ {"Start"} |-> s[f]]] : s \in AllSettings}
==============================================================================
