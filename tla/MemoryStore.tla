----------------------------- MODULE MemoryStore -----------------------------
(***************************************************************************)
(* The in-memory store (internal/auth/memory.go, and the link store of     *)
(* invitation.go).  Every operation holds the store's mutex, so it is one  *)
(* step, and never fails.  Reads return a clone of the row.  Create and    *)
(* Update assign the whole row, whether or not there was one.              *)
(***************************************************************************)
EXTENDS AuthTypes

Due(row, now) == /\ row # None
                 /\ row.is_active
                 /\ row.budget_reset_at # Nil
                 /\ now > row.budget_reset_at

(* teams *)
GetTeam(d, t) == d.teams[t]
CreateTeam(d, t, team) == Done([d EXCEPT !.teams[t] = team])
UpdateTeam(d, t, team) == Done([d EXCEPT !.teams[t] = team])
UpdateTeamSpent(d, t, amount) ==
    Done(IF d.teams[t] = None THEN d ELSE [d EXCEPT !.teams[t].spend = @ + amount])
ResetTeamBudget(d, t, now) ==
    Done(IF d.teams[t] = None THEN d
         ELSE [d EXCEPT !.teams[t].spend = 0,
                        !.teams[t].budget_reset_at =
                            NextResetTime(d.teams[t].budget_duration, now)])
DeleteTeam(d, t) ==
    Done(IF d.teams[t] = None THEN d ELSE [d EXCEPT !.teams[t].is_active = FALSE])
BlockTeam(d, t, b) ==
    Done(IF d.teams[t] = None THEN d ELSE [d EXCEPT !.teams[t].blocked = b])
GetTeamsNeedingBudgetReset(d, now) == {t \in Teams : Due(d.teams[t], now)}

(* users *)
GetUser(d, u) == d.users[u]
CreateUser(d, u, user) == Done([d EXCEPT !.users[u] = user])
UpdateUser(d, u, user) == Done([d EXCEPT !.users[u] = user])
UpdateUserSpent(d, u, amount) ==
    Done(IF d.users[u] = None THEN d ELSE [d EXCEPT !.users[u].spend = @ + amount])
ResetUserBudget(d, u, now) ==
    Done(IF d.users[u] = None THEN d
         ELSE [d EXCEPT !.users[u].spend = 0,
                        !.users[u].budget_reset_at =
                            NextResetTime(d.users[u].budget_duration, now)])
DeleteUser(d, u) ==
    Done(IF d.users[u] = None THEN d ELSE [d EXCEPT !.users[u].is_active = FALSE])
GetUsersNeedingBudgetReset(d, now) == {u \in Users : Due(d.users[u], now)}

(* organizations: deleted for good, and nothing that refers to them with them *)
GetOrganization(d, o) == d.organizations[o]
CreateOrganization(d, o, org) == Done([d EXCEPT !.organizations[o] = org])
UpdateOrganization(d, o, org) == Done([d EXCEPT !.organizations[o] = org])
UpdateOrganizationSpent(d, o, amount) ==
    Done(IF d.organizations[o] = None THEN d ELSE [d EXCEPT !.organizations[o].spend = @ + amount])
DeleteOrganization(d, o) == Done([d EXCEPT !.organizations[o] = None])

(* budgets *)
GetBudget(d, b) == d.budgets[b]
CreateBudget(d, b, budget) == Done([d EXCEPT !.budgets[b] = budget])
UpdateBudget(d, b, budget) == Done([d EXCEPT !.budgets[b] = budget])

(* memberships *)
GetTeamMembership(d, u, t) == d.team_memberships[u, t]
CreateTeamMembership(d, u, t, m) == Done([d EXCEPT !.team_memberships[u, t] = m])
UpdateTeamMembershipSpent(d, u, t, amount) ==
    Done(IF d.team_memberships[u, t] = None THEN d
         ELSE [d EXCEPT !.team_memberships[u, t].spend = @ + amount])
DeleteTeamMembership(d, u, t) == Done([d EXCEPT !.team_memberships[u, t] = None])
ListUserTeamMemberships(d, u) == {t \in Teams : d.team_memberships[u, t] # None}

GetOrganizationMembership(d, u, o) == d.organization_memberships[u, o]
CreateOrganizationMembership(d, u, o, m) == Done([d EXCEPT !.organization_memberships[u, o] = m])
UpdateOrganizationMembership(d, u, o, m) == Done([d EXCEPT !.organization_memberships[u, o] = m])
UpdateOrganizationMembershipSpent(d, u, o, amount) ==
    Done(IF d.organization_memberships[u, o] = None THEN d
         ELSE [d EXCEPT !.organization_memberships[u, o].spend = @ + amount])
DeleteOrganizationMembership(d, u, o) == Done([d EXCEPT !.organization_memberships[u, o] = None])

(* invitation links *)
CreateInvitationLink(d, l, link) == Done([d EXCEPT !.invitation_links[l] = link])
GetInvitationLink(d, l) == d.invitation_links[l]
GetInvitationLinkByToken(d, l) == d.invitation_links[l]    \* the token of link l
UpdateInvitationLink(d, l, link) ==
    Done(IF d.invitation_links[l] = None THEN d ELSE [d EXCEPT !.invitation_links[l] = link])
DeleteInvitationLink(d, l) == Done([d EXCEPT !.invitation_links[l] = None])
IncrementInvitationLinkUses(d, l) ==
    Done(IF d.invitation_links[l] = None THEN d
         ELSE [d EXCEPT !.invitation_links[l].current_uses = @ + 1])
==============================================================================
