---------------------------- MODULE PostgresStore ----------------------------
(***************************************************************************)
(* The PostgreSQL store (internal/auth/postgres.go, postgres_ext.go,       *)
(* postgres_ext2.go, postgres_invitation.go) over the schema of the        *)
(* migrations 002 to 004.  Every operation is one SQL statement, hence one *)
(* step.  A statement names columns: a SELECT fills only the fields it     *)
(* names and leaves the others at their zero value; an UPDATE writes only  *)
(* the columns it names, and nothing when there is no row; an INSERT of a  *)
(* key that exists, or of a reference to a missing row, fails; so does a   *)
(* statement that names a column its table does not have.                  *)
(***************************************************************************)
EXTENDS AuthTypes

(* The columns the migrations create, among those modelled. *)
TeamColumns == DOMAIN ZeroTeam
UserColumns == DOMAIN ZeroUser
KeyColumns == DOMAIN ZeroKey

Select(columns, schema, row, zero) ==
    IF ~ columns \subseteq schema THEN Error
    ELSE IF row = None THEN None
    ELSE [c \in DOMAIN zero |-> IF c \in columns THEN row[c] ELSE zero[c]]

(* The row an INSERT or an UPDATE of the given columns leaves. *)
Assign(columns, old, new) == [c \in DOMAIN old |-> IF c \in columns THEN new[c] ELSE old[c]]

(* REFERENCES table(id): NULL, or an existing row. *)
References(table, id) == id = None \/ table[id] # None

Due(row, now) == /\ row # None
                 /\ row.is_active
                 /\ row.budget_reset_at # Nil
                 /\ row.budget_reset_at <= now

(* CASE WHEN budget_duration = '1d' ... ELSE NULL END *)
NextReset(duration, now) == IF duration = "1d" THEN now + Day ELSE Nil

(* teams *)
GetTeam(d, t) ==
    Select({"organization_id", "spend", "models", "is_active", "blocked"},
           TeamColumns, d.teams[t], ZeroTeam)
CreateTeam(d, t, team) ==
    IF d.teams[t] # None \/ ~ References(d.organizations, team.organization_id) THEN Err(d)
    ELSE Done([d EXCEPT !.teams[t] =
             Assign({"organization_id", "spend", "models", "is_active", "blocked"}, ZeroTeam, team)])
UpdateTeam(d, t, team) ==
    IF d.teams[t] = None THEN Done(d)
    ELSE IF ~ References(d.organizations, team.organization_id) THEN Err(d)
    ELSE Done([d EXCEPT !.teams[t] =
             Assign({"organization_id", "spend", "budget_duration", "budget_reset_at", "models",
                     "is_active", "blocked"}, d.teams[t], team)])
UpdateTeamSpent(d, t, amount) ==
    IF ~ {"spent_budget"} \subseteq TeamColumns THEN Err(d)
    ELSE Done(IF d.teams[t] = None THEN d ELSE [d EXCEPT !.teams[t].spend = @ + amount])
ResetTeamBudget(d, t, now) ==
    Done(IF d.teams[t] = None THEN d
         ELSE [d EXCEPT !.teams[t].spend = 0,
                        !.teams[t].budget_reset_at = NextReset(d.teams[t].budget_duration, now)])
DeleteTeam(d, t) ==
    Done(IF d.teams[t] = None THEN d ELSE [d EXCEPT !.teams[t].is_active = FALSE])
BlockTeam(d, t, b) ==
    Done(IF d.teams[t] = None THEN d ELSE [d EXCEPT !.teams[t].blocked = b])
GetTeamsNeedingBudgetReset(d, now) == {t \in Teams : Due(d.teams[t], now)}

(* users *)
GetUser_NoSpend(d, u) ==
    Select({"organization_id", "user_role", "is_active"}, UserColumns, d.users[u], ZeroUser)
GetUser(d, u) ==
    Select({"organization_id", "user_role", "spend", "is_active"}, UserColumns, d.users[u], ZeroUser)
CreateUser(d, u, user) ==
    IF d.users[u] # None \/ ~ References(d.organizations, user.organization_id) THEN Err(d)
    ELSE Done([d EXCEPT !.users[u] =
             Assign({"organization_id", "user_role", "spend", "models", "is_active"}, ZeroUser, user)])
UpdateUser(d, u, user) ==
    IF d.users[u] = None THEN Done(d)
    ELSE IF ~ References(d.organizations, user.organization_id) THEN Err(d)
    ELSE Done([d EXCEPT !.users[u] =
             Assign({"organization_id", "user_role", "spend", "budget_duration", "budget_reset_at",
                     "models", "is_active"}, d.users[u], user)])
UpdateUserSpent(d, u, amount) ==
    Done(IF d.users[u] = None THEN d ELSE [d EXCEPT !.users[u].spend = @ + amount])
ResetUserBudget_SameTime(d, u, now) ==
    Done(IF d.users[u] = None THEN d ELSE [d EXCEPT !.users[u].spend = 0])
ResetUserBudget(d, u, now) ==
    Done(IF d.users[u] = None THEN d
         ELSE [d EXCEPT !.users[u].spend = 0,
                        !.users[u].budget_reset_at = NextReset(d.users[u].budget_duration, now)])
DeleteUser(d, u) ==
    Done(IF d.users[u] = None THEN d ELSE [d EXCEPT !.users[u].is_active = FALSE])
GetUsersNeedingBudgetReset(d, now) == {u \in Users : Due(d.users[u], now)}

(* API keys: most statements name the column "name"; the migrations create key_name *)
KeyRead == {"key_hash", "name", "spent_budget", "budget_duration", "budget_reset_at", "rotate",
            "is_active", "blocked"}
GetAPIKeyByID(d, k) == Select(KeyRead, KeyColumns, d.api_keys[k], ZeroKey)
CreateAPIKey(d, k, key) ==
    IF ~ KeyRead \subseteq KeyColumns \/ d.api_keys[k] # None THEN Err(d)
    ELSE Done([d EXCEPT !.api_keys[k] = Assign(KeyRead, ZeroKey, key)])
UpdateAPIKey(d, k, key) ==
    LET written == KeyRead \ {"key_hash", "spent_budget"} IN
    IF ~ written \subseteq KeyColumns THEN Err(d)
    ELSE Done(IF d.api_keys[k] = None THEN d
              ELSE [d EXCEPT !.api_keys[k] = Assign(written, d.api_keys[k], key)])
UpdateAPIKeySpent(d, k, amount) ==
    Done(IF d.api_keys[k] = None THEN d ELSE [d EXCEPT !.api_keys[k].spent_budget = @ + amount])
ResetAPIKeyBudget(d, k, now) ==
    Done(IF d.api_keys[k] = None THEN d
         ELSE [d EXCEPT !.api_keys[k].spent_budget = 0,
                        !.api_keys[k].budget_reset_at =
                            NextReset(d.api_keys[k].budget_duration, now)])
DeleteAPIKey(d, k) ==
    Done(IF d.api_keys[k] = None THEN d ELSE [d EXCEPT !.api_keys[k].is_active = FALSE])
BlockAPIKey(d, k, b) ==
    Done(IF d.api_keys[k] = None THEN d ELSE [d EXCEPT !.api_keys[k].blocked = b])
(* Never selects the metadata, where the rotation settings are. *)
ListAPIKeys(d) ==
    IF ~ {"name", "spent_budget", "is_active", "blocked"} \subseteq KeyColumns THEN Error
    ELSE {k \in Keys : d.api_keys[k] # None /\ d.api_keys[k].is_active}
GetKeysNeedingBudgetReset(d, now) ==
    IF ~ {"name", "spent_budget", "budget_duration", "budget_reset_at"} \subseteq KeyColumns THEN Error
    ELSE {k \in Keys : Due(d.api_keys[k], now)}

(* organizations *)
GetOrganization(d, o) == d.organizations[o]
CreateOrganization(d, o, org) ==
    IF d.organizations[o] # None THEN Err(d) ELSE Done([d EXCEPT !.organizations[o] = org])
UpdateOrganization(d, o, org) ==
    Done(IF d.organizations[o] = None THEN d ELSE [d EXCEPT !.organizations[o] = org])
UpdateOrganizationSpent(d, o, amount) ==
    Done(IF d.organizations[o] = None THEN d ELSE [d EXCEPT !.organizations[o].spend = @ + amount])
(* The rows that refer to it are set to NULL, its memberships deleted. *)
DeleteOrganization(d, o) ==
    LET Cleared(table) == [i \in DOMAIN table |->
            IF table[i] # None /\ table[i].organization_id = o
            THEN [table[i] EXCEPT !.organization_id = None] ELSE table[i]]
    IN Done([d EXCEPT !.organizations[o] = None,
                      !.teams = Cleared(@), !.users = Cleared(@), !.invitation_links = Cleared(@),
                      !.organization_memberships =
                          [m \in DOMAIN @ |-> IF m[2] = o THEN None ELSE @[m]]])

(* budgets *)
GetBudget(d, b) == d.budgets[b]
CreateBudget(d, b, budget) ==
    IF d.budgets[b] # None THEN Err(d) ELSE Done([d EXCEPT !.budgets[b] = budget])
UpdateBudget(d, b, budget) ==
    Done(IF d.budgets[b] = None THEN d ELSE [d EXCEPT !.budgets[b] = budget])

(* memberships: UNIQUE(user_id, team_id), and both must exist *)
GetTeamMembership(d, u, t) == d.team_memberships[u, t]
CreateTeamMembership(d, u, t, m) ==
    IF d.team_memberships[u, t] # None \/ d.users[u] = None \/ d.teams[t] = None THEN Err(d)
    ELSE Done([d EXCEPT !.team_memberships[u, t] = m])
UpdateTeamMembershipSpent(d, u, t, amount) ==
    Done(IF d.team_memberships[u, t] = None THEN d
         ELSE [d EXCEPT !.team_memberships[u, t].spend = @ + amount])
DeleteTeamMembership(d, u, t) == Done([d EXCEPT !.team_memberships[u, t] = None])
ListUserTeamMemberships(d, u) == {t \in Teams : d.team_memberships[u, t] # None}

GetOrganizationMembership(d, u, o) == d.organization_memberships[u, o]
CreateOrganizationMembership(d, u, o, m) ==
    IF d.organization_memberships[u, o] # None \/ d.users[u] = None \/ d.organizations[o] = None
    THEN Err(d)
    ELSE Done([d EXCEPT !.organization_memberships[u, o] = m])
UpdateOrganizationMembership(d, u, o, m) ==
    Done(IF d.organization_memberships[u, o] = None THEN d
         ELSE [d EXCEPT !.organization_memberships[u, o] = m])
UpdateOrganizationMembershipSpent(d, u, o, amount) ==
    Done(IF d.organization_memberships[u, o] = None THEN d
         ELSE [d EXCEPT !.organization_memberships[u, o].spend = @ + amount])
DeleteOrganizationMembership(d, u, o) == Done([d EXCEPT !.organization_memberships[u, o] = None])

(* invitation links *)
CreateInvitationLink(d, l, link) ==
    IF \/ d.invitation_links[l] # None
       \/ ~ References(d.teams, link.team_id)
       \/ ~ References(d.organizations, link.organization_id)
    THEN Err(d) ELSE Done([d EXCEPT !.invitation_links[l] = link])
GetInvitationLink(d, l) == d.invitation_links[l]
GetInvitationLinkByToken(d, l) == d.invitation_links[l]
UpdateInvitationLink(d, l, link) ==
    IF d.invitation_links[l] = None THEN Done(d)
    ELSE IF ~ References(d.organizations, link.organization_id) THEN Err(d)
    ELSE Done([d EXCEPT !.invitation_links[l] = link])
DeleteInvitationLink(d, l) == Done([d EXCEPT !.invitation_links[l] = None])
IncrementInvitationLinkUses(d, l) ==
    Done(IF d.invitation_links[l] = None THEN d
         ELSE [d EXCEPT !.invitation_links[l].current_uses = @ + 1])
==============================================================================
