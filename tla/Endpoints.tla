------------------------------ MODULE Endpoints ------------------------------
(***************************************************************************)
(* The management handlers of teams, users and organizations               *)
(* (internal/api/team_endpoints.go, user_endpoints.go,                     *)
(* organization_endpoints.go), of which the list and info handlers only    *)
(* read, and how users come into teams and organizations other than by     *)
(* them: invitation links (internal/auth/invitation.go and                 *)
(* internal/api/invitation_endpoints.go) and the synchronisation with the  *)
(* claims of a single sign-on token (internal/auth/user_team_sync.go),     *)
(* which runs at every login and with every request that carries a token.  *)
(***************************************************************************)
EXTENDS Store

VARIABLE links      \* the links created so far: an identifier is never used twice

Missing(row) == row \in {None, Error}

(* What a request that edits row e by Edit asks the row to become. *)
Asked(e, Edit(_)) == IF ideal[e[1]][e[2]] = None THEN None ELSE Edit(ideal[e[1]][e[2]])

(* A request names a budget duration, or (None) leaves it alone. *)
WithDuration(row, d) ==
    IF d = None THEN row
    ELSE [row EXCEPT !.budget_duration = d, !.budget_reset_at = NextResetTime(d, now)]
WithBlocked(row, b) == IF b = None THEN row ELSE [row EXCEPT !.blocked = b]
WithRole(row, role) == IF role = None THEN row ELSE [row EXCEPT !.user_role = role]

Holding(op, pc, e, copy, arg) ==
    [op |-> op, pc |-> pc, e |-> e, copy |-> copy, over |-> FALSE, arg |-> arg]

----------------------------------------------------------------------------
(* Teams. *)

(* POST /team/new: the team, then a membership for each member; a membership that cannot be
   created is logged and skipped. *)
NewTeam(c) ==
    /\ Free(c, "NewTeam")
    /\ \E t \in set.Teams, d \in {None} \cup set.Durations, members \in SUBSET Users :
          LET team == WithDuration([ZeroTeam EXCEPT !.is_active = TRUE, !.models = TRUE], d)
          IN Write(c, CreateTeam(t, team), <<"teams", t>>, team,
                   IF members = {} THEN Idle
                   ELSE Holding("NewTeam", "members", None, None, [team |-> t, todo |-> members]), Idle)

NewTeamMember(c) ==
    /\ At(c, "NewTeam", "members")
    /\ \E u \in call[c].arg.todo :
          LET rest == call[c].arg.todo \ {u}
              next == IF rest = {} THEN Idle ELSE [call[c] EXCEPT !.arg.todo = rest]
          IN Exec(c, CreateTeamMembership(u, call[c].arg.team, ZeroTeamMembership), next, next)

(* POST /team/update: read the team, edit the copy, write it back. *)
UpdateTeamRead(c) ==
    /\ Free(c, "UpdateTeam")
    /\ \E t \in set.Teams, d \in {None} \cup set.Durations, b \in {None} \cup set.Blocks :
          Query(c, GetTeam(t), LAMBDA row :
              IF Missing(row) THEN Idle
              ELSE Holding("UpdateTeam", "write", <<"teams", t>>, WithBlocked(WithDuration(row, d), b),
                           [duration |-> d, blocked |-> b]))

UpdateTeamWrite(c) ==
    /\ At(c, "UpdateTeam", "write")
    /\ LET e == call[c].e
           req == call[c].arg
           reset == call[c].copy.budget_reset_at
           Edit(row) == WithBlocked(IF req.duration = None THEN row
                                    ELSE [row EXCEPT !.budget_duration = req.duration,
                                                     !.budget_reset_at = reset], req.blocked)
       IN Write(c, UpdateTeam(e[2], call[c].copy), e, Asked(e, Edit), Idle, Idle)

(* POST /team/delete, one team of its loop *)
DeleteTeamRequest(c) ==
    /\ Free(c, "DeleteTeam")
    /\ \E t \in set.Teams : Write(c, DeleteTeam(t), <<"teams", t>>,
                              Asked(<<"teams", t>>, LAMBDA row : [row EXCEPT !.is_active = FALSE]), Idle, Idle)

(* POST /team/block and /team/unblock *)
BlockTeamRequest(c) ==
    /\ Free(c, "BlockTeam")
    /\ \E t \in set.Teams, b \in BOOLEAN :
          Write(c, BlockTeam(t, b), <<"teams", t>>,
                Asked(<<"teams", t>>, LAMBDA row : [row EXCEPT !.blocked = b]), Idle, Idle)

(* POST /team/member_add and /team/member_delete, one member of the loop: neither looks whether
   the team, the user or the membership exists. *)
AddTeamMember(c) ==
    /\ Free(c, "AddTeamMember")
    /\ \E t \in set.Teams, u \in Users : Exec(c, CreateTeamMembership(u, t, ZeroTeamMembership), Idle, Idle)

DeleteTeamMember(c) ==
    /\ Free(c, "DeleteTeamMember")
    /\ \E t \in set.Teams, u \in Users : Exec(c, DeleteTeamMembership(u, t), Idle, Idle)

----------------------------------------------------------------------------
(* Users. *)

NewUser(c) ==
    /\ Free(c, "NewUser")
    /\ \E u \in Users, d \in {None} \cup set.Durations :
          LET user == WithDuration([ZeroUser EXCEPT !.is_active = TRUE, !.models = TRUE,
                                                    !.user_role = "internal_user"], d)
          IN Write(c, CreateUser(u, user), <<"users", u>>, user, Idle, Idle)

UpdateUserRead(c) ==
    /\ Free(c, "UpdateUser")
    /\ \E u \in Users, d \in {None} \cup set.Durations, role \in {None, "admin"} :
          Query(c, GetUser(u), LAMBDA row :
              IF Missing(row) THEN Idle
              ELSE Holding("UpdateUser", "write", <<"users", u>>, WithRole(WithDuration(row, d), role),
                           [duration |-> d, role |-> role]))

UpdateUserWrite(c) ==
    /\ At(c, "UpdateUser", "write")
    /\ LET e == call[c].e
           req == call[c].arg
           reset == call[c].copy.budget_reset_at
           Edit(row) == WithRole(IF req.duration = None THEN row
                                 ELSE [row EXCEPT !.budget_duration = req.duration,
                                                  !.budget_reset_at = reset], req.role)
       IN Write(c, UpdateUser(e[2], call[c].copy), e, Asked(e, Edit), Idle, Idle)

DeleteUserRequest(c) ==
    /\ Free(c, "DeleteUser")
    /\ \E u \in Users : Write(c, DeleteUser(u), <<"users", u>>,
                              Asked(<<"users", u>>, LAMBDA row : [row EXCEPT !.is_active = FALSE]), Idle, Idle)

----------------------------------------------------------------------------
(* Organizations.  A budget gets a fresh identifier. *)

NewOrganization(c) ==
    /\ Free(c, "NewOrganization")
    /\ \E o \in Orgs :
          \/ Write(c, CreateOrganization(o, ZeroOrganization), <<"organizations", o>>, ZeroOrganization, Idle, Idle)
          \/ \E b \in Budgets :
                /\ db.budgets[b] = None
                /\ Exec(c, CreateBudget(b, [ZeroBudget EXCEPT !.max_budget = 1]),
                        Holding("NewOrganization", "create", None, None, [org |-> o, budget |-> b]), Idle)

NewOrganizationCreate(c) ==
    /\ At(c, "NewOrganization", "create")
    /\ LET o == call[c].arg.org
           org == [ZeroOrganization EXCEPT !.budget_id = call[c].arg.budget]
       IN Write(c, CreateOrganization(o, org), <<"organizations", o>>, org, Idle, Idle)

(* PATCH /organization/update: the budget, when there is one, is read and written on the way. *)
UpdateOrganizationRead(c) ==
    /\ Free(c, "UpdateOrganization")
    /\ \E o \in Orgs : Query(c, GetOrganization(o), LAMBDA row :
          IF Missing(row) THEN Idle
          ELSE Holding("UpdateOrganization", IF row.budget_id = None THEN "write" ELSE "budget",
                       <<"organizations", o>>, row, None))

UpdateOrganizationBudget(c) ==
    /\ At(c, "UpdateOrganization", "budget")
    /\ Query(c, GetBudget(call[c].copy.budget_id), LAMBDA row :
          IF Missing(row) THEN Step(c, "write")
          ELSE [Step(c, "save") EXCEPT !.arg = [row EXCEPT !.max_budget = 2]])

UpdateOrganizationSave(c) ==
    /\ At(c, "UpdateOrganization", "save")
    /\ LET next == [Step(c, "write") EXCEPT !.arg = None]
       IN Exec(c, UpdateBudget(call[c].copy.budget_id, call[c].arg), next, next)

UpdateOrganizationWrite(c) ==
    /\ At(c, "UpdateOrganization", "write")
    /\ Write(c, UpdateOrganization(call[c].e[2], call[c].copy), call[c].e,
             Asked(call[c].e, LAMBDA row : row), Idle, Idle)

(* DELETE /organization/delete, one organization of its loop.  What PostgreSQL cascades is part
   of what was asked. *)
DeleteOrganizationRequest(c) ==
    /\ Free(c, "DeleteOrganization")
    /\ \E o \in Orgs :
          LET r == DeleteOrganization(o) IN
          \/ /\ db' = r.db /\ UNCHANGED faults
             /\ ideal' = [ideal EXCEPT !.organizations[o] = None,
                             !.organization_memberships = r.db.organization_memberships]
             /\ call' = [k \in DOMAIN call |->
                   IF \/ call[k].e = <<"organizations", o>>
                      \/ ~ Memory /\ \E u \in Users : call[k].e = <<"organization_memberships", <<u, o>>>>
                   THEN [call[k] EXCEPT !.over = TRUE] ELSE call[k]]
          \/ MayFail /\ faults' = faults + 1 /\ UNCHANGED <<db, ideal, call>>

(* POST /organization/member_add, one member of its loop: the organization and the membership
   are looked up, a budget of the member's own may be created, then the membership. *)
AddOrganizationMember(c) ==
    /\ Free(c, "AddOrganizationMember")
    /\ \E o \in Orgs, u \in Users : Query(c, GetOrganization(o), LAMBDA row :
          IF Missing(row) THEN Idle
          ELSE Holding("AddOrganizationMember", "lookup", <<"organization_memberships", <<u, o>>>>, None, None))

AddOrganizationMemberLookup(c) ==
    /\ At(c, "AddOrganizationMember", "lookup")
    /\ \E pc \in {"create", "budget"} :
          Query(c, GetOrganizationMembership(call[c].e[2][1], call[c].e[2][2]), LAMBDA row :
              IF Missing(row) THEN Step(c, pc) ELSE Idle)

AddOrganizationMemberBudget(c) ==
    /\ At(c, "AddOrganizationMember", "budget")
    /\ \E b \in Budgets :
          /\ db.budgets[b] = None
          /\ Exec(c, CreateBudget(b, [ZeroBudget EXCEPT !.max_budget = 1]),
                  [Step(c, "create") EXCEPT !.arg = b], Step(c, "create"))

AddOrganizationMemberCreate(c) ==
    /\ At(c, "AddOrganizationMember", "create")
    /\ LET e == call[c].e
           m == [ZeroOrganizationMembership EXCEPT !.user_role = "member", !.budget_id = call[c].arg]
       IN Write(c, CreateOrganizationMembership(e[2][1], e[2][2], m), e, m, Idle, Idle)

(* POST /organization/member_update *)
UpdateOrganizationMemberRead(c) ==
    /\ Free(c, "UpdateOrganizationMember")
    /\ \E o \in Orgs, u \in Users, role \in {None, "org_admin"}, max \in BOOLEAN :
          Query(c, GetOrganizationMembership(u, o), LAMBDA row :
              IF Missing(row) THEN Idle
              ELSE Holding("UpdateOrganizationMember", IF row.budget_id # None /\ max THEN "budget" ELSE "write",
                           <<"organization_memberships", <<u, o>>>>, WithRole(row, role),
                           [role |-> role, budget |-> None]))

UpdateOrganizationMemberBudget(c) ==
    /\ At(c, "UpdateOrganizationMember", "budget")
    /\ Query(c, GetBudget(call[c].copy.budget_id), LAMBDA row :
          IF Missing(row) THEN Step(c, "write")
          ELSE [Step(c, "save") EXCEPT !.arg.budget = [row EXCEPT !.max_budget = 2]])

UpdateOrganizationMemberSave(c) ==
    /\ At(c, "UpdateOrganizationMember", "save")
    /\ Exec(c, UpdateBudget(call[c].copy.budget_id, call[c].arg.budget), Step(c, "write"), Step(c, "write"))

UpdateOrganizationMemberWrite(c) ==
    /\ At(c, "UpdateOrganizationMember", "write")
    /\ LET e == call[c].e
       IN Write(c, UpdateOrganizationMembership(e[2][1], e[2][2], call[c].copy), e,
                Asked(e, LAMBDA row : WithRole(row, call[c].arg.role)), Idle, Idle)

DeleteOrganizationMember(c) ==
    /\ Free(c, "DeleteOrganizationMember")
    /\ \E o \in Orgs, u \in Users :
          Write(c, DeleteOrganizationMembership(u, o), <<"organization_memberships", <<u, o>>>>, None, Idle, Idle)

----------------------------------------------------------------------------
(* Invitation links. *)

(* POST /invitation/new, CreateInvitationLink: a fresh identifier and token. *)
CreateInvitation(c) ==
    /\ Free(c, "CreateInvitation")
    /\ \E l \in Links \ links, t \in set.Teams \cup {None}, o \in Orgs \cup {None}, expires \in {Nil, now} :
          /\ t # None \/ o # None
          /\ Exec(c, CreateInvitationLink(l, [ZeroLink EXCEPT !.team_id = t, !.organization_id = o,
                         !.role = "member", !.max_uses = set.MaxUses, !.expires_at = expires,
                         !.is_active = TRUE]), Idle, Idle)
          /\ links' = links \cup {l}

(* The program point after the team, or after the look at the link. *)
AfterTeam(link) == IF link.organization_id = None THEN "increment" ELSE "org"
AfterLink(link) == IF link.team_id = None THEN AfterTeam(link) ELSE "team"

(* POST /invitation/accept: look the link up by the token's hash, and see whether it is valid. *)
AcceptInvitation(c) ==
    /\ Free(c, "AcceptInvitation")
    /\ \E l \in Links, u \in Users :
          Query(c, GetInvitationLinkByToken(l), LAMBDA link :
              IF Missing(link) THEN Idle
              ELSE IF ~ IsValid(link, now) THEN Idle
              ELSE Holding("AcceptInvitation", AfterLink(link), None, link, [link |-> l, user |-> u]))
    /\ UNCHANGED links

(* The membership is looked up, an error taken for its absence, and created when absent. *)
AcceptTeamLookup(c) ==
    /\ At(c, "AcceptInvitation", "team")
    /\ Query(c, GetTeamMembership(call[c].arg.user, call[c].copy.team_id), LAMBDA m :
          Step(c, IF Missing(m) THEN "team!" ELSE AfterTeam(call[c].copy)))
    /\ UNCHANGED links

AcceptTeamJoin(c) ==
    /\ At(c, "AcceptInvitation", "team!")
    /\ Exec(c, CreateTeamMembership(call[c].arg.user, call[c].copy.team_id,
                   [ZeroTeamMembership EXCEPT !.user_role = call[c].copy.role]),
            Step(c, AfterTeam(call[c].copy)), Idle)
    /\ UNCHANGED links

AcceptOrganizationLookup(c) ==
    /\ At(c, "AcceptInvitation", "org")
    /\ Query(c, GetOrganizationMembership(call[c].arg.user, call[c].copy.organization_id), LAMBDA m :
          Step(c, IF Missing(m) THEN "org!" ELSE "increment"))
    /\ UNCHANGED links

AcceptOrganizationJoin(c) ==
    /\ At(c, "AcceptInvitation", "org!")
    /\ LET e == <<"organization_memberships", <<call[c].arg.user, call[c].copy.organization_id>>>>
           m == [ZeroOrganizationMembership EXCEPT !.user_role = call[c].copy.role]
       IN Write(c, CreateOrganizationMembership(e[2][1], e[2][2], m), e, m, Step(c, "increment"), Idle)
    /\ UNCHANGED links

(* The use is counted last; a failure to count it is only logged. *)
AcceptIncrement(c) ==
    /\ At(c, "AcceptInvitation", "increment")
    /\ Exec(c, IncrementInvitationLinkUses(call[c].arg.link), Idle, Idle)
    /\ UNCHANGED links

(* POST /invitation/deactivate: the whole copy is written back, its use count included. *)
DeactivateRead(c) ==
    /\ Free(c, "DeactivateInvitation")
    /\ \E l \in Links : Query(c, GetInvitationLink(l), LAMBDA link :
          IF Missing(link) THEN Idle
          ELSE Holding("DeactivateInvitation", "write", None, [link EXCEPT !.is_active = FALSE], l))
    /\ UNCHANGED links

DeactivateWrite(c) ==
    /\ At(c, "DeactivateInvitation", "write")
    /\ Exec(c, UpdateInvitationLink(call[c].arg, call[c].copy), Idle, Idle)
    /\ UNCHANGED links

(* POST /invitation/delete, one link of its loop *)
DeleteInvitation(c) ==
    /\ Free(c, "DeleteInvitation")
    /\ \E l \in Links : Exec(c, DeleteInvitationLink(l), Idle, Idle)
    /\ UNCHANGED links

----------------------------------------------------------------------------
(* Synchronisation with a token's claims.  arg holds the claims, the teams still to join (todo)
   and to leave (drop), the team at hand, and whether a warning was recorded. *)

AfterTeams(a) == IF a.org = None THEN "end" ELSE "org"
AfterRole(a) == IF a.teams = {} THEN AfterTeams(a) ELSE "list"
AfterUser(user, a) ==
    IF set.SyncUserRole /\ a.role # "" /\ user.user_role # a.role THEN "role" ELSE AfterRole(a)
NextTeam_NoJoin(a) == IF a.drop # {} THEN "leave" ELSE AfterTeams(a)
NextTeam(a) == IF a.todo # {} THEN "ensure" ELSE IF a.drop # {} THEN "leave" ELSE AfterTeams(a)

(* The call after it has dealt with one of its teams. *)
Onward(s, warned) ==
    LET a == [s.arg EXCEPT !.todo = @ \ {s.arg.team}, !.drop = @ \ {s.arg.team}, !.team = None,
                           !.warned = @ \/ warned]
    IN [s EXCEPT !.arg = a, !.pc = NextTeam(a)]

(* getDefaultRole *)
DefaultRole(role) == IF role # "" THEN role ELSE "internal_user"

(* SyncUserTeams, ensureUser: the user is looked up, and created when the configuration allows. *)
SyncBegin(c, u, teams, role, o) ==
    LET a == [user |-> u, teams |-> teams, role |-> role, org |-> o, todo |-> {}, drop |-> {},
              team |-> None, warned |-> FALSE]
    IN Query(c, GetUser(u), LAMBDA user :
          IF user = Error \/ (user = None /\ ~ set.AutoCreate) THEN Idle
          ELSE IF user = None THEN Holding("SyncUserTeams", "create", None, None, a)
          ELSE IF AfterUser(user, a) = "role"
          THEN Holding("SyncUserTeams", "role", <<"users", u>>, user, a)
          ELSE Holding("SyncUserTeams", AfterRole(a), None, None, a))

(* A request whose token makes any of these claims *)
SyncUserTeams(c) ==
    /\ Free(c, "SyncUserTeams")
    /\ \E u \in Users, teams \in SUBSET set.Teams, role \in set.Roles, o \in set.SyncOrgs :
          SyncBegin(c, u, teams, role, o)
    /\ UNCHANGED links

SyncCreateUser(c) ==
    /\ At(c, "SyncUserTeams", "create")
    /\ LET a == call[c].arg
           user == [ZeroUser EXCEPT !.user_role = DefaultRole(a.role), !.organization_id = a.org,
                                    !.is_active = TRUE]
       IN Write(c, CreateUser(a.user, user), <<"users", a.user>>, user,
                Holding("SyncUserTeams", AfterRole(a), None, None, a), Idle)
    /\ UNCHANGED links

(* syncUserRole: the copy that ensureUser read is written back with the new role. *)
SyncRole(c) ==
    /\ At(c, "SyncUserTeams", "role")
    /\ LET a == call[c].arg
           e == <<"users", a.user>>
           next == [Step(c, AfterRole(a)) EXCEPT !.e = None, !.copy = None, !.over = FALSE]
       IN Write(c, UpdateUser(a.user, [call[c].copy EXCEPT !.user_role = a.role]), e,
                Asked(e, LAMBDA row : [row EXCEPT !.user_role = a.role]), next, next)
    /\ UNCHANGED links

(* syncTeamMemberships: what to join and what to leave is decided from one listing. *)
SyncList(c) ==
    /\ At(c, "SyncUserTeams", "list")
    /\ Query(c, ListUserTeamMemberships(call[c].arg.user), LAMBDA current :
          IF current = Error THEN [Step(c, AfterTeams(call[c].arg)) EXCEPT !.arg.warned = TRUE]
          ELSE LET a == [call[c].arg EXCEPT !.todo = call[c].arg.teams \ current,
                             !.drop = IF set.RemoveFromUnlistedTeams THEN current \ call[c].arg.teams
                                      ELSE {}]
               IN [call[c] EXCEPT !.arg = a, !.pc = NextTeam(a)])
    /\ UNCHANGED links

(* ensureTeam *)
SyncEnsureTeam(c) ==
    /\ At(c, "SyncUserTeams", "ensure")
    /\ \E t \in call[c].arg.todo :
          LET s == [call[c] EXCEPT !.arg.team = t]
          IN Query(c, GetTeam(t), LAMBDA team :
                IF team = Error \/ (team = None /\ ~ set.AutoCreate) THEN Onward(s, TRUE)
                ELSE [s EXCEPT !.pc = IF team = None THEN "team" ELSE "join"])
    /\ UNCHANGED links

SyncCreateTeam(c) ==
    /\ At(c, "SyncUserTeams", "team")
    /\ LET t == call[c].arg.team
           team == [ZeroTeam EXCEPT !.is_active = TRUE]
       IN Write(c, CreateTeam(t, team), <<"teams", t>>, team, Step(c, "join"), Onward(call[c], TRUE))
    /\ UNCHANGED links

SyncJoin(c) ==
    /\ At(c, "SyncUserTeams", "join")
    /\ Exec(c, CreateTeamMembership(call[c].arg.user, call[c].arg.team,
                   [ZeroTeamMembership EXCEPT !.user_role = "member"]),
            Onward(call[c], FALSE), Onward(call[c], TRUE))
    /\ UNCHANGED links

SyncLeave(c) ==
    /\ At(c, "SyncUserTeams", "leave")
    /\ \E t \in call[c].arg.drop :
          LET s == [call[c] EXCEPT !.arg.team = t]
          IN Exec(c, DeleteTeamMembership(call[c].arg.user, t), Onward(s, FALSE), Onward(s, TRUE))
    /\ UNCHANGED links

(* syncOrganizationMembership *)
SyncOrganization(c) ==
    /\ At(c, "SyncUserTeams", "org")
    /\ Query(c, GetOrganizationMembership(call[c].arg.user, call[c].arg.org), LAMBDA m :
          Step(c, IF m = None THEN "org!" ELSE "end"))
    /\ UNCHANGED links

SyncJoinOrganization(c) ==
    /\ At(c, "SyncUserTeams", "org!")
    /\ LET e == <<"organization_memberships", <<call[c].arg.user, call[c].arg.org>>>>
           m == [ZeroOrganizationMembership EXCEPT !.user_role = "member"]
       IN Write(c, CreateOrganizationMembership(e[2][1], e[2][2], m), e, m, Step(c, "end"), Step(c, "end"))
    /\ UNCHANGED links

(* The handler goes on with the request; the result is dropped. *)
SyncReturn(c) ==
    /\ At(c, "SyncUserTeams", "end")
    /\ call' = [call EXCEPT ![c] = Idle]
    /\ UNCHANGED <<db, ideal, faults, links>>
==============================================================================
