------------------------------ MODULE Directory ------------------------------
(***************************************************************************)
(* The directory as a whole: the handlers and the synchronisation of       *)
(* Endpoints, the logins of Sessions, the log of Audit, the                *)
(* charges that the governance engine makes after each request             *)
(* (internal/governance/engine.go), and the job runner of every server     *)
(* instance, which resets due budgets once an hour                         *)
(* (internal/auth/jobs.go).  Instances share a PostgreSQL store; the       *)
(* memory store belongs to one instance.                                   *)
(***************************************************************************)
EXTENDS Sessions, Audit

VARIABLES
    jobs,       \* per instance, its job runner: [pc, todo, ran]
    joined,     \* history: per link, acceptances that succeeded
    synced,     \* history: per user, the teams its last undisturbed synchronisation left, or None
    disturbed,  \* history: the callers whose synchronisation another request interfered with
    resets      \* history: per team and per user, resets since it became due or was rescheduled

history == <<joined, synced, disturbed, resets>>
console == <<sessionVars, auditVars>>
vars == <<set, db, now, call, faults, ideal, links, jobs, history, console>>

Rows == (({"teams"} \X Teams) \cup ({"users"} \X Users))
Row(e) == db[e[1]][e[2]]

DueAt(e, t) == IF Memory THEN Mem!Due(Row(e), t) ELSE Pg!Due(Row(e), t)
Due(e) == DueAt(e, now)

DirectoryInit ==
    /\ \E s \in Settings : set = s.set /\ db = s.start
    /\ now = 1
    /\ call = [c \in set.Callers |-> Idle]
    /\ faults = 0
    /\ ideal = db
    /\ links = {}
    /\ jobs = [r \in set.Runners |-> [pc |-> "idle", todo |-> {}, ran |-> 0]]
    /\ joined = [l \in Links |-> 0]
    /\ synced = [u \in Users |-> None]
    /\ disturbed = {}
    /\ resets = [e \in Rows |-> 0]
    /\ SessionInit /\ AuditInit

----------------------------------------------------------------------------
(* Engine.Account: a charge is one statement, whose failure is only logged. *)
Charge(e, r) ==
    /\ e[1] \in set.Charged
    /\ Row(e) # None /\ Row(e).spend < set.MaxSpend
    /\ db' = r.db
    /\ ideal' = IF r.ok /\ ideal[e[1]][e[2]] # None
                THEN [ideal EXCEPT ![e[1]][e[2]].spend = @ + 1] ELSE ideal
    /\ call' = Overtaken(call, e)
    /\ UNCHANGED <<set, now, faults, links, jobs, history, console>>

ChargeTeam == \E t \in Teams : Charge(<<"teams", t>>, UpdateTeamSpent(t))
ChargeUser == \E u \in Users : Charge(<<"users", u>>, UpdateUserSpent(u))
ChargeTeamMembership ==
    \E u \in Users, t \in Teams :
        Charge(<<"team_memberships", <<u, t>>>>, UpdateTeamMembershipSpent(u, t))
ChargeOrganization ==
    \E o \in Orgs : \/ Charge(<<"organizations", o>>, UpdateOrganizationSpent(o))
                    \/ \E u \in Users : Charge(<<"organization_memberships", <<u, o>>>>,
                                               UpdateOrganizationMembershipSpent(u, o))

----------------------------------------------------------------------------
(* API keys over PostgreSQL; KeyStore models them over the memory store.  GenerateKey, UpdateKey,
   BlockKey and DeleteKey of management.go, and the charge; UpdateKey ends with its read when
   that fails. *)
KeyRequest(c) ==
    \/ Free(c, "GenerateKey") /\ \E k \in Keys : Exec(c, Pg!CreateAPIKey(db, k, ZeroKey), Idle, Idle)
    \/ /\ Free(c, "UpdateKey")
       /\ \E k \in Keys : LET row == Pg!GetAPIKeyByID(db, k)
                         IN Exec(c, IF Missing(row) THEN Err(db) ELSE Pg!UpdateAPIKey(db, k, row), Idle, Idle)
    \/ /\ Free(c, "BlockKey")
       /\ \E k \in Keys, b \in BOOLEAN : Exec(c, Pg!BlockAPIKey(db, k, b), Idle, Idle)
    \/ /\ Free(c, "ChargeKey")
       /\ \E k \in Keys : /\ db.api_keys[k] # None /\ db.api_keys[k].spent_budget < set.MaxSpend
                         /\ Exec(c, Pg!UpdateAPIKeySpent(db, k, 1), Idle, Idle)
    \/ Free(c, "DeleteKey") /\ \E k \in Keys : Exec(c, Pg!DeleteAPIKey(db, k), Idle, Idle)

----------------------------------------------------------------------------
(* The job runner. *)

JobStep(r, pc, todo) == jobs' = [jobs EXCEPT ![r].pc = pc, ![r].todo = todo]

(* resetKeyBudgets, which opens an hourly run.  Keys in memory are the subject of KeyStore; over
   PostgreSQL the query for them fails. *)
RunJobs(r) ==
    /\ jobs[r].pc = "idle" /\ jobs[r].ran < now
    /\ LET keys == IF Memory THEN {} ELSE Pg!GetKeysNeedingBudgetReset(db, now)
           next == IF keys \in {{}, Error} THEN "teams?" ELSE "keys"
       IN jobs' = [jobs EXCEPT ![r] = [pc |-> next, todo |-> IF next = "keys" THEN keys ELSE {}, ran |-> now]]
    /\ UNCHANGED <<set, db, now, call, faults, ideal, links, history, console>>

(* The queries of resetTeamBudgets and resetUserBudgets; one that fails ends its part. *)
NextPart == [keys |-> "teams?", teams |-> "users?", users |-> "rotate"]

FindDue(r) ==
    /\ jobs[r].pc \in {"teams?", "users?"}
    /\ LET part == IF jobs[r].pc = "teams?" THEN "teams" ELSE "users"
           due == IF part = "teams"
                  THEN IF Memory THEN Mem!GetTeamsNeedingBudgetReset(db, now)
                       ELSE Pg!GetTeamsNeedingBudgetReset(db, now)
                  ELSE IF Memory THEN Mem!GetUsersNeedingBudgetReset(db, now)
                       ELSE Pg!GetUsersNeedingBudgetReset(db, now)
       IN \/ /\ JobStep(r, IF due = {} THEN NextPart[part] ELSE part, due)
             /\ UNCHANGED faults
          \/ /\ MayFail /\ faults' = faults + 1
             /\ JobStep(r, NextPart[part], {})
    /\ UNCHANGED <<set, db, now, call, ideal, links, history, console>>

(* One budget of the list: reset whether or not it is still due; a failure skips it. *)
ResetBudget(r) ==
    /\ jobs[r].pc \in {"keys", "teams", "users"}
    /\ \E x \in jobs[r].todo :
          LET part == jobs[r].pc
              e == <<part, x>>
              rest == jobs[r].todo \ {x}
              done == CASE part = "teams" -> ResetTeamBudget(x)
                        [] part = "users" -> ResetUserBudget(x)
                        [] OTHER -> Pg!ResetAPIKeyBudget(db, x, now)
          IN /\ JobStep(r, IF rest = {} THEN NextPart[part] ELSE part, rest)
             /\ \/ /\ db' = done.db /\ UNCHANGED faults
                   /\ call' = Overtaken(call, e)
                   /\ ideal' = [ideal EXCEPT ![part][x] = IF @ = None THEN None
                                    ELSE [@ EXCEPT !.spend = 0,
                                                   !.budget_reset_at = done.db[part][x].budget_reset_at]]
                   /\ resets' = [resets EXCEPT ![e] = @ + 1]
                \/ /\ MayFail /\ faults' = faults + 1
                   /\ UNCHANGED <<db, call, ideal, resets>>
    /\ UNCHANGED <<set, now, links, joined, synced, disturbed, console>>

(* rotateKeys, which ends the run.  Rotation in memory is the subject of KeyStore; over PostgreSQL
   the listing fails, and does not select the column the rotation settings are in. *)
RotateKeys(r) ==
    /\ jobs[r].pc = "rotate"
    /\ LET keys == IF Memory THEN {} ELSE Pg!ListAPIKeys(db)
           found == IF keys = Error THEN {} ELSE {k \in keys : ZeroKey.rotate}
       IN found = {} /\ JobStep(r, "idle", {})
    /\ UNCHANGED <<set, db, now, call, faults, ideal, links, history, console>>

(* An instance dies; one is left. *)
Crash(r) ==
    /\ set.Crashes /\ jobs[r].pc # "dead"
    /\ \E q \in set.Runners \ {r} : jobs[q].pc # "dead"
    /\ JobStep(r, "dead", {})
    /\ UNCHANGED <<set, db, now, call, faults, ideal, links, history, console>>

Tick ==
    /\ now < set.MaxTime
    /\ now' = now + 1
    /\ resets' = [e \in Rows |-> IF DueAt(e, now + 1) /\ ~ Due(e) THEN 0 ELSE resets[e]]
    /\ held' = [held EXCEPT ![ExtractRole(claims)] = now + 1]
    /\ UNCHANGED <<set, db, call, faults, ideal, links, jobs, joined, synced, disturbed, auditVars,
                   jar, tab, logins, claims, codes, key>>

----------------------------------------------------------------------------
Endpoint(c) ==
    /\ \/ NewTeam(c) \/ NewTeamMember(c) \/ UpdateTeamRead(c) \/ UpdateTeamWrite(c)
       \/ DeleteTeamRequest(c) \/ BlockTeamRequest(c) \/ AddTeamMember(c) \/ DeleteTeamMember(c)
       \/ NewUser(c) \/ UpdateUserRead(c) \/ UpdateUserWrite(c) \/ DeleteUserRequest(c)
       \/ NewOrganization(c) \/ NewOrganizationCreate(c)
       \/ UpdateOrganizationRead(c) \/ UpdateOrganizationBudget(c) \/ UpdateOrganizationSave(c)
       \/ UpdateOrganizationWrite(c) \/ DeleteOrganizationRequest(c)
       \/ AddOrganizationMember(c) \/ AddOrganizationMemberLookup(c)
       \/ AddOrganizationMemberBudget(c) \/ AddOrganizationMemberCreate(c)
       \/ UpdateOrganizationMemberRead(c) \/ UpdateOrganizationMemberBudget(c)
       \/ UpdateOrganizationMemberSave(c) \/ UpdateOrganizationMemberWrite(c)
       \/ DeleteOrganizationMember(c) \/ KeyRequest(c)
    /\ UNCHANGED links

Invitation(c) ==
    \/ CreateInvitation(c) \/ AcceptInvitation(c) \/ AcceptTeamLookup(c) \/ AcceptTeamJoin(c)
    \/ AcceptOrganizationLookup(c) \/ AcceptOrganizationJoin(c) \/ AcceptIncrement(c)
    \/ DeactivateRead(c) \/ DeactivateWrite(c) \/ DeleteInvitation(c)

Sync(c) ==
    \/ SyncUserTeams(c) \/ SyncCreateUser(c) \/ SyncRole(c) \/ SyncList(c) \/ SyncEnsureTeam(c)
    \/ SyncCreateTeam(c) \/ SyncJoin(c) \/ SyncLeave(c) \/ SyncOrganization(c)
    \/ SyncJoinOrganization(c) \/ SyncReturn(c)

(* The teams user u is a member of. *)
TeamsOf(u) == {t \in Teams : db.team_memberships[u, t] # None}
Moved == {u \in Users : TeamsOf(u)' # TeamsOf(u)}

Schedule(e) == IF Row(e) = None THEN Nil ELSE Row(e).budget_reset_at

(* How a step of caller c is remembered. *)
Remember(c) ==
    /\ joined' = IF At(c, "AcceptInvitation", "increment")
                 THEN [joined EXCEPT ![call[c].arg.link] = @ + 1] ELSE joined
    /\ synced' = IF At(c, "SyncUserTeams", "end") /\ call[c].arg.teams # {}
                    /\ ~ call[c].arg.warned /\ c \notin disturbed
                 THEN [synced EXCEPT ![call[c].arg.user] = call[c].arg.teams]
                 ELSE [u \in Users |-> IF u \in Moved THEN None ELSE synced[u]]
    /\ disturbed' = {k \in set.Callers : /\ call'[k].op = "SyncUserTeams"
                                         /\ \/ k \in disturbed
                                            \/ k # c /\ call[k].op = "SyncUserTeams"
                                                     /\ call[k].arg.user \in Moved}
    /\ resets' = [e \in Rows |-> IF Schedule(e)' # Schedule(e) THEN 0 ELSE resets[e]]

Request(c) == /\ \/ (Endpoint(c) \/ Invitation(c) \/ Sync(c)) /\ UNCHANGED console
                 \/ TabStep(c) /\ UNCHANGED auditVars
                 \/ AuditRequest(c) /\ UNCHANGED <<links, sessionVars>>
              /\ Remember(c)
              /\ UNCHANGED <<set, now, jobs>>

Provider == /\ ChangeClaims \/ Rekey
            /\ UNCHANGED <<set, db, now, call, faults, ideal, links, jobs, history, auditVars>>

Job(r) == RunJobs(r) \/ FindDue(r) \/ ResetBudget(r) \/ RotateKeys(r)

Next == \/ \E c \in set.Callers : Request(c)
        \/ \E r \in set.Runners : Job(r) \/ Crash(r)
        \/ ChargeTeam \/ ChargeUser \/ ChargeTeamMembership \/ ChargeOrganization
        \/ Provider \/ Tick

Spec == DirectoryInit /\ [][Next]_vars

----------------------------------------------------------------------------
(* The columns that the store's read of a row fills: all of them in memory. *)
Tracked(table) ==
    CASE table = "teams" -> IF Memory THEN DOMAIN ZeroTeam ELSE {"spend", "is_active", "blocked"}
      [] table = "users" -> IF Memory THEN DOMAIN ZeroUser ELSE {"user_role", "spend", "is_active"}
      [] table = "organizations" -> DOMAIN ZeroOrganization
      [] OTHER -> DOMAIN ZeroOrganizationMembership

(* A request changes what it asked to change and nothing else (team, user, organization and
   member updates, the role synchronisation), however requests, charges and resets interleave,
   unless another write of the row came between its own read and its write: the row is then
   what the last of them read.  Over PostgreSQL this is so of the columns that the store's
   SELECT names; the others (budget period, models) are lost by every update. *)
SerialUpdatesAreExact ==
    \A table \in {"teams", "users", "organizations", "organization_memberships"} :
        \A i \in DOMAIN db[table] :
            IF db[table][i] = None \/ ideal[table][i] = None THEN db[table][i] = ideal[table][i]
            ELSE \A c \in Tracked(table) : db[table][i][c] = ideal[table][i][c]

(* An invitation link admits at most MaxUses users, plus those whose acceptance was already
   under way and those whose use could not be counted: the check of the use count and its
   increment are separate statements, the latter's failure is only logged, and a deactivation
   writes back a use count that may be stale. *)
UsesBounded == \A l \in Links : joined[l] <= set.MaxUses + Cardinality(set.Callers) - 1 + faults

(* A synchronisation that recorded no warning, and whose user no other request moved meanwhile,
   leaves the user in the teams of the token: in those alone when RemoveFromUnlistedTeams is
   set.  This stays so until a request moves the user. *)
SyncExact == \A u \in Users : synced[u] # None =>
    IF set.RemoveFromUnlistedTeams THEN TeamsOf(u) = synced[u] ELSE synced[u] \subseteq TeamsOf(u)

(* A due budget is reset at most once by each instance: two instances may both find it due, and
   the later reset forgets what was charged since the earlier, but no budget is reset again and
   again within a period. *)
ResetsBounded == \A e \in Rows : resets[e] <= Cardinality(set.Runners)
==============================================================================
