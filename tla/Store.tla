-------------------------------- MODULE Store --------------------------------
(***************************************************************************)
(* The Store interface (internal/auth/store.go) over the two stores, and   *)
(* how a caller uses it.  A store operation is one step.  A handler that   *)
(* makes several of them is a caller that goes from one program point to   *)
(* the next, while the other callers, the charges of the governance        *)
(* engine, the jobs and the clock move between its steps.  A statement     *)
(* over PostgreSQL may also fail, up to MaxFaults times.                   *)
(***************************************************************************)
EXTENDS AuthTypes, TLC

CONSTANTS Settings     \* the deployments examined, [set, start]; Init chooses one

VARIABLES
    set,        \* the deployment: [Backend, Ops, Callers, Runners, MaxSpend, MaxTime, MaxFaults, ...]
    db,         \* the store
    now,        \* the clock
    call,       \* per caller, the request it serves
    faults,     \* statements that failed so far
    ideal       \* history: the rows, had every request been served in one step

Mem == INSTANCE MemoryStore
Pg == INSTANCE PostgresStore

Memory == set.Backend = "memory"

(* The Store interface. *)
GetTeam(t) == IF Memory THEN Mem!GetTeam(db, t) ELSE Pg!GetTeam(db, t)
CreateTeam(t, r) == IF Memory THEN Mem!CreateTeam(db, t, r) ELSE Pg!CreateTeam(db, t, r)
UpdateTeam(t, r) == IF Memory THEN Mem!UpdateTeam(db, t, r) ELSE Pg!UpdateTeam(db, t, r)
UpdateTeamSpent(t) == IF Memory THEN Mem!UpdateTeamSpent(db, t, 1) ELSE Pg!UpdateTeamSpent(db, t, 1)
ResetTeamBudget(t) == IF Memory THEN Mem!ResetTeamBudget(db, t, now) ELSE Pg!ResetTeamBudget(db, t, now)
DeleteTeam(t) == IF Memory THEN Mem!DeleteTeam(db, t) ELSE Pg!DeleteTeam(db, t)
BlockTeam(t, b) == IF Memory THEN Mem!BlockTeam(db, t, b) ELSE Pg!BlockTeam(db, t, b)
GetUser(u) == IF Memory THEN Mem!GetUser(db, u) ELSE Pg!GetUser(db, u)
CreateUser(u, r) == IF Memory THEN Mem!CreateUser(db, u, r) ELSE Pg!CreateUser(db, u, r)
UpdateUser(u, r) == IF Memory THEN Mem!UpdateUser(db, u, r) ELSE Pg!UpdateUser(db, u, r)
UpdateUserSpent(u) == IF Memory THEN Mem!UpdateUserSpent(db, u, 1) ELSE Pg!UpdateUserSpent(db, u, 1)
ResetUserBudget(u) == IF Memory THEN Mem!ResetUserBudget(db, u, now) ELSE Pg!ResetUserBudget(db, u, now)
DeleteUser(u) == IF Memory THEN Mem!DeleteUser(db, u) ELSE Pg!DeleteUser(db, u)
GetOrganization(o) == IF Memory THEN Mem!GetOrganization(db, o) ELSE Pg!GetOrganization(db, o)
CreateOrganization(o, r) ==
    IF Memory THEN Mem!CreateOrganization(db, o, r) ELSE Pg!CreateOrganization(db, o, r)
UpdateOrganization(o, r) ==
    IF Memory THEN Mem!UpdateOrganization(db, o, r) ELSE Pg!UpdateOrganization(db, o, r)
UpdateOrganizationSpent(o) ==
    IF Memory THEN Mem!UpdateOrganizationSpent(db, o, 1) ELSE Pg!UpdateOrganizationSpent(db, o, 1)
DeleteOrganization(o) == IF Memory THEN Mem!DeleteOrganization(db, o) ELSE Pg!DeleteOrganization(db, o)
GetBudget(b) == IF Memory THEN Mem!GetBudget(db, b) ELSE Pg!GetBudget(db, b)
CreateBudget(b, r) == IF Memory THEN Mem!CreateBudget(db, b, r) ELSE Pg!CreateBudget(db, b, r)
UpdateBudget(b, r) == IF Memory THEN Mem!UpdateBudget(db, b, r) ELSE Pg!UpdateBudget(db, b, r)
CreateTeamMembership(u, t, m) ==
    IF Memory THEN Mem!CreateTeamMembership(db, u, t, m) ELSE Pg!CreateTeamMembership(db, u, t, m)
UpdateTeamMembershipSpent(u, t) ==
    IF Memory THEN Mem!UpdateTeamMembershipSpent(db, u, t, 1)
    ELSE Pg!UpdateTeamMembershipSpent(db, u, t, 1)
GetTeamMembership(u, t) ==
    IF Memory THEN Mem!GetTeamMembership(db, u, t) ELSE Pg!GetTeamMembership(db, u, t)
DeleteTeamMembership(u, t) ==
    IF Memory THEN Mem!DeleteTeamMembership(db, u, t) ELSE Pg!DeleteTeamMembership(db, u, t)
ListUserTeamMemberships(u) ==
    IF Memory THEN Mem!ListUserTeamMemberships(db, u) ELSE Pg!ListUserTeamMemberships(db, u)
GetOrganizationMembership(u, o) ==
    IF Memory THEN Mem!GetOrganizationMembership(db, u, o) ELSE Pg!GetOrganizationMembership(db, u, o)
CreateOrganizationMembership(u, o, m) ==
    IF Memory THEN Mem!CreateOrganizationMembership(db, u, o, m)
    ELSE Pg!CreateOrganizationMembership(db, u, o, m)
UpdateOrganizationMembership(u, o, m) ==
    IF Memory THEN Mem!UpdateOrganizationMembership(db, u, o, m)
    ELSE Pg!UpdateOrganizationMembership(db, u, o, m)
UpdateOrganizationMembershipSpent(u, o) ==
    IF Memory THEN Mem!UpdateOrganizationMembershipSpent(db, u, o, 1)
    ELSE Pg!UpdateOrganizationMembershipSpent(db, u, o, 1)
DeleteOrganizationMembership(u, o) ==
    IF Memory THEN Mem!DeleteOrganizationMembership(db, u, o)
    ELSE Pg!DeleteOrganizationMembership(db, u, o)
CreateInvitationLink(l, r) ==
    IF Memory THEN Mem!CreateInvitationLink(db, l, r) ELSE Pg!CreateInvitationLink(db, l, r)
GetInvitationLink(l) == IF Memory THEN Mem!GetInvitationLink(db, l) ELSE Pg!GetInvitationLink(db, l)
GetInvitationLinkByToken(l) ==
    IF Memory THEN Mem!GetInvitationLinkByToken(db, l) ELSE Pg!GetInvitationLinkByToken(db, l)
UpdateInvitationLink(l, r) ==
    IF Memory THEN Mem!UpdateInvitationLink(db, l, r) ELSE Pg!UpdateInvitationLink(db, l, r)
DeleteInvitationLink(l) ==
    IF Memory THEN Mem!DeleteInvitationLink(db, l) ELSE Pg!DeleteInvitationLink(db, l)
IncrementInvitationLinkUses(l) ==
    IF Memory THEN Mem!IncrementInvitationLinkUses(db, l) ELSE Pg!IncrementInvitationLinkUses(db, l)

(* A caller: its operation and program point, the row e that it read, the copy it holds and
   whether another write of that row has come between (over), and its other locals. *)
Idle == [op |-> "idle", pc |-> "", e |-> None, copy |-> None, over |-> FALSE, arg |-> None]

At(c, op, pc) == call[c].op = op /\ call[c].pc = pc
Free(c, op) == op \in set.Ops /\ call[c] = Idle
Step(c, pc) == [call[c] EXCEPT !.pc = pc]

Overtaken(calls, e) == [c \in DOMAIN calls |->
    IF calls[c].e = e THEN [calls[c] EXCEPT !.over = TRUE] ELSE calls[c]]

MayFail == ~ Memory /\ faults < set.MaxFaults

(* Caller c runs a query; Then gives what it does with a row, None or Error. *)
Query(c, row, Then(_)) ==
    /\ \/ call' = [call EXCEPT ![c] = Then(row)] /\ UNCHANGED faults
       \/ MayFail /\ call' = [call EXCEPT ![c] = Then(Error)] /\ faults' = faults + 1
    /\ UNCHANGED <<db, ideal>>

(* Caller c runs a statement with outcome r, and goes on to next, or to failed. *)
Exec(c, r, next, failed) ==
    /\ \/ /\ db' = r.db /\ UNCHANGED faults
          /\ call' = [call EXCEPT ![c] = IF r.ok THEN next ELSE failed]
       \/ /\ MayFail /\ faults' = faults + 1 /\ UNCHANGED db
          /\ call' = [call EXCEPT ![c] = failed]
    /\ UNCHANGED ideal

(* The same for a statement that writes row e, for a request that asked for the row want.  A
   request overtaken by another is not held to that: what it leaves becomes the ideal. *)
Write(c, r, e, want, next, failed) ==
    \/ /\ db' = r.db /\ UNCHANGED faults
       /\ ideal' = IF ~ r.ok THEN ideal
                   ELSE [ideal EXCEPT ![e[1]][e[2]] = IF call[c].over THEN r.db[e[1]][e[2]] ELSE want]
       /\ call' = [Overtaken(call, e) EXCEPT ![c] = IF r.ok THEN next ELSE failed]
    \/ /\ MayFail /\ faults' = faults + 1 /\ UNCHANGED <<db, ideal>>
       /\ call' = [call EXCEPT ![c] = failed]
==============================================================================
