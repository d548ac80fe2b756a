------------------------------ MODULE AuthTypes ------------------------------
(***************************************************************************)
(* The records of the authentication store (internal/auth/types.go,        *)
(* budget.go, invitation.go), reduced to the columns that some operation   *)
(* tells apart, and named as the columns of the SQL schema.                *)
(*                                                                         *)
(* A store is one value d, a record of tables; a table maps an identifier  *)
(* to a row, or to None.  A store operation returns [db, ok]: the store    *)
(* after it, and whether it returned a nil error.                          *)
(***************************************************************************)
EXTENDS Integers, FiniteSets

CONSTANTS Teams, Users, Orgs, Budgets, Links, Keys,
          None,          \* no row, or a NULL reference
          Error,         \* what a query that fails returns in place of a row
          Day            \* the length of a "1d" budget period, in ticks

ASSUME DayAssumption == Day \in Nat \ {0}

Nil == 0                 \* a nil *time.Time; the clock starts at 1

Durations == {"", "1d", "1h"}   \* never, a period IsValid knows, one it does not

(* BudgetDuration.DurationSeconds: an unknown duration is zero seconds. *)
DurationSeconds(d) == IF d = "1d" THEN Day ELSE 0

(* BudgetDuration.NextResetTime *)
NextResetTime(d, now) == IF d = "" THEN Nil ELSE now + DurationSeconds(d)

(* The zero values of the Go structs. *)
ZeroTeam == [organization_id |-> None, spend |-> 0, budget_duration |-> "",
             budget_reset_at |-> Nil, models |-> FALSE, is_active |-> FALSE, blocked |-> FALSE]
ZeroUser == [organization_id |-> None, user_role |-> "", spend |-> 0, budget_duration |-> "",
             budget_reset_at |-> Nil, models |-> FALSE, is_active |-> FALSE]
ZeroOrganization == [budget_id |-> None, spend |-> 0]
ZeroBudget == [max_budget |-> 0, budget_duration |-> "", budget_reset_at |-> Nil]
ZeroTeamMembership == [user_role |-> "", spend |-> 0]
ZeroOrganizationMembership == [user_role |-> "", spend |-> 0, budget_id |-> None]
ZeroLink == [team_id |-> None, organization_id |-> None, role |-> "", max_uses |-> 0,
             current_uses |-> 0, expires_at |-> Nil, is_active |-> FALSE]
ZeroKey == [key_hash |-> None, key_name |-> "", spent_budget |-> 0, budget_duration |-> "",
            budget_reset_at |-> Nil, rotate |-> FALSE, is_active |-> FALSE, blocked |-> FALSE]

IsValid_OffByOne(link, now) ==
    /\ link.is_active
    /\ link.expires_at # Nil => now <= link.expires_at
    /\ link.max_uses > 0 => link.current_uses <= link.max_uses
(* InvitationLink.IsValid *)
IsValid(link, now) ==
    /\ link.is_active
    /\ link.expires_at # Nil => now <= link.expires_at
    /\ link.max_uses > 0 => link.current_uses < link.max_uses

Done(d) == [db |-> d, ok |-> TRUE]
Err(d) == [db |-> d, ok |-> FALSE]

NoRows(ids) == [i \in ids |-> None]
EmptyStore == [teams |-> NoRows(Teams), users |-> NoRows(Users), organizations |-> NoRows(Orgs),
               budgets |-> NoRows(Budgets), team_memberships |-> NoRows(Users \X Teams),
               organization_memberships |-> NoRows(Users \X Orgs),
               invitation_links |-> NoRows(Links), api_keys |-> NoRows(Keys)]
==============================================================================
