------------------------------ MODULE SeedScript ------------------------------
(***************************************************************************)
(* The statements of the seed script of the demo tenant, in their order.   *)
(*                                                                         *)
(* Statements that only store rows under a unique key (upsert, createMany  *)
(* with skipDuplicates), one after the other, are one step; a look for a   *)
(* row without a unique key and its creation are two.  The values of the   *)
(* columns are left out.                                                   *)
(***************************************************************************)
EXTENDS Naturals, Sequences

\* Rows stored under a unique key.
Keyed(rows) == <<[op |-> "keyed", rows |-> rows]>>

\* findFirst, then create unless it has found a row.
FindOrCreate(row) == <<[op |-> "look", rows |-> {row}], [op |-> "store", rows |-> {row}]>>

\* deleteMany, then createMany without skipDuplicates.
Rewrite(rows) == <<[op |-> "clear", rows |-> rows], [op |-> "insert", rows |-> rows]>>

\* A statement of its own kind.
Only(op, k) == <<[op |-> op, rows |-> {}, key |-> k]>>

In(table, names) == {table} \X names

SystemRoles == {"SUPER_ADMIN", "TEAM_LEAD", "USER"}

\* Permissions of administrators alone, those a team lead has too, and those
\* everyone has.
PermissionClasses == {"ADMIN", "LEAD", "OWN"}

LeadGrants == In("TEAM_LEAD", {"LEAD", "OWN"})
UserGrants == In("USER", {"OWN"})
Grants == In("SUPER_ADMIN", PermissionClasses) \cup LeadGrants \cup UserGrants

SeedTenantRbac ==
    Keyed(In("Role", SystemRoles) \cup In("Permission", PermissionClasses)) \o Keyed(Grants)

Tenancy ==
    Keyed({<<"Tenant", "default">>, <<"TenantSetting", "default">>}) \o SeedTenantRbac

People ==
    LET users == {"superadmin", "teamlead", "user"} IN
    Keyed(In("User", users) \cup In("UserRole", users) \cup {<<"Team", "Core Team">>}
          \cup In("TeamMember", users \ {"superadmin"}) \cup In("NotificationPreference", users))

ProjectRows ==
    Only("project", 0)
    \o Keyed(In("RateCard", {"superadmin", "teamlead", "user"})
             \cup In("ProjectMember", {"superadmin", "teamlead", "user"}))
    \o FindOrCreate(<<"Milestone", "Phase 2 Foundations">>)

StatusRows == Keyed(In("TaskStatus", {"TODO", "IN_PROGRESS", "DONE"}))

WorkflowRows ==
    Keyed(In("TaskWorkflow", {"default-flow"}))
    \o Rewrite(In("TaskWorkflowTransition", {"start", "finish", "reopen"}))

TaskRows == Only("task", 1) \o Only("task", 2) \o Only("task", 3)

HistoryRows == Only("forget", 0) \o Only("log", 0) \o Only("advance", 0)

Discussion ==
    Keyed({<<"TaskDependency", "T-102">>})
    \o FindOrCreate(<<"TaskComment", "sync">>)
    \o Keyed({<<"TaskCommentMention", "teamlead">>})
    \o FindOrCreate(<<"RecurringTaskTemplate", "Weekly Workflow Review">>)
    \o FindOrCreate(<<"ProjectCost", "cloud-infra">>)

LeaveRows ==
    Keyed(In("LeaveType", {"CASUAL", "SICK"}) \cup In("LeavePolicy", {"CASUAL", "SICK"})
          \cup {<<"LeaveUserQuotaOverride", "teamlead">>, <<"WfhPolicy", "default">>,
                <<"WfhUserQuotaOverride", "teamlead">>})

\* The holidays have no location: a NULL in their unique key, which then admits
\* any number of them.
HolidayRows ==
    FindOrCreate(<<"Holiday", "Founders Optional Day">>)
    \o FindOrCreate(<<"Holiday", "Republic Day">>)
    \o Keyed({<<"OptionalHolidayClaim", "user">>})

ReviewRows ==
    Keyed(In("ExpenseCategory", {"TRAVEL", "MEAL"})
          \cup {<<"ExpensePolicy", "TRAVEL">>, <<"ReviewCycle", "2026-05">>, <<"ReviewEntry", "user">>})

ComplianceRows ==
    FindOrCreate(<<"ComplianceRequest", "DATA_EXPORT">>)
    \o FindOrCreate(<<"AuditLog", "COMPLIANCE_EXPORT_REQUEST_CREATE">>)

SettingRows == Keyed(In("IntegrationSetting", {"WHATSAPP", "GITHUB", "SLACK", "EMAIL"}))

IdentityRows ==
    Keyed(In("GitHubIdentityMap", {"superadmin", "teamlead", "user"})
          \cup {<<"NotificationEvent", "seed-integration-ready">>})

DemoScript ==
    Tenancy \o People \o ProjectRows \o StatusRows \o WorkflowRows \o TaskRows \o HistoryRows
    \o Discussion \o LeaveRows \o HolidayRows \o ReviewRows \o ComplianceRows \o SettingRows
    \o IdentityRows

DemoMilestone ==
    CHOOSE i \in DOMAIN DemoScript :
        DemoScript[i].op = "store" /\ <<"Milestone", "Phase 2 Foundations">> \in DemoScript[i].rows
=============================================================================
