--------------------------- MODULE Administration ---------------------------
(***************************************************************************)
(* What guards the application and what an administrator changes: the      *)
(* settings, the limiter of logins and the migrations of the database (the *)
(* list of proxies is in ProxyAdmin).  They share one process and one      *)
(* database and no state, and so do their variables.                       *)
(***************************************************************************)
EXTENDS Naturals

CONSTANTS Admins, Times, DefaultTime,                        \* SettingsApi
          Addresses, MaxFailures, Window, MaxNow,            \* LoginLimiter
          Starts, Versions, Blank, MaxRuns                   \* Migrations

VARIABLES put, rows, scheduled, disturbed,
          now, failures, keys, wrong, forgotten, called,
          tracking, recorded, schema, start, wasGoose

Setting == INSTANCE SettingsApi
Limiter == INSTANCE LoginLimiter
Migration == INSTANCE Migrations

\* What is assumed of the constants.
ASSUME AdministrationAssumptions ==
    /\ Setting!SettingsAssumption
    /\ Limiter!LimiterAssumption /\ Migration!MigrationsAssumption

-----------------------------------------------------------------------------
(* The properties of the components, those of one kind together *)

\* PUT /api/settings: once no change is under way, and the last that ended ran by
\* itself, the parse is scheduled for the time that is stored, however requests
\* overlapped and failed before.
SettingsAgree == Setting!SettingsAgree

\* From one login of an address to its next no window holds more wrong passwords
\* of it than allowed, and the limiter keeps no address that has none of late.
LimiterHolds == Limiter!LimiterHolds

\* Migrations: what is recorded took effect, in order and once, and a started
\* application has them all.
SchemaIsWhole == Migration!SchemaIsWhole

=============================================================================
