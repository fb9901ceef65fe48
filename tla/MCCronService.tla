--------------------------- MODULE MCCronService ---------------------------
(* Instances of CronService for TLC: one-shot reminders of the cron tool,  *)
(* which delete themselves, one of the CLI, which stays, and recurring jobs.*)
EXTENDS CronService, TLC

CONSTANTS once, second, kept, brief, long, daily

MCKind == [j \in Jobs |-> CASE j \in {once, second, kept} -> "at"
                            [] j = daily -> "cron"
                            [] OTHER -> "every"]
MCPeriod == [j \in Jobs |-> IF j \in {once, brief} THEN 1 ELSE 2]
=============================================================================
