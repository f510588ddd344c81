----------------------------- MODULE MCScheduler -----------------------------
EXTENDS Scheduler

\* Schedules to ask for: one-shots that are due at once, later, or disabled, and
\* a cron schedule that publishes an event or calls an action.
Shot(at, fire) == [trigger |-> "once", at |-> at, enabled |-> TRUE, fire |-> fire]
Cron(enabled, fire) ==
  [trigger |-> "cron", at |-> 0, enabled |-> enabled, fire |-> fire]

MCAllConfigs == {Shot(1, "action"), Cron(TRUE, "event"), Cron(FALSE, "event")}
MCCrons == {Cron(TRUE, "action"), Cron(FALSE, "event")}
MCLive == {Shot(1, "action"), Cron(TRUE, "event")}
=============================================================================
