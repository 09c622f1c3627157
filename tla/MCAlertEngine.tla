---------------------------- MODULE MCAlertEngine ----------------------------
EXTENDS AlertEngine

Study(kindsOf, overriding, enabled, activity, interventions) ==
  [kinds |-> kindsOf, rows |-> overriding, general |-> enabled, on |-> {activity},
   ops |-> interventions]

\* Evaluations of a rule of each class, with an override that can be deleted, and of crashes
\* with two overrides that both apply; requests for overrides, with two interventions.
Studies ==
  {Study({"DEFENDER", "SMART", "APP_CRASH"}, 1, TRUE, "alerts", 1),
   Study({"APP_CRASH"}, 2, FALSE, "alerts", 0),
   Study({"SMART"}, 0, TRUE, "rules", 2)}

=============================================================================
