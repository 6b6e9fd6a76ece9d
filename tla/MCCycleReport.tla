--------------------------- MODULE MCCycleReport ---------------------------
(* Small estates for CycleReport: a balancer with its target group, a      *)
(* database, a task definition that every re-apply replaces, and a secret  *)
(* that terraform reads.                                                   *)
EXTENDS CycleReport

Addresses == {"lb", "tg", "db", "task", "secret"}

MCBase == [a \in Addresses |-> a]

MCTopology ==
  [estate  |-> {[id |-> "alb", env |-> "stage", members |-> {"lb", "tg"}],
                [id |-> "rds", env |-> "stage", members |-> {"db"}],
                [id |-> "api", env |-> "stage", members |-> {"task"}],
                [id |-> "prod.alb", env |-> "prod", members |-> {"lb", "tg"}]},
   verbs   |-> {[id |-> "destroy.stage", env |-> "stage", service |-> "destroy", phase |-> "teardown"],
                [id |-> "migrate", env |-> "stage", service |-> "task", phase |-> "deploy"]},
   touches |-> {[phase |-> "deploy", node |-> "alb", verb |-> "creates"],
                [phase |-> "deploy", node |-> "rds", verb |-> "creates"],
                [phase |-> "teardown", node |-> "rds", verb |-> "destroys"]},
   hidden  |-> {}]

MCKind == [lb |-> "aws_lb", tg |-> "aws_lb_target_group", db |-> "aws_db_instance",
           task |-> "aws_ecs_task_definition", secret |-> "aws_secretsmanager_secret"]

MCPrices == [alb_hour |-> 2, rds_hour |-> 3, gb_month |-> 1]
MCShape  == [db_gb |-> 2]

Component(unit, from, per) == [unit |-> unit, quantity |-> 1, from |-> from, per |-> per]

MCCostModel ==
  [free |-> {"aws_lb_target_group", "aws_ecs_task_definition"},
   notMetered |-> {"aws_secretsmanager_secret"},
   priced |-> [aws_lb |-> [minimum |-> 0, components |-> {Component("alb_hour", {}, "hour")}],
               aws_db_instance |-> [minimum |-> 6,
                 components |-> {Component("rds_hour", {}, "hour"),
                                 Component("gb_month", {"db_gb"}, "month")}]]]
=============================================================================
