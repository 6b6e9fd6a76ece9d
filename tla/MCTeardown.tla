----------------------------- MODULE MCTeardown -----------------------------
(* Small instances of Teardown: an excerpt of the map in adopt_orphans.py, *)
(* with the addresses of infra/envs/stage/main.tf.                         *)
EXTENDS Teardown, TLC

CONSTANTS a1, a2, d1, d2, k1, l1, l2, l3

Addr(m, r) == [module |-> m, resource |-> r]
Entry(kind, name, named, id, config) ==
  [kind |-> kind, name |-> name, named |-> named, tail |-> id, id |-> id, config |-> config]

DB      == Addr("rds", "aws_db_instance.this")
Group   == Addr("rds", "aws_db_subnet_group.this")
VPC     == Addr("network", "aws_vpc.this")
Role    == Addr("api", "aws_iam_role.execution")
Policy  == Addr("api", "aws_iam_role_policy_attachment.execution_managed")
Task    == Addr("api", "aws_iam_role.task")
Publish == Addr("", "aws_iam_role_policy.api_publish_items")
Consume == Addr("", "aws_iam_role_policy.api_consume_results")
Service == Addr("api", "aws_ecs_service.this")
TaskDef == Addr("api", "aws_ecs_task_definition.this")

\* An ECS service's ARN ends in the name its task definition has as its id
\* (infra/modules/ecs-service/main.tf:111, 171).
Estate ==
  [db      |-> Entry("rds:db", "db", TRUE, "db", DB),
   group   |-> Entry("rds:subgrp", "db-subnet-group", TRUE, "group", Group),
   vpc1    |-> Entry("ec2:vpc", "vpc", TRUE, "vpc1", VPC),
   vpc2    |-> Entry("ec2:vpc", "vpc", TRUE, "vpc2", VPC),
   role    |-> Entry("iam:role", "api-ecs-execution", FALSE, "role", Role),
   policy  |-> Entry("iam:policy", "execution", FALSE, "policy", Policy),
   task    |-> Entry("iam:role", "api-ecs-task", FALSE, "task", Task),
   publish |-> Entry("iam:policy", "api-publish-items", FALSE, "publish", Publish),
   consume |-> Entry("iam:policy", "api-consume-results", FALSE, "consume", Consume),
   service |-> [Entry("ecs:service", "api", TRUE, "prefix-api", Service)
                  EXCEPT !.id = "service"],
   taskdef |-> Entry("ecs:task-definition", "api", TRUE, "prefix-api", TaskDef)]

MCArn     == [r \in Resource |-> Estate[r]]
MCStateId == [r \in Resource |-> Estate[r].id]
MCConfig  == [r \in Resource |-> Estate[r].config]

One(name, a) == name :> a
MCRules ==
  "rds:db"      :> [fromTag |-> FALSE, addresses |-> One("db", DB)] @@
  "rds:subgrp"  :> [fromTag |-> FALSE, addresses |-> One("db-subnet-group", Group)] @@
  "ec2:vpc"     :> [fromTag |-> TRUE,  addresses |-> One("vpc", VPC)] @@
  "ecs:service" :> [fromTag |-> FALSE, addresses |-> One("api", Service)] @@
  "iam:role"    :> [fromTag |-> FALSE,
                    addresses |-> One("api-ecs-execution", Role) @@ One("api-ecs-task", Task)]

MCDependents == Role :> {Policy} @@ Task :> {Publish}

\* Of what an instance has: one without the subnet group leaves its part out.
MCNeeds == [r \in Resource |->
  Resource \cap CASE r = "db" -> {"group"}
                  [] r = "policy" -> {"role"}
                  [] r \in {"publish", "consume"} -> {"task"}
                  [] OTHER -> {}]

MCIndexed == {r \in Resource : Estate[r].kind \notin {"iam:role", "iam:policy"}}

MCRunOf == (a1 :> 1) @@ (a2 :> 2) @@ (d1 :> 1) @@ (d2 :> 3)
MCWired == {"rds", "network", "api"}
=============================================================================
