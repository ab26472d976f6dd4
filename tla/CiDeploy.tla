------------------------------- MODULE CiDeploy -------------------------------
(***************************************************************************)
(* One deployment job: scripts/ci_deploy.py run twice by aws-deploy.yml,    *)
(* first deploy(), whose finally clause cleans up, then the always() step   *)
(* ci_deploy.py --cleanup.  It borrows two stopped EC2 nodes and opens one  *)
(* SSH ingress rule for each; ci-state.json says what has to be given back. *)
(*                                                                          *)
(* An AWS call may fail with or without effect.  A step may be killed at    *)
(* any point and then leaves a state file it was writing torn (write_text   *)
(* truncates first).  The AWS CLI repeats a request whose answer was lost.   *)
(* Other operators use the same account all the time.                       *)
(***************************************************************************)
EXTENDS FiniteSets

CONSTANTS
  Roles,             \* the two nodes
  None, Torn         \* a state file that does not exist, or does not parse

StateType == [started : BOOLEAN, rules : SUBSET Roles, complete : BOOLEAN]
Empty == [started |-> FALSE, rules |-> {}, complete |-> FALSE]

ASSUME FilesAssumption == None \notin StateType /\ Torn \notin StateType /\ None # Torn

VARIABLES
  node,    \* what each node does, and for whom: ours, others', or late (others
           \* started it after the job had checked that it was stopped)
  rule,    \* the ingress rule for the runner's address: none, ours, foreign, or
           \* disowned (ours, but reported to the job as a duplicate)
  file,    \* ci-state.json
  mem,     \* the state in the running process
  pc,      \* the next step of the running process
  then,    \* where it goes on after the save it is writing
  todo,    \* roles still to be given a rule, or whose rule is still to be revoked
  errors,  \* cleanup has recorded an error
  last,    \* this is the always() step
  green    \* the always() step ended without an error

aws  == <<node, rule>>
disk == <<file, mem, then>>
vars == <<aws, disk, pc, todo, errors, last, green>>

-----------------------------------------------------------------------------
Goto(label) == pc' = label

\* save(state): what is on disk between its two effects is not a state file.
Save(state, label) ==
  /\ mem' = state /\ then' = label
  /\ file' = Torn
  /\ Goto("write")

Write ==
  /\ pc = "write"
  /\ file' = mem
  /\ Goto(then)
  /\ UNCHANGED <<aws, mem, then, todo, errors, last, green>>

\* The process exits: the workflow goes on to the always() step, or the job ends.
Exit(ok) ==
  /\ Goto(IF last THEN "ended" ELSE "load")
  /\ last' = TRUE
  /\ green' = (last /\ ok)

-----------------------------------------------------------------------------
\* deploy()

\* A mutant of Begin: the list of rules is missing from the first state.
BeginWithoutRules ==
  /\ pc = "begin"
  /\ Save([started |-> FALSE, complete |-> FALSE], "describe")
  /\ UNCHANGED <<aws, todo, errors, last, green>>

Begin ==
  /\ pc = "begin"
  /\ Save(Empty, "describe")
  /\ UNCHANGED <<aws, todo, errors, last, green>>

\* Mutants of Describe: the start is not recorded, running nodes are taken too.
DescribeUnrecorded ==
  /\ pc = "describe"
  /\ \A r \in Roles : node[r] = "stopped"
  /\ Save(mem, "start")
  /\ UNCHANGED <<aws, todo, errors, last, green>>

DescribeAny ==
  /\ pc = "describe"
  /\ Save([mem EXCEPT !.started = TRUE], "start")
  /\ UNCHANGED <<aws, todo, errors, last, green>>

\* Only nodes that are stopped are started: outside the try block.
Describe ==
  /\ pc = "describe"
  /\ \/ /\ \A r \in Roles : node[r] = "stopped"
        /\ Save([mem EXCEPT !.started = TRUE], "start")
        /\ UNCHANGED <<last, green>>
     \/ Exit(FALSE) /\ UNCHANGED disk
  /\ UNCHANGED <<aws, todo, errors>>

StartNodes ==
  /\ pc = "start"
  /\ \/ /\ \A r \in Roles : node[r] # "stopping"
        /\ node' = [r \in Roles |-> IF node[r] = "stopped" THEN "ours" ELSE node[r]]
        /\ Goto("ready") \/ Goto("load")
     \/ node' = node /\ Goto("load")
  /\ UNCHANGED <<rule, disk, todo, errors, last, green>>

\* The waits for the nodes and the runner's own address.
Ready ==
  /\ pc = "ready"
  /\ \/ Goto("record") /\ todo' = Roles
     \/ Goto("load") /\ todo' = todo
  /\ UNCHANGED <<aws, disk, errors, last, green>>

\* The rule of the next role goes into the state file first.  A node that is not
\* in its security group fails the assertion before.
Record ==
  /\ pc = "record"
  /\ \/ \E r \in todo : Save([mem EXCEPT !.rules = @ \cup {r}], "authorize")
     \/ Goto("load") /\ UNCHANGED disk
  /\ UNCHANGED <<aws, todo, errors, last, green>>

NextRole(rest) == IF rest = {} THEN "work" ELSE "record"

\* A rule that exists is reported as a duplicate and taken off the record again;
\* so is the job's own, when the answer was lost and the CLI repeated the request.
Authorize(r) ==
  /\ pc = "authorize"
  /\ r \in todo \cap mem.rules
  /\ \/ /\ rule[r] = "none"
        /\ rule' = [rule EXCEPT ![r] = "ours"]
        /\ \/ Goto(NextRole(todo \ {r})) /\ todo' = todo \ {r} /\ UNCHANGED disk
           \/ Goto("load") /\ UNCHANGED <<disk, todo>>
     \/ /\ rule' = [rule EXCEPT ![r] = IF @ = "none" THEN "disowned" ELSE @]
        /\ todo' = todo \ {r}
        /\ Save([mem EXCEPT !.rules = @ \ {r}], NextRole(todo'))
     \/ rule' = rule /\ Goto("load") /\ UNCHANGED <<disk, todo>>
  /\ UNCHANGED <<node, errors, last, green>>

\* The image is handed over and recorded, and the experiment suites run.
Work ==
  /\ pc = "work"
  /\ \/ Save(mem, "load")
     \/ Goto("load") /\ UNCHANGED disk
  /\ UNCHANGED <<aws, todo, errors, last, green>>

-----------------------------------------------------------------------------
\* cleanup(): in deploy's finally clause, then in the always() step.

Load ==
  /\ pc = "load"
  /\ IF file \in StateType
     THEN /\ mem' = file /\ todo' = file.rules /\ errors' = FALSE
          /\ Goto("revoke")
          /\ UNCHANGED <<last, green>>
     ELSE Exit(file = None) /\ UNCHANGED <<mem, todo, errors>>
  /\ UNCHANGED <<aws, file, then>>

\* That there is no such rule is not an error.
Revoke(r) ==
  /\ pc = "revoke"
  /\ r \in todo
  /\ todo' = todo \ {r}
  /\ \/ rule' = [rule EXCEPT ![r] = "none"] /\ errors' \in {errors, TRUE}
     \/ rule' = rule /\ errors' = TRUE
  /\ UNCHANGED <<node, disk, pc, last, green>>

\* A mutant of StopNodes: a stop request that failed is not an error.
StopNodesLenient ==
  /\ pc = "revoke" /\ todo = {}
  /\ \/ /\ mem.started
        /\ node' = [r \in Roles |-> IF node[r] = "stopped" THEN "stopped" ELSE "stopping"]
        /\ Goto("confirm")
     \/ node' = node /\ Goto("report")
  /\ UNCHANGED <<rule, disk, todo, errors, last, green>>

\* stop-instances takes every recorded node, whoever uses it by now.
StopNodes ==
  /\ pc = "revoke" /\ todo = {}
  /\ \/ /\ mem.started
        /\ node' = [r \in Roles |-> IF node[r] = "stopped" THEN "stopped" ELSE "stopping"]
        /\ \/ Goto("confirm") /\ errors' = errors
           \/ Goto("report") /\ errors' = TRUE
     \/ /\ node' = node
        /\ Goto("report")
        /\ errors' = (errors \/ mem.started)
  /\ UNCHANGED <<rule, disk, todo, last, green>>

Confirm ==
  /\ pc = "confirm"
  /\ \/ (\A r \in Roles : node[r] = "stopped") /\ errors' = errors
     \/ errors' = TRUE
  /\ Goto("report")
  /\ UNCHANGED <<aws, disk, todo, last, green>>

Report ==
  /\ pc = "report"
  /\ Save([mem EXCEPT !.complete = ~errors], "exit")
  /\ UNCHANGED <<aws, todo, errors, last, green>>

Leave ==
  /\ pc = "exit"
  /\ Exit(~errors)
  /\ UNCHANGED <<aws, disk, todo, errors>>

\* The step is cancelled or runs into the job's time limit, or the runner is lost
\* and nothing of the job runs any more.
Kill ==
  /\ pc # "ended"
  /\ \/ Exit(FALSE)
     \/ Goto("ended") /\ UNCHANGED <<last, green>>
  /\ UNCHANGED <<aws, disk, todo, errors>>

-----------------------------------------------------------------------------
\* The account: nodes come to rest, and others start nodes that are stopped.

Stopped(r) ==
  /\ node[r] = "stopping"
  /\ node' = [node EXCEPT ![r] = "stopped"]
  /\ UNCHANGED <<rule, disk, pc, todo, errors, last, green>>

BeforeCheck == pc \in {"begin", "describe"} \/ (pc = "write" /\ then = "describe")

OtherStart(r) ==
  /\ node[r] = "stopped"
  /\ node' = [node EXCEPT ![r] = IF BeforeCheck \/ pc = "ended" THEN "others" ELSE "late"]
  /\ UNCHANGED <<rule, disk, pc, todo, errors, last, green>>

Init ==
  /\ node \in [Roles -> {"stopped", "others"}]
  /\ rule \in [Roles -> {"none", "foreign"}]
  /\ file = None /\ mem = Empty
  /\ pc = "begin" /\ then = "begin"
  /\ todo = {} /\ errors = FALSE /\ last = FALSE /\ green = FALSE

Deploy == Begin \/ Describe \/ StartNodes \/ Ready \/ Record \/ Work
            \/ \E r \in Roles : Authorize(r)
Cleanup == Load \/ StopNodes \/ Confirm \/ Report \/ Leave
            \/ \E r \in Roles : Revoke(r)

Next ==
  \/ Write \/ Deploy \/ Cleanup \/ Kill
  \/ \E r \in Roles : Stopped(r) \/ OtherStart(r)

Spec == Init /\ [][Next]_vars

-----------------------------------------------------------------------------
Labels == {"begin", "write", "describe", "start", "ready", "record", "authorize", "work",
           "load", "revoke", "confirm", "report", "exit", "ended"}

(* Every variable has its type. *)
TypeOK ==
  /\ node \in [Roles -> {"stopped", "ours", "stopping", "others", "late"}]
  /\ rule \in [Roles -> {"none", "ours", "foreign", "disowned"}]
  /\ file \in StateType \cup {None, Torn}
  /\ mem \in StateType
  /\ pc \in Labels /\ then \in Labels
  /\ todo \subseteq Roles
  /\ {errors, last, green} \subseteq BOOLEAN

(* What the job has to give back: nodes it started, and rules it added and was *)
(* not told were another's.                                                   *)
Owes == \E r \in Roles : node[r] = "ours" \/ rule[r] = "ours"

InFile(f) ==
  f \in StateType /\ \A r \in Roles : /\ node[r] = "ours" => f.started
                                      /\ rule[r] = "ours" => r \in f.rules

(* At every moment at which the state file can be read, it names everything    *)
(* the job owes: a node or a rule is recorded before it is taken, and stays    *)
(* recorded, whichever call fails or is cut short (ci_deploy.py:27, 81, 95).   *)
FileIsAhead == Owes /\ file # Torn => InFile(file)

(* Everything the job owes is found by the cleanup that follows deploy, at     *)
(* whichever point deploy ended (ci_deploy.py:27 "the separate always()        *)
(* cleanup step finds the resources and rules").                               *)
CleanupFindsAll == pc = "load" /\ Owes => InFile(file)

(* A job that reports success, by cleanup_complete or by its last step, has   *)
(* given back everything it knows of: no node of it runs, and no rule of it   *)
(* is open but one disowned by a repeated request (ci_deploy.py:40 "does not  *)
(* hide a failed cleanup as success").                                        *)
SuccessIsHonest ==
  (file \in StateType /\ file.complete) \/ green => ~Owes

(* A node that another operator was running when the job looked, or took      *)
(* outside the job, is never stopped by it: not when the check fails, not by  *)
(* the always() step, not after a kill.  One they start after the check is    *)
(* not covered ("late"): line 78 looks once ("Start only stopped lab nodes;   *)
(* do not interrupt another experiment").                                     *)
NobodyInterrupted ==
  [][\A r \in Roles : node[r] = "others" => node'[r] = "others"]_vars

(* ci_deploy.py:39 "only the SSH rules our run added" are removed.            *)
ForeignRulesStay ==
  [][\A r \in Roles : rule[r] = "foreign" => rule'[r] = "foreign"]_vars
===============================================================================
