---------------------------- MODULE CiDeployProofs ----------------------------
(***************************************************************************)
(* What the deployment job owes and reports, for any number of nodes, any   *)
(* failing and repeated calls, any number of kills at any point, and other  *)
(* operators that start nodes at any time.                                  *)
(***************************************************************************)
EXTENDS CiDeploy, TLAPS

USE FilesAssumption

Deploying == {"start", "ready", "record", "authorize", "work"}
Cleaning  == {"revoke", "confirm", "report"}

\* The step the process is at, or will be at after its save.
Where == IF pc = "write" THEN then ELSE pc

\* A state that names everything the job owes.
Covers(f) == \A r \in Roles : /\ node[r] = "ours" => f.started
                              /\ rule[r] = "ours" => r \in f.rules

\* What is in the file and in memory at each step.
FileInv ==
  /\ pc = "write" => file = Torn
  /\ pc \in {"describe"} \cup Deploying \cup Cleaning \cup {"exit"} => file = mem
  /\ pc = "begin" => file = None
  /\ pc = "write" => then \in {"describe", "load", "exit"} \cup Deploying
  /\ Where \in {"begin", "describe"} => mem = Empty
  /\ Where \in Deploying => mem.started /\ ~mem.complete
  /\ pc = "write" /\ then = "load" => ~mem.complete
  /\ pc = "write" /\ then = "exit" => mem.complete = ~errors

\* The record goes ahead of what it records.
AheadInv ==
  /\ Where \in {"start", "ready"} => \A r \in Roles : rule[r] # "ours"
  /\ Where \in {"record", "authorize"} => \A r \in todo : rule[r] # "ours"
  /\ file \in StateType => Covers(file)
  /\ file = Torn => Covers(mem)
  /\ file = None => ~Owes

\* Without an error, cleanup has given back what it has been through.
GivenBackInv ==
  /\ file \in StateType /\ file.complete => ~Owes
  /\ Where = "exit" /\ ~errors => ~Owes
  /\ pc = "revoke" /\ ~errors => \A r \in Roles \ todo : rule[r] # "ours"
  /\ pc \in {"confirm", "report"} /\ ~errors => \A r \in Roles : rule[r] # "ours"
  /\ pc = "confirm" => \A r \in Roles : node[r] # "ours"
  /\ pc = "report" /\ ~errors => \A r \in Roles : node[r] # "ours"
  /\ green => pc = "ended" /\ ~Owes

\* While a state that names the nodes is in use, nobody has them whom the check
\* could have seen.
AloneInv ==
  pc # "ended" /\ (mem.started \/ (file \in StateType /\ file.started))
    => \A r \in Roles : node[r] # "others"

JobInv == TypeOK /\ FileInv /\ AheadInv /\ GivenBackInv

-----------------------------------------------------------------------------
LEMMA StateFields ==
  ASSUME NEW f \in StateType
  PROVE  f.started \in BOOLEAN /\ f.complete \in BOOLEAN /\ f.rules \in SUBSET Roles
  BY DEF StateType

LEMMA SetStarted ==
  ASSUME NEW f \in StateType
  PROVE  /\ [f EXCEPT !.started = TRUE] \in StateType
         /\ [f EXCEPT !.started = TRUE].started
         /\ [f EXCEPT !.started = TRUE].rules = f.rules
         /\ [f EXCEPT !.started = TRUE].complete = f.complete
  BY DEF StateType

LEMMA SetRules ==
  ASSUME NEW f \in StateType, NEW R \in SUBSET Roles
  PROVE  /\ [f EXCEPT !.rules = R] \in StateType
         /\ [f EXCEPT !.rules = R].started = f.started
         /\ [f EXCEPT !.rules = R].rules = R
         /\ [f EXCEPT !.rules = R].complete = f.complete
  BY DEF StateType

LEMMA SetComplete ==
  ASSUME NEW f \in StateType, NEW b \in BOOLEAN
  PROVE  /\ [f EXCEPT !.complete = b] \in StateType
         /\ [f EXCEPT !.complete = b].started = f.started
         /\ [f EXCEPT !.complete = b].rules = f.rules
         /\ [f EXCEPT !.complete = b].complete = b
  BY DEF StateType

LEMMA EmptyState ==
  /\ Empty \in StateType /\ ~Empty.started /\ Empty.rules = {} /\ ~Empty.complete
  BY DEF Empty, StateType

LEMMA SaveFacts ==
  ASSUME NEW f \in StateType, NEW label \in Labels, Save(f, label)
  PROVE  /\ mem' = f /\ then' = label /\ file' = Torn /\ pc' = "write"
         /\ Where' = label
         /\ pc' \in Labels
  BY DEF Save, Goto, Where, Labels

\* An error that has been recorded stays recorded.
LEMMA StaysTrue ==
  ASSUME NEW a \in BOOLEAN, NEW b, b = a \/ b = TRUE
  PROVE  b \in BOOLEAN /\ (~b => ~a)
  BY Zenon

LEMMA JobInit == Init => JobInv /\ AloneInv
<1> SUFFICES ASSUME Init PROVE JobInv /\ AloneInv
  OBVIOUS
<1>1. TypeOK
  BY EmptyState DEF Init, TypeOK, Labels
<1>2. FileInv /\ AheadInv /\ GivenBackInv /\ AloneInv
  BY EmptyState DEF Init, AloneInv, FileInv, AheadInv, GivenBackInv, Where, Covers, Owes, Deploying, Cleaning
<1> QED BY <1>1, <1>2 DEF JobInv

LEMMA JobStep ==
  ASSUME JobInv, [Next]_vars
  PROVE  JobInv'
<1> USE DEF JobInv, TypeOK
<1>1. CASE Write
  <2>1. TypeOK'
    BY <1>1 DEF Write, Goto, aws, FileInv, Labels, Deploying
  <2>2. pc = "write" /\ file' = mem /\ pc' = then /\ then # "write"
    BY <1>1 DEF Write, Goto, FileInv, Deploying
  <2>3. FileInv'
    BY <1>1, <2>2 DEF Write, FileInv, Where, Deploying, Cleaning
  <2>4. Where' = Where /\ Owes' = Owes /\ Covers(mem)' = Covers(mem) /\ file = Torn
    BY <1>1, <2>2 DEF Write, aws, Where, Owes, Covers, FileInv
  <2>5. AheadInv'
    BY <1>1, <2>2, <2>4 DEF Write, aws, AheadInv, Covers
  <2>6. mem.complete => ~Owes
    BY <2>2, EmptyState DEF FileInv, GivenBackInv, Where
  <2>7. GivenBackInv'
    BY <1>1, <2>2, <2>4, <2>6 DEF Write, aws, GivenBackInv, FileInv, Deploying
  <2> QED BY <2>1, <2>3, <2>5, <2>7
<1>2. CASE Begin
  <2>1. TypeOK'
    BY <1>2, EmptyState DEF Begin, Save, Goto, aws, Labels
  <2>2. FileInv' /\ AheadInv' /\ GivenBackInv'
    BY <1>2, EmptyState DEF Begin, Save, Goto, aws, FileInv, AheadInv, GivenBackInv, Where, Covers, Owes, Deploying, Cleaning
  <2> QED BY <2>1, <2>2
<1>3. CASE Describe
  <2>1. pc = "describe" /\ file = mem /\ mem = Empty /\ node' = node /\ rule' = rule
    BY <1>3 DEF Describe, FileInv, Where, aws
  <2>2. CASE Save([mem EXCEPT !.started = TRUE], "start") /\ UNCHANGED <<last, green>>
    <3>1. /\ mem' \in StateType /\ mem'.started /\ ~mem'.complete /\ mem'.rules = {}
          /\ then' = "start" /\ file' = Torn /\ pc' = "write" /\ Where' = "start"
      <4> DEFINE f == [mem EXCEPT !.started = TRUE]
      <4>1. f \in StateType /\ f.started /\ f.rules = {} /\ ~f.complete
        BY <2>1, EmptyState, SetStarted
      <4>2. Save(f, "start") /\ "start" \in Labels
        BY <2>2 DEF Labels
      <4> HIDE DEF f
      <4> QED BY <4>1, <4>2, SaveFacts
    <3>2. ~Owes' \/ \A r \in Roles : rule'[r] # "ours"
      BY <2>1, EmptyState DEF AheadInv, Covers
    <3> QED BY <1>3, <2>1, <2>2, <3>1, <3>2, EmptyState DEF Describe, Labels, FileInv, AheadInv, GivenBackInv, Where, Covers, Owes, Deploying, Cleaning
  <2>3. CASE Exit(FALSE) /\ UNCHANGED disk
    BY <1>3, <2>1, <2>3, EmptyState DEF Describe, Exit, Goto, disk, Labels, FileInv, AheadInv, GivenBackInv, Where, Covers, Owes, Deploying, Cleaning
  <2> QED BY <1>3, <2>2, <2>3 DEF Describe
<1>4. CASE StartNodes
  <2>1. /\ pc = "start" /\ file = mem /\ mem.started /\ ~mem.complete
        /\ rule' = rule /\ file' = file /\ mem' = mem /\ then' = then
        /\ pc' \in {"ready", "load"} /\ node' \in [Roles -> {"stopped", "ours", "stopping", "others", "late"}]
    BY <1>4 DEF StartNodes, FileInv, Where, disk, Goto, Deploying
  <2>2. TypeOK'
    BY <1>4, <2>1 DEF StartNodes, Labels
  <2>3. FileInv'
    BY <1>4, <2>1 DEF StartNodes, FileInv, Where, Deploying, Cleaning
  <2>4. AheadInv'
    BY <2>1 DEF AheadInv, Where, Covers
  <2>5. GivenBackInv'
    BY <1>4, <2>1 DEF StartNodes, GivenBackInv, Where
  <2> QED BY <2>2, <2>3, <2>4, <2>5
<1>5. CASE Ready
  <2>1. pc = "ready" /\ file = mem /\ pc' \in {"record", "load"} /\ todo' \subseteq Roles
    BY <1>5 DEF Ready, FileInv, Goto, Deploying
  <2> QED BY <1>5, <2>1 DEF Ready, aws, disk, Labels, FileInv, AheadInv, GivenBackInv, Where, Covers, Owes, Deploying, Cleaning
<1>6. CASE Record
  <2>1. /\ pc = "record" /\ file = mem /\ mem.started /\ ~mem.complete
        /\ node' = node /\ rule' = rule
    BY <1>6 DEF Record, FileInv, Where, Deploying, aws
  <2>2. ASSUME NEW r \in todo, Save([mem EXCEPT !.rules = @ \cup {r}], "authorize")
        PROVE  JobInv'
    <3>1. mem.rules \cup {r} \in SUBSET Roles
      BY StateFields
    <3>2. /\ mem' \in StateType /\ mem'.started = mem.started /\ mem'.complete = mem.complete
          /\ mem'.rules = mem.rules \cup {r}
          /\ then' = "authorize" /\ file' = Torn /\ pc' = "write" /\ Where' = "authorize"
      <4> DEFINE f == [mem EXCEPT !.rules = mem.rules \cup {r}]
      <4>1. /\ f \in StateType /\ f.started = mem.started /\ f.complete = mem.complete
            /\ f.rules = mem.rules \cup {r}
        BY <3>1, SetRules
      <4>2. Save(f, "authorize") /\ "authorize" \in Labels
        BY <2>2 DEF Labels
      <4> HIDE DEF f
      <4> QED BY <4>1, <4>2, SaveFacts
    <3>3. Covers(mem)'
      BY <2>1, <3>2 DEF AheadInv, Covers
    <3> QED BY <1>6, <2>1, <3>2, <3>3 DEF Record, Labels, FileInv, AheadInv, GivenBackInv,
            Where, Owes, Deploying, Cleaning
  <2>3. CASE Goto("load") /\ UNCHANGED disk
    BY <1>6, <2>1, <2>3 DEF Record, Goto, disk, Labels, FileInv, AheadInv, GivenBackInv, Where, Covers, Owes, Deploying, Cleaning
  <2> QED BY <1>6, <2>2, <2>3 DEF Record
<1>7. ASSUME NEW r \in Roles, Authorize(r) PROVE JobInv'
  <2>1. /\ pc = "authorize" /\ file = mem /\ mem.started /\ ~mem.complete
        /\ r \in todo /\ r \in mem.rules /\ rule[r] # "ours"
        /\ node' = node /\ errors' = errors /\ last' = last /\ green' = green
    BY <1>7 DEF Authorize, FileInv, AheadInv, Where, Deploying
  <2>2. NextRole(todo \ {r}) \in {"work", "record"}
    BY DEF NextRole
  <2>3. CASE /\ rule[r] = "none"
             /\ rule' = [rule EXCEPT ![r] = "ours"]
             /\ \/ Goto(NextRole(todo \ {r})) /\ todo' = todo \ {r} /\ UNCHANGED disk
                \/ Goto("load") /\ UNCHANGED <<disk, todo>>
    <3>1. /\ file' = file /\ mem' = mem /\ then' = then /\ todo' \subseteq todo
          /\ pc' \in {"work", "record", "load"}
          /\ pc' # "load" => todo' = todo \ {r}
          /\ rule' \in [Roles -> {"none", "ours", "foreign", "disowned"}]
      BY <2>2, <2>3 DEF Goto, disk
    <3>2. FileInv' /\ TypeOK'
      BY <2>1, <3>1 DEF FileInv, Where, Deploying, Cleaning, Labels
    <3>3. AheadInv'
      BY <2>1, <2>3, <3>1 DEF AheadInv, Where, Covers
    <3>4. GivenBackInv'
      BY <2>1, <3>1 DEF GivenBackInv, Where
    <3> QED BY <3>2, <3>3, <3>4
  <2>4. CASE /\ rule' = [rule EXCEPT ![r] = IF @ = "none" THEN "disowned" ELSE @]
             /\ todo' = todo \ {r}
             /\ Save([mem EXCEPT !.rules = @ \ {r}], NextRole(todo'))
    <3>1. /\ rule' \in [Roles -> {"none", "ours", "foreign", "disowned"}]
          /\ rule'[r] # "ours"
          /\ \A q \in Roles : rule'[q] = "ours" <=> rule[q] = "ours"
      BY <2>1, <2>4
    <3>2. mem.rules \ {r} \in SUBSET Roles /\ {"work", "record"} \subseteq Labels
      BY StateFields DEF Labels
    <3>3. /\ mem' \in StateType /\ mem'.started = mem.started /\ mem'.complete = mem.complete
          /\ mem'.rules = mem.rules \ {r}
          /\ then' \in {"work", "record"} /\ file' = Torn /\ pc' = "write" /\ Where' = then'
      <4> DEFINE f == [mem EXCEPT !.rules = mem.rules \ {r}]
      <4>1. /\ f \in StateType /\ f.started = mem.started /\ f.complete = mem.complete
            /\ f.rules = mem.rules \ {r}
        BY <3>2, SetRules
      <4>2. PICK label \in {"work", "record"} : Save(f, label)
        BY <2>2, <2>4
      <4> HIDE DEF f
      <4> QED BY <3>2, <4>1, <4>2, SaveFacts
    <3>4. Covers(mem)'
      BY <2>1, <3>1, <3>3 DEF AheadInv, Covers
    <3>5. TypeOK'
      BY <2>1, <2>4, <3>1, <3>2, <3>3 DEF Labels
    <3>6. FileInv' /\ GivenBackInv'
      BY <2>1, <3>1, <3>3 DEF FileInv, GivenBackInv, Where, Owes, Deploying, Cleaning
    <3>7. AheadInv'
      BY <2>1, <2>4, <3>1, <3>3, <3>4 DEF AheadInv, Where
    <3> QED BY <3>5, <3>6, <3>7
  <2>5. CASE rule' = rule /\ Goto("load") /\ UNCHANGED <<disk, todo>>
    BY <2>1, <2>5 DEF Goto, disk, Labels, FileInv, AheadInv, GivenBackInv, Where, Covers, Owes, Deploying, Cleaning
  <2> QED BY <1>7, <2>3, <2>4, <2>5 DEF Authorize
<1>8. CASE Work
  <2>1. /\ pc = "work" /\ file = mem /\ mem.started /\ ~mem.complete
        /\ node' = node /\ rule' = rule
    BY <1>8 DEF Work, FileInv, Where, Deploying, aws
  <2>2. CASE Save(mem, "load")
    <3>1. mem' = mem /\ then' = "load" /\ file' = Torn /\ pc' = "write" /\ Where' = "load"
      BY <2>2, SaveFacts DEF Labels
    <3> QED BY <1>8, <2>1, <3>1 DEF Work, Labels, FileInv, AheadInv, GivenBackInv, Where, Covers, Owes, Deploying, Cleaning
  <2>3. CASE Goto("load") /\ UNCHANGED disk
    BY <1>8, <2>1, <2>3 DEF Work, Goto, disk, Labels, FileInv, AheadInv, GivenBackInv, Where, Covers, Owes, Deploying, Cleaning
  <2> QED BY <1>8, <2>2, <2>3 DEF Work
<1>9. CASE Load
  <2>1. pc = "load" /\ node' = node /\ rule' = rule /\ file' = file /\ then' = then
    BY <1>9 DEF Load, aws
  <2>2. CASE file \in StateType
    <3>1. /\ mem' = file /\ todo' = file.rules /\ errors' = FALSE /\ pc' = "revoke"
          /\ last' = last /\ green' = green /\ file.rules \subseteq Roles
      BY <1>9, <2>2, StateFields DEF Load, Goto
    <3> QED BY <2>1, <2>2, <3>1 DEF Labels, FileInv, AheadInv, GivenBackInv, Where, Covers, Owes, Deploying, Cleaning
  <2>3. CASE file \notin StateType
    <3>1. file \in {None, Torn} /\ (file = None => ~Owes)
      BY <2>3 DEF AheadInv
    <3>2. /\ mem' = mem /\ todo' = todo /\ errors' = errors /\ pc' \in {"ended", "load"}
          /\ green' \in BOOLEAN /\ last' = TRUE /\ (green' => pc' = "ended" /\ file = None)
      BY <1>9, <2>3 DEF Load, Exit, Goto
    <3> QED BY <2>1, <3>1, <3>2 DEF Labels, FileInv, AheadInv, GivenBackInv, Where, Covers, Owes, Deploying, Cleaning
  <2> QED BY <2>2, <2>3
<1>10. ASSUME NEW r \in Roles, Revoke(r) PROVE JobInv'
  <2>1. /\ pc = "revoke" /\ file = mem /\ node' = node /\ file' = file /\ mem' = mem
        /\ then' = then /\ pc' = pc /\ last' = last /\ green' = green
        /\ todo' = todo \ {r}
    BY <1>10 DEF Revoke, FileInv, Cleaning, disk
  <2>2. \A q \in Roles : rule'[q] = "ours" => rule[q] = "ours"
    BY <1>10 DEF Revoke
  <2>3. /\ rule' \in [Roles -> {"none", "ours", "foreign", "disowned"}]
        /\ errors' \in BOOLEAN
        /\ ~errors' => ~errors /\ rule'[r] # "ours"
    <3>1. CASE rule' = [rule EXCEPT ![r] = "none"] /\ errors' \in {errors, TRUE}
      <4>1. errors' = errors \/ errors' = TRUE
        BY <3>1, Zenon
      <4>2. rule'[r] = "none" /\ rule' \in [Roles -> {"none", "ours", "foreign", "disowned"}]
        BY <3>1
      <4> QED BY <4>1, <4>2, StaysTrue
    <3>2. CASE rule' = rule /\ errors' = TRUE
      BY <3>2
    <3> QED BY <1>10, <3>1, <3>2 DEF Revoke
  <2>4. TypeOK' /\ FileInv'
    BY <2>1, <2>3 DEF FileInv, Where, Deploying, Cleaning
  <2>5. AheadInv'
    BY <2>1, <2>2 DEF AheadInv, Where, Covers, Owes
  <2>6. GivenBackInv'
    BY <2>1, <2>2, <2>3 DEF GivenBackInv, Where, Owes
  <2> QED BY <2>4, <2>5, <2>6
<1>11. CASE StopNodes
  <2>1. /\ pc = "revoke" /\ todo = {} /\ file = mem /\ rule' = rule /\ file' = file
        /\ mem' = mem /\ then' = then /\ last' = last /\ green' = green /\ todo' = todo
        /\ pc' \in {"confirm", "report"} /\ errors' \in BOOLEAN
        /\ node' \in [Roles -> {"stopped", "ours", "stopping", "others", "late"}]
    BY <1>11 DEF StopNodes, FileInv, Cleaning, disk, Goto
  <2>2. /\ \A q \in Roles : node'[q] = "ours" => node[q] = "ours"
        /\ ~errors' => ~errors
        /\ pc' = "confirm" \/ ~errors' => \A q \in Roles : node'[q] # "ours"
    BY <1>11, <2>1 DEF StopNodes, Goto, AheadInv, Covers
  <2>3. TypeOK' /\ FileInv'
    BY <2>1 DEF FileInv, Where, Deploying, Cleaning, Labels
  <2>4. AheadInv'
    BY <2>1, <2>2 DEF AheadInv, Where, Covers, Owes
  <2>5. GivenBackInv'
    BY <2>1, <2>2 DEF GivenBackInv, Where, Owes
  <2> QED BY <2>3, <2>4, <2>5
<1>12. CASE Confirm
  <2>1. pc = "confirm" /\ pc' = "report" /\ file = mem /\ errors' \in BOOLEAN /\ (~errors' => ~errors)
    <3>1. pc = "confirm" /\ pc' = "report" /\ file = mem
      BY <1>12 DEF Confirm, FileInv, Cleaning, Goto
    <3>2. errors' = errors \/ errors' = TRUE
      BY <1>12, Zenon DEF Confirm
    <3> QED BY <3>1, <3>2, StaysTrue
  <2> QED BY <1>12, <2>1 DEF Confirm, aws, disk, Labels, FileInv, AheadInv, GivenBackInv, Where, Covers, Owes, Deploying, Cleaning
<1>13. CASE Report
  <2>1. pc = "report" /\ file = mem /\ node' = node /\ rule' = rule
    BY <1>13 DEF Report, FileInv, Cleaning, aws
  <2>2. /\ mem' \in StateType /\ mem'.started = mem.started /\ mem'.rules = mem.rules
        /\ mem'.complete = ~errors
        /\ then' = "exit" /\ file' = Torn /\ pc' = "write" /\ Where' = "exit"
    <3> DEFINE f == [mem EXCEPT !.complete = ~errors]
    <3>1. /\ f \in StateType /\ f.started = mem.started /\ f.rules = mem.rules
          /\ f.complete = ~errors
      BY SetComplete
    <3>2. Save(f, "exit") /\ "exit" \in Labels
      BY <1>13 DEF Report, Labels
    <3> HIDE DEF f
    <3> QED BY <3>1, <3>2, SaveFacts
  <2>3. TypeOK' /\ FileInv'
    BY <1>13, <2>1, <2>2 DEF Report, FileInv, Deploying, Cleaning, Labels
  <2>4. AheadInv'
    BY <2>1, <2>2 DEF AheadInv, Covers
  <2>5. GivenBackInv'
    BY <1>13, <2>1, <2>2 DEF Report, GivenBackInv, Owes
  <2> QED BY <2>3, <2>4, <2>5
<1>14. CASE Leave
  <2>1. /\ pc = "exit" /\ pc' \in {"ended", "load"} /\ last' = TRUE /\ green' \in BOOLEAN
        /\ green' => ~errors /\ pc' = "ended"
    BY <1>14 DEF Leave, Exit, Goto
  <2> QED BY <1>14, <2>1 DEF Leave, aws, disk, Labels, FileInv, AheadInv, GivenBackInv, Where, Covers, Owes, Deploying, Cleaning
<1>15. CASE Kill
  <2>1. /\ pc # "ended" /\ pc' \in {"ended", "load"}
        /\ last' \in BOOLEAN /\ ~green'
    <3>1. pc # "ended"
      BY <1>15 DEF Kill
    <3>2. CASE Exit(FALSE)
      BY <3>1, <3>2 DEF Exit, Goto
    <3>3. CASE Goto("ended") /\ UNCHANGED <<last, green>>
      BY <3>1, <3>3 DEF Goto, GivenBackInv
    <3> QED BY <1>15, <3>1, <3>2, <3>3 DEF Kill
  <2> QED BY <1>15, <2>1 DEF Kill, Exit, aws, disk, Labels, FileInv, AheadInv, GivenBackInv, Where, Covers, Owes, Deploying, Cleaning
<1>16. ASSUME NEW r \in Roles, Stopped(r) \/ OtherStart(r) PROVE JobInv'
  <2>1. /\ rule' = rule /\ file' = file /\ mem' = mem /\ then' = then /\ pc' = pc
        /\ todo' = todo /\ errors' = errors /\ last' = last /\ green' = green
        /\ node' \in [Roles -> {"stopped", "ours", "stopping", "others", "late"}]
    BY <1>16 DEF Stopped, OtherStart, disk
  <2>2. \A q \in Roles : node'[q] = "ours" => node[q] = "ours"
    BY <1>16 DEF Stopped, OtherStart
  <2>3. TypeOK' /\ FileInv'
    BY <2>1 DEF FileInv, Where, Deploying, Cleaning
  <2>4. AheadInv' /\ GivenBackInv'
    BY <2>1, <2>2 DEF AheadInv, GivenBackInv, Where, Covers, Owes
  <2> QED BY <2>3, <2>4
<1>17. CASE UNCHANGED vars
  BY <1>17 DEF vars, aws, disk, FileInv, AheadInv, GivenBackInv, Where, Covers, Owes, Deploying, Cleaning
<1> QED
  BY <1>1, <1>2, <1>3, <1>4, <1>5, <1>6, <1>7, <1>8, <1>9, <1>10, <1>11, <1>12, <1>13,
     <1>14, <1>15, <1>16, <1>17
     DEF Next, Deploy, Cleanup

\* What a step does to the nodes, to what names them, and to the process.
LEMMA AloneStep ==
  ASSUME JobInv, AloneInv, [Next]_vars
  PROVE  AloneInv'
<1> USE DEF JobInv, TypeOK
<1> DEFINE Named == mem.started \/ (file \in StateType /\ file.started)
<1> DEFINE Taken == \E r \in Roles : node[r] = "others"
<1>1. CASE Describe
  <2>1. pc = "describe" /\ mem = Empty /\ file = mem /\ node' = node
    BY <1>1 DEF Describe, FileInv, Where, aws
  <2>2. CASE \A r \in Roles : node[r] = "stopped"
    BY <2>1, <2>2 DEF AloneInv
  <2>3. CASE Exit(FALSE) /\ UNCHANGED disk
    BY <2>1, <2>3, EmptyState DEF disk, AloneInv
  <2> QED BY <1>1, <2>2, <2>3 DEF Describe
<1>2. CASE StartNodes
  <2>1. /\ pc = "start" /\ mem' = mem /\ file' = file
        /\ \A r \in Roles : node'[r] = "others" => node[r] = "others"
    BY <1>2 DEF StartNodes, disk
  <2> QED BY <2>1 DEF AloneInv
<1>3. CASE StopNodes
  <2>1. /\ pc = "revoke" /\ mem' = mem /\ file' = file
        /\ \A r \in Roles : node'[r] = "others" => node[r] = "others"
    BY <1>3 DEF StopNodes, disk
  <2> QED BY <2>1 DEF AloneInv
<1>4. ASSUME NEW r \in Roles, Stopped(r) PROVE AloneInv'
  <2>1. /\ pc' = pc /\ mem' = mem /\ file' = file
        /\ \A q \in Roles : node'[q] = "others" => node[q] = "others"
    BY <1>4 DEF Stopped, disk
  <2> QED BY <2>1 DEF AloneInv
<1>5. ASSUME NEW r \in Roles, OtherStart(r) PROVE AloneInv'
  <2>1. /\ pc' = pc /\ mem' = mem /\ file' = file
        /\ \A q \in Roles : node'[q] = "others" => node[q] = "others" \/ BeforeCheck \/ pc = "ended"
    BY <1>5 DEF OtherStart, disk
  <2>2. BeforeCheck => ~Named
    BY EmptyState DEF BeforeCheck, FileInv, Where
  <2> QED BY <2>1, <2>2 DEF AloneInv
<1>6. ASSUME node' = node, pc = "ended" => pc' = "ended", Named' => Named \/ pc' = "ended"
      PROVE  AloneInv'
  BY <1>6 DEF AloneInv
<1>7. CASE Write
  BY <1>6, <1>7 DEF Write, aws, FileInv, Goto
<1>8. CASE Begin
  BY <1>6, <1>8, EmptyState DEF Begin, Save, Goto, aws
<1>9. CASE Ready \/ Confirm \/ Leave \/ Kill
  <2>1. node' = node /\ mem' = mem /\ file' = file /\ pc # "ended"
    BY <1>9 DEF Ready, Confirm, Leave, Kill, aws, disk
  <2> QED BY <1>6, <2>1
<1>10. ASSUME NEW r \in Roles, Authorize(r) \/ Revoke(r) PROVE AloneInv'
  <2>1. node' = node /\ pc # "ended" /\ pc # "write"
    BY <1>10 DEF Authorize, Revoke
  <2>2. CASE UNCHANGED disk
    BY <1>6, <2>1, <2>2 DEF disk
  <2>3. CASE file' = Torn /\ mem' = [mem EXCEPT !.rules = @ \ {r}]
    <3>1. mem'.started = mem.started
      BY <2>3, StateFields, SetRules
    <3> QED BY <1>6, <2>1, <2>3, <3>1
  <2> QED BY <1>10, <2>2, <2>3 DEF Authorize, Revoke, Save, disk
<1>11. CASE Record
  <2>1. node' = node /\ pc # "ended"
    BY <1>11 DEF Record, aws
  <2>2. ASSUME NEW r \in todo, Save([mem EXCEPT !.rules = @ \cup {r}], "authorize")
        PROVE  AloneInv'
    <3>1. file' = Torn /\ mem' = [mem EXCEPT !.rules = mem.rules \cup {r}]
      BY <2>2 DEF Save
    <3>2. mem.rules \cup {r} \in SUBSET Roles
      BY StateFields
    <3>3. mem'.started = mem.started
      BY <3>1, <3>2, SetRules
    <3> QED BY <1>6, <2>1, <3>1, <3>3
  <2>3. CASE UNCHANGED disk
    BY <1>6, <2>1, <2>3 DEF disk
  <2> QED BY <1>11, <2>2, <2>3 DEF Record
<1>12. CASE Work
  BY <1>6, <1>12 DEF Work, Save, aws, disk
<1>13. CASE Load
  <2>1. node' = node /\ file' = file /\ pc # "ended" /\ mem' \in {mem, file}
    BY <1>13 DEF Load, aws
  <2>2. mem' = mem \/ file \in StateType
    BY <1>13 DEF Load
  <2> QED BY <1>6, <2>1, <2>2
<1>14. CASE Report
  <2>1. node' = node /\ pc # "ended" /\ file' = Torn
        /\ mem' = [mem EXCEPT !.complete = ~errors]
    BY <1>14 DEF Report, Save, aws
  <2>2. mem'.started = mem.started
    BY <2>1, SetComplete
  <2> QED BY <1>6, <2>1, <2>2
<1>15. CASE UNCHANGED vars
  BY <1>6, <1>15 DEF vars, aws, disk
<1> QED
  BY <1>1, <1>2, <1>3, <1>4, <1>5, <1>7, <1>8, <1>9, <1>10, <1>11, <1>12, <1>13, <1>14, <1>15
     DEF Next, Deploy, Cleanup

LEMMA NobodyStep ==
  ASSUME JobInv, AloneInv, [Next]_vars, NEW r \in Roles, node[r] = "others"
  PROVE  node'[r] = "others"
<1> USE DEF JobInv, TypeOK
<1>1. CASE StopNodes
  <2>1. ~mem.started
    BY <1>1 DEF StopNodes, AloneInv
  <2> QED BY <1>1, <2>1 DEF StopNodes
<1>2. CASE StartNodes
  BY <1>2 DEF StartNodes
<1>3. ASSUME NEW q \in Roles, Stopped(q) \/ OtherStart(q) PROVE node'[r] = "others"
  BY <1>3 DEF Stopped, OtherStart
<1>4. CASE node' = node
  BY <1>4
<1>5. ASSUME NEW q \in Roles, Authorize(q) \/ Revoke(q) PROVE node' = node
  BY <1>5 DEF Authorize, Revoke
<1>6. Write \/ Begin \/ Describe \/ Ready \/ Record \/ Work => node' = node
  BY DEF Write, Begin, Describe, Ready, Record, Work, aws
<1>7. Load \/ Confirm \/ Report \/ Leave \/ Kill \/ UNCHANGED vars => node' = node
  BY DEF Load, Confirm, Report, Leave, Kill, aws, vars
<1> QED BY <1>1, <1>2, <1>3, <1>4, <1>5, <1>6, <1>7 DEF Next, Deploy, Cleanup

-----------------------------------------------------------------------------
(* The inductive invariant: the state file is ahead of the account, and what  *)
(* cleanup has been through without an error has been given back.             *)
THEOREM JobInvariant ==
  Spec => []JobInv
<1>1. Init => JobInv
  BY JobInit
<1>2. JobInv /\ [Next]_vars => JobInv'
  BY JobStep
<1> QED BY <1>1, <1>2, PTL DEF Spec

(* Nodes, rules, state file and memory keep their types.                      *)
THEOREM JobTypes ==
  Spec => []TypeOK
<1>1. JobInv => TypeOK
  BY DEF JobInv
<1> QED BY <1>1, JobInvariant, PTL

(* Whatever fails, repeats or is cut short, a state file that can be read     *)
(* names every started node and every added rule.                             *)
THEOREM FileAhead ==
  Spec => []FileIsAhead
<1>1. JobInv => FileIsAhead
  BY DEF JobInv, FileInv, AheadInv, FileIsAhead, InFile, Covers, Owes, TypeOK
<1> QED BY <1>1, JobInvariant, PTL

(* cleanup_complete and a green last step are reported only when every node   *)
(* and every rule of the job has been given back, but for a rule that the job *)
(* was told is another's because its request was repeated.                    *)
THEOREM ReportSound ==
  Spec => []SuccessIsHonest
<1>1. JobInv => SuccessIsHonest
  BY DEF JobInv, GivenBackInv, SuccessIsHonest
<1> QED BY <1>1, JobInvariant, PTL

(* The job stops no node that somebody else was using when it looked, and     *)
(* none that they take outside the job; one taken after the check it may.     *)
THEOREM NobodyElseStopped ==
  Spec => NobodyInterrupted
<1>1. Init => JobInv /\ AloneInv
  BY JobInit
<1>2. JobInv /\ AloneInv /\ [Next]_vars => (JobInv /\ AloneInv)'
  BY JobStep, AloneStep
<1>3. JobInv /\ AloneInv /\ [Next]_vars
        => [\A r \in Roles : node[r] = "others" => node'[r] = "others"]_vars
  BY NobodyStep
<1> QED BY <1>1, <1>2, <1>3, PTL DEF Spec, NobodyInterrupted
===============================================================================
