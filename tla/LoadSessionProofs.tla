------------------------ MODULE LoadSessionProofs ------------------------
(***************************************************************************)
(* Safety of a load, for every number of clients, launches and connections.*)
(* The invariant says what each file proves about the processes: a started *)
(* load-state.json that all clients are ready and recorded, a complete     *)
(* load-done.json that they have ended.                                    *)
(***************************************************************************)
EXTENDS LoadSession, TLAPS

USE BoundsAssumption DEF Clients, Tags

TypeInv == TypeOK /\ (sup.pc # "gone" => tag \in Tags)

\* The supervisor's steps after its second write of load-state.json.
Marked == {"go", "wait", "finish", "finishing", "gone"}

\* A started state is of this load, of all of its clients, and final.
StateInv ==
  Started => /\ state.tag = tag /\ state.pids = Clients
             /\ Clients \subseteq ready /\ sup.pc \in Marked

\* Clients that the supervisor has not started do not exist.
SpawnInv ==
  /\ sup.pc = "clear" => \A c \in Clients : client[c].pc = "none"
  /\ sup.pc = "spawn" => \A c \in Clients : c >= sup.at => client[c].pc = "none"

\* Past the readiness check all clients are ready.
ReadyInv ==
  sup.pc \in {"mark", "marking", "go", "wait", "finish", "finishing"}
    => Clients \subseteq ready

\* A launch that has answered has seen a started state.
UpInv ==
  /\ ctl.up => Started
  /\ ctl.pc \in {"loaded", "collecting", "reading"} => ctl.up

\* Those that the supervisor has waited for have ended.
WaitInv ==
  /\ sup.pc = "wait" => \A c \in Clients : c < sup.at => client[c].pc = "ended"
  /\ sup.pc \in {"finish", "finishing"} => \A c \in Clients : client[c].pc = "ended"

\* A complete load-done.json is written when supervisor and clients are done.
FinishInv ==
  Whole(finish) => /\ sup.pc = "gone"
                   /\ \A c \in Clients : /\ client[c].pc = "ended"
                                         /\ finish[c] = client[c].code

\* A client's file has all rows until load-collect takes it; what was taken
\* has all of them.
RowsInv ==
  /\ ctl.pc \in {"launching", "loaded", "collecting"}
       => ~report.ok /\ ctl.at = 1 /\ \A c \in Clients : client[c].file = client[c].made
  /\ ctl.pc = "reading" =>
       /\ ~report.ok /\ Whole(finish) /\ report.codes = finish
       /\ \A c \in Clients : IF c < ctl.at THEN report.rows[c] = client[c].made
                                           ELSE client[c].file = client[c].made
  /\ report.ok => /\ Whole(finish) /\ report.codes = finish
                  /\ \A c \in Clients : report.rows[c] = client[c].made

\* A try without a row is under way, or has cost the client its exit code.
Counted(r) ==
  /\ r.pc = "try" => r.tries = r.made + 1
  /\ r.pc \notin {"try", "ended"} => r.tries = r.made
  /\ r.pc = "ended" => r.tries = r.made \/ r.code # 0

TriesInv == \A c \in Clients : Counted(client[c])

\* After the clients' part of cleanup none of a launched load lives.
CleanInv ==
  ctl.pc \in {"cleaning", "cleaned"} /\ ctl.up => \A c \in Clients : ~Live(c)

LoadInv ==
  /\ TypeInv /\ StateInv /\ SpawnInv /\ ReadyInv /\ UpInv /\ WaitInv /\ FinishInv
  /\ RowsInv /\ TriesInv /\ CleanInv

----------------------------------------------------------------------------
\* One client's step changes that client only, which was alive; it appends a
\* row to the file when it counts one.
ClientOnly(c) ==
  /\ UNCHANGED <<ctl, tag, sup, report, state, finish, start, stop>>
  /\ ready \subseteq ready' /\ ready' \subseteq Clients
  /\ client' \in [Clients -> Client]
  /\ \A d \in Clients : d # c => client'[d] = client[d]
  /\ Live(c) /\ client'[c].pc # "none"
  /\ \/ client'[c].file = client[c].file /\ client'[c].made = client[c].made
     \/ client'[c].file = client[c].file + 1 /\ client'[c].made = client[c].made + 1
  /\ Counted(client[c]) => Counted(client'[c])

LEMMA ClientChange ==
  ASSUME TypeOK, NEW c \in Clients, ClientRuns(c) \/ TimeOut(c)
  PROVE  ClientOnly(c)
<1> DEFINE r == client[c]
<1>0. /\ client \in [Clients -> Client] /\ r \in Client
      /\ ready \subseteq Clients
  BY DEF TypeOK
<1>1. ASSUME NEW s \in Client, client' = [client EXCEPT ![c] = s],
             UNCHANGED <<ctl, tag, sup, report, state, finish, start, stop>>,
             ready' = ready \/ ready' = ready \cup {c},
             r.pc \notin {"none", "ended"}, s.pc # "none",
             \/ s.file = r.file /\ s.made = r.made
             \/ s.file = r.file + 1 /\ s.made = r.made + 1,
             Counted(r) => Counted(s)
      PROVE  ClientOnly(c)
  <2>1. client'[c] = s /\ \A d \in Clients : d # c => client'[d] = client[d]
    BY <1>0, <1>1
  <2> QED BY <1>0, <1>1, <2>1 DEF ClientOnly, Live
<1>a. UNCHANGED <<ctl, tag, sup, report>>
  BY DEF ClientRuns, TimeOut
<1>2. CASE ClientReady(c)
  <2> DEFINE s == [r EXCEPT !.pc = "wait"]
  <2>1. s \in Client /\ (Counted(r) => Counted(s))
    BY <1>0, <1>2 DEF ClientReady, Client, Codes, Counted
  <2>2. /\ r.pc \notin {"none", "ended"} /\ s.pc # "none"
        /\ s.file = r.file /\ s.made = r.made
    BY <1>0, <1>2 DEF ClientReady, Client
  <2>3. client' = [client EXCEPT ![c] = s]
    BY <1>2 DEF ClientReady
  <2>4. UNCHANGED <<state, finish, start, stop>> /\ (ready' = ready \/ ready' = ready \cup {c})
    BY <1>2 DEF ClientReady, files
  <2> HIDE DEF s
  <2> QED BY <1>1, <1>a, <2>1, <2>2, <2>3, <2>4
<1>3. CASE ClientInitFails(c)
  <2> DEFINE s == [r EXCEPT !.pc = "ended", !.code = 2]
  <2>1. s \in Client /\ (Counted(r) => Counted(s))
    BY <1>0, <1>3 DEF ClientInitFails, ClientEnds, Client, Codes, Counted
  <2>2. /\ r.pc \notin {"none", "ended"} /\ s.pc # "none"
        /\ s.file = r.file /\ s.made = r.made
    BY <1>0, <1>3 DEF ClientInitFails, ClientEnds, Client
  <2>3. client' = [client EXCEPT ![c] = s]
    BY <1>3 DEF ClientInitFails, ClientEnds
  <2>4. UNCHANGED <<state, finish, start, stop>> /\ (ready' = ready \/ ready' = ready \cup {c})
    BY <1>3 DEF ClientInitFails, ClientEnds, files
  <2> HIDE DEF s
  <2> QED BY <1>1, <1>a, <2>1, <2>2, <2>3, <2>4
<1>4. CASE ClientBegin(c)
  <2> DEFINE s == [r EXCEPT !.pc = "top"]
  <2>1. s \in Client /\ (Counted(r) => Counted(s))
    BY <1>0, <1>4 DEF ClientBegin, ClientTo, Client, Codes, Counted
  <2>2. /\ r.pc \notin {"none", "ended"} /\ s.pc # "none"
        /\ s.file = r.file /\ s.made = r.made
    BY <1>0, <1>4 DEF ClientBegin, ClientTo, Client
  <2>3. client' = [client EXCEPT ![c] = s]
    BY <1>4 DEF ClientBegin, ClientTo
  <2>4. UNCHANGED <<state, finish, start, stop>> /\ (ready' = ready \/ ready' = ready \cup {c})
    BY <1>4 DEF ClientBegin, ClientTo, files
  <2> HIDE DEF s
  <2> QED BY <1>1, <1>a, <2>1, <2>2, <2>3, <2>4
<1>5. CASE ClientTry(c)
  <2> DEFINE s == [r EXCEPT !.pc = "try", !.tries = @ + 1]
  <2>1. s \in Client /\ (Counted(r) => Counted(s))
    BY <1>0, <1>5 DEF ClientTry, Client, Codes, Counted
  <2>2. /\ r.pc \notin {"none", "ended"} /\ s.pc # "none"
        /\ s.file = r.file /\ s.made = r.made
    BY <1>0, <1>5 DEF ClientTry, Client
  <2>3. client' = [client EXCEPT ![c] = s]
    BY <1>5 DEF ClientTry
  <2>4. UNCHANGED <<state, finish, start, stop>> /\ (ready' = ready \/ ready' = ready \cup {c})
    BY <1>5 DEF ClientTry, files
  <2> HIDE DEF s
  <2> QED BY <1>1, <1>a, <2>1, <2>2, <2>3, <2>4
<1>6. CASE ClientDies(c)
  <2> DEFINE s == [r EXCEPT !.pc = "ended", !.code = 2]
  <2>0. s \in Client /\ s.pc = "ended" /\ s.code = 2
    BY <1>0 DEF Client, Codes
  <2>1. s \in Client /\ (Counted(r) => Counted(s))
    BY <2>0 DEF Counted
  <2>2. /\ r.pc \notin {"none", "ended"} /\ s.pc # "none"
        /\ s.file = r.file /\ s.made = r.made
    BY <1>0, <1>6 DEF ClientDies, ClientEnds, Client
  <2>3. client' = [client EXCEPT ![c] = s]
    BY <1>6 DEF ClientDies, ClientEnds
  <2>4. UNCHANGED <<state, finish, start, stop>> /\ (ready' = ready \/ ready' = ready \cup {c})
    BY <1>6 DEF ClientDies, ClientEnds, files
  <2> HIDE DEF s
  <2> QED BY <1>1, <1>a, <2>1, <2>2, <2>3, <2>4
<1>7. CASE ClientLeave(c)
  <2> DEFINE s == [r EXCEPT !.pc = "ended", !.code = r.code]
  <2>1. s \in Client /\ (Counted(r) => Counted(s))
    BY <1>0, <1>7 DEF ClientLeave, ClientEnds, Client, Codes, Counted
  <2>2. /\ r.pc \notin {"none", "ended"} /\ s.pc # "none"
        /\ s.file = r.file /\ s.made = r.made
    BY <1>0, <1>7 DEF ClientLeave, ClientEnds, Client
  <2>3. client' = [client EXCEPT ![c] = s]
    BY <1>7 DEF ClientLeave, ClientEnds
  <2>4. UNCHANGED <<state, finish, start, stop>> /\ (ready' = ready \/ ready' = ready \cup {c})
    BY <1>7 DEF ClientLeave, ClientEnds, files
  <2> HIDE DEF s
  <2> QED BY <1>1, <1>a, <2>1, <2>2, <2>3, <2>4
<1>8. CASE ClientAlarm(c)
  <2> DEFINE s == [r EXCEPT !.pc = "ended", !.code = 14]
  <2>1. s \in Client /\ (Counted(r) => Counted(s))
    BY <1>0, <1>8 DEF ClientAlarm, ClientEnds, Client, Codes, Counted
  <2>2. /\ r.pc \notin {"none", "ended"} /\ s.pc # "none"
        /\ s.file = r.file /\ s.made = r.made
    BY <1>0, <1>8 DEF ClientAlarm, ClientEnds, Client
  <2>3. client' = [client EXCEPT ![c] = s]
    BY <1>8 DEF ClientAlarm, ClientEnds
  <2>4. UNCHANGED <<state, finish, start, stop>> /\ (ready' = ready \/ ready' = ready \cup {c})
    BY <1>8 DEF ClientAlarm, ClientEnds, files
  <2> HIDE DEF s
  <2> QED BY <1>1, <1>a, <2>1, <2>2, <2>3, <2>4
<1>9. CASE ClientDue(c)
  <2> DEFINE s == [r EXCEPT !.due = TRUE]
  <2>1. s \in Client /\ (Counted(r) => Counted(s))
    BY <1>0, <1>9 DEF ClientDue, Client, Codes, Counted
  <2>2. /\ r.pc \notin {"none", "ended"} /\ s.pc # "none"
        /\ s.file = r.file /\ s.made = r.made
    BY <1>0, <1>9 DEF ClientDue, Client
  <2>3. client' = [client EXCEPT ![c] = s]
    BY <1>9 DEF ClientDue
  <2>4. UNCHANGED <<state, finish, start, stop>> /\ (ready' = ready \/ ready' = ready \cup {c})
    BY <1>9 DEF ClientDue, files
  <2> HIDE DEF s
  <2> QED BY <1>1, <1>a, <2>1, <2>2, <2>3, <2>4
<1>10. CASE ClientRow(c)
  <2>1. PICK ok \in BOOLEAN :
          client' = [client EXCEPT ![c].pc = "top", ![c].code = IF ok THEN @ ELSE 1,
                                   ![c].made = @ + 1, ![c].file = @ + 1]
    BY <1>10 DEF ClientRow
  <2> DEFINE s == [r EXCEPT !.pc = "top", !.code = IF ok THEN @ ELSE 1,
                            !.made = @ + 1, !.file = @ + 1]
  <2>2. s \in Client /\ (Counted(r) => Counted(s))
    BY <1>0, <1>10 DEF ClientRow, Client, Codes, Counted
  <2>3. /\ r.pc \notin {"none", "ended"} /\ s.pc # "none"
        /\ s.file = r.file + 1 /\ s.made = r.made + 1
    BY <1>0, <1>10 DEF ClientRow, Client
  <2>4. client' = [client EXCEPT ![c] = s]
    BY <2>1
  <2>5. UNCHANGED <<state, finish, start, stop, ready>>
    BY <1>10 DEF ClientRow, files
  <2> HIDE DEF s
  <2> QED BY <1>1, <1>a, <2>2, <2>3, <2>4, <2>5
<1> QED
  BY <1>2, <1>3, <1>4, <1>5, <1>6, <1>7, <1>8, <1>9, <1>10 DEF ClientRuns, ClientSteps, TimeOut
LEMMA ClientStep ==
  ASSUME LoadInv, NEW c \in Clients, ClientRuns(c) \/ TimeOut(c)
  PROVE  LoadInv'
<1>1. ClientOnly(c)
  BY ClientChange DEF LoadInv, TypeInv
<1>2. /\ UNCHANGED <<ctl, tag, sup, report, state, finish, start, stop>>
      /\ ready \subseteq ready' /\ ready' \subseteq Clients
      /\ client' \in [Clients -> Client] /\ client \in [Clients -> Client]
      /\ \A d \in Clients : d # c => client'[d] = client[d]
      /\ client[c].pc \notin {"none", "ended"} /\ client'[c].pc # "none"
      /\ \/ client'[c].file = client[c].file /\ client'[c].made = client[c].made
         \/ client'[c].file = client[c].file + 1 /\ client'[c].made = client[c].made + 1
  BY <1>1 DEF ClientOnly, Live, LoadInv, TypeInv, TypeOK
<1>3. /\ client[c].file \in Nat /\ client[c].made \in Nat
      /\ client[c].file = client[c].made => client'[c].file = client'[c].made
      /\ client[c].file <= client[c].made => client'[c].file <= client'[c].made
  <2>1. client[c] \in Client
    BY <1>2
  <2>2. client[c].file \in Nat /\ client[c].made \in Nat
    BY <2>1 DEF Client
  <2> QED BY <1>2, <2>2
<1>4. TypeInv'
  BY <1>2, <1>3 DEF LoadInv, TypeInv, TypeOK
<1>5. StateInv' /\ ReadyInv' /\ UpInv' /\ SpawnInv'
  BY <1>2 DEF LoadInv, StateInv, ReadyInv, UpInv, SpawnInv, Started, Whole
<1>6. WaitInv' /\ FinishInv'
  BY <1>2 DEF LoadInv, WaitInv, FinishInv, Whole
<1>7. ~Whole(finish)
  BY <1>2 DEF LoadInv, FinishInv
<1>8. RowsInv'
  BY <1>2, <1>3, <1>7 DEF LoadInv, RowsInv, Whole
<1>9. TriesInv'
  BY <1>1 DEF LoadInv, TriesInv, ClientOnly
<1>10. CleanInv'
  BY <1>2 DEF LoadInv, CleanInv, Live
<1> QED BY <1>4, <1>5, <1>6, <1>8, <1>9, <1>10 DEF LoadInv
----------------------------------------------------------------------------
\* The supervisor's steps.
LEMMA SupStep ==
  ASSUME LoadInv, Supervise \/ SupervisorFails
  PROVE  LoadInv'
<1> USE DEF LoadInv
<1>0. /\ TypeOK /\ UNCHANGED <<ctl, tag, report>>
      /\ sup.pc # "gone" /\ sup.at \in Clients
  BY DEF TypeInv, TypeOK, Supervise, SupervisorFails, SupTo, SupEach, SupClear, SupSpawn, SupTearState,
         SupRecord, SupAllReady, SupGivesUp, SupMark, SupGo, SupWait, SupTearFinish, SupFinish, SupFails
<1>1. ~Whole(finish) /\ ~report.ok /\ ctl.pc # "reading"
  BY <1>0 DEF FinishInv, RowsInv
<1>2. TriesInv' /\ CleanInv'
  <2>1. CASE SupSpawn
    <3>1. client' = [client EXCEPT ![sup.at].pc = "init"] /\ client[sup.at].pc = "none"
          /\ sup.pc = "spawn"
      BY <1>0, <2>1 DEF SupSpawn, SupEach, SpawnInv
    <3>2. client \in [Clients -> Client] /\ Counted(client[sup.at])
      BY <1>0 DEF TypeOK, TriesInv
    <3>3. ~ctl.up
      BY <1>0, <3>1 DEF UpInv, StateInv, Marked
    <3>4. client[sup.at] \in Client
      BY <1>0, <3>2
    <3>5. Counted([client[sup.at] EXCEPT !.pc = "init"])
      BY <3>1, <3>2, <3>4 DEF Counted, Client
    <3>6. \A d \in Clients : client'[d] = IF d = sup.at THEN [client[d] EXCEPT !.pc = "init"]
                                                        ELSE client[d]
      BY <3>1, <3>2
    <3>7. TriesInv'
      BY <3>5, <3>6 DEF TriesInv
    <3> QED BY <1>0, <3>3, <3>7 DEF CleanInv
  <2>2. CASE client' = client
    BY <1>0, <2>2 DEF TriesInv, CleanInv, Live
  <2> QED
    BY <2>1, <2>2 DEF Supervise, SupervisorFails, SupClear, SupTearState, Writes, SupRecord, SupAllReady,
       SupGivesUp, SupMark, SupGo, SupWait, SupTearFinish, SupFinish, SupFails
\* The steps that write no file: supervisor and clients go on.
<1>3. ASSUME UNCHANGED <<client, ready, finish, state>>,
             start' \subseteq Tags, stop' \subseteq Tags,
             sup' \in [pc : {"gone", "spawn", "await", "mark", "wait", "finish"}, at : Clients],
             sup'.pc = "spawn" => sup.pc = "clear" /\ sup'.at = 1,
             sup'.pc = "mark" => Clients \subseteq ready,
             sup.pc \in {"go", "wait"} <=> sup'.pc \in {"wait", "finish"} \/ sup.pc = "wait",
             sup'.pc \notin {"gone", "wait", "finish"} => sup.pc \notin Marked,
             WaitInv'
      PROVE  LoadInv'
  <2>1. TypeInv'
    BY <1>0, <1>3 DEF TypeInv, TypeOK
  <2>2. StateInv' /\ SpawnInv' /\ ReadyInv' /\ UpInv'
    BY <1>0, <1>3 DEF StateInv, SpawnInv, ReadyInv, UpInv, Started, Whole, Marked
  <2>3. FinishInv' /\ RowsInv'
    BY <1>0, <1>1, <1>3 DEF FinishInv, RowsInv, Whole
  <2> QED BY <1>2, <1>3, <2>1, <2>2, <2>3
<1>4. CASE SupClear \/ SupAllReady \/ SupGivesUp \/ SupFails \/ SupGo
  <2>1. /\ sup' \in [pc : {"gone", "spawn", "mark", "wait"}, at : Clients]
        /\ UNCHANGED <<client, ready, finish, state>>
    BY <1>4 DEF SupClear, SupAllReady, SupGivesUp, SupFails, SupGo, SupTo, files
  <2>2. start' \subseteq Tags /\ stop' \subseteq Tags
    BY <1>0, <1>4 DEF SupClear, SupAllReady, SupGivesUp, SupFails, SupGo, SupTo, files, TypeInv, TypeOK
  <2>3. /\ sup'.pc = "spawn" => sup.pc = "clear" /\ sup'.at = 1
        /\ sup'.pc = "mark" => Clients \subseteq ready
        /\ sup.pc \in {"go", "wait"} <=> sup'.pc \in {"wait", "finish"} \/ sup.pc = "wait"
        /\ sup'.pc \notin {"gone", "wait", "finish"} => sup.pc \notin Marked
        /\ sup'.pc = "wait" => sup'.at = 1
    BY <1>4 DEF SupClear, SupAllReady, SupGivesUp, SupFails, SupGo, SupTo, AllReady, Marked
  <2>4. WaitInv'
    BY <2>1, <2>3 DEF WaitInv
  <2> QED BY <1>3, <2>1, <2>2, <2>3, <2>4
<1>5. CASE SupWait
  <2>1. /\ sup.pc = "wait" /\ client[sup.at].pc = "ended"
        /\ sup' = IF sup.at = Concurrency THEN [pc |-> "finish", at |-> 1]
                                          ELSE [sup EXCEPT !.at = @ + 1]
        /\ UNCHANGED <<client, state, finish, ready, start, stop>>
    BY <1>5 DEF SupWait, SupEach, files
  <2>2. \A c \in Clients : c <= sup.at => client[c].pc = "ended"
    BY <1>0, <2>1 DEF WaitInv
  <2>3. sup \in [pc : {"wait"}, at : Clients]
    BY <1>0, <2>1 DEF TypeOK
  <2>4. sup' \in [pc : {"wait", "finish"}, at : Clients] /\ WaitInv'
    <3>1. CASE sup.at = Concurrency
      BY <2>1, <2>2, <3>1 DEF WaitInv
    <3>2. CASE sup.at # Concurrency
      <4>1. sup' = [pc |-> "wait", at |-> sup.at + 1]
        BY <2>1, <2>3, <3>2
      <4>2. sup.at + 1 \in Clients
        BY <1>0, <3>2
      <4>3. \A c \in Clients : c < sup.at + 1 => client[c].pc = "ended"
        BY <1>0, <2>2
      <4> QED BY <2>1, <4>1, <4>2, <4>3 DEF WaitInv
    <3> QED BY <3>1, <3>2
  <2> QED BY <1>0, <1>3, <2>1, <2>4 DEF TypeOK, Marked
\* A client is started.
<1>6. CASE SupSpawn
  <2>1. /\ sup.pc = "spawn"
        /\ client' = [client EXCEPT ![sup.at].pc = "init"]
        /\ sup' = IF sup.at = Concurrency THEN [pc |-> "record", at |-> 1]
                                          ELSE [sup EXCEPT !.at = @ + 1]
        /\ UNCHANGED <<state, finish, ready, start, stop>>
    BY <1>6 DEF SupSpawn, SupEach, files
  <2>2. sup \in [pc : {"spawn"}, at : Clients] /\ client \in [Clients -> Client]
    BY <1>0, <2>1 DEF TypeOK
  <2>3. sup' \in [pc : {"spawn", "record"}, at : Clients]
        /\ (sup'.pc = "spawn" => sup'.at = sup.at + 1)
    <3>1. CASE sup.at = Concurrency
      BY <2>1, <3>1
    <3>2. CASE sup.at # Concurrency
      <4>1. sup' = [pc |-> "spawn", at |-> sup.at + 1]
        BY <2>1, <2>2, <3>2
      <4> QED BY <1>0, <3>2, <4>1
    <3> QED BY <3>1, <3>2
  <2>4. \A d \in Clients : /\ client'[d] \in Client
                           /\ client'[d].file = client[d].file /\ client'[d].made = client[d].made
                           /\ d # sup.at => client'[d] = client[d]
    BY <2>1, <2>2 DEF Client
  <2>5. client' \in [Clients -> Client]
    BY <2>1, <2>2, <2>4
  <2>6. TypeInv'
    BY <1>0, <2>1, <2>3, <2>4, <2>5 DEF TypeInv, TypeOK
  <2>7. StateInv' /\ ReadyInv' /\ UpInv'
    BY <1>0, <2>1, <2>3 DEF StateInv, ReadyInv, UpInv, Started, Whole, Marked
  <2>8. SpawnInv'
    BY <1>0, <2>1, <2>3, <2>4 DEF SpawnInv
  <2>9. WaitInv' /\ FinishInv' /\ RowsInv'
    BY <1>0, <1>1, <2>1, <2>3, <2>4 DEF WaitInv, FinishInv, RowsInv, Whole
  <2> QED BY <1>2, <2>6, <2>7, <2>8, <2>9
\* load-state.json is written, which no launch that has answered can see.
<1>7. CASE SupTearState \/ SupRecord \/ SupMark
  <2>1. /\ sup.pc \in {"record", "mark", "recording", "marking"}
        /\ sup' \in [pc : {"recording", "marking", "await", "go"}, at : Clients]
        /\ sup'.pc \in {"marking", "go"} => sup.pc \in {"mark", "marking"}
        /\ UNCHANGED <<client, finish, ready, start, stop>>
    BY <1>7 DEF SupTearState, SupRecord, SupMark, SupTo, Writes
  <2>2. \/ state' = Torn
        \/ state' = [tag |-> tag, pids |-> Clients, started |-> FALSE]
        \/ state' = [tag |-> tag, pids |-> Clients, started |-> TRUE] /\ sup'.pc = "go"
           /\ sup.pc = "marking"
    BY <1>7 DEF SupTearState, SupRecord, SupMark, SupTo, Writes
  <2>3. ~ctl.up
    BY <2>1 DEF UpInv, StateInv, Marked
  <2>4. TypeInv'
    <3>1. tag \in Tags
      BY <2>1 DEF TypeInv
    <3>2. state' \in State \cup {None, Torn}
      <4>1. [tag |-> tag, pids |-> Clients, started |-> TRUE] \in State
        BY <3>1, Zenon DEF State
      <4>2. [tag |-> tag, pids |-> Clients, started |-> FALSE] \in State
        BY <3>1, Zenon DEF State
      <4> QED BY <2>2, <4>1, <4>2
    <3> QED BY <1>0, <2>1, <3>1, <3>2 DEF TypeInv, TypeOK
  <2>5. StateInv'
    <3>1. CASE state' = Torn
      BY <3>1 DEF StateInv, Started, Whole
    <3>2. CASE state' = [tag |-> tag, pids |-> Clients, started |-> FALSE]
      BY <3>2 DEF StateInv, Started, Whole
    <3>3. CASE state' = [tag |-> tag, pids |-> Clients, started |-> TRUE] /\ sup'.pc = "go"
               /\ sup.pc = "marking"
      BY <1>0, <2>1, <3>3 DEF StateInv, ReadyInv, Marked
    <3> QED BY <2>2, <3>1, <3>2, <3>3
  <2>6. ReadyInv' /\ UpInv' /\ SpawnInv' /\ WaitInv'
    BY <1>0, <2>1, <2>3 DEF ReadyInv, UpInv, SpawnInv, WaitInv
  <2>7. FinishInv' /\ RowsInv'
    BY <1>0, <1>1, <2>1 DEF FinishInv, RowsInv, Whole
  <2> QED BY <1>2, <2>4, <2>5, <2>6, <2>7
\* load-done.json is written, when all clients have ended.
<1>8. CASE SupTearFinish \/ SupFinish
  <2>1. /\ sup.pc \in {"finish", "finishing"}
        /\ sup' \in [pc : {"finishing", "gone"}, at : Clients]
        /\ UNCHANGED <<client, state, ready, start, stop>>
        /\ finish' = Torn \/ (sup'.pc = "gone" /\ finish' = [c \in Clients |-> client[c].code])
    BY <1>8 DEF SupTearFinish, SupFinish, SupTo
  <2>2. \A c \in Clients : client[c].pc = "ended" /\ client[c].code \in Codes
    BY <1>0, <2>1 DEF WaitInv, TypeOK, Client
  <2>3. finish' \in Finish \cup {None, Torn}
    BY <2>1, <2>2 DEF Finish
  <2>4. TypeInv'
    BY <1>0, <2>1, <2>3 DEF TypeInv, TypeOK
  <2>5. StateInv' /\ ReadyInv' /\ UpInv' /\ SpawnInv' /\ WaitInv'
    BY <1>0, <2>1, <2>2 DEF StateInv, ReadyInv, UpInv, SpawnInv, WaitInv, Started, Whole, Marked
  <2>6. FinishInv'
    BY <2>1, <2>2 DEF FinishInv, Whole
  <2>7. RowsInv'
    BY <1>0, <1>1, <2>1 DEF RowsInv
  <2> QED BY <1>2, <2>4, <2>5, <2>6, <2>7
<1> QED BY <1>4, <1>5, <1>6, <1>7, <1>8 DEF Supervise, SupervisorFails
----------------------------------------------------------------------------
\* The controller's commands.
LEMMA CommandStep ==
  ASSUME LoadInv, Command
  PROVE  LoadInv'
<1> USE DEF LoadInv
<1>0. TypeOK
  BY DEF TypeInv
\* The steps that only move the controller on.
<1>1. ASSUME UNCHANGED <<tag, sup, client, files, report>>,
             ctl' \in [pc : {"loaded", "collecting", "reading", "failed", "cleaning", "uncleaned"},
                       at : Clients, up : BOOLEAN],
             ctl'.up => Started,
             ctl'.pc \in {"loaded", "collecting", "reading"} => ctl'.up,
             ctl'.pc \in {"loaded", "collecting"} => ctl.pc \in {"launching", "loaded"},
             ctl'.pc # "reading", ctl'.at = ctl.at,
             ctl'.pc = "cleaning" => ~ctl'.up
      PROVE  LoadInv'
  <2>1. UNCHANGED <<tag, sup, client, state, finish, ready, start, stop, report>>
    BY <1>1 DEF files
  <2>2. TypeInv' /\ UpInv' /\ CleanInv'
    BY <1>0, <1>1, <2>1 DEF TypeInv, TypeOK, UpInv, CleanInv, Started, Whole
  <2>3. StateInv' /\ SpawnInv' /\ ReadyInv' /\ WaitInv' /\ TriesInv'
    BY <2>1 DEF StateInv, SpawnInv, ReadyInv, WaitInv, TriesInv, Started, Whole
  <2>4. FinishInv' /\ RowsInv'
    BY <1>1, <2>1 DEF FinishInv, RowsInv, Whole
  <2> QED BY <2>2, <2>3, <2>4
<1>2. CASE Launch
  <2>1. /\ tag' = tag + 1 /\ tag < MaxLoads
        /\ ctl' = [pc |-> "launching", at |-> 1, up |-> FALSE]
        /\ sup' = [pc |-> "clear", at |-> 1]
        /\ state' = None /\ finish' = None /\ ready' = {}
        /\ client' = Unborn /\ report' = NoReport
        /\ UNCHANGED <<start, stop>>
    BY <1>2 DEF Launch
  <2>2. \A c \in Clients : client'[c] = [pc |-> "none", due |-> FALSE, tries |-> 0, made |-> 0,
                                        file |-> 0, code |-> 0]
    BY <2>1 DEF Unborn
  <2>3. client' \in [Clients -> Client]
    BY <2>1 DEF Unborn, Client, Codes
  <2>4. report' \in Report /\ ~report'.ok
    BY <2>1 DEF NoReport, Report, Codes
  <2>5. TypeInv'
    <3>1. ctl' \in [pc : {"launching"}, at : Clients, up : BOOLEAN]
          /\ sup' \in [pc : {"clear"}, at : Clients]
      BY <2>1
    <3>2. tag' \in Tags
      BY <1>0, <2>1 DEF TypeOK
    <3>3. \A c \in Clients : client'[c].file <= client'[c].made
      BY <2>2
    <3> QED BY <1>0, <2>1, <2>3, <2>4, <3>1, <3>2, <3>3 DEF TypeInv, TypeOK
  <2>6. StateInv' /\ SpawnInv' /\ ReadyInv' /\ UpInv' /\ WaitInv'
    BY <2>1, <2>2 DEF StateInv, SpawnInv, ReadyInv, UpInv, WaitInv, Started, Whole
  <2>7. FinishInv' /\ RowsInv' /\ TriesInv' /\ CleanInv'
    BY <2>1, <2>2, <2>4 DEF FinishInv, RowsInv, TriesInv, Counted, CleanInv, Whole
  <2> QED BY <2>5, <2>6, <2>7
<1>3. CASE LaunchAnswers
  <2>1. ctl.pc = "launching" /\ Started /\ UNCHANGED <<tag, sup, client, files, report>>
        /\ ctl' = [ctl EXCEPT !.pc = "loaded", !.up = TRUE]
    BY <1>3 DEF LaunchAnswers
  <2>2. ctl' = [pc |-> "loaded", at |-> ctl.at, up |-> TRUE] /\ ctl.at \in Clients
    BY <1>0, <2>1 DEF TypeOK
  <2>3. /\ ctl' \in [pc : {"loaded"}, at : Clients, up : BOOLEAN]
        /\ ctl'.pc = "loaded" /\ ctl'.at = ctl.at
    BY <2>2
  <2> QED BY <1>1, <2>1, <2>3
<1>4. CASE LaunchFails \/ CollectFails \/ CollectMissing \/ CleanupNoClients \/ CleanupFails
  <2>1. /\ UNCHANGED <<tag, sup, client, files, report>>
        /\ \/ ctl' = [ctl EXCEPT !.pc = "failed"]
           \/ ctl' = [ctl EXCEPT !.pc = "cleaning"] /\ state = None
           \/ ctl' = [ctl EXCEPT !.pc = "uncleaned"]
    BY <1>4 DEF LaunchFails, CollectFails, CollectMissing, CleanupNoClients, CleanupFails, Answer
  <2>2. ctl' \in [pc : {"failed", "cleaning", "uncleaned"}, at : Clients, up : BOOLEAN]
        /\ ctl'.up = ctl.up /\ (ctl'.pc = "cleaning" => state = None)
    BY <1>0, <2>1 DEF TypeOK
  <2>3. (ctl.up => Started) /\ (state = None => ~ctl.up)
    BY DEF UpInv, Started, Whole
  <2> QED BY <1>1, <2>1, <2>2, <2>3
\* load-collect.
<1>5. CASE Collect
  <2>1. /\ ctl.pc = "loaded" /\ ctl' = [ctl EXCEPT !.pc = "collecting"]
        /\ stop' = stop \/ stop' = stop \cup {state.tag}
        /\ UNCHANGED <<tag, sup, client, state, finish, ready, start, report>>
    BY <1>5 DEF Collect
  <2>2. ctl' \in [pc : {"collecting"}, at : Clients, up : BOOLEAN] /\ ctl'.up /\ ctl.up /\ ctl'.at = ctl.at
    BY <1>0, <2>1 DEF TypeOK, UpInv
  <2>3. TypeInv'
    <3>1. state.tag \in Tags
      BY <1>0, <2>2 DEF UpInv, Started, Whole, TypeOK, State
    <3> QED BY <1>0, <2>1, <2>2, <3>1 DEF TypeInv, TypeOK
  <2>4. StateInv' /\ SpawnInv' /\ ReadyInv' /\ UpInv' /\ WaitInv'
    BY <2>1, <2>2 DEF StateInv, SpawnInv, ReadyInv, UpInv, WaitInv, Started, Whole
  <2>5. FinishInv' /\ RowsInv' /\ TriesInv' /\ CleanInv'
    BY <2>1, <2>2 DEF FinishInv, RowsInv, TriesInv, CleanInv, Whole
  <2> QED BY <2>3, <2>4, <2>5
<1>6. CASE CollectCodes
  <2>1. /\ ctl.pc = "collecting" /\ Whole(finish)
        /\ ctl' = [ctl EXCEPT !.pc = "reading"]
        /\ report' = [report EXCEPT !.codes = finish]
        /\ UNCHANGED <<tag, sup, client, state, finish, ready, start, stop>>
    BY <1>6 DEF CollectCodes, files
  <2>2. ctl' \in [pc : {"reading"}, at : Clients, up : BOOLEAN] /\ ctl'.up /\ ctl.up /\ ctl'.at = ctl.at
    BY <1>0, <2>1 DEF TypeOK, UpInv
  <2>3. report' \in Report /\ report'.codes = finish /\ ~report'.ok
    <3>1. report \in Report /\ ~report.ok /\ finish \in Finish
      BY <1>0, <2>1 DEF TypeOK, RowsInv, Whole
    <3> QED BY <2>1, <3>1 DEF Report, Finish
  <2>4. TypeInv'
    BY <1>0, <2>1, <2>2, <2>3 DEF TypeInv, TypeOK
  <2>5. RowsInv'
    <3>1. \A c \in Clients : client[c].file = client[c].made /\ ~(c < ctl.at)
      BY <2>1 DEF RowsInv
    <3> QED BY <2>1, <2>2, <2>3, <3>1 DEF RowsInv, Whole
  <2>6. StateInv' /\ SpawnInv' /\ ReadyInv' /\ UpInv' /\ WaitInv'
    BY <2>1, <2>2 DEF StateInv, SpawnInv, ReadyInv, UpInv, WaitInv, Started, Whole
  <2>7. FinishInv' /\ TriesInv' /\ CleanInv'
    BY <2>1, <2>2 DEF FinishInv, TriesInv, CleanInv, Whole
  <2> QED BY <2>4, <2>5, <2>6, <2>7
<1>7. CASE CollectRows
  <2> DEFINE c == ctl.at
  <2>1. /\ ctl.pc = "reading"
        /\ ctl' = IF c = Concurrency THEN [ctl EXCEPT !.pc = "ready", !.at = 1]
                                     ELSE [ctl EXCEPT !.at = c + 1]
        /\ report' = [report EXCEPT !.rows[c] = client[c].file, !.ok = (c = Concurrency)]
        /\ client' = [client EXCEPT ![c].file = 0]
        /\ UNCHANGED <<tag, sup, state, finish, ready, start, stop>>
    BY <1>7 DEF CollectRows, files
  <2>2. /\ ctl \in [pc : {"reading"}, at : Clients, up : BOOLEAN] /\ c \in Clients
        /\ client \in [Clients -> Client] /\ report \in Report
    BY <1>0, <2>1 DEF TypeOK
  <2>3. /\ ctl' \in [pc : {"ready", "reading"}, at : Clients, up : BOOLEAN]
        /\ ctl'.up = ctl.up
        /\ c = Concurrency => ctl'.pc = "ready"
        /\ c # Concurrency => ctl'.pc = "reading" /\ ctl'.at = c + 1
    <3>1. CASE c = Concurrency
      <4>1. ctl' = [ctl EXCEPT !.pc = "ready", !.at = 1]
        BY <2>1, <3>1
      <4>2. ctl' = [pc |-> "ready", at |-> 1, up |-> ctl.up]
        BY <2>2, <4>1
      <4>3. 1 \in Clients
        OBVIOUS
      <4> HIDE DEF Clients
      <4> QED BY <2>2, <3>1, <4>2, <4>3
    <3>2. CASE c # Concurrency
      <4>1. c + 1 \in Clients
        BY <2>2, <3>2
      <4>2. ctl' = [pc |-> "reading", at |-> c + 1, up |-> ctl.up]
        BY <2>1, <2>2, <3>2
      <4> QED BY <2>2, <3>2, <4>1, <4>2
    <3> QED BY <3>1, <3>2
  <2>4. \A d \in Clients : /\ client'[d] \in Client
                           /\ client'[d].made = client[d].made
                           /\ client'[d].pc = client[d].pc /\ client'[d].code = client[d].code
                           /\ Counted(client[d]) => Counted(client'[d])
                           /\ d # c => client'[d] = client[d]
    BY <2>1, <2>2 DEF Client, Counted
  <2>5. client'[c].file = 0 /\ client[c].file \in Nat /\ client[c].made \in Nat
    <3>1. client[c] \in Client
      BY <2>2
    <3> QED BY <2>1, <2>2, <3>1 DEF Client
  <2>6. client' \in [Clients -> Client]
    BY <2>1, <2>2, <2>4
  <2>7. /\ report' = [ok |-> (c = Concurrency), codes |-> report.codes,
                      rows |-> [report.rows EXCEPT ![c] = client[c].file]]
        /\ report.rows \in [Clients -> Nat] /\ report.codes \in [Clients -> Codes]
    BY <2>1, <2>2 DEF Report
  <2>8. /\ report' \in Report /\ report'.ok = (c = Concurrency) /\ report'.codes = report.codes
        /\ report'.rows[c] = client[c].file
        /\ \A d \in Clients : d # c => report'.rows[d] = report.rows[d]
    BY <2>2, <2>5, <2>7 DEF Report
  <2>9. TypeInv'
    <3>1. \A d \in Clients : client'[d].file <= client'[d].made
      BY <1>0, <2>4, <2>5 DEF TypeOK
    <3> QED BY <1>0, <2>1, <2>3, <2>6, <2>8, <3>1 DEF TypeInv, TypeOK
  <2>10. RowsInv'
    <3>1. /\ Whole(finish) /\ report.codes = finish
          /\ \A d \in Clients : IF d < c THEN report.rows[d] = client[d].made
                                          ELSE client[d].file = client[d].made
      BY <2>1 DEF RowsInv
    <3>2. \A d \in Clients : d <= c => report'.rows[d] = client'[d].made
      BY <2>2, <2>4, <2>8, <3>1
    <3>3. \A d \in Clients : ~(d <= c) => client'[d].file = client'[d].made
      BY <2>2, <2>4, <3>1
    <3>4. CASE c = Concurrency
      BY <2>1, <2>3, <2>8, <3>1, <3>2, <3>4 DEF RowsInv, Whole
    <3>5. CASE c # Concurrency
      <4>1. \A d \in Clients : d < c + 1 <=> d <= c
        BY <2>2
      <4> QED BY <2>1, <2>3, <2>8, <3>1, <3>2, <3>3, <3>5, <4>1 DEF RowsInv, Whole
    <3> QED BY <3>4, <3>5
  <2>11. StateInv' /\ SpawnInv' /\ ReadyInv' /\ UpInv' /\ WaitInv'
    BY <2>1, <2>3, <2>4 DEF StateInv, SpawnInv, ReadyInv, UpInv, WaitInv, Started, Whole
  <2>12. FinishInv' /\ TriesInv' /\ CleanInv'
    BY <2>1, <2>3, <2>4 DEF FinishInv, TriesInv, CleanInv, Whole
  <2> QED BY <2>9, <2>10, <2>11, <2>12
\* cleanup.
<1>8. CASE CleanupClients
  <2>1. /\ ctl.pc \in MayClean /\ Whole(state)
        /\ ctl' = [ctl EXCEPT !.pc = "cleaning"]
        /\ stop' = stop \cup {state.tag}
        /\ client' = [c \in Clients |-> IF c \in state.pids /\ Live(c)
                                        THEN [client[c] EXCEPT !.pc = "ended", !.code = 15]
                                        ELSE client[c]]
        /\ UNCHANGED <<tag, sup, state, finish, ready, start, report>>
    BY <1>8 DEF CleanupClients
  <2>2. /\ ctl' \in [pc : {"cleaning"}, at : Clients, up : BOOLEAN] /\ ctl'.up = ctl.up
        /\ client \in [Clients -> Client]
    BY <1>0, <2>1 DEF TypeOK
  <2>3. ASSUME NEW r \in Client
        PROVE  LET k == [r EXCEPT !.pc = "ended", !.code = 15]
               IN  k \in Client /\ k.pc = "ended" /\ k.code = 15 /\ k.file = r.file /\ k.made = r.made
    BY <2>3 DEF Client, Codes
  <2>4. ASSUME NEW c \in Clients
        PROVE  /\ client'[c] \in Client
               /\ client'[c].file = client[c].file /\ client'[c].made = client[c].made
               /\ ~Live(c) => client'[c] = client[c]
               /\ client'[c] # client[c] => client'[c].pc = "ended"
               /\ Live(c) /\ c \in state.pids => client'[c].pc = "ended"
               /\ Counted(client[c]) => Counted(client'[c])
    <3>1. client[c] \in Client
      BY <2>2
    <3>2. CASE c \in state.pids /\ Live(c)
      <4>1. client'[c] = [client[c] EXCEPT !.pc = "ended", !.code = 15]
        BY <2>1, <3>2
      <4>2. /\ client'[c] \in Client /\ client'[c].pc = "ended" /\ client'[c].code = 15
            /\ client'[c].file = client[c].file /\ client'[c].made = client[c].made
        BY <2>3, <3>1, <4>1
      <4> QED BY <3>2, <4>2 DEF Counted
    <3>3. CASE ~(c \in state.pids /\ Live(c))
      BY <2>1, <3>1, <3>3
    <3> QED BY <3>2, <3>3
  <2>5. client' \in [Clients -> Client]
    BY <2>1, <2>4
  <2>6. TypeInv'
    <3>1. state.tag \in Tags
      BY <1>0, <2>1 DEF Whole, TypeOK, State
    <3> QED BY <1>0, <2>1, <2>2, <2>4, <2>5, <3>1 DEF TypeInv, TypeOK
  <2>7. StateInv' /\ ReadyInv' /\ UpInv'
    BY <2>1, <2>2 DEF StateInv, ReadyInv, UpInv, Started, Whole
  <2>8. SpawnInv' /\ WaitInv' /\ FinishInv'
    BY <2>1, <2>4 DEF SpawnInv, WaitInv, FinishInv, Live, Whole
  <2>9. RowsInv' /\ TriesInv'
    BY <2>1, <2>2, <2>4 DEF RowsInv, TriesInv, Whole
  <2>10. CleanInv'
    BY <2>1, <2>2, <2>4 DEF CleanInv, UpInv, StateInv, Live
  <2> QED BY <2>6, <2>7, <2>8, <2>9, <2>10
<1>9. CASE CleanupSupervisor
  <2>1. /\ ctl.pc = "cleaning" /\ ctl' = [ctl EXCEPT !.pc = "cleaned"]
        /\ sup' = [pc |-> "gone", at |-> 1]
        /\ UNCHANGED <<tag, client, state, finish, ready, start, stop, report>>
    BY <1>9 DEF CleanupSupervisor, files
  <2>2. ctl' \in [pc : {"cleaned"}, at : Clients, up : BOOLEAN] /\ ctl'.up = ctl.up
    BY <1>0, <2>1 DEF TypeOK
  <2>3. TypeInv'
    BY <1>0, <2>1, <2>2 DEF TypeInv, TypeOK
  <2>4. StateInv' /\ SpawnInv' /\ ReadyInv' /\ UpInv' /\ WaitInv'
    BY <2>1, <2>2 DEF StateInv, SpawnInv, ReadyInv, UpInv, WaitInv, Started, Whole, Marked
  <2>5. FinishInv' /\ RowsInv' /\ TriesInv' /\ CleanInv'
    BY <2>1, <2>2 DEF FinishInv, RowsInv, TriesInv, CleanInv, Live, Whole
  <2> QED BY <2>3, <2>4, <2>5
<1> QED BY <1>2, <1>3, <1>4, <1>5, <1>6, <1>7, <1>8, <1>9 DEF Command
----------------------------------------------------------------------------
LEMMA LoadInit == Init => LoadInv
<1> SUFFICES ASSUME Init PROVE LoadInv
  OBVIOUS
<1>1. /\ ctl = [pc |-> "ready", at |-> 1, up |-> FALSE] /\ tag = 0
      /\ sup = [pc |-> "gone", at |-> 1] /\ client = Unborn
      /\ state = None /\ finish = None /\ ready = {} /\ start = {} /\ stop = {}
      /\ report = NoReport
  BY DEF Init
<1>2. \A c \in Clients : client[c] = [pc |-> "none", due |-> FALSE, tries |-> 0, made |-> 0,
                                     file |-> 0, code |-> 0]
  BY <1>1 DEF Unborn
<1>3. client \in [Clients -> Client]
  BY <1>1 DEF Unborn, Client, Codes
<1>4. report \in Report /\ ~report.ok
  BY <1>1 DEF NoReport, Report, Codes
<1>5. TypeInv
  <2>1. \A c \in Clients : client[c].file <= client[c].made
    BY <1>2
  <2> QED BY <1>1, <1>3, <1>4, <2>1 DEF TypeInv, TypeOK
<1>6. StateInv /\ SpawnInv /\ ReadyInv /\ UpInv /\ WaitInv
  BY <1>1, <1>2 DEF StateInv, SpawnInv, ReadyInv, UpInv, WaitInv, Started, Whole
<1>7. FinishInv /\ RowsInv /\ TriesInv /\ CleanInv
  BY <1>1, <1>2, <1>4 DEF FinishInv, RowsInv, TriesInv, Counted, CleanInv, Whole
<1> QED BY <1>5, <1>6, <1>7 DEF LoadInv

LEMMA LoadStutter ==
  ASSUME LoadInv, UNCHANGED vars
  PROVE  LoadInv'
<1>1. UNCHANGED <<ctl, tag, sup, client, state, finish, ready, start, stop, report>>
  BY DEF vars, files
<1>2. TypeInv' /\ StateInv' /\ SpawnInv' /\ ReadyInv' /\ UpInv'
  BY <1>1 DEF LoadInv, TypeInv, TypeOK, StateInv, SpawnInv, ReadyInv, UpInv, Started, Whole
<1>3. WaitInv' /\ FinishInv' /\ RowsInv' /\ TriesInv' /\ CleanInv'
  BY <1>1 DEF LoadInv, WaitInv, FinishInv, RowsInv, TriesInv, CleanInv, Live, Whole
<1> QED BY <1>2, <1>3 DEF LoadInv

\* The invariant of a load holds in every reachable state.
THEOREM LoadInvariant == Spec => []LoadInv
<1>1. LoadInv /\ [Next]_vars => LoadInv'
  BY ClientStep, SupStep, CommandStep, LoadStutter DEF Next
<1> QED BY LoadInit, <1>1, PTL DEF Spec

\* The types, and at most one row for each connection.
THEOREM LoadTypes == Spec => []TypeOK
<1>1. LoadInv => TypeOK
  BY DEF LoadInv, TypeInv
<1> QED BY LoadInvariant, <1>1, PTL

\* After load-launch has answered, load-collect finds a complete load-state.json
\* of this load, and every client ready (systems_worker.py, load-launch).
THEOREM LoadedReady == Spec => []LoadedIsReady
<1>1. LoadInv => LoadedIsReady
  BY DEF LoadInv, UpInv, StateInv, LoadedIsReady, Started
<1> QED BY LoadInvariant, <1>1, PTL

\* What load-collect returns has all rows of clients that have all ended.
THEOREM CollectedComplete == Spec => []CollectedIsComplete
<1>1. LoadInv => CollectedIsComplete
  BY DEF LoadInv, FinishInv, RowsInv, CollectedIsComplete, Live
<1> QED BY LoadInvariant, <1>1, PTL

\* Exit codes that are all zero vouch for a row for each connection tried.
THEOREM NoLoss == Spec => []NoSilentLoss
<1>1. LoadInv => NoSilentLoss
  BY DEF LoadInv, FinishInv, RowsInv, TriesInv, Counted, NoSilentLoss
<1> QED BY LoadInvariant, <1>1, PTL

\* cleanup ends every client of a load that has been launched.
THEOREM CleanupEnds == Spec => []CleanupEndsLoad
<1>1. LoadInv => CleanupEndsLoad
  BY DEF LoadInv, CleanInv, CleanupEndsLoad
<1> QED BY LoadInvariant, <1>1, PTL
============================================================================
