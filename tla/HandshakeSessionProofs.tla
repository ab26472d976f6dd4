------------------------ MODULE HandshakeSessionProofs ------------------------
(***************************************************************************)
(* The rows a session compares belong together, cleanup ends every recorded  *)
(* server and a session fails only because of a fault, for any number of     *)
(* handshakes, sessions and faults.                                          *)
(***************************************************************************)
EXTENDS HandshakeSession, TLAPS

Early  == {"start", "record", "ready"}
Active == {"clients", "collect", "close"}

\* Connections the session has made so far.
Made == IF ctl.pc # "clients" THEN Count
        ELSE IF client = "none" THEN ctl.i - 1 ELSE ctl.i

\* Only the server of the current session may be alive.
OneServer ==
  /\ \A m \in Runs : m # ctl.n => ~ Alive(m)
  /\ \A m \in Runs : m > ctl.n \/ (m = ctl.n /\ ctl.pc = "start") =>
                       server[m] = [st |-> "none", took |-> 0]

\* pending.json names it as long as it may be alive.
Recorded ==
  /\ ctl.pc \in {"ready"} \cup Active => pending = ctl.n
  /\ ctl.pc \in Active => ctl.n \in ready
  /\ \A m \in ready : server[m].st \notin {"none", "starting"}
  /\ ctl.pc \in {"check", "finish"} => ~ Alive(ctl.n)
  /\ ctl.pc = "cleanup" => ~ Alive(ctl.n) \/ pending = ctl.n \/ "killed" \in faults
  /\ ctl.pc \in {"passed", "failed"} => ~ Alive(ctl.n) \/ "killed" \in faults

\* Only a server that listens or handles has connections waiting, and never more
\* than are left; before the clients start there is none.
Queue ==
  LET s == server[ctl.n]
  IN  /\ client # "none" => ctl.pc = "clients"
      /\ ctl.pc \in Early => /\ backlog = <<>> /\ s.took = 0
                             /\ s.st \notin {"handling", "closing"}
                             /\ ctl.i = 1 /\ ctl.cs = <<>>
      /\ s.st \notin {"listening", "handling"} /\ ctl.pc \notin {"passed", "failed"}
           => backlog = <<>>
      /\ s.st = "starting"  => s.took = 0 /\ backlog = <<>>
      /\ s.st = "listening" => s.took + Len(backlog) <= Count
      /\ s.st = "handling"  => /\ s.took \in Indices /\ Len(backlog) >= 1
                               /\ s.took - 1 + Len(backlog) <= Count

\* The server takes the connections of its session in their order.
Order ==
  ctl.pc \in Active =>
    LET s == server[ctl.n]
    IN  /\ \A j \in 1 .. Len(backlog) :
             backlog[j].n = ctl.n /\ backlog[j].i = Made - Len(backlog) + j
        /\ s.st = "listening" => Made = s.took + Len(backlog)
        /\ s.st = "handling"  => Made = s.took - 1 + Len(backlog)
        /\ s.st = "closing"   => Made = Count

\* Each file holds the row of its own connection.
RowsInOrder ==
  /\ \A t \in Runs, i \in Indices :
       t > ctl.n \/ (t = ctl.n /\ ctl.pc \in Early) => rows[t][i] = NoRow
  /\ ctl.pc \in Active => \A i \in Indices :
       rows[ctl.n][i] # NoRow => rows[ctl.n][i].n = ctl.n /\ rows[ctl.n][i].i = i
  /\ ctl.pc = "clients" => Len(ctl.cs) = ctl.i - 1
  /\ ctl.pc \in {"collect", "close", "check"} => Len(ctl.cs) = Count
  /\ ctl.pc \in Active \cup {"check"} =>
       \A j \in 1 .. Len(ctl.cs) : ctl.cs[j].n = ctl.n /\ ctl.cs[j].i = j
  /\ ctl.pc \in {"close", "check"} => \A i \in Indices :
       ctl.ss[i].whole /\ ctl.ss[i].n = ctl.n /\ ctl.ss[i].i = i

IInv == TypeOK /\ OneServer /\ Recorded /\ Queue /\ Order /\ RowsInOrder

-----------------------------------------------------------------------------
LEMMA Constants == Count \in Nat \ {0} /\ Sessions \in Nat \ {0}
BY BoundsAssumption

LEMMA RowTyped ==
  ASSUME NEW n \in Nat, NEW i \in Nat, NEW ok \in BOOLEAN
  PROVE  Row(n, i, ok) \in ARow /\ NoRow \in ARow
BY DEF Row, ARow, NoRow

LEMMA AtTyped ==
  ASSUME NEW pc \in Pcs, NEW n \in Runs
  PROVE  At(pc, n) \in CtlType
<1>1. <<>> \in Seq(ARow) /\ 1 \in Indices
  BY Constants DEF Indices
<1> QED BY <1>1 DEF At, CtlType, Pcs

\* A server that is alive is the current session's.
LEMMA TheServer ==
  ASSUME OneServer, NEW n \in Runs, Alive(n)
  PROVE  n = ctl.n
BY DEF OneServer

States == {"none", "starting", "listening", "handling", "closing", "dead", "clashed"}

LEMMA ServerChange ==
  ASSUME TypeOK, NEW n \in Runs, NEW st \in States, NEW took \in Indices \cup {0},
         server' = [server EXCEPT ![n] = [st |-> st, took |-> took]]
  PROVE  /\ server' \in [Runs -> [st : States, took : Indices \cup {0}]]
         /\ server'[n] = [st |-> st, took |-> took]
         /\ server'[n].st = st /\ server'[n].took = took
         /\ \A m \in Runs : m # n => server'[m] = server[m]
BY DEF TypeOK, States

LEMMA BecomeIs ==
  ASSUME TypeOK, NEW n \in Runs, NEW st, Become(n, st)
  PROVE  server' = [server EXCEPT ![n] = [st |-> st, took |-> server[n].took]]
<1> DEFINE r == [st |-> st, took |-> server[n].took]
<1>1. server[n] = [st |-> server[n].st, took |-> server[n].took]
  BY DEF TypeOK
<1>2. [server[n] EXCEPT !.st = st] = r
  BY <1>1
<1>3. server' = [server EXCEPT ![n] = [server[n] EXCEPT !.st = st]]
  BY DEF Become
<1> QED BY <1>2, <1>3

(* A step of the current session's server after its start, whatever else it   *)
(* changes, keeps it the only one, and keeps it recorded.                     *)
LEMMA ServerMoves ==
  ASSUME IInv, NEW n \in Runs, n = ctl.n, NEW st \in States \ {"none", "starting"},
         NEW took \in Indices \cup {0}, Alive(n),
         server' = [server EXCEPT ![n] = [st |-> st, took |-> took]],
         UNCHANGED <<ctl, pending>>, faults \subseteq faults',
         ready' \in {ready, ready \cup {n}}
  PROVE  OneServer' /\ Recorded'
<1>1. /\ server'[n].st = st
      /\ \A m \in Runs : m # n => server'[m] = server[m]
  BY ServerChange DEF IInv
<1>2. ctl.pc # "start"
  BY DEF IInv, OneServer, Alive
<1>3. OneServer'
  BY <1>1, <1>2 DEF IInv, OneServer, Alive
<1>4. ready \subseteq Runs /\ ready' \subseteq Runs
  BY DEF IInv, TypeOK
<1>5. \A m \in ready' : server'[m].st \notin {"none", "starting"}
  BY <1>1, <1>4 DEF IInv, Recorded
<1>6. ~ Alive(ctl.n) <=> FALSE
  OBVIOUS
<1>7. Recorded'
  BY <1>5, <1>6 DEF IInv, Recorded
<1> QED BY <1>3, <1>7

LEMMA MadeIs ==
  ASSUME TypeOK
  PROVE  Made \in Nat /\ Count \in Nat /\ Made <= Count
<1>1. ctl.i \in 1 .. Count /\ Count \in Nat \ {0}
  BY Constants DEF TypeOK, CtlType, Indices
<1> QED BY <1>1 DEF Made

(* Taking a connection: from listening to handling.                           *)
LEMMA AcceptStep ==
  ASSUME IInv, NEW n \in Runs, n = ctl.n, Accept(n)
  PROVE  IInv'
<1> DEFINE took == server[n].took
<1>1. /\ server[n].st = "listening" /\ backlog # <<>>
      /\ server' = [server EXCEPT ![n] = [st |-> "handling", took |-> took + 1]]
      /\ client' \in {client, "shaking"} /\ (client' = "none" <=> client = "none")
      /\ UNCHANGED <<ctl, pending, backlog, ready, rows, faults>>
  BY DEF Accept
<1>2. /\ took \in Nat /\ Count \in Nat \ {0} /\ backlog \in Seq(ARow)
      /\ Indices = 1 .. Count
  <2>1. backlog \in Seq(ARow) /\ Count \in Nat \ {0} /\ Indices = 1 .. Count
    BY Constants DEF IInv, TypeOK, Indices
  <2>2. took \in Indices \cup {0}
    BY DEF IInv, TypeOK
  <2> QED BY <2>1, <2>2
<1>3. Len(backlog) \in Nat /\ Len(backlog) >= 1
  BY <1>1, <1>2
<1>4. took + Len(backlog) <= Count
  BY <1>1 DEF IInv, Queue
<1>5. took + 1 \in Indices /\ took + 1 \in Indices \cup {0}
  BY <1>2, <1>3, <1>4
<1>6. /\ server' \in [Runs -> [st : States, took : Indices \cup {0}]]
      /\ server'[n].st = "handling" /\ server'[n].took = took + 1
  <2>1. "handling" \in States
    BY DEF States
  <2> HIDE DEF took
  <2> QED BY <1>1, <1>5, <2>1, ServerChange DEF IInv
<1>7. OneServer' /\ Recorded'
  <2>1. Alive(n) /\ "handling" \in States \ {"none", "starting"}
    BY <1>1 DEF Alive, States
  <2>2. UNCHANGED <<ctl, pending>> /\ faults \subseteq faults' /\ ready' \in {ready, ready \cup {n}}
    BY <1>1
  <2> HIDE DEF took
  <2> QED BY <1>1, <1>5, <2>1, <2>2, ServerMoves
<1>8. TypeOK'
  BY <1>1, <1>6 DEF TypeOK, States, IInv
<1>9. Made' = Made
  BY <1>1 DEF Made
<1>10. Queue'
  <2>1. took + 1 - 1 + Len(backlog) <= Count
    BY <1>2, <1>3, <1>4
  <2>2. ctl.pc \notin Early
    BY <1>1 DEF IInv, Queue
  <2>3. client' # "none" => ctl.pc = "clients"
    BY <1>1 DEF IInv, Queue
  <2> HIDE DEF took
  <2> QED BY <1>1, <1>2, <1>3, <1>5, <1>6, <2>1, <2>2, <2>3 DEF Queue
<1>11. Order'
  <2>1. ctl.pc \in Active => Made = took + 1 - 1 + Len(backlog)
    BY <1>1, <1>2, <1>3 DEF IInv, Order
  <2>2. ctl.pc \in Active => \A j \in 1 .. Len(backlog) :
          backlog[j].n = ctl.n /\ backlog[j].i = Made - Len(backlog) + j
    BY DEF IInv, Order
  <2> HIDE DEF took
  <2> QED BY <1>1, <1>2, <1>3, <1>6, <1>9, <2>1, <2>2 DEF Order
<1>12. RowsInOrder'
  BY <1>1 DEF RowsInOrder, IInv
<1> QED BY <1>7, <1>8, <1>10, <1>11, <1>12 DEF IInv

(* The row of the connection at the head of the backlog.                      *)
LEMMA ServerRowStep ==
  ASSUME IInv, NEW n \in Runs, n = ctl.n, ServerRow(n)
  PROVE  IInv'
<1> DEFINE row  == Row(Head(backlog).n, Head(backlog).i, Head(backlog).ok)
           took == server[n].took
           len  == Len(backlog)
<1>1. /\ server[n].st = "handling"
      /\ rows' = [rows EXCEPT ![n] = [rows[n] EXCEPT ![took] = row]] \/ rows' = rows
      /\ backlog' = Tail(backlog)
      /\ UNCHANGED <<ctl, pending, client, ready, faults>>
  BY DEF ServerRow, Tag
<1>2. /\ took \in Indices /\ took \in Indices \cup {0} /\ took \in Nat /\ len \in Nat
      /\ Count \in Nat /\ len >= 1 /\ took - 1 + len <= Count /\ backlog \in Seq(ARow)
  <2>1. backlog \in Seq(ARow) /\ Count \in Nat
    BY Constants DEF IInv, TypeOK
  <2>2. took \in Indices /\ len >= 1 /\ took - 1 + len <= Count
    BY <1>1 DEF IInv, Queue
  <2> QED BY <2>1, <2>2 DEF Indices
<1>3. /\ backlog[1] \in ARow /\ Head(backlog) = backlog[1]
      /\ backlog' \in Seq(ARow) /\ Len(backlog') = len - 1
      /\ \A j \in 1 .. Len(backlog') : backlog'[j] = backlog[j + 1]
  <2>1. backlog # <<>> /\ 1 \in 1 .. len
    BY <1>2
  <2> QED BY <1>1, <1>2, <2>1
<1>4. PICK st \in {"closing", "listening"} :
        Become(n, st) /\ (st = "closing" => took = Count) /\ (st = "listening" => took # Count)
  BY DEF ServerRow
<1>5. server' = [server EXCEPT ![n] = [st |-> st, took |-> took]]
  BY <1>4, BecomeIs DEF IInv
<1>6. st \in States \ {"none", "starting"} /\ st \in States
  BY DEF States
<1>7. /\ server' \in [Runs -> [st : States, took : Indices \cup {0}]]
      /\ server'[n].st = st /\ server'[n].took = took
  <2> HIDE DEF took
  <2> QED BY <1>2, <1>5, <1>6, ServerChange DEF IInv
<1>8. OneServer' /\ Recorded'
  <2>1. Alive(n)
    BY <1>1 DEF Alive
  <2>2. UNCHANGED <<ctl, pending>> /\ faults \subseteq faults' /\ ready' \in {ready, ready \cup {n}}
    BY <1>1
  <2> HIDE DEF took
  <2> QED BY <1>2, <1>5, <1>6, <2>1, <2>2, ServerMoves
<1>9. row \in ARow /\ row.n = backlog[1].n /\ row.i = backlog[1].i
  BY <1>3 DEF Row, ARow
<1> HIDE DEF row, took, len
<1>10. /\ rows' \in [Runs -> [Indices -> ARow]]
       /\ rows'[n][took] = row \/ rows' = rows
       /\ \A t \in Runs, i \in Indices : t # n \/ i # took => rows'[t][i] = rows[t][i]
  <2>1. rows \in [Runs -> [Indices -> ARow]]
    BY DEF IInv, TypeOK
  <2>2. CASE rows' = rows
    BY <2>1, <2>2
  <2>3. CASE rows' = [rows EXCEPT ![n] = [rows[n] EXCEPT ![took] = row]]
    BY <1>2, <1>9, <2>1, <2>3
  <2> QED BY <1>1, <2>2, <2>3
<1>11. TypeOK'
  BY <1>1, <1>3, <1>7, <1>10 DEF TypeOK, States, IInv
<1>12. Made' = Made /\ Made \in Nat /\ Made <= Count
  BY <1>1, MadeIs DEF Made, IInv
<1>13. ctl.pc \notin Early
  BY <1>1 DEF IInv, Queue
<1>14. st = "closing" => Len(backlog') = 0 /\ backlog' = <<>>
  <2>1. st = "closing" => Len(backlog') = 0
    BY <1>2, <1>3, <1>4
  <2> QED BY <1>3, <2>1
<1>15. st = "listening" => took + Len(backlog') <= Count
  BY <1>2, <1>3
<1>16. Queue'
  <2>1. client' # "none" => ctl'.pc = "clients"
    BY <1>1 DEF IInv, Queue
  <2> QED BY <1>1, <1>4, <1>7, <1>13, <1>14, <1>15, <2>1 DEF Queue
<1>17. ctl.pc \in Active =>
         /\ \A j \in 1 .. len :
              backlog[j].n = ctl.n /\ backlog[j].i = Made - len + j
         /\ Made = took - 1 + len
  BY <1>1 DEF IInv, Order, took, len
<1>18. ctl.pc \in Active => row.n = ctl.n /\ row.i = took
  <2> SUFFICES ASSUME ctl.pc \in Active PROVE row.n = ctl.n /\ row.i = took
    OBVIOUS
  <2>1. 1 \in 1 .. len
    BY <1>2
  <2>2. backlog[1].n = ctl.n /\ backlog[1].i = Made - len + 1
    BY <1>17, <2>1
  <2>3. Made - len + 1 = took
    BY <1>2, <1>12, <1>17
  <2> QED BY <1>9, <2>2, <2>3
<1>19. Order'
  <2> SUFFICES ASSUME ctl.pc \in Active
               PROVE  /\ \A j \in 1 .. Len(backlog') :
                           backlog'[j].n = ctl.n /\ backlog'[j].i = Made - Len(backlog') + j
                      /\ st = "listening" => Made = took + Len(backlog')
                      /\ st = "closing" => Made = Count
    BY <1>1, <1>4, <1>7, <1>12 DEF Order
  <2>1. ASSUME NEW j \in 1 .. Len(backlog')
        PROVE  backlog'[j].n = ctl.n /\ backlog'[j].i = Made - Len(backlog') + j
    <3>1. j + 1 \in 1 .. len /\ Made - len + (j + 1) = Made - Len(backlog') + j
      BY <1>2, <1>3, <1>12
    <3>2. backlog[j + 1].n = ctl.n /\ backlog[j + 1].i = Made - len + (j + 1)
      BY <1>17, <3>1
    <3> QED BY <1>3, <3>1, <3>2
  <2>2. Made = took + Len(backlog')
    BY <1>2, <1>3, <1>17
  <2>3. st = "closing" => Made = Count
    BY <1>2, <1>4, <1>14, <2>2
  <2> QED BY <2>1, <2>2, <2>3
<1>20. RowsInOrder'
  <2>1. \A t \in Runs, i \in Indices : t > ctl.n => rows'[t][i] = NoRow
    BY <1>10 DEF IInv, RowsInOrder, Runs
  <2>2. ctl.pc \in Active => \A i \in Indices :
          rows'[n][i] # NoRow => rows'[n][i].n = ctl.n /\ rows'[n][i].i = i
    BY <1>10, <1>18 DEF IInv, RowsInOrder
  <2> QED BY <1>1, <1>13, <2>1, <2>2 DEF IInv, RowsInOrder
<1> QED BY <1>8, <1>11, <1>16, <1>19, <1>20 DEF IInv

(* The end of a server, by itself or by a fault.                              *)
LEMMA ServerEnds ==
  ASSUME IInv, NEW n \in Runs, n = ctl.n, Alive(n),
         Exit(n) \/ AcceptTimeout(n) \/ ServerDies(n)
  PROVE  IInv'
<1>1. /\ Become(n, "dead") /\ UNCHANGED <<ctl, pending, ready, rows>>
      /\ faults \subseteq faults' /\ faults' \subseteq faults \cup {"late", "server"}
      /\ client' \in {client, "broken", "lost"} /\ (client' = "none" <=> client = "none")
  BY DEF Exit, AcceptTimeout, ServerDies, Fault
<1>2. backlog' = <<>> \/ (backlog' = backlog /\ ctl.pc \in {"passed", "failed"})
  BY DEF Exit, AcceptTimeout, ServerDies, IInv, Queue
<1> DEFINE took == server[n].took
<1>3. server' = [server EXCEPT ![n] = [st |-> "dead", took |-> took]]
  BY <1>1, BecomeIs DEF IInv
<1>4. took \in Indices \cup {0} /\ "dead" \in States \ {"none", "starting"} /\ "dead" \in States
  BY DEF IInv, TypeOK, States
<1> HIDE DEF took
<1>5. /\ server' \in [Runs -> [st : States, took : Indices \cup {0}]]
      /\ server'[n].st = "dead" /\ server'[n].took = took
  BY <1>3, <1>4, ServerChange DEF IInv
<1>6. OneServer' /\ Recorded'
  <2>1. UNCHANGED <<ctl, pending>> /\ ready' \in {ready, ready \cup {n}}
    BY <1>1
  <2> QED BY <1>1, <1>3, <1>4, <2>1, ServerMoves
<1>7. backlog' \in Seq(ARow)
  <2>1. <<>> \in Seq(ARow) /\ backlog \in Seq(ARow)
    BY DEF IInv, TypeOK
  <2> QED BY <1>2, <2>1
<1>8. TypeOK'
  BY <1>1, <1>5, <1>7 DEF TypeOK, States, IInv
<1>9. Queue'
  BY <1>1, <1>2, <1>5 DEF IInv, Queue, took, Early
<1>10. Order'
  <2>1. ctl.pc \in Active => backlog' = <<>>
    BY <1>2 DEF Active
  <2> QED BY <1>1, <1>5, <2>1 DEF Order
<1>11. RowsInOrder'
  BY <1>1 DEF RowsInOrder, IInv
<1> QED BY <1>6, <1>8, <1>9, <1>10, <1>11 DEF IInv

(* Bind: the port is free, the others having ended.                           *)
LEMMA BindStep ==
  ASSUME IInv, NEW n \in Runs, n = ctl.n, Bind(n)
  PROVE  IInv'
<1>1. server[n].st = "starting" /\ UNCHANGED <<ctl, pending, backlog, client, rows, faults>>
  BY DEF Bind
<1>2. PICK st \in {"listening", "clashed"} : Become(n, st)
  BY DEF Bind
<1> DEFINE took == server[n].took
<1>3. server' = [server EXCEPT ![n] = [st |-> st, took |-> took]]
  BY <1>2, BecomeIs DEF IInv
<1>4. took \in Indices \cup {0} /\ st \in States \ {"none", "starting"} /\ st \in States
  BY DEF IInv, TypeOK, States
<1> HIDE DEF took
<1>5. /\ server' \in [Runs -> [st : States, took : Indices \cup {0}]]
      /\ server'[n].st = st /\ server'[n].took = took
  BY <1>3, <1>4, ServerChange DEF IInv
<1>6. ready' \in {ready, ready \cup {n}}
  BY DEF Bind, Tag
<1>7. OneServer' /\ Recorded'
  <2>1. Alive(n)
    BY <1>1 DEF Alive
  <2>2. UNCHANGED <<ctl, pending>> /\ faults \subseteq faults'
    BY <1>1
  <2> QED BY <1>3, <1>4, <1>6, <2>1, <2>2, ServerMoves
<1>8. TypeOK'
  BY <1>1, <1>5, <1>6 DEF TypeOK, States, IInv
<1>9. Queue'
  <2>1. took = 0 /\ Len(backlog) \in Nat /\ Count \in Nat
    BY <1>1, Constants DEF IInv, Queue, TypeOK, took
  <2>2. backlog = <<>> /\ Len(backlog) = 0
    BY <1>1 DEF IInv, Queue
  <2>3. (ctl.pc \in Early) => ctl.i = 1 /\ ctl.cs = <<>>
    BY DEF IInv, Queue
  <2>4. client # "none" => ctl.pc = "clients"
    BY DEF IInv, Queue
  <2> QED BY <1>1, <1>5, <2>1, <2>2, <2>3, <2>4 DEF Queue
<1>10. ctl.pc \notin Active
  BY <1>1 DEF IInv, Recorded
<1>11. Order'
  BY <1>1, <1>10 DEF Order
<1>12. RowsInOrder'
  BY <1>1 DEF RowsInOrder, IInv
<1> QED BY <1>7, <1>8, <1>9, <1>11, <1>12 DEF IInv

LEMMA ServerStep ==
  ASSUME IInv, NEW n \in Runs, Serve(n) \/ ServerDies(n)
  PROVE  IInv'
<1>1. Alive(n)
  BY DEF Serve, Bind, Accept, ServerRow, Exit, AcceptTimeout, ServerDies, Alive
<1>2. n = ctl.n
  BY <1>1, TheServer DEF IInv
<1> QED BY <1>1, <1>2, BindStep, AcceptStep, ServerRowStep, ServerEnds DEF Serve

-----------------------------------------------------------------------------
(* The controller's and the client's steps.                                   *)

LEMMA FailIs ==
  ASSUME IInv, Fail
  PROVE  /\ ctl' \in CtlType /\ ctl'.pc = "cleanup" /\ ctl'.n = ctl.n
<1>1. ctl.n \in Runs
  BY DEF IInv, TypeOK, CtlType
<1>2. At("cleanup", ctl.n) \in CtlType
  <2>1. "cleanup" \in Pcs
    BY DEF Pcs
  <2> QED BY <1>1, <2>1, AtTyped
<1> QED BY <1>2 DEF Fail, At

(* The run fails while the server is recorded, dead, or its worker killed.    *)
LEMMA FailStep ==
  ASSUME IInv, Fail, client' = "none", ctl.pc \notin {"start", "passed", "failed"},
         ~ Alive(ctl.n) \/ pending = ctl.n \/ "killed" \in faults',
         faults \subseteq faults', faults' \subseteq faults \cup {"slow", "killed"},
         UNCHANGED <<pending, server, backlog, ready, rows>>
  PROVE  IInv'
<1>1. ctl' \in CtlType /\ ctl'.pc = "cleanup" /\ ctl'.n = ctl.n
  BY FailIs
<1>2. TypeOK'
  BY <1>1 DEF IInv, TypeOK, CtlType, Pcs
<1>3. OneServer'
  BY <1>1 DEF IInv, OneServer, Alive
<1>4. Recorded'
  BY <1>1 DEF IInv, Recorded, Active, Alive
<1>5. Queue'
  BY <1>1 DEF IInv, Queue, Early
<1>6. Order'
  BY <1>1 DEF Order, Active
<1>7. RowsInOrder'
  BY <1>1 DEF IInv, RowsInOrder, Early, Active
<1> QED BY <1>2, <1>3, <1>4, <1>5, <1>6, <1>7 DEF IInv

LEMMA SpawnStep == ASSUME IInv, Spawn PROVE IInv'
<1> DEFINE n == ctl.n
<1>1. /\ ctl.pc = "start" /\ n \in Runs /\ Become(n, "starting")
      /\ ctl' = [ctl EXCEPT !.pc = "record"]
      /\ UNCHANGED <<pending, backlog, client, ready, rows, faults>>
  BY DEF Spawn, IInv, TypeOK, CtlType
<1>2. ctl' \in CtlType /\ ctl'.pc = "record" /\ ctl'.n = n /\ ctl'.i = ctl.i /\ ctl'.cs = ctl.cs
  BY <1>1 DEF IInv, TypeOK, CtlType, Pcs
<1>3. server[n] = [st |-> "none", took |-> 0]
  BY <1>1 DEF IInv, OneServer
<1>4. server' = [server EXCEPT ![n] = [st |-> "starting", took |-> server[n].took]]
  BY <1>1, BecomeIs DEF IInv
<1>5. server' = [server EXCEPT ![n] = [st |-> "starting", took |-> 0]]
  BY <1>3, <1>4
<1>6. /\ server' \in [Runs -> [st : States, took : Indices \cup {0}]]
      /\ server'[n].st = "starting" /\ server'[n].took = 0
      /\ \A m \in Runs : m # n => server'[m] = server[m]
  BY <1>1, <1>5, ServerChange DEF IInv, States
<1>7. n \notin ready /\ ready \subseteq Runs
  BY <1>3 DEF IInv, Recorded, TypeOK
<1>8. TypeOK'
  BY <1>1, <1>2, <1>6 DEF IInv, TypeOK, CtlType, States
<1>9. OneServer'
  BY <1>1, <1>2, <1>6 DEF IInv, OneServer, Alive, Runs
<1>10. Recorded'
  BY <1>1, <1>2, <1>6, <1>7 DEF IInv, Recorded, Active
<1>11. backlog = <<>> /\ client = "none" /\ ctl.i = 1 /\ ctl.cs = <<>>
  BY <1>1 DEF IInv, Queue, Early
<1>12. Queue'
  BY <1>1, <1>2, <1>6, <1>11 DEF Queue
<1>13. Order'
  BY <1>2 DEF Order, Active
<1>14. RowsInOrder'
  BY <1>1, <1>2 DEF IInv, RowsInOrder, Early, Active
<1> QED BY <1>8, <1>9, <1>10, <1>12, <1>13, <1>14 DEF IInv

LEMMA RecordStep == ASSUME IInv, RecordPending PROVE IInv'
<1>1. /\ ctl.pc = "record" /\ pending' = ctl.n
      /\ UNCHANGED <<server, backlog, client, ready, rows, faults>>
  BY DEF RecordPending
<1>2. ctl' \in CtlType /\ ctl'.pc = "ready" /\ ctl'.n = ctl.n /\ ctl'.i = ctl.i /\ ctl'.cs = ctl.cs
  BY DEF RecordPending, IInv, TypeOK, CtlType, Pcs
<1>3. TypeOK'
  BY <1>1, <1>2 DEF IInv, TypeOK, CtlType, Pcs
<1>4. OneServer'
  BY <1>1, <1>2 DEF IInv, OneServer, Alive
<1>5. Recorded'
  BY <1>1, <1>2 DEF IInv, Recorded, Active
<1>6. Queue'
  BY <1>1, <1>2 DEF IInv, Queue, Early
<1>7. Order'
  BY <1>2 DEF Order, Active
<1>8. RowsInOrder'
  BY <1>1, <1>2 DEF IInv, RowsInOrder, Early, Active
<1> QED BY <1>3, <1>4, <1>5, <1>6, <1>7, <1>8 DEF IInv

LEMMA AwaitReadyStep == ASSUME IInv, AwaitReady PROVE IInv'
<1>1. /\ ctl.pc = "ready" /\ UNCHANGED <<pending, server, backlog, client, ready, rows>>
      /\ faults \subseteq faults' /\ faults' \subseteq faults \cup {"slow"}
  BY DEF AwaitReady, Fault
<1>2. backlog = <<>> /\ client = "none" /\ ctl.i = 1 /\ ctl.cs = <<>> /\ server[ctl.n].took = 0
      /\ server[ctl.n].st \notin {"handling", "closing"}
  BY <1>1 DEF IInv, Queue, Early
<1>3. CASE Fail
  <2>1. pending = ctl.n
    BY <1>1 DEF IInv, Recorded
  <2> QED BY <1>1, <1>2, <1>3, <2>1, FailStep
<1>4. CASE ctl' = [ctl EXCEPT !.pc = "clients"] /\ ctl.n \in ready
  <2>1. /\ ctl' \in CtlType /\ ctl'.pc = "clients" /\ ctl'.n = ctl.n
        /\ ctl'.i = 1 /\ ctl'.cs = <<>>
    BY <1>2, <1>4 DEF IInv, TypeOK, CtlType, Pcs
  <2>2. TypeOK'
    BY <1>1, <2>1 DEF IInv, TypeOK, CtlType, Pcs
  <2>3. OneServer'
    BY <1>1, <2>1 DEF IInv, OneServer, Alive
  <2>4. Recorded'
    BY <1>1, <1>4, <2>1 DEF IInv, Recorded, Active
  <2>5. Queue'
    BY <1>1, <1>2, <2>1 DEF IInv, Queue, Early
  <2>6. Made' = 0 /\ Len(backlog') = 0
    BY <1>1, <1>2, <2>1 DEF Made
  <2>7. Order'
    BY <1>1, <1>2, <2>1, <2>6 DEF Order
  <2>8. \A i \in Indices : rows[ctl.n][i] = NoRow
    BY <1>1 DEF IInv, RowsInOrder, Early, TypeOK, CtlType
  <2>9. RowsInOrder'
    <3>1. Len(ctl'.cs) = 0 /\ Len(ctl'.cs) = ctl'.i - 1
      BY <2>1
    <3> QED BY <1>1, <2>1, <2>8, <3>1 DEF IInv, RowsInOrder, Early
  <2> QED BY <2>2, <2>3, <2>4, <2>5, <2>7, <2>9 DEF IInv
<1> QED BY <1>3, <1>4 DEF AwaitReady, Tag

(* Some server holds the port: it is the session's, and not closing, since the *)
(* session still has connections to make.                                     *)
LEMMA ConnectStep == ASSUME IInv, Connect PROVE IInv'
<1>1. /\ ctl.pc = "clients" /\ client = "none"
      /\ UNCHANGED <<pending, server, ready, rows, faults>>
  BY DEF Connect
<1>2. CASE PortClosed /\ Fail /\ UNCHANGED <<backlog, client>>
  <2>1. ctl.n \in Runs /\ ctl.n \in ready
    BY <1>1 DEF IInv, TypeOK, CtlType, Recorded, Active
  <2>2. ~ Alive(ctl.n)
    BY <1>2, <2>1 DEF PortClosed, Holding, Alive, IInv, Recorded
  <2> QED BY <1>1, <1>2, <2>2, FailStep
<1>3. CASE /\ ~ PortClosed /\ client' = "sent" /\ UNCHANGED ctl
           /\ backlog' = Append(backlog, Row(ctl.n, ctl.i, TRUE))
  <2> DEFINE row == Row(ctl.n, ctl.i, TRUE)
             len == Len(backlog)
             s   == server[ctl.n]
  <2>1. PICK m \in Runs : Holding(m)
    BY <1>3 DEF PortClosed
  <2>2. m = ctl.n
    BY <2>1, TheServer DEF Holding, Alive, IInv
  <2>3. ctl.n \in Nat /\ ctl.i \in Nat /\ ctl.i \in 1 .. Count /\ Count \in Nat
    BY Constants DEF IInv, TypeOK, CtlType, Indices, Runs
  <2>4. Made = ctl.i - 1 /\ Made' = ctl.i
    BY <1>1, <1>3 DEF Made
  <2>5. row \in ARow /\ row.n = ctl.n /\ row.i = ctl.i
    BY <2>3 DEF Row, ARow
  <2> HIDE DEF row
  <2>6. /\ backlog \in Seq(ARow) /\ len \in Nat /\ backlog' \in Seq(ARow)
        /\ Len(backlog') = len + 1 /\ backlog'[len + 1] = row
        /\ \A j \in 1 .. len : backlog'[j] = backlog[j]
    <3>1. backlog \in Seq(ARow) /\ backlog' = Append(backlog, row)
      BY <1>3 DEF IInv, TypeOK, row
    <3> HIDE DEF len
    <3>2. len \in Nat /\ len = Len(backlog)
      BY <3>1 DEF len
    <3> QED BY <2>5, <3>1, <3>2
  <2>7. /\ s.st = "listening" => Made = s.took + len
        /\ s.st = "handling"  => Made = s.took - 1 + len
        /\ s.st = "closing"   => Made = Count
        /\ \A j \in 1 .. len : backlog[j].n = ctl.n /\ backlog[j].i = Made - len + j
    BY <1>1 DEF IInv, Order, Active
  <2>8. s.took \in Nat
    <3>1. s \in [st : States, took : Indices \cup {0}]
      BY DEF IInv, TypeOK, CtlType, States
    <3> QED BY <3>1 DEF Indices
  <2>9. s.st \in {"listening", "handling"}
    BY <2>1, <2>2, <2>3, <2>4, <2>7 DEF Holding
  <2>10. /\ s.st = "listening" => Made' = s.took + Len(backlog')
         /\ s.st = "handling"  => Made' = s.took - 1 + Len(backlog')
    <3> HIDE DEF s, len
    <3>1. PICK took : took = s.took
      OBVIOUS
    <3>2. took \in Nat /\ Made' = Made + 1 /\ Made \in Int
      BY <2>3, <2>4, <2>8, <3>1
    <3>3. CASE s.st = "listening"
      <4>1. Made = took + len
        BY <2>7, <3>1, <3>3
      <4>2. Made' = took + (len + 1)
        BY <2>6, <3>2, <4>1
      <4> QED BY <2>6, <3>1, <3>3, <4>2
    <3>4. CASE s.st = "handling"
      <4>1. Made = took - 1 + len
        BY <2>7, <3>1, <3>4
      <4>2. Made' = took - 1 + (len + 1)
        BY <2>6, <3>2, <4>1
      <4> QED BY <2>6, <3>1, <3>4, <4>2
    <3> QED BY <2>9, <3>3, <3>4
  <2>11. TypeOK'
    BY <1>1, <1>3, <2>6 DEF IInv, TypeOK, CtlType
  <2>12. OneServer' /\ Recorded'
    <3>1. UNCHANGED <<ctl, pending, server, ready, faults>>
      BY <1>1, <1>3
    <3> QED BY <3>1 DEF IInv, OneServer, Recorded, Alive
  <2>13. s.st = "handling" => s.took \in Indices
    BY DEF IInv, Queue
  <2> HIDE DEF s, len
  <2>14. /\ s.st = "listening" => s.took + Len(backlog') <= Count
         /\ s.st = "handling"  => Len(backlog') >= 1 /\ s.took - 1 + Len(backlog') <= Count
    BY <2>3, <2>4, <2>6, <2>10
  <2>15. server'[ctl'.n] = s /\ ctl'.pc = "clients"
    BY <1>1, <1>3 DEF s
  <2>16. Queue'
    BY <2>9, <2>13, <2>14, <2>15 DEF Queue, Early
  <2>17. ASSUME NEW j \in 1 .. Len(backlog')
         PROVE  backlog'[j].n = ctl.n /\ backlog'[j].i = Made' - Len(backlog') + j
    <3>1. CASE j = len + 1
      BY <2>3, <2>4, <2>5, <2>6, <3>1
    <3>2. CASE j # len + 1
      <4>1. j \in 1 .. len /\ Made' - Len(backlog') + j = Made - len + j
        BY <2>3, <2>4, <2>6, <3>2
      <4> QED BY <2>6, <2>7, <4>1 DEF len
    <3> QED BY <3>1, <3>2
  <2>18. Order'
    BY <1>3, <2>9, <2>10, <2>15, <2>17 DEF Order
  <2>19. RowsInOrder'
    BY <1>1, <1>3 DEF IInv, RowsInOrder
  <2> QED BY <2>11, <2>12, <2>16, <2>18, <2>19 DEF IInv
<1> QED BY <1>2, <1>3 DEF Connect

LEMMA ShakeStep == ASSUME IInv, Shake \/ ShakeFails PROVE IInv'
<1>1. /\ client \in {"sent", "shaking"} /\ client' \in {"over", "broken", "lost"}
      /\ UNCHANGED <<ctl, pending, server, ready, rows>>
      /\ faults \subseteq faults' /\ faults' \subseteq faults \cup {"handshake"}
  BY DEF Shake, ShakeFails, Fault
<1>2. backlog \in Seq(ARow) /\ ctl.pc = "clients"
  BY <1>1 DEF IInv, TypeOK, Queue
<1>3. /\ backlog' \in Seq(ARow) /\ Len(backlog') = Len(backlog)
      /\ \A j \in 1 .. Len(backlog) :
           backlog'[j].n = backlog[j].n /\ backlog'[j].i = backlog[j].i
  <2>1. CASE backlog' = backlog
    BY <1>2, <2>1
  <2>2. CASE backlog' = [backlog EXCEPT ![Len(backlog)].ok = FALSE]
    <3> DEFINE last == [backlog[Len(backlog)] EXCEPT !.ok = FALSE]
    <3>1. backlog' = [backlog EXCEPT ![Len(backlog)] = last]
      BY <2>2
    <3>2. CASE Len(backlog) \in 1 .. Len(backlog)
      <4>1. last \in ARow /\ last.n = backlog[Len(backlog)].n /\ last.i = backlog[Len(backlog)].i
        <5>1. backlog[Len(backlog)] \in ARow
          BY <1>2, <3>2
        <5> QED BY <5>1 DEF ARow
      <4> HIDE DEF last
      <4> QED BY <1>2, <3>1, <3>2, <4>1
    <3>3. CASE Len(backlog) \notin 1 .. Len(backlog)
      <4>1. backlog = <<>>
        BY <1>2, <3>3
      <4>2. backlog' = backlog
        BY <3>1, <4>1
      <4> QED BY <1>2, <4>2
    <3> QED BY <3>2, <3>3
  <2> QED BY <2>1, <2>2 DEF Shake, ShakeFails
<1>4. Made' = Made
  BY <1>1, <1>2 DEF Made
<1>5. TypeOK'
  BY <1>1, <1>3 DEF IInv, TypeOK, CtlType
<1>6. OneServer' /\ Recorded'
  BY <1>1 DEF IInv, OneServer, Recorded, Alive
<1>7. backlog = <<>> => backlog' = <<>>
  BY <1>2, <1>3
<1>8. Queue'
  BY <1>1, <1>2, <1>3, <1>7 DEF IInv, Queue, Early
<1>9. Order'
  BY <1>1, <1>3, <1>4 DEF IInv, Order
<1>10. RowsInOrder'
  BY <1>1 DEF IInv, RowsInOrder
<1> QED BY <1>5, <1>6, <1>8, <1>9, <1>10 DEF IInv

\* Without a row the worker fails; the server is recorded since its start.
LEMMA ClientGoneStep == ASSUME IInv, ClientGone PROVE IInv'
<1>1. /\ Fail /\ client' = "none" /\ UNCHANGED <<pending, server, backlog, ready, rows, faults>>
      /\ ctl.pc = "clients"
  BY DEF ClientGone, IInv, Queue
<1>2. pending = ctl.n
  BY <1>1 DEF IInv, Recorded, Active
<1> QED BY <1>1, <1>2, FailStep

LEMMA ClientRowStep == ASSUME IInv, ClientRow PROVE IInv'
<1> DEFINE row == [Row(ctl.n, ctl.i, client = "over") EXCEPT !.whole = TRUE]
<1>1. /\ client \in {"over", "broken"} /\ client' = "none" /\ ctl.pc = "clients"
      /\ UNCHANGED <<pending, server, backlog, ready, rows, faults>>
  BY DEF ClientRow, IInv, Queue
<1>2. ctl.n \in Nat /\ ctl.i \in 1 .. Count /\ Count \in Nat \ {0} /\ ctl.cs \in Seq(ARow)
      /\ ctl \in CtlType
  BY Constants DEF IInv, TypeOK, CtlType, Indices, Runs
<1>3. row \in ARow /\ row.n = ctl.n /\ row.i = ctl.i
  <2>1. PICK ok \in BOOLEAN : row = [Row(ctl.n, ctl.i, ok) EXCEPT !.whole = TRUE]
    <3>1. CASE client = "over"
      BY <3>1
    <3>2. CASE client # "over"
      BY <3>2
    <3> QED BY <3>1, <3>2
  <2> HIDE DEF row
  <2>2. row = [n |-> ctl.n, i |-> ctl.i, ok |-> ok, whole |-> TRUE]
    BY <2>1 DEF Row
  <2> QED BY <1>2, <2>2 DEF ARow
<1> HIDE DEF row
<1>4. PICK cs : cs = Append(ctl.cs, row)
  OBVIOUS
<1>5. Len(ctl.cs) = ctl.i - 1
  BY <1>1 DEF IInv, RowsInOrder
<1>6. /\ cs \in Seq(ARow) /\ Len(cs) = ctl.i /\ cs[ctl.i] = row
      /\ \A j \in 1 .. Len(ctl.cs) : cs[j] = ctl.cs[j]
  BY <1>2, <1>3, <1>4, <1>5
<1>7. /\ ctl' \in CtlType /\ ctl'.n = ctl.n /\ ctl'.cs = cs
      /\ \/ ctl.i = Count /\ ctl'.pc = "collect" /\ ctl'.i = ctl.i
         \/ ctl.i # Count /\ ctl'.pc = "clients" /\ ctl'.i = ctl.i + 1
  <2>1. CASE ctl.i = Count
    <3>1. ctl' = [ctl EXCEPT !.cs = cs, !.pc = "collect", !.i = @]
      BY <1>4, <2>1, <1>1 DEF ClientRow, row
    <3>2. "collect" \in Pcs
      BY DEF Pcs
    <3> QED BY <1>2, <1>6, <2>1, <3>1, <3>2 DEF CtlType
  <2>2. CASE ctl.i # Count
    <3>1. ctl' = [ctl EXCEPT !.cs = cs, !.pc = "clients", !.i = @ + 1]
      BY <1>1, <1>4, <2>2 DEF ClientRow, row
    <3>2. ctl.i + 1 \in Indices /\ "clients" \in Pcs
      BY <1>2, <2>2 DEF Indices, Pcs
    <3> QED BY <1>2, <1>6, <2>2, <3>1, <3>2 DEF CtlType
  <2> QED BY <2>1, <2>2
<1>8. TypeOK'
  BY <1>1, <1>7 DEF IInv, TypeOK
<1>9. OneServer' /\ Recorded'
  <2>1. OneServer'
    BY <1>1, <1>7 DEF IInv, OneServer, Alive
  <2>2. Recorded'
    BY <1>1, <1>7 DEF IInv, Recorded, Active
  <2> QED BY <2>1, <2>2
<1>10. Queue'
  BY <1>1, <1>7 DEF IInv, Queue, Early
<1>11. Made' = Made
  BY <1>1, <1>2, <1>7 DEF Made
<1>12. Order'
  BY <1>1, <1>7, <1>11 DEF IInv, Order, Active
<1>13. \A j \in 1 .. Len(cs) : cs[j].n = ctl.n /\ cs[j].i = j
  <2> SUFFICES ASSUME NEW j \in 1 .. Len(cs) PROVE cs[j].n = ctl.n /\ cs[j].i = j
    OBVIOUS
  <2>1. CASE j = ctl.i
    BY <1>3, <1>6, <2>1
  <2>2. CASE j # ctl.i
    <3>1. j \in 1 .. Len(ctl.cs)
      BY <1>2, <1>5, <1>6, <2>2
    <3>2. ctl.cs[j].n = ctl.n /\ ctl.cs[j].i = j
      BY <1>1, <3>1 DEF IInv, RowsInOrder, Active
    <3> QED BY <1>6, <3>1, <3>2
  <2> QED BY <2>1, <2>2
<1>14. RowsInOrder'
  <2>1. Len(cs) = ctl'.i - 1 \/ (ctl'.pc = "collect" /\ Len(cs) = Count)
    BY <1>2, <1>6, <1>7
  <2>2. ctl'.pc \in {"clients", "collect"} /\ (ctl'.pc = "collect" => Len(cs) = Count)
        /\ (ctl'.pc = "clients" => Len(cs) = ctl'.i - 1)
    BY <1>2, <1>6, <1>7
  <2> QED BY <1>1, <1>7, <1>13, <2>2 DEF IInv, RowsInOrder, Early, Active
<1> QED BY <1>8, <1>9, <1>10, <1>12, <1>14 DEF IInv

LEMMA CollectStep == ASSUME IInv, CollectRows PROVE IInv'
<1>1. /\ ctl.pc = "collect" /\ Complete /\ ctl.n \in Runs
      /\ UNCHANGED <<pending, server, backlog, client, ready, rows, faults>>
  BY DEF CollectRows, IInv, TypeOK, CtlType
<1>2. rows[ctl.n] \in Seq(ARow)
  <2>1. rows[ctl.n] \in [1 .. Count -> ARow] /\ Count \in Nat
    BY <1>1, Constants DEF IInv, TypeOK, Indices
  <2> QED BY <2>1
<1>3. /\ ctl' \in CtlType /\ ctl'.pc = "close" /\ ctl'.n = ctl.n /\ ctl'.i = ctl.i
      /\ ctl'.cs = ctl.cs /\ ctl'.ss = rows[ctl.n]
  BY <1>2 DEF CollectRows, IInv, TypeOK, CtlType, Pcs, Tag
<1>4. TypeOK'
  BY <1>1, <1>3 DEF IInv, TypeOK
<1>5. OneServer'
  BY <1>1, <1>3 DEF IInv, OneServer, Alive
<1>6. Recorded'
  BY <1>1, <1>3 DEF IInv, Recorded, Active
<1>7. Queue'
  BY <1>1, <1>3 DEF IInv, Queue, Early
<1>8. Made' = Made
  BY <1>1, <1>3 DEF Made
<1>9. Order'
  BY <1>1, <1>3, <1>8 DEF IInv, Order, Active
<1>10. \A i \in Indices : rows[ctl.n][i].whole /\ rows[ctl.n][i].n = ctl.n /\ rows[ctl.n][i].i = i
  <2> SUFFICES ASSUME NEW i \in Indices
               PROVE  rows[ctl.n][i].whole /\ rows[ctl.n][i].n = ctl.n /\ rows[ctl.n][i].i = i
    OBVIOUS
  <2>1. rows[ctl.n][i].whole
    BY <1>1 DEF Complete, Tag
  <2>2. rows[ctl.n][i] # NoRow
    BY <2>1 DEF NoRow
  <2> QED BY <1>1, <2>1, <2>2 DEF IInv, RowsInOrder, Active
<1>11. RowsInOrder'
  BY <1>1, <1>3, <1>10 DEF IInv, RowsInOrder, Early, Active
<1> QED BY <1>4, <1>5, <1>6, <1>7, <1>9, <1>11 DEF IInv

(* The controller gives up: time-outs, and the worker killed before it could   *)
(* record its server.                                                         *)
LEMMA GivesUp ==
  ASSUME IInv, CollectTimeout \/ CloseTimeout \/ WorkerKilled
  PROVE  IInv'
<1>1. /\ Fail /\ ctl.pc \in {"collect", "close", "record"}
      /\ ctl.pc = "record" => "killed" \in faults'
      /\ faults \subseteq faults' /\ faults' \subseteq faults \cup {"slow", "killed"}
      /\ UNCHANGED <<pending, server, backlog, client, ready, rows>>
  BY DEF CollectTimeout, CloseTimeout, WorkerKilled, Fault
<1>2. client = "none"
  BY <1>1 DEF IInv, Queue
<1>3. ctl.pc \in {"collect", "close"} => pending = ctl.n
  BY DEF IInv, Recorded, Active
<1> QED BY <1>1, <1>2, <1>3, FailStep

LEMMA AwaitCloseStep == ASSUME IInv, AwaitClose PROVE IInv'
<1>1. /\ ctl.pc = "close" /\ PortClosed /\ pending' = 0 /\ ctl.n \in Runs
      /\ UNCHANGED <<server, backlog, client, ready, rows, faults>>
  BY DEF AwaitClose, IInv, TypeOK, CtlType
<1>2. /\ ctl' \in CtlType /\ ctl'.pc = "check" /\ ctl'.n = ctl.n /\ ctl'.i = ctl.i
      /\ ctl'.cs = ctl.cs /\ ctl'.ss = ctl.ss
  BY DEF AwaitClose, IInv, TypeOK, CtlType, Pcs
<1>3. ~ Alive(ctl.n)
  <2>1. ctl.n \in ready /\ ~ Holding(ctl.n)
    BY <1>1 DEF IInv, Recorded, Active, PortClosed
  <2> QED BY <2>1 DEF IInv, Recorded, Alive, Holding
<1>4. TypeOK'
  BY <1>1, <1>2 DEF IInv, TypeOK
<1>5. OneServer'
  BY <1>1, <1>2 DEF IInv, OneServer, Alive
<1>6. Recorded'
  BY <1>1, <1>2, <1>3 DEF IInv, Recorded, Active, Alive
<1>7. Queue'
  BY <1>1, <1>2 DEF IInv, Queue, Early
<1>8. Order'
  BY <1>2 DEF Order, Active
<1>9. RowsInOrder'
  BY <1>1, <1>2 DEF IInv, RowsInOrder, Early, Active
<1> QED BY <1>4, <1>5, <1>6, <1>7, <1>8, <1>9 DEF IInv

LEMMA CheckStep == ASSUME IInv, Check PROVE IInv'
<1>1. /\ ctl.pc = "check" /\ ctl.n \in Runs
      /\ UNCHANGED <<pending, server, backlog, client, ready, rows, faults>>
  BY DEF Check, IInv, TypeOK, CtlType
<1>2. client = "none" /\ ~ Alive(ctl.n)
  BY <1>1 DEF IInv, Queue, Recorded
<1>3. backlog = <<>>
  BY <1>1, <1>2 DEF IInv, Queue, Alive
<1>4. CASE Fail
  BY <1>1, <1>2, <1>4, FailStep
<1>5. CASE ctl.n < Sessions /\ ctl' = At("start", ctl.n + 1)
  <2>1. ctl.n + 1 \in Runs /\ "start" \in Pcs
    BY <1>1, <1>5, Constants DEF Runs, Pcs
  <2>2. /\ ctl' \in CtlType /\ ctl'.pc = "start" /\ ctl'.n = ctl.n + 1
        /\ ctl'.i = 1 /\ ctl'.cs = <<>>
    <3>1. ctl' \in CtlType
      BY <1>5, <2>1, AtTyped
    <3> QED BY <1>5, <3>1 DEF At
  <2>3. TypeOK'
    BY <1>1, <2>2 DEF IInv, TypeOK
  <2>4. \A m \in Runs : ~ Alive(m)
    BY <1>2 DEF IInv, OneServer
  <2>5. \A m \in Runs : m > ctl.n => server[m] = [st |-> "none", took |-> 0]
    BY DEF IInv, OneServer
  <2>6. \A m \in Runs : m > ctl.n + 1 \/ m = ctl.n + 1 => m > ctl.n
    BY <1>1 DEF Runs
  <2>7. OneServer'
    BY <1>1, <2>2, <2>4, <2>5, <2>6 DEF OneServer, Alive
  <2>8. Recorded'
    BY <1>1, <2>2 DEF IInv, Recorded, Active
  <2>9. server[ctl.n + 1] = [st |-> "none", took |-> 0]
    BY <2>1, <2>5, <2>6
  <2>10. Queue'
    BY <1>1, <1>2, <1>3, <2>2, <2>9 DEF Queue
  <2>11. Order'
    BY <2>2 DEF Order, Active
  <2>12. \A t \in Runs, i \in Indices : t > ctl.n + 1 \/ t = ctl.n + 1 => rows[t][i] = NoRow
    BY <2>6 DEF IInv, RowsInOrder
  <2>13. RowsInOrder'
    BY <1>1, <2>2, <2>12 DEF RowsInOrder, Active
  <2> QED BY <2>3, <2>7, <2>8, <2>10, <2>11, <2>13 DEF IInv
<1>6. CASE ctl' = At("finish", ctl.n)
  <2>1. "finish" \in Pcs
    BY DEF Pcs
  <2>2. ctl' \in CtlType /\ ctl'.pc = "finish" /\ ctl'.n = ctl.n
    <3>1. ctl' \in CtlType
      BY <1>1, <1>6, <2>1, AtTyped
    <3> QED BY <1>6, <3>1 DEF At
  <2>3. TypeOK'
    BY <1>1, <2>2 DEF IInv, TypeOK
  <2>4. OneServer'
    BY <1>1, <2>2 DEF IInv, OneServer, Alive
  <2>5. Recorded'
    BY <1>1, <1>2, <2>2 DEF IInv, Recorded, Active, Alive
  <2>6. Queue'
    BY <1>1, <1>2, <1>3, <2>2 DEF IInv, Queue, Early
  <2>7. Order'
    BY <2>2 DEF Order, Active
  <2>8. RowsInOrder'
    BY <1>1, <2>2 DEF IInv, RowsInOrder, Early, Active
  <2> QED BY <2>3, <2>4, <2>5, <2>6, <2>7, <2>8 DEF IInv
<1> QED BY <1>4, <1>5, <1>6 DEF Check

LEMMA CleanupStep == ASSUME IInv, Cleanup PROVE IInv'
<1>1. /\ ctl.pc \in {"cleanup", "finish"} /\ pending' = 0 /\ ctl.n \in Runs
      /\ UNCHANGED <<backlog, client, ready, rows, faults>>
  BY DEF Cleanup, IInv, TypeOK, CtlType
<1>2. ctl' \in CtlType /\ ctl'.pc \in {"passed", "failed"} /\ ctl'.n = ctl.n
  BY DEF Cleanup, IInv, TypeOK, CtlType, Pcs
<1>3. ASSUME NEW m \in Runs
      PROVE  /\ server'[m] \in [st : States, took : Indices \cup {0}]
             /\ \/ server'[m] = server[m] /\ (m = pending => ~ Alive(m))
                \/ server'[m].st = "dead" /\ Alive(m)
  <2>1. server[m] \in [st : States, took : Indices \cup {0}]
    BY DEF IInv, TypeOK, States
  <2>2. server'[m] = IF m = pending /\ Alive(m) THEN [server[m] EXCEPT !.st = "dead"] ELSE server[m]
    BY DEF Cleanup
  <2>3. CASE m = pending /\ Alive(m)
    BY <2>1, <2>2, <2>3 DEF States
  <2>4. CASE ~ (m = pending /\ Alive(m))
    BY <2>1, <2>2, <2>4
  <2> QED BY <2>3, <2>4
<1>4. server' \in [Runs -> [st : States, took : Indices \cup {0}]]
  <2>1. server' = [n \in Runs |-> server'[n]]
    BY DEF Cleanup
  <2> QED BY <1>3, <2>1
<1>5. \A m \in Runs : ~ Alive(m) => server'[m] = server[m]
  BY <1>3
<1>6. \A m \in Runs : (Alive(m))' => Alive(m) /\ m # pending
  BY <1>3 DEF Alive
<1>7. TypeOK'
  BY <1>1, <1>2, <1>4 DEF IInv, TypeOK, States
<1>8. OneServer'
  <2>1. \A m \in Runs : m # ctl'.n => ~ (Alive(m))'
    BY <1>2, <1>6 DEF IInv, OneServer
  <2>2. \A m \in Runs : m > ctl.n => server[m] = [st |-> "none", took |-> 0] /\ ~ Alive(m)
    BY DEF IInv, OneServer, Alive
  <2>3. \A m \in Runs : m > ctl'.n \/ (m = ctl'.n /\ ctl'.pc = "start") =>
          server'[m] = [st |-> "none", took |-> 0]
    BY <1>2, <1>5, <2>2
  <2> QED BY <2>1, <2>3 DEF OneServer, Alive
<1>9. Recorded'
  <2>1. \A m \in ready' : server'[m].st \notin {"none", "starting"}
    BY <1>1, <1>3 DEF IInv, Recorded, TypeOK
  <2>2. ~ Alive(ctl.n) \/ pending = ctl.n \/ "killed" \in faults
    BY <1>1 DEF IInv, Recorded
  <2>3. PICK n \in Runs : n = ctl.n /\ n = ctl'.n
    BY <1>1, <1>2
  <2>4. ~ (Alive(n))' \/ "killed" \in faults'
    BY <1>1, <1>6, <2>2, <2>3
  <2> QED BY <1>2, <2>1, <2>3, <2>4 DEF Recorded, Active, Alive
<1>10. Queue'
  <2>1. \/ server'[ctl.n] = server[ctl.n]
        \/ server'[ctl.n].st = "dead"
    BY <1>1, <1>3
  <2> QED BY <1>1, <1>2, <2>1 DEF IInv, Queue, Early
<1>11. Order'
  BY <1>2 DEF Order, Active
<1>12. RowsInOrder'
  BY <1>1, <1>2 DEF IInv, RowsInOrder, Early, Active
<1> QED BY <1>7, <1>8, <1>9, <1>10, <1>11, <1>12 DEF IInv

LEMMA FinishRowStep ==
  ASSUME IInv, NEW t \in Runs, NEW i \in Indices, FinishRow(t, i)
  PROVE  IInv'
<1>1. /\ rows[t][i] # NoRow
      /\ rows' = [rows EXCEPT ![t] = [rows[t] EXCEPT ![i] = [rows[t][i] EXCEPT !.whole = TRUE]]]
      /\ UNCHANGED <<ctl, pending, server, backlog, client, ready, faults>>
  BY DEF FinishRow
<1> DEFINE row == [rows[t][i] EXCEPT !.whole = TRUE]
<1>2. row \in ARow /\ row.n = rows[t][i].n /\ row.i = rows[t][i].i
  <2>1. rows[t][i] \in ARow
    BY DEF IInv, TypeOK
  <2> QED BY <2>1 DEF ARow
<1> HIDE DEF row
<1>3. /\ rows' \in [Runs -> [Indices -> ARow]] /\ rows'[t][i] = row
      /\ \A u \in Runs, j \in Indices : u # t \/ j # i => rows'[u][j] = rows[u][j]
  BY <1>1, <1>2 DEF IInv, TypeOK, row
<1>4. TypeOK'
  BY <1>1, <1>3 DEF IInv, TypeOK
<1>5. OneServer' /\ Recorded'
  BY <1>1 DEF IInv, OneServer, Recorded, Alive
<1>6. Made' = Made
  BY <1>1 DEF Made
<1>7. Queue' /\ Order'
  BY <1>1, <1>6 DEF IInv, Queue, Order
<1>8. RowsInOrder'
  BY <1>1, <1>2, <1>3 DEF IInv, RowsInOrder
<1> QED BY <1>4, <1>5, <1>7, <1>8 DEF IInv

-----------------------------------------------------------------------------
LEMMA InitIInv == Init => IInv
<1> SUFFICES ASSUME Init PROVE IInv
  OBVIOUS
<1>1. 1 \in Runs /\ "start" \in Pcs /\ Count \in Nat \ {0}
  BY Constants DEF Runs, Pcs
<1>2. ctl \in CtlType /\ ctl.pc = "start" /\ ctl.n = 1 /\ ctl.i = 1 /\ ctl.cs = <<>>
  <2>1. ctl \in CtlType
    BY <1>1, AtTyped DEF Init
  <2> QED BY <2>1 DEF Init, At
<1>3. NoRow \in ARow
  BY RowTyped
<1>4. /\ pending = 0 /\ backlog = <<>> /\ client = "none" /\ ready = {} /\ faults = {}
      /\ \A n \in Runs : server[n] = [st |-> "none", took |-> 0]
      /\ \A t \in Runs, i \in Indices : rows[t][i] = NoRow
  BY DEF Init
<1>5. TypeOK
  <2>1. server \in [Runs -> [st : States, took : Indices \cup {0}]]
    BY DEF Init, States
  <2>2. rows \in [Runs -> [Indices -> ARow]]
    BY <1>3 DEF Init
  <2>3. <<>> \in Seq(ARow)
    OBVIOUS
  <2> QED BY <1>2, <1>4, <2>1, <2>2, <2>3 DEF TypeOK, States
<1>6. OneServer
  BY <1>4 DEF OneServer, Alive
<1>7. Recorded
  BY <1>2, <1>4 DEF Recorded, Active
<1>8. Queue
  BY <1>1, <1>2, <1>4 DEF Queue
<1>9. Order
  BY <1>2 DEF Order, Active
<1>10. RowsInOrder
  BY <1>2, <1>4 DEF RowsInOrder, Active
<1> QED BY <1>5, <1>6, <1>7, <1>8, <1>9, <1>10 DEF IInv

LEMMA NextIInv == IInv /\ [Next]_vars => IInv'
<1> SUFFICES ASSUME IInv, [Next]_vars PROVE IInv'
  OBVIOUS
<1>1. CASE Control
  BY <1>1, SpawnStep, RecordStep, AwaitReadyStep, ConnectStep, ShakeStep, ClientRowStep,
     ClientGoneStep, CollectStep, GivesUp, AwaitCloseStep, CheckStep, CleanupStep DEF Control
<1>2. CASE \E n \in Runs : Serve(n) \/ ServerDies(n)
  BY <1>2, ServerStep
<1>3. CASE \E t \in Runs, i \in Indices : FinishRow(t, i)
  BY <1>3, FinishRowStep
<1>4. CASE ShakeFails \/ CloseTimeout \/ WorkerKilled
  BY <1>4, ShakeStep, GivesUp
<1>5. CASE UNCHANGED vars
  <2>1. UNCHANGED <<ctl, pending, server, backlog, client, ready, rows, faults>>
    BY <1>5 DEF vars
  <2>2. TypeOK' /\ OneServer' /\ Recorded'
    BY <2>1 DEF IInv, TypeOK, OneServer, Recorded, Alive
  <2>3. Queue' /\ Order' /\ RowsInOrder'
    BY <2>1 DEF IInv, Queue, Order, Made, RowsInOrder
  <2> QED BY <2>2, <2>3 DEF IInv
<1> QED BY <1>1, <1>2, <1>3, <1>4, <1>5 DEF Next

\* The invariant of the session: one server, recorded while it may be alive,
\* that takes the session's connections in their order.
THEOREM SessionInvariant == Spec => []IInv
BY InitIInv, NextIInv, PTL DEF Spec

\* Controller, workers, server and files keep values of their types.
THEOREM SessionTypes == Spec => []TypeOK
<1>1. IInv => TypeOK
  BY DEF IInv
<1> QED BY <1>1, SessionInvariant, PTL

\* The rows that handshake_worker.py returns as the server's are whole and lie
\* beside the client rows of the same connections, however long the session.
THEOREM SessionRowsPair == Spec => []RowsPair
<1>1. IInv => RowsPair
  <2> SUFFICES ASSUME IInv, ctl.pc = "check", NEW i \in Indices
               PROVE  /\ ctl.ss[i].whole
                      /\ ctl.ss[i].n = ctl.n /\ ctl.cs[i].n = ctl.n
                      /\ ctl.ss[i].i = i     /\ ctl.cs[i].i = i
    BY DEF RowsPair
  <2>1. i \in 1 .. Len(ctl.cs)
    BY DEF IInv, RowsInOrder, Indices
  <2> QED BY <2>1 DEF IInv, RowsInOrder
<1> QED BY <1>1, SessionInvariant, PTL

\* After cleanup no server is left whose worker lived to record it.
THEOREM SessionCleanup == Spec => []CleanupEndsServers
<1>1. IInv => CleanupEndsServers
  BY DEF IInv, CleanupEndsServers, OneServer, Recorded
<1> QED BY <1>1, SessionInvariant, PTL

-----------------------------------------------------------------------------
(* Why a session fails.                                                       *)

\* What holds as long as nothing failed: every connection made so far succeeded,
\* the server has written the row of each connection it is done with, and it
\* ends only after the last one.
NoFailure ==
  LET s == server[ctl.n]
  IN  /\ ctl.pc \notin {"cleanup", "failed"}
      /\ client \notin {"broken", "lost"}
      /\ \A j \in 1 .. Len(backlog) : backlog[j].ok
      /\ ctl.pc \in {"record", "ready"} => s.st \in {"starting", "listening"}
      /\ ctl.pc \in Active =>
           /\ s.st \in {"listening", "handling", "closing", "dead"}
           /\ s.st = "listening" => s.took < Count
           /\ s.st \in {"closing", "dead"} => s.took = Count /\ Made = Count
           /\ \A i \in Indices :
                i < s.took \/ (i = s.took /\ s.st # "handling") => rows[ctl.n][i] # NoRow
           /\ \A i \in Indices : rows[ctl.n][i] # NoRow => rows[ctl.n][i].ok
      /\ ctl.pc \in Active \cup {"check"} => \A j \in 1 .. Len(ctl.cs) : ctl.cs[j].ok
      /\ ctl.pc \in {"close", "check"} => \A i \in Indices : ctl.ss[i].ok

CauseInv == faults = {} => NoFailure

LEMMA ServersTyped ==
  ASSUME TypeOK, NEW n \in Runs
  PROVE  /\ server[n] \in [st : States, took : Indices \cup {0}]
         /\ server[n].took \in Nat
BY Constants DEF TypeOK, States, Indices

(* The steps of the server of the current session.                            *)
LEMMA NoFailureServer ==
  ASSUME IInv, IInv', NoFailure, faults = {}, faults' = {},
         NEW n \in Runs, n = ctl.n, Serve(n) \/ ServerDies(n)
  PROVE  NoFailure'
<1>1. UNCHANGED <<ctl, pending>> /\ ctl.n \in Runs /\ ~ ServerDies(n)
  BY DEF Serve, Bind, Accept, ServerRow, Exit, AcceptTimeout, ServerDies, Fault
<1>2. Alive(n)
  BY <1>1 DEF Serve, Bind, Accept, ServerRow, Exit, AcceptTimeout, Alive
<1>3. ctl.pc \in {"record", "ready"} \cup Active
  BY <1>2 DEF IInv, OneServer, Recorded, Alive, NoFailure, TypeOK, CtlType, Pcs, Active
<1>4. CASE Bind(n)
  <2>1. server[n].st = "starting" /\ UNCHANGED <<backlog, client, rows>>
    BY <1>4 DEF Bind
  <2>2. PortClosed
    BY <2>1, TheServer DEF PortClosed, Holding, Alive, IInv
  <2>3. Become(n, "listening")
    BY <1>4, <2>2 DEF Bind
  <2>4. server' = [server EXCEPT ![n] = [st |-> "listening", took |-> server[n].took]]
    BY <2>3, BecomeIs DEF IInv
  <2>5. server'[n].st = "listening"
    BY <2>4, ServersTyped DEF IInv, TypeOK
  <2>6. ctl.pc \notin Active
    BY <2>1 DEF IInv, Recorded
  <2> QED BY <1>1, <1>3, <2>1, <2>5, <2>6 DEF NoFailure, Active
<1>5. CASE Accept(n)
  <2>1. /\ server[n].st = "listening" /\ backlog # <<>>
        /\ server' = [server EXCEPT ![n] = [st |-> "handling", took |-> server[n].took + 1]]
        /\ client' \in {client, "shaking"}
        /\ UNCHANGED <<backlog, rows>>
    BY <1>5 DEF Accept
  <2>2. server'[n].st = "handling" /\ server'[n].took = server[n].took + 1
    BY <2>1 DEF IInv, TypeOK
  <2>3. ctl.pc \in Active
    BY <1>3, <2>1 DEF IInv, Queue, Early
  <2>4. \A i \in Indices : i < server'[n].took \/ (i = server'[n].took /\ FALSE)
                             => i < server[n].took \/ i = server[n].took
    BY <2>2, ServersTyped, Constants DEF IInv, Indices
  <2> QED BY <1>1, <2>1, <2>2, <2>3, <2>4 DEF NoFailure, Active
<1>6. CASE ServerRow(n)
  <2> DEFINE took == server[n].took
             row  == Row(Head(backlog).n, Head(backlog).i, Head(backlog).ok)
  <2>0. Head(backlog).ok
    <3>1. backlog # <<>> /\ backlog \in Seq(ARow)
      BY <1>6 DEF IInv, Queue, TypeOK, ServerRow
    <3>2. Head(backlog) = backlog[1] /\ 1 \in 1 .. Len(backlog)
      BY <3>1
    <3> QED BY <3>2 DEF NoFailure
  <2>1. /\ server[n].st = "handling" /\ UNCHANGED client
        /\ rows' = [rows EXCEPT ![n] = [rows[n] EXCEPT ![took] = row]]
        /\ backlog' = Tail(backlog)
    BY <1>6, <2>0 DEF ServerRow, Tag
  <2>2. ctl.pc \in Active /\ took \in Indices /\ Len(backlog) >= 1 /\ backlog \in Seq(ARow)
    BY <1>3, <2>1 DEF IInv, Queue, Early, TypeOK
  <2>3. /\ Head(backlog) = backlog[1] /\ 1 \in 1 .. Len(backlog)
        /\ Len(backlog') = Len(backlog) - 1
        /\ \A j \in 1 .. Len(backlog') : backlog'[j] = backlog[j + 1] /\ j + 1 \in 1 .. Len(backlog)
    BY <2>1, <2>2
  <2>4. row.ok /\ row.n = ctl.n
    BY <2>2, <2>3 DEF NoFailure, Row, IInv, Order
  <2>5. row # NoRow
    <3>1. row.n # 0
      BY <1>1, <2>4 DEF Runs
    <3> QED BY <3>1 DEF NoRow
  <2>6. PICK st \in {"closing", "listening"} :
          Become(n, st) /\ (st = "closing" => took = Count) /\ (st = "listening" => took # Count)
    BY <1>6 DEF ServerRow
  <2>7. server' = [server EXCEPT ![n] = [st |-> st, took |-> took]]
    BY <2>6, BecomeIs DEF IInv
  <2>8. server'[n].st = st /\ server'[n].took = took
    BY <2>7 DEF IInv, TypeOK
  <2> HIDE DEF row
  <2>9. /\ rows'[n][took] = row
        /\ \A i \in Indices : i # took => rows'[n][i] = rows[n][i]
    BY <2>1, <2>2 DEF IInv, TypeOK
  <2> HIDE DEF took
  <2>10. took <= Count /\ took \in Nat /\ Count \in Nat
    BY <2>2, Constants DEF Indices
  <2>11. st = "listening" => took < Count
    BY <2>6, <2>10
  <2>12. st = "closing" => Made' = Count
    BY <1>1, <2>2, <2>8 DEF IInv, Order
  <2>13. \A j \in 1 .. Len(backlog') : backlog'[j].ok
    BY <2>3 DEF NoFailure
  <2>14. \A i \in Indices : i < took \/ i = took => rows'[n][i] # NoRow
    BY <2>1, <2>2, <2>5, <2>9 DEF NoFailure, took
  <2>15. \A i \in Indices : rows'[n][i] # NoRow => rows'[n][i].ok
    BY <2>2, <2>4, <2>9 DEF NoFailure
  <2> QED
    BY <1>1, <2>1, <2>2, <2>6, <2>8, <2>11, <2>12, <2>13, <2>14, <2>15
       DEF NoFailure, Active
<1>7. CASE Exit(n)
  <2>1. server[n].st = "closing" /\ Become(n, "dead") /\ UNCHANGED <<backlog, client, rows>>
    BY <1>7 DEF Exit
  <2>2. server' = [server EXCEPT ![n] = [st |-> "dead", took |-> server[n].took]]
    BY <2>1, BecomeIs DEF IInv
  <2>3. server'[n].st = "dead" /\ server'[n].took = server[n].took
    BY <2>2 DEF IInv, TypeOK
  <2>4. Made' = Made /\ ctl.pc \in Active
    BY <1>1, <1>3, <2>1 DEF Made, NoFailure
  <2> QED BY <1>1, <2>1, <2>3, <2>4 DEF NoFailure, Active
<1>8. CASE AcceptTimeout(n)
  <2>1. server[n].st = "listening" /\ backlog = <<>> /\ ctl.pc \in {"collect", "close"}
    BY <1>3, <1>8 DEF AcceptTimeout, Fault, Active
  <2>2. Made = server[n].took + Len(backlog) /\ Made = Count /\ server[n].took < Count
    BY <2>1 DEF IInv, Order, Active, Made, NoFailure
  <2> QED BY <2>1, <2>2, ServersTyped, Constants DEF IInv
<1> QED BY <1>1, <1>4, <1>5, <1>6, <1>7, <1>8 DEF Serve

(* The steps of the controller and its workers, of the client and of files.   *)
LEMMA NoFailureControl ==
  ASSUME IInv, IInv', NoFailure, faults = {}, faults' = {}, Control
  PROVE  NoFailure'
<1> DEFINE n == ctl.n
           s == server[n]
<1>0. ctl.n \in Runs /\ ctl \in CtlType /\ ctl' \in CtlType
  BY DEF IInv, TypeOK, CtlType
<1>1. CASE Spawn
  <2>1. /\ ctl.pc = "start" /\ Become(n, "starting") /\ UNCHANGED <<backlog, client, rows>>
        /\ ctl'.pc = "record" /\ ctl'.n = n
    BY <1>0, <1>1 DEF Spawn, CtlType
  <2>2. server' = [server EXCEPT ![n] = [st |-> "starting", took |-> server[n].took]]
    BY <1>0, <2>1, BecomeIs DEF IInv
  <2>3. server'[n].st = "starting"
    BY <1>0, <2>2 DEF IInv, TypeOK
  <2> QED BY <2>1, <2>3 DEF NoFailure, Active
<1>2. CASE RecordPending
  <2>1. /\ ctl.pc = "record" /\ UNCHANGED <<server, backlog, client, rows>>
        /\ ctl'.pc = "ready" /\ ctl'.n = n
    BY <1>0, <1>2 DEF RecordPending, CtlType
  <2> QED BY <2>1 DEF NoFailure, Active
<1>3. CASE AwaitReady
  <2>1. ctl.pc = "ready" /\ UNCHANGED <<server, backlog, client, rows>>
    BY <1>3 DEF AwaitReady
  <2>2. s.st \in {"starting", "listening"}
    BY <2>1 DEF NoFailure
  <2>3. ctl' = [ctl EXCEPT !.pc = "clients"] /\ n \in ready
    BY <1>3, <2>2 DEF AwaitReady, Tag, Alive, Fault
  <2>4. ctl'.pc = "clients" /\ ctl'.n = n /\ ctl'.cs = ctl.cs
    BY <1>0, <2>3 DEF CtlType
  <2>5. s.st = "listening" /\ s.took = 0 /\ ctl.cs = <<>>
    BY <2>1, <2>2, <2>3 DEF IInv, Recorded, Queue, Early
  <2>6. \A i \in Indices : rows[n][i] = NoRow /\ ~ (i < 0) /\ i # 0
    BY <1>0, <2>1, Constants DEF IInv, RowsInOrder, Early, Indices
  <2>7. 0 < Count
    BY Constants
  <2> QED BY <2>1, <2>4, <2>5, <2>6, <2>7 DEF NoFailure, Active
<1>4. CASE Connect
  <2>1. ctl.pc = "clients" /\ client = "none" /\ UNCHANGED <<server, rows>>
    BY <1>4 DEF Connect
  <2>2. Made # Count
    <3>1. Made = ctl.i - 1 /\ ctl.i \in 1 .. Count
      BY <1>0, <2>1 DEF Made, CtlType, Indices
    <3> QED BY <3>1, Constants
  <2>3. s.st \in {"listening", "handling"}
    BY <2>1, <2>2 DEF NoFailure, Active
  <2>4. /\ UNCHANGED ctl /\ client' = "sent"
        /\ backlog' = Append(backlog, Row(n, ctl.i, TRUE))
    BY <1>0, <1>4, <2>3 DEF Connect, PortClosed, Holding
  <2>5. backlog \in Seq(ARow) /\ Row(n, ctl.i, TRUE) \in ARow /\ Row(n, ctl.i, TRUE).ok
    <3>1. n \in Nat /\ ctl.i \in Nat /\ backlog \in Seq(ARow)
      BY <1>0, Constants DEF IInv, TypeOK, CtlType, Runs, Indices
    <3> QED BY <3>1, RowTyped DEF Row
  <2>6. \A j \in 1 .. Len(backlog') : backlog'[j].ok
    <3> DEFINE row == Row(n, ctl.i, TRUE)
    <3> HIDE DEF row
    <3>1. backlog' = Append(backlog, row) /\ row.ok /\ row \in ARow
      BY <2>4, <2>5 DEF row
    <3>2. ASSUME NEW j \in 1 .. Len(backlog') PROVE backlog'[j].ok
      <4>1. CASE j = Len(backlog) + 1
        BY <2>5, <3>1, <4>1
      <4>2. CASE j # Len(backlog) + 1
        <5>1. j \in 1 .. Len(backlog) /\ backlog'[j] = backlog[j]
          BY <2>5, <3>1, <4>2
        <5> QED BY <5>1 DEF NoFailure
      <4> QED BY <4>1, <4>2
    <3> QED BY <3>2
  <2> QED BY <2>1, <2>3, <2>4, <2>6 DEF NoFailure, Active
<1>5. CASE Shake
  <2>1. client = "shaking" /\ client' = "over" /\ UNCHANGED <<ctl, server, backlog, rows>>
    BY <1>5 DEF Shake
  <2>2. Made' = Made
    BY <2>1 DEF Made
  <2> QED BY <2>1, <2>2 DEF NoFailure
<1>6. CASE ClientRow
  <2> DEFINE row == [Row(n, ctl.i, TRUE) EXCEPT !.whole = TRUE]
  <2>1. /\ client = "over" /\ client' = "none" /\ ctl.pc = "clients"
        /\ UNCHANGED <<server, backlog, rows>>
    BY <1>6 DEF ClientRow, NoFailure, IInv, Queue
  <2>2. row \in ARow /\ row.ok
    <3>1. row = [Row(n, ctl.i, TRUE) EXCEPT !.whole = TRUE]
      OBVIOUS
    <3>2. n \in Nat /\ ctl.i \in Nat
      BY <1>0, Constants DEF CtlType, Runs, Indices
    <3> HIDE DEF row, n
    <3>3. row = [n |-> n, i |-> ctl.i, ok |-> TRUE, whole |-> TRUE]
      BY <3>1 DEF Row
    <3> QED BY <3>2, <3>3 DEF ARow
  <2>3. /\ ctl'.n = n /\ ctl'.cs = Append(ctl.cs, row)
        /\ \/ ctl.i = Count /\ ctl'.pc = "collect" /\ ctl'.i = ctl.i
           \/ ctl.i # Count /\ ctl'.pc = "clients" /\ ctl'.i = ctl.i + 1
    <3>1. [Row(ctl.n, ctl.i, client = "over") EXCEPT !.whole = TRUE] = row
      BY <2>1
    <3> HIDE DEF row
    <3>2. CASE ctl.i = Count
      <4>1. ctl' = [ctl EXCEPT !.cs = Append(ctl.cs, row), !.pc = "collect", !.i = @]
        BY <1>6, <2>1, <3>1, <3>2 DEF ClientRow
      <4> QED BY <1>0, <3>2, <4>1 DEF CtlType
    <3>3. CASE ctl.i # Count
      <4>1. ctl' = [ctl EXCEPT !.cs = Append(ctl.cs, row), !.pc = "clients", !.i = @ + 1]
        BY <1>6, <2>1, <3>1, <3>3 DEF ClientRow
      <4> QED BY <1>0, <3>3, <4>1 DEF CtlType
    <3> QED BY <3>2, <3>3
  <2> HIDE DEF row
  <2>4. Made' = Made
    BY <1>0, <2>1, <2>3, Constants DEF Made, CtlType, Indices
  <2>5. \A j \in 1 .. Len(ctl'.cs) : ctl'.cs[j].ok
    <3>1. ctl.cs \in Seq(ARow)
      BY <1>0 DEF CtlType
    <3>2. ASSUME NEW j \in 1 .. Len(ctl'.cs) PROVE ctl'.cs[j].ok
      <4>1. CASE j = Len(ctl.cs) + 1
        BY <2>2, <2>3, <3>1, <4>1
      <4>2. CASE j # Len(ctl.cs) + 1
        <5>1. j \in 1 .. Len(ctl.cs) /\ ctl'.cs[j] = ctl.cs[j]
          BY <2>2, <2>3, <3>1, <4>2
        <5> QED BY <2>1, <5>1 DEF NoFailure, Active
      <4> QED BY <4>1, <4>2
    <3> QED BY <3>2
  <2> QED BY <2>1, <2>3, <2>4, <2>5 DEF NoFailure, Active
<1>7. CASE CollectRows
  <2>1. /\ ctl.pc = "collect" /\ Complete /\ UNCHANGED <<server, backlog, client, rows>>
        /\ ctl'.pc = "close" /\ ctl'.n = n /\ ctl'.cs = ctl.cs /\ ctl'.ss = rows[n]
    BY <1>0, <1>7 DEF CollectRows, CtlType, Tag
  <2>2. \A i \in Indices : rows[n][i] # NoRow
    BY <2>1 DEF Complete, Tag, NoRow
  <2>3. \A i \in Indices : rows[n][i].ok
    BY <2>1, <2>2 DEF NoFailure, Active
  <2>4. Made' = Made
    BY <2>1 DEF Made
  <2> QED BY <2>1, <2>3, <2>4 DEF NoFailure, Active
<1>8. CASE CollectTimeout
  <2>1. /\ ctl.pc = "collect" /\ ~ Complete /\ ~ Alive(n)
        /\ \A i \in Indices : rows[n][i].whole \/ rows[n][i] = NoRow
    BY <1>8 DEF CollectTimeout, Fault, Tag
  <2>2. s.st = "dead" /\ s.took = Count
    BY <2>1 DEF NoFailure, Active, Alive
  <2>3. \A i \in Indices : i < s.took \/ i = s.took
    BY <2>2, Constants DEF Indices
  <2>4. \A i \in Indices : rows[n][i] # NoRow
    BY <2>1, <2>2, <2>3 DEF NoFailure, Active
  <2> QED BY <2>1, <2>4 DEF Complete, Tag
<1>9. CASE AwaitClose
  <2>1. /\ ctl.pc = "close" /\ UNCHANGED <<server, backlog, client, rows>>
        /\ ctl'.pc = "check" /\ ctl'.n = n /\ ctl'.cs = ctl.cs /\ ctl'.ss = ctl.ss
    BY <1>0, <1>9 DEF AwaitClose, CtlType
  <2> QED BY <2>1 DEF NoFailure, Active
<1>10. CASE Check
  <2>1. ctl.pc = "check" /\ UNCHANGED <<server, backlog, client, rows>>
    BY <1>10 DEF Check
  <2>2. \A i \in Indices : ctl.cs[i].ok /\ ctl.ss[i].ok
    BY <2>1 DEF NoFailure, IInv, RowsInOrder, Indices
  <2>3. ctl' \in {At("start", n + 1), At("finish", n)}
    BY <1>10, <2>2 DEF Check
  <2>4. ctl'.pc \in {"start", "finish"}
    BY <2>3 DEF At
  <2> QED BY <2>1, <2>4 DEF NoFailure, Active
<1>11. CASE Cleanup
  <2>1. /\ ctl.pc = "finish" /\ UNCHANGED <<backlog, client, rows>>
        /\ ctl'.pc = "passed" /\ ctl'.n = n
    BY <1>0, <1>11 DEF Cleanup, NoFailure, CtlType
  <2>2. ~ Alive(n)
    BY <2>1 DEF IInv, Recorded
  <2>3. server'[n] = server[n]
    BY <1>0, <1>11, <2>2 DEF Cleanup
  <2> QED BY <2>1, <2>3 DEF NoFailure, Active
<1> QED
  BY <1>1, <1>2, <1>3, <1>4, <1>5, <1>6, <1>7, <1>8, <1>9, <1>10, <1>11
     DEF Control, ClientGone, NoFailure

\* As long as nothing failed, no step makes the session fail.
LEMMA NoFailureStep ==
  ASSUME IInv, IInv', NoFailure, faults = {}, faults' = {}, [Next]_vars
  PROVE  NoFailure'
<1>1. ASSUME NEW n \in Runs, Serve(n) \/ ServerDies(n) PROVE NoFailure'
  <2>1. Alive(n)
    BY <1>1 DEF Serve, Bind, Accept, ServerRow, Exit, AcceptTimeout, ServerDies, Alive
  <2>2. n = ctl.n
    BY <2>1, TheServer DEF IInv
  <2> QED BY <1>1, <2>2, NoFailureServer
<1>2. ASSUME NEW t \in Runs, NEW i \in Indices, FinishRow(t, i) PROVE NoFailure'
  <2>1. /\ rows[t][i] # NoRow
        /\ rows' = [rows EXCEPT ![t] = [rows[t] EXCEPT ![i] = [rows[t][i] EXCEPT !.whole = TRUE]]]
        /\ UNCHANGED <<ctl, server, backlog, client>>
    BY <1>2 DEF FinishRow
  <2> DEFINE row == [rows[t][i] EXCEPT !.whole = TRUE]
  <2>2. row.ok = rows[t][i].ok /\ row # NoRow
    <3>1. rows[t][i] \in ARow
      BY DEF IInv, TypeOK
    <3>2. row.ok = rows[t][i].ok /\ row.whole = TRUE
      BY <3>1 DEF ARow
    <3> QED BY <3>2 DEF NoRow
  <2> HIDE DEF row
  <2>3. /\ rows'[t][i] = row
        /\ \A u \in Runs, j \in Indices : u # t \/ j # i => rows'[u][j] = rows[u][j]
    BY <2>1 DEF IInv, TypeOK, row
  <2>4. Made' = Made /\ ctl.n \in Runs
    BY <2>1 DEF Made, IInv, TypeOK, CtlType
  <2>5. \A j \in Indices : /\ rows[ctl.n][j] # NoRow => rows'[ctl.n][j] # NoRow
                           /\ rows'[ctl.n][j] # NoRow => rows[ctl.n][j] # NoRow
                           /\ rows'[ctl.n][j].ok = rows[ctl.n][j].ok
    BY <2>1, <2>2, <2>3, <2>4
  <2> QED BY <2>1, <2>4, <2>5 DEF NoFailure
<1>3. CASE ShakeFails \/ CloseTimeout \/ WorkerKilled
  BY <1>3 DEF ShakeFails, CloseTimeout, WorkerKilled, Fault
<1>4. CASE UNCHANGED vars
  <2>1. UNCHANGED <<ctl, server, backlog, client, rows>>
    BY <1>4 DEF vars
  <2> QED BY <2>1 DEF NoFailure, Made
<1> QED BY <1>1, <1>2, <1>3, <1>4, NoFailureControl DEF Next

\* A session fails only because of a fault: without one the server is in time
\* for its clients, writes all rows, and nothing times out (extended_handshake.py
\* and systems_experiments.py, whose assertions end a run).
THEOREM SessionFailureHasCause == Spec => []FailureHasCause
<1>1. Init => CauseInv
  <2> SUFFICES ASSUME Init PROVE NoFailure
    BY DEF CauseInv
  <2>1. ctl.pc = "start" /\ ctl.n = 1 /\ ctl.cs = <<>> /\ 1 \in Runs
    BY Constants DEF Init, At, Runs
  <2> QED BY <2>1 DEF Init, NoFailure, Active
<1>2. IInv /\ IInv' /\ CauseInv /\ [Next]_vars => CauseInv'
  <2> SUFFICES ASSUME IInv, IInv', CauseInv, [Next]_vars, faults' = {} PROVE NoFailure'
    BY DEF CauseInv
  <2>1. faults \subseteq faults'
    BY DEF Next, Control, Serve, Bind, Accept, ServerRow, Exit, AcceptTimeout, ServerDies,
       Spawn, RecordPending, AwaitReady, Connect, Shake, ClientRow, ClientGone, CollectRows,
       CollectTimeout, AwaitClose, Check, Cleanup, FinishRow, ShakeFails, CloseTimeout,
       WorkerKilled, Fault, vars
  <2>2. faults = {}
    BY <2>1
  <2> QED BY <2>2, NoFailureStep DEF CauseInv
<1>3. CauseInv => FailureHasCause
  BY DEF CauseInv, NoFailure, FailureHasCause
<1> QED BY <1>1, <1>2, <1>3, SessionInvariant, PTL DEF Spec
===============================================================================
