---------------------- MODULE ConnectionThreadsProofs ----------------------
(***************************************************************************)
(* Proofs about ConnectionThreads, for every number of connections,        *)
(* descriptors, slots and commands and every size of the socket buffers.   *)
(***************************************************************************)
EXTENDS ConnectionThreads, SequenceTheorems, FiniteSetTheorems, TLAPS

(* A thread has a descriptor of its own between accept() and close().      *)
Descriptors ==
  /\ \A c \in Conn : sock[c] # 0 <=> pc[c] \notin {"new", "release", "done"}
  /\ \A c, d \in Conn : sock[c] # 0 /\ sock[c] = sock[d] => c = d

(* Who holds which mutex, and where. *)
Mutexes ==
  /\ \A c \in Conn : operator_mutex = c <=> pc[c] \in {"scan", "push"}
  /\ \A c \in Conn : pc[c] = "scan" => i[c] >= 1
  /\ \A c \in Conn : pc[c] = "push" =>
       /\ i[c] \in 1 .. operator_count /\ SlotInUse(i[c])
       /\ write_mutex[operator_write_mutexes[i[c]]] = c
  /\ \A c \in Conn : pc[c] = "send" => write_mutex[c] = c
  /\ \A c, d \in Conn : write_mutex[d] = c =>
       \/ pc[c] = "send" /\ c = d
       \/ pc[c] = "push" /\ operator_write_mutexes[i[c]] = d

(* Slots in use belong to threads in session, one slot to each. *)
Table ==
  /\ \A j \in 1 .. operator_count : operator_write_mutexes[j] # NoConn =>
       LET owner == operator_write_mutexes[j]
       IN  /\ pc[owner] \notin {"new", "login", "close", "release", "done"}
           /\ operator_clients[j] = sock[owner]
           /\ logins[owner] = 1
  /\ \A j, k \in 1 .. operator_count :
       operator_write_mutexes[j] # NoConn
         /\ operator_write_mutexes[j] = operator_write_mutexes[k] => j = k
  /\ \A j \in 1 .. operator_count :
       operator_clients[j] > 0 => operator_write_mutexes[j] # NoConn

(* With one LOGIN at most, a thread that is logging in has not done so.    *)
Sessions ==
  \A c \in Conn : logins[c] <= 1 /\ (pc[c] = "login" => logins[c] = 1)

(* What the table holds, slot by slot. *)
LEMMA SlotTypes ==
  ASSUME TypeOK
  PROVE  \A j \in 1 .. operator_count :
           /\ j \in Slots /\ j \in Nat
           /\ operator_write_mutexes[j] \in Conn \cup {NoConn}
           /\ operator_clients[j] \in Fd \cup {0, -1}
<1>1. operator_count \in Nat /\ operator_count <= MaxOperators
  BY BoundsAssumption DEF TypeOK
<1>2. \A j \in 1 .. operator_count : j \in Slots /\ j \in Nat
  BY <1>1, BoundsAssumption DEF Slots
<1>. QED
  BY <1>2 DEF TypeOK

(* Alerts and replies are messages. *)
LEMMA MessageType ==
  ASSUME TypeOK, NEW c \in Conn
  PROVE  Alert(c) \in Message /\ Reply(c) \in Message
BY DEF TypeOK, Alert, Reply, Message

(* A send keeps the types of the network, whatever becomes of it. *)
LEMMA DeliveredType ==
  ASSUME TypeOK, NEW d \in Conn, NEW message \in Message,
         Delivered(d, message) \/ Dropped(d) \/ Refused(d)
  PROVE  /\ stream' \in [Conn -> Seq(Message)] /\ unread' \in [Conn -> Nat]
         /\ peer' \in [Conn -> {"open", "fin", "rst", "dead"}]
<1>1. Append(stream[d], message) \in Seq(Message)
  BY AppendProperties DEF TypeOK
<1>2. CASE Delivered(d, message)
  <2>1. stream' \in [Conn -> Seq(Message)]
    BY <1>1, <1>2 DEF Delivered, TypeOK
  <2>2. unread' \in [Conn -> Nat] /\ peer' = peer
    BY <1>2 DEF Delivered, TypeOK
  <2>. QED
    BY <2>1, <2>2 DEF TypeOK
<1>3. CASE Dropped(d)
  BY <1>3 DEF Dropped, TypeOK
<1>4. CASE Refused(d)
  BY <1>4 DEF Refused, TypeOK
<1>. QED
  BY <1>2, <1>3, <1>4

(* Every step keeps the types. *)
LEMMA TypeInductive ==
  ASSUME TypeOK, [Next]_vars
  PROVE  TypeOK'
<1>1. ASSUME NEW c \in Conn, Accept(c) PROVE TypeOK'
  BY <1>1 DEF Accept, At, Goto, TypeOK, Labels, registry, network
<1>2. ASSUME NEW c \in Conn, NEW kind \in {"login", "measure", "other"}, Receive(c, kind)
      PROVE  TypeOK'
  <2>1. commands' \in [Conn -> Nat]
    BY <1>2 DEF Receive, TypeOK
  <2>2. pc' \in [Conn -> Labels] /\ logins' \in [Conn -> Nat]
    <3>1. \/ logins' = [logins EXCEPT ![c] = @ + 1]
          \/ logins' = logins
      BY <1>2 DEF Receive
    <3>2. \E label \in Labels : pc' = [pc EXCEPT ![c] = label]
      BY <1>2 DEF Receive, Goto, Labels
    <3>3. pc' \in [Conn -> Labels]
      BY <3>2 DEF TypeOK
    <3>4. logins' \in [Conn -> Nat]
      <4>1. logins \in [Conn -> Nat] /\ logins[c] + 1 \in Nat
        BY DEF TypeOK
      <4>2. CASE logins' = [logins EXCEPT ![c] = logins[c] + 1]
        BY <4>1, <4>2
      <4>3. CASE logins' = logins
        BY <4>1, <4>3
      <4>. QED
        BY <3>1, <4>2, <4>3
    <3>. QED
      BY <3>3, <3>4
  <2>. QED
    BY <1>2, <2>1, <2>2 DEF Receive, TypeOK, registry, network
<1>3. ASSUME NEW c \in Conn, ReceiveFails(c) PROVE TypeOK'
  BY <1>3 DEF ReceiveFails, At, Goto, TypeOK, Labels, registry, network
<1>4. ASSUME NEW c \in Conn, register_operator(c) PROVE TypeOK'
  <2>1. pc' \in [Conn -> Labels] /\ response' \in [Conn -> {"role", "other"}]
    BY <1>4 DEF register_operator, Goto, TypeOK, Labels
  <2>2. CASE operator_count < MaxOperators
    <3>1. operator_count' \in 0 .. MaxOperators
      BY <1>4, <2>2, BoundsAssumption DEF register_operator, TypeOK
    <3>2. operator_clients' \in [Slots -> Fd \cup {0, -1}]
      BY <1>4, <2>2, ZenonT(60) DEF register_operator, TypeOK
    <3>3. operator_write_mutexes' \in [Slots -> Conn \cup {NoConn}]
      BY <1>4, <2>2 DEF register_operator, TypeOK
    <3>. QED
      BY <1>4, <2>1, <3>1, <3>2, <3>3 DEF register_operator, TypeOK, network
  <2>3. CASE ~(operator_count < MaxOperators)
    BY <1>4, <2>1, <2>3 DEF register_operator, TypeOK, registry, network
  <2>. QED
    BY <2>2, <2>3
<1>5. ASSUME NEW c \in Conn, BeginBroadcast(c) PROVE TypeOK'
  <2>1. published' \in Seq(Message)
    BY <1>5, MessageType, AppendProperties DEF BeginBroadcast, TypeOK
  <2>. QED
    BY <1>5, <2>1 DEF BeginBroadcast, At, Goto, TypeOK, Labels, registry, network
<1>6. ASSUME NEW c \in Conn, SkipSlot(c) PROVE TypeOK'
  BY <1>6 DEF SkipSlot, At, Goto, TypeOK, Labels, registry, network
<1>7. ASSUME NEW c \in Conn, LockSlot(c) PROVE TypeOK'
  BY <1>7 DEF LockSlot, At, Goto, TypeOK, Labels, registry, network
<1>8. ASSUME NEW c \in Conn, PushAlert(c) PROVE TypeOK'
  <2>1. /\ stream' \in [Conn -> Seq(Message)] /\ unread' \in [Conn -> Nat]
        /\ peer' \in [Conn -> {"open", "fin", "rst", "dead"}]
    BY <1>8, MessageType, DeliveredType DEF PushAlert
  <2>2. pc' \in [Conn -> Labels] /\ i' \in [Conn -> Nat]
    BY <1>8 DEF PushAlert, Goto, TypeOK, Labels
  <2>3. write_mutex' \in [Conn -> Conn \cup {NoConn}]
    BY <1>8 DEF PushAlert, TypeOK
  <2>. QED
    BY <1>8, <2>1, <2>2, <2>3 DEF PushAlert, TypeOK, registry
<1>9. ASSUME NEW c \in Conn, EndBroadcast(c) PROVE TypeOK'
  BY <1>9 DEF EndBroadcast, At, Goto, TypeOK, Labels, registry, network
<1>10. ASSUME NEW c \in Conn, LockOwn(c) PROVE TypeOK'
  BY <1>10 DEF LockOwn, At, Goto, TypeOK, Labels, registry, network
<1>11. ASSUME NEW c \in Conn, SendReply(c) PROVE TypeOK'
  BY <1>11, MessageType, DeliveredType DEF SendReply, Goto, TypeOK, Labels, registry
<1>12. ASSUME NEW c \in Conn, SendFails(c) PROVE TypeOK'
  BY <1>12, MessageType, DeliveredType DEF SendFails, Goto, TypeOK, Labels, registry
<1>13. ASSUME NEW c \in Conn, BrokenPipe(c) PROVE TypeOK'
  BY <1>13 DEF BrokenPipe, At, Goto, TypeOK, Labels, registry, network
<1>14. ASSUME NEW c \in Conn, remove_operator(c) PROVE TypeOK'
  BY <1>14 DEF remove_operator, At, Goto, TypeOK, Labels, registry, network
<1>15. ASSUME NEW c \in Conn, CloseSocket(c) PROVE TypeOK'
  BY <1>15 DEF CloseSocket, At, Goto, TypeOK, Labels, registry, network
<1>16. ASSUME NEW c \in Conn, FreeContext(c) PROVE TypeOK'
  BY <1>16 DEF FreeContext, At, Goto, TypeOK, Labels, registry, network
<1>17. ASSUME NEW c \in Conn, PeerReads(c) PROVE TypeOK'
  BY <1>17 DEF PeerReads, At, Goto, TypeOK, Labels, registry, network
<1>18. ASSUME NEW c \in Conn, PeerCloses(c) PROVE TypeOK'
  BY <1>18 DEF PeerCloses, At, Goto, TypeOK, Labels, registry, network
<1>19. ASSUME UNCHANGED vars PROVE TypeOK'
  BY <1>19 DEF vars, registry, network, TypeOK
<1>. QED
  BY <1>1, <1>2, <1>3, <1>4, <1>5, <1>6, <1>7, <1>8, <1>9, <1>10, <1>11, <1>12, <1>13,
     <1>14, <1>15, <1>16, <1>17, <1>18, <1>19 DEF Next, Thread, Over

(* accept() gives a free descriptor, close() gives back one's own. *)
LEMMA DescriptorsInductive ==
  ASSUME TypeOK, Descriptors, [Next]_vars
  PROVE  Descriptors'
<1>1. ASSUME NEW c \in Conn, Accept(c) PROVE Descriptors'
  BY <1>1, FdAssumption, SMTT(30) DEF Accept, At, Goto, TypeOK, Descriptors
<1>2. ASSUME NEW c \in Conn, NEW kind \in {"login", "measure", "other"}, Receive(c, kind)
      PROVE  Descriptors'
  BY <1>2, FdAssumption DEF Receive, At, Goto, TypeOK, Descriptors
<1>3. ASSUME NEW c \in Conn, ReceiveFails(c) PROVE Descriptors'
  BY <1>3, FdAssumption DEF ReceiveFails, At, Goto, TypeOK, Descriptors
<1>4. ASSUME NEW c \in Conn, register_operator(c) PROVE Descriptors'
  BY <1>4, FdAssumption DEF register_operator, At, Goto, TypeOK, Descriptors
<1>5. ASSUME NEW c \in Conn, BeginBroadcast(c) PROVE Descriptors'
  BY <1>5, FdAssumption DEF BeginBroadcast, At, Goto, TypeOK, Descriptors
<1>6. ASSUME NEW c \in Conn, SkipSlot(c) PROVE Descriptors'
  BY <1>6, FdAssumption DEF SkipSlot, At, Goto, TypeOK, Descriptors
<1>7. ASSUME NEW c \in Conn, LockSlot(c) PROVE Descriptors'
  BY <1>7, FdAssumption DEF LockSlot, At, Goto, TypeOK, Descriptors
<1>8. ASSUME NEW c \in Conn, PushAlert(c) PROVE Descriptors'
  BY <1>8, FdAssumption DEF PushAlert, At, Goto, TypeOK, Descriptors
<1>9. ASSUME NEW c \in Conn, EndBroadcast(c) PROVE Descriptors'
  BY <1>9, FdAssumption DEF EndBroadcast, At, Goto, TypeOK, Descriptors
<1>10. ASSUME NEW c \in Conn, LockOwn(c) PROVE Descriptors'
  BY <1>10, FdAssumption DEF LockOwn, At, Goto, TypeOK, Descriptors
<1>11. ASSUME NEW c \in Conn, SendReply(c) PROVE Descriptors'
  BY <1>11, FdAssumption DEF SendReply, At, Goto, TypeOK, Descriptors
<1>12. ASSUME NEW c \in Conn, SendFails(c) PROVE Descriptors'
  BY <1>12, FdAssumption DEF SendFails, At, Goto, TypeOK, Descriptors
<1>13. ASSUME NEW c \in Conn, BrokenPipe(c) PROVE Descriptors'
  BY <1>13, FdAssumption DEF BrokenPipe, At, Goto, TypeOK, Descriptors
<1>14. ASSUME NEW c \in Conn, remove_operator(c) PROVE Descriptors'
  BY <1>14, FdAssumption DEF remove_operator, At, Goto, TypeOK, Descriptors
<1>15. ASSUME NEW c \in Conn, CloseSocket(c) PROVE Descriptors'
  BY <1>15, FdAssumption DEF CloseSocket, At, Goto, TypeOK, Descriptors
<1>16. ASSUME NEW c \in Conn, FreeContext(c) PROVE Descriptors'
  BY <1>16, FdAssumption DEF FreeContext, At, Goto, TypeOK, Descriptors
<1>17. ASSUME NEW c \in Conn, PeerReads(c) PROVE Descriptors'
  BY <1>17, FdAssumption DEF PeerReads, At, Goto, TypeOK, Descriptors
<1>18. ASSUME NEW c \in Conn, PeerCloses(c) PROVE Descriptors'
  BY <1>18, FdAssumption DEF PeerCloses, At, Goto, TypeOK, Descriptors
<1>19. ASSUME UNCHANGED vars PROVE Descriptors'
  BY <1>19 DEF vars, Descriptors
<1>. QED
  BY <1>1, <1>2, <1>3, <1>4, <1>5, <1>6, <1>7, <1>8, <1>9, <1>10, <1>11, <1>12, <1>13,
     <1>14, <1>15, <1>16, <1>17, <1>18, <1>19 DEF Next, Thread, Over

(* A bound of one LOGIN per connection is kept. *)
LEMMA SessionsInductive ==
  ASSUME MaxLogins <= 1, TypeOK, Sessions, [Next]_vars
  PROVE  Sessions'
<1>1. ASSUME NEW c \in Conn, NEW kind \in {"login", "measure", "other"}, Receive(c, kind)
      PROVE  Sessions'
  <2>1. \A d \in Conn : logins[d] \in Nat
    BY DEF TypeOK
  <2>2. CASE kind = "login"
    <3>1. logins[c] < MaxLogins /\ logins' = [logins EXCEPT ![c] = @ + 1]
      BY <1>1, <2>2 DEF Receive
    <3>2. logins[c] = 0
      BY <2>1, <3>1, BoundsAssumption
    <3>3. logins'[c] = 1 /\ \A d \in Conn : d # c => logins'[d] = logins[d]
      BY <3>1, <3>2 DEF TypeOK
    <3>4. \A d \in Conn : d # c => pc'[d] = pc[d]
      BY <1>1 DEF Receive, Goto, TypeOK
    <3>. QED
      BY <3>3, <3>4 DEF Sessions
  <2>3. CASE kind # "login"
    <3>1. logins' = logins /\ pc'[c] # "login" /\ \A d \in Conn : d # c => pc'[d] = pc[d]
      BY <1>1, <2>3 DEF Receive, Goto, TypeOK
    <3>. QED
      BY <3>1 DEF Sessions
  <2>. QED
    BY <2>2, <2>3
<1>2. ASSUME NEW c \in Conn,
             Accept(c) \/ ReceiveFails(c) \/ register_operator(c) \/ BeginBroadcast(c)
             \/ SkipSlot(c) \/ LockSlot(c) \/ PushAlert(c) \/ EndBroadcast(c)
             \/ LockOwn(c) \/ SendReply(c) \/ SendFails(c) \/ BrokenPipe(c)
             \/ remove_operator(c) \/ CloseSocket(c) \/ FreeContext(c) \/ PeerReads(c)
             \/ PeerCloses(c)
      PROVE  Sessions'
  <2>1. /\ logins' = logins
        /\ \A d \in Conn : pc'[d] = "login" => pc[d] = "login"
    BY <1>2 DEF Goto, TypeOK, Accept, ReceiveFails, register_operator, BeginBroadcast,
           SkipSlot, LockSlot, PushAlert, EndBroadcast, LockOwn, SendReply, SendFails, BrokenPipe,
           remove_operator, CloseSocket, FreeContext, PeerReads, PeerCloses
  <2>. QED
    BY <2>1 DEF Sessions
<1>3. ASSUME UNCHANGED vars PROVE Sessions'
  BY <1>3 DEF vars, Sessions
<1>. QED
  BY <1>1, <1>2, <1>3 DEF Next, Thread, Over

(* Every step keeps the owners of the mutexes where they are used. *)
LEMMA MutexesInductive ==
  ASSUME TypeOK, Descriptors, Mutexes, Table, [Next]_vars
  PROVE  Mutexes'
<1>1. ASSUME NEW c \in Conn, Accept(c) PROVE Mutexes'
  BY <1>1, ConnAssumption, FdAssumption, BoundsAssumption, SMTT(30)
  DEF Accept, At, Goto, TypeOK, registry, network, SlotInUse, Mutexes
<1>2. ASSUME NEW c \in Conn, NEW kind \in {"login", "measure", "other"}, Receive(c, kind)
      PROVE  Mutexes'
  <2>1. /\ pc[c] = "recv" /\ pc'[c] \in {"login", "broadcast", "reply"}
        /\ \A d \in Conn : d # c => pc'[d] = pc[d]
    BY <1>2 DEF Receive, At, Goto, TypeOK
  <2>2. UNCHANGED <<registry, operator_mutex, write_mutex, i>>
    BY <1>2 DEF Receive
  <2>. QED
    BY <2>1, <2>2 DEF Mutexes, SlotInUse, registry
<1>3. ASSUME NEW c \in Conn, ReceiveFails(c) PROVE Mutexes'
  BY <1>3, ConnAssumption, FdAssumption, BoundsAssumption, SMTT(30)
  DEF ReceiveFails, At, Goto, TypeOK, registry, network, SlotInUse, Mutexes
<1>4. ASSUME NEW c \in Conn, register_operator(c) PROVE Mutexes'
  <2>1. /\ pc[c] = "login" /\ pc'[c] = "reply" /\ \A d \in Conn : d # c => pc'[d] = pc[d]
        /\ operator_mutex = NoConn /\ UNCHANGED <<operator_mutex, write_mutex, i>>
    BY <1>4 DEF register_operator, At, Goto, TypeOK
  <2>2. \A d \in Conn : pc'[d] \notin {"scan", "push"}
    BY <2>1, ConnAssumption DEF Mutexes
  <2>3. \A d \in Conn : pc[d] \notin {"scan", "push"}
    BY <2>1, ConnAssumption DEF Mutexes
  <2>4. \A d \in Conn : operator_mutex' # d
    BY <2>1, ConnAssumption
  <2>5. \A d \in Conn : pc'[d] = "send" => write_mutex'[d] = d
    BY <2>1 DEF Mutexes
  <2>6. \A d, e \in Conn : write_mutex'[e] = d => pc'[d] = "send" /\ d = e
    BY <2>1, <2>3 DEF Mutexes
  <2>. QED
    BY <2>2, <2>4, <2>5, <2>6 DEF Mutexes
<1>5. ASSUME NEW c \in Conn, BeginBroadcast(c) PROVE Mutexes'
  BY <1>5, ConnAssumption, FdAssumption, BoundsAssumption, SMTT(30)
  DEF BeginBroadcast, At, Goto, TypeOK, registry, network, SlotInUse, Mutexes
<1>6. ASSUME NEW c \in Conn, SkipSlot(c) PROVE Mutexes'
  BY <1>6, ConnAssumption, FdAssumption, BoundsAssumption, SMTT(30)
  DEF SkipSlot, At, Goto, TypeOK, registry, network, SlotInUse, Mutexes
<1>7. ASSUME NEW c \in Conn, LockSlot(c) PROVE Mutexes'
  <2> DEFINE d == operator_write_mutexes[i[c]]
  <2>1. /\ pc[c] = "scan" /\ pc'[c] = "push" /\ i[c] \in 1 .. operator_count
        /\ \A e \in Conn : e # c => pc'[e] = pc[e]
        /\ SlotInUse(i[c]) /\ write_mutex[d] = NoConn
        /\ write_mutex' = [write_mutex EXCEPT ![d] = c]
        /\ UNCHANGED <<registry, operator_mutex, i>>
    BY <1>7 DEF LockSlot, At, Goto, TypeOK, Mutexes
  <2>2. d \in Conn
    BY <2>1, SlotTypes DEF SlotInUse
  <2>3. write_mutex'[d] = c /\ \A e \in Conn : e # d => write_mutex'[e] = write_mutex[e]
    BY <2>1, <2>2 DEF TypeOK
  <2>4. \A e \in Conn : e # c => pc[e] # "push"
    BY <2>1 DEF Mutexes
  <2>5. \A e \in Conn : pc[e] = "send" => e # d
    BY <2>1, ConnAssumption DEF Mutexes
  <2> HIDE DEF d
  <2>6. \A e \in Conn : operator_mutex' = e <=> pc'[e] \in {"scan", "push"}
    BY <2>1 DEF Mutexes
  <2>7. \A e \in Conn : pc'[e] = "push" =>
          /\ i'[e] \in 1 .. operator_count' /\ SlotInUse(i[e])
          /\ write_mutex'[operator_write_mutexes'[i'[e]]] = e
    BY <2>1, <2>3, <2>4 DEF registry, d
  <2>8. \A e \in Conn : pc'[e] = "send" => write_mutex'[e] = e
    BY <2>1, <2>3, <2>5 DEF Mutexes
  <2>9. \A e, f \in Conn : write_mutex'[f] = e =>
          \/ pc'[e] = "send" /\ e = f
          \/ pc'[e] = "push" /\ operator_write_mutexes'[i'[e]] = f
    BY <2>1, <2>2, <2>3 DEF Mutexes, registry, d
  <2>. QED
    BY <2>1, <2>6, <2>7, <2>8, <2>9 DEF Mutexes, SlotInUse, registry
<1>8. ASSUME NEW c \in Conn, PushAlert(c) PROVE Mutexes'
  <2> DEFINE d == operator_write_mutexes[i[c]]
  <2>1. /\ pc[c] = "push" /\ pc'[c] = "scan" /\ i'[c] = i[c] + 1 /\ i[c] \in Nat
        /\ \A e \in Conn : e # c => pc'[e] = pc[e] /\ i'[e] = i[e]
        /\ write_mutex' = [write_mutex EXCEPT ![d] = NoConn]
        /\ UNCHANGED <<registry, operator_mutex>>
    BY <1>8 DEF PushAlert, At, Goto, TypeOK
  <2>2. d \in Conn /\ i[c] \in 1 .. operator_count
    BY <2>1, SlotTypes DEF Mutexes, SlotInUse
  <2>3. write_mutex'[d] = NoConn /\ \A e \in Conn : e # d => write_mutex'[e] = write_mutex[e]
    BY <2>1, <2>2 DEF TypeOK
  <2>4. \A e \in Conn : e # c => pc[e] # "push"
    BY <2>1 DEF Mutexes
  <2>5. \A e \in Conn : pc[e] = "send" => e # d
    BY <2>1 DEF Mutexes
  <2> HIDE DEF d
  <2>6. \A e \in Conn : operator_mutex' = e <=> pc'[e] \in {"scan", "push"}
    BY <2>1 DEF Mutexes
  <2>7. \A e \in Conn : pc'[e] # "push"
    BY <2>1, <2>4
  <2>8. \A e \in Conn : pc'[e] = "send" => write_mutex'[e] = e
    BY <2>1, <2>3, <2>5 DEF Mutexes
  <2>9. \A e, f \in Conn : write_mutex'[f] = e =>
          \/ pc'[e] = "send" /\ e = f
          \/ pc'[e] = "push" /\ operator_write_mutexes'[i'[e]] = f
    BY <2>1, <2>2, <2>3, <2>4, ConnAssumption DEF Mutexes, d
  <2>10. \A e \in Conn : pc'[e] = "scan" => i'[e] >= 1
    BY <2>1, <2>2 DEF Mutexes
  <2>. QED
    BY <2>6, <2>7, <2>8, <2>9, <2>10 DEF Mutexes
<1>9. ASSUME NEW c \in Conn, EndBroadcast(c) PROVE Mutexes'
  BY <1>9, ConnAssumption, FdAssumption, BoundsAssumption, SMTT(30)
  DEF EndBroadcast, At, Goto, TypeOK, registry, network, SlotInUse, Mutexes
<1>10. ASSUME NEW c \in Conn, LockOwn(c) PROVE Mutexes'
  BY <1>10, ConnAssumption, FdAssumption, BoundsAssumption, SMTT(30)
  DEF LockOwn, At, Goto, TypeOK, registry, network, SlotInUse, Mutexes
<1>11. ASSUME NEW c \in Conn, SendReply(c) PROVE Mutexes'
  <2>1. /\ pc[c] = "send" /\ pc'[c] = "recv"
        /\ \A e \in Conn : e # c => pc'[e] = pc[e]
        /\ write_mutex'[c] = NoConn /\ \A e \in Conn : e # c => write_mutex'[e] = write_mutex[e]
        /\ UNCHANGED <<registry, operator_mutex, i>>
    BY <1>11 DEF SendReply, At, Goto, TypeOK
  <2>2. \A e \in Conn : pc[e] = "push" => operator_write_mutexes[i[e]] # c
    BY <2>1 DEF Mutexes
  <2>3. \A e \in Conn : pc[e] = "push" => operator_write_mutexes[i[e]] \in Conn
    BY SlotTypes DEF Mutexes, SlotInUse
  <2>. QED
    BY <2>1, <2>2, <2>3, ConnAssumption DEF Mutexes, SlotInUse, registry
<1>12. ASSUME NEW c \in Conn, SendFails(c) PROVE Mutexes'
  <2>1. /\ pc[c] = "send" /\ pc'[c] = "remove"
        /\ \A e \in Conn : e # c => pc'[e] = pc[e]
        /\ write_mutex'[c] = NoConn /\ \A e \in Conn : e # c => write_mutex'[e] = write_mutex[e]
        /\ UNCHANGED <<registry, operator_mutex, i>>
    BY <1>12 DEF SendFails, At, Goto, TypeOK
  <2>2. \A e \in Conn : pc[e] = "push" => operator_write_mutexes[i[e]] # c
    BY <2>1 DEF Mutexes
  <2>3. \A e \in Conn : pc[e] = "push" => operator_write_mutexes[i[e]] \in Conn
    BY SlotTypes DEF Mutexes, SlotInUse
  <2>. QED
    BY <2>1, <2>2, <2>3, ConnAssumption DEF Mutexes, SlotInUse, registry
<1>13. ASSUME NEW c \in Conn, BrokenPipe(c) PROVE Mutexes'
  BY <1>13, ConnAssumption, FdAssumption, BoundsAssumption, SMTT(30)
  DEF BrokenPipe, At, Goto, TypeOK, registry, network, SlotInUse, Mutexes
<1>14. ASSUME NEW c \in Conn, remove_operator(c) PROVE Mutexes'
  BY <1>14, ConnAssumption, FdAssumption, BoundsAssumption, SMTT(30)
  DEF remove_operator, At, Goto, TypeOK, registry, network, SlotInUse, Mutexes
<1>15. ASSUME NEW c \in Conn, CloseSocket(c) PROVE Mutexes'
  BY <1>15, ConnAssumption, FdAssumption, BoundsAssumption, SMTT(30)
  DEF CloseSocket, At, Goto, TypeOK, registry, network, SlotInUse, Mutexes
<1>16. ASSUME NEW c \in Conn, FreeContext(c) PROVE Mutexes'
  BY <1>16, ConnAssumption, FdAssumption, BoundsAssumption, SMTT(30)
  DEF FreeContext, At, Goto, TypeOK, registry, network, SlotInUse, Mutexes
<1>17. ASSUME NEW c \in Conn, PeerReads(c) PROVE Mutexes'
  BY <1>17, ConnAssumption, FdAssumption, BoundsAssumption, SMTT(30)
  DEF PeerReads, At, Goto, TypeOK, registry, network, SlotInUse, Mutexes
<1>18. ASSUME NEW c \in Conn, PeerCloses(c) PROVE Mutexes'
  BY <1>18, ConnAssumption, FdAssumption, BoundsAssumption, SMTT(30)
  DEF PeerCloses, At, Goto, TypeOK, registry, network, SlotInUse, Mutexes
<1>19. ASSUME UNCHANGED vars PROVE Mutexes'
  BY <1>19 DEF vars, registry, network, SlotInUse, Mutexes
<1>. QED
  BY <1>1, <1>2, <1>3, <1>4, <1>5, <1>6, <1>7, <1>8, <1>9, <1>10, <1>11, <1>12, <1>13,
     <1>14, <1>15, <1>16, <1>17, <1>18, <1>19 DEF Next, Thread, Over

(* Every step keeps the slots and their threads together. *)
LEMMA TableInductive ==
  ASSUME MaxLogins <= 1, TypeOK, Descriptors, Sessions, Table, [Next]_vars
  PROVE  Table'
<1>1. ASSUME NEW c \in Conn, Accept(c) PROVE Table'
  BY <1>1, ConnAssumption, FdAssumption, BoundsAssumption
  DEF Accept, At, Goto, TypeOK, registry, network, Descriptors, Sessions, Table
<1>2. ASSUME NEW c \in Conn, NEW kind \in {"login", "measure", "other"}, Receive(c, kind)
      PROVE  Table'
  <2>1. /\ pc[c] = "recv" /\ \A d \in Conn : d # c => pc'[d] = pc[d]
        /\ UNCHANGED <<registry, sock>>
    BY <1>2 DEF Receive, At, Goto, TypeOK
  <2>2. CASE kind = "login"
    <3>1. /\ logins[c] = 0 /\ logins'[c] = 1 /\ \A d \in Conn : d # c => logins'[d] = logins[d]
      BY <1>2, <2>2, BoundsAssumption DEF Receive, TypeOK
    <3>2. \A j \in 1 .. operator_count : operator_write_mutexes[j] # c
      BY <3>1, ConnAssumption DEF Table
    <3>3. \A j \in 1 .. operator_count : operator_write_mutexes[j] \in Conn \cup {NoConn}
      BY SlotTypes
    <3>. QED
      BY <2>1, <3>1, <3>2, <3>3 DEF Table, registry
  <2>3. CASE kind # "login"
    <3>1. logins' = logins /\ pc'[c] \in {"broadcast", "reply"}
      BY <1>2, <2>3 DEF Receive, Goto, TypeOK
    <3>2. \A j \in 1 .. operator_count : operator_write_mutexes[j] \in Conn \cup {NoConn}
      BY SlotTypes
    <3>. QED
      BY <2>1, <3>1, <3>2 DEF Table, registry
  <2>. QED
    BY <2>2, <2>3
<1>3. ASSUME NEW c \in Conn, ReceiveFails(c) PROVE Table'
  BY <1>3, ConnAssumption, FdAssumption, BoundsAssumption
  DEF ReceiveFails, At, Goto, TypeOK, registry, network, Descriptors, Sessions, Table
<1>4. ASSUME NEW c \in Conn, register_operator(c) PROVE Table'
  <2>1. /\ pc[c] = "login" /\ pc'[c] = "reply" /\ \A d \in Conn : d # c => pc'[d] = pc[d]
        /\ UNCHANGED <<sock, logins>>
    BY <1>4 DEF register_operator, At, Goto, TypeOK
  <2>2. \A j \in 1 .. operator_count :
          operator_write_mutexes[j] # c /\ operator_write_mutexes[j] \in Conn \cup {NoConn}
    BY <2>1, SlotTypes, ConnAssumption DEF Table
  <2>3. CASE operator_count < MaxOperators
    <3> DEFINE n == operator_count + 1
    <3>1. /\ operator_count' = n /\ n \in Slots /\ operator_count \in Nat
          /\ operator_clients'[n] = sock[c] /\ operator_write_mutexes'[n] = c
          /\ \A j \in 1 .. operator_count :
               /\ operator_clients'[j] = operator_clients[j]
               /\ operator_write_mutexes'[j] = operator_write_mutexes[j]
      BY <1>4, <2>3, BoundsAssumption DEF register_operator, TypeOK, Slots
    <3>2. \A j \in 1 .. operator_count' : j \in 1 .. operator_count \/ j = n
      BY <3>1
    <3>3. logins[c] = 1
      BY <1>4, <2>1 DEF Sessions
    <3> HIDE DEF n
    <3>. QED
      BY <2>1, <2>2, <3>1, <3>2, <3>3, ConnAssumption DEF Table
  <2>4. CASE ~(operator_count < MaxOperators)
    <3>1. UNCHANGED registry
      BY <1>4, <2>4 DEF register_operator
    <3>. QED
      BY <2>1, <2>2, <3>1 DEF Table, registry
  <2>. QED
    BY <2>3, <2>4
<1>5. ASSUME NEW c \in Conn, BeginBroadcast(c) PROVE Table'
  BY <1>5, ConnAssumption, FdAssumption, BoundsAssumption
  DEF BeginBroadcast, At, Goto, TypeOK, registry, network, Descriptors, Sessions, Table
<1>6. ASSUME NEW c \in Conn, SkipSlot(c) PROVE Table'
  BY <1>6, ConnAssumption, FdAssumption, BoundsAssumption
  DEF SkipSlot, At, Goto, TypeOK, registry, network, Descriptors, Sessions, Table
<1>7. ASSUME NEW c \in Conn, LockSlot(c) PROVE Table'
  BY <1>7, ConnAssumption, FdAssumption, BoundsAssumption
  DEF LockSlot, At, Goto, TypeOK, registry, network, Descriptors, Sessions, Table
<1>8. ASSUME NEW c \in Conn, PushAlert(c) PROVE Table'
  BY <1>8, ConnAssumption, FdAssumption, BoundsAssumption, SMTT(30)
  DEF PushAlert, At, Goto, TypeOK, registry, network, Descriptors, Sessions, Table
<1>9. ASSUME NEW c \in Conn, EndBroadcast(c) PROVE Table'
  BY <1>9, ConnAssumption, FdAssumption, BoundsAssumption
  DEF EndBroadcast, At, Goto, TypeOK, registry, network, Descriptors, Sessions, Table
<1>10. ASSUME NEW c \in Conn, LockOwn(c) PROVE Table'
  BY <1>10, ConnAssumption, FdAssumption, BoundsAssumption
  DEF LockOwn, At, Goto, TypeOK, registry, network, Descriptors, Sessions, Table
<1>11. ASSUME NEW c \in Conn, SendReply(c) PROVE Table'
  BY <1>11, ConnAssumption, FdAssumption, BoundsAssumption
  DEF SendReply, At, Goto, TypeOK, registry, network, Descriptors, Sessions, Table
<1>12. ASSUME NEW c \in Conn, SendFails(c) PROVE Table'
  BY <1>12, ConnAssumption, FdAssumption, BoundsAssumption
  DEF SendFails, At, Goto, TypeOK, registry, network, Descriptors, Sessions, Table
<1>13. ASSUME NEW c \in Conn, BrokenPipe(c) PROVE Table'
  BY <1>13, ConnAssumption, FdAssumption, BoundsAssumption
  DEF BrokenPipe, At, Goto, TypeOK, registry, network, Descriptors, Sessions, Table
<1>14. ASSUME NEW c \in Conn, remove_operator(c) PROVE Table'
  <2>1. /\ pc[c] = "remove" /\ pc'[c] = "close" /\ \A d \in Conn : d # c => pc'[d] = pc[d]
        /\ UNCHANGED <<sock, logins, operator_count>>
    BY <1>14 DEF remove_operator, At, Goto, TypeOK
  <2>2. \A j \in 1 .. operator_count :
          j \in Slots /\ operator_write_mutexes[j] \in Conn \cup {NoConn}
    BY SlotTypes
  <2>3. sock[c] \in Fd /\ sock[c] > 0
    <3>1. sock[c] # 0
      BY <2>1 DEF Descriptors
    <3>2. sock[c] \in Fd \cup {0}
      BY DEF TypeOK
    <3>3. sock[c] \in Fd
      BY <3>1, <3>2
    <3>4. sock[c] \in Nat /\ sock[c] # 0
      BY <3>1, <3>3, FdAssumption
    <3>. QED
      BY <3>3, <3>4
  <2>4. \A j \in 1 .. operator_count : operator_write_mutexes[j] = c <=> j \in SlotsOf(c)
    BY <2>1, <2>2, <2>3, ConnAssumption DEF SlotsOf, Table, Descriptors
  <2>5. CASE SlotsOf(c) = {}
    <3>1. UNCHANGED <<operator_clients, operator_write_mutexes>>
      BY <1>14, <2>5 DEF remove_operator
    <3>. QED
      BY <2>1, <2>2, <2>4, <2>5, <3>1 DEF Table
  <2>6. CASE SlotsOf(c) # {}
    <3>1. PICK j \in SlotsOf(c) :
            /\ operator_clients' = [operator_clients EXCEPT ![j] = -1]
            /\ operator_write_mutexes' = [operator_write_mutexes EXCEPT ![j] = NoConn]
      BY <1>14, <2>6 DEF remove_operator
    <3>2. j \in 1 .. operator_count /\ j \in Slots /\ operator_write_mutexes[j] = c
      BY <2>2, <2>4 DEF SlotsOf
    <3>3. /\ operator_clients'[j] = -1 /\ operator_write_mutexes'[j] = NoConn
          /\ \A k \in 1 .. operator_count : k # j =>
               /\ operator_clients'[k] = operator_clients[k]
               /\ operator_write_mutexes'[k] = operator_write_mutexes[k]
      BY <2>2, <3>1, <3>2 DEF TypeOK
    <3>4. \A k \in 1 .. operator_count : k # j => operator_write_mutexes[k] # c
      BY <3>2, ConnAssumption DEF Table
    <3>. QED
      BY <2>1, <2>2, <3>2, <3>3, <3>4 DEF Table
  <2>. QED
    BY <2>5, <2>6
<1>15. ASSUME NEW c \in Conn, CloseSocket(c) PROVE Table'
  BY <1>15, ConnAssumption, FdAssumption, BoundsAssumption
  DEF CloseSocket, At, Goto, TypeOK, registry, network, Descriptors, Sessions, Table
<1>16. ASSUME NEW c \in Conn, FreeContext(c) PROVE Table'
  BY <1>16, ConnAssumption, FdAssumption, BoundsAssumption
  DEF FreeContext, At, Goto, TypeOK, registry, network, Descriptors, Sessions, Table
<1>17. ASSUME NEW c \in Conn, PeerReads(c) PROVE Table'
  BY <1>17, ConnAssumption, FdAssumption, BoundsAssumption
  DEF PeerReads, At, Goto, TypeOK, registry, network, Descriptors, Sessions, Table
<1>18. ASSUME NEW c \in Conn, PeerCloses(c) PROVE Table'
  BY <1>18, ConnAssumption, FdAssumption, BoundsAssumption
  DEF PeerCloses, At, Goto, TypeOK, registry, network, Descriptors, Sessions, Table
<1>19. ASSUME UNCHANGED vars PROVE Table'
  BY <1>19 DEF vars, registry, network, SlotInUse, Table
<1>. QED
  BY <1>1, <1>2, <1>3, <1>4, <1>5, <1>6, <1>7, <1>8, <1>9, <1>10, <1>11, <1>12, <1>13,
     <1>14, <1>15, <1>16, <1>17, <1>18, <1>19 DEF Next, Thread, Over

(* The initial state satisfies every part of the invariant. *)
LEMMA InitialState ==
  ASSUME Init
  PROVE  TypeOK /\ Descriptors /\ Mutexes /\ Table /\ Sessions
<1>1. TypeOK
  <2>1. stream \in [Conn -> Seq(Message)]
    BY DEF Init
  <2>2. operator_count \in 0 .. MaxOperators
    BY BoundsAssumption DEF Init
  <2>. QED
    BY <2>1, <2>2 DEF Init, TypeOK, Labels
<1>2. Descriptors
  BY DEF Init, Descriptors
<1>3. Mutexes
  BY ConnAssumption DEF Init, Mutexes
<1>4. Table
  BY DEF Init, Table
<1>5. Sessions
  BY DEF Init, Sessions
<1>. QED
  BY <1>1, <1>2, <1>3, <1>4, <1>5

(***************************************************************************)
(* Type correctness, for any number of logins: in particular the table of  *)
(* operators (server.c:83-92) is never written past its last slot.         *)
(***************************************************************************)
THEOREM TypeCorrect == Spec => []TypeOK
<1>1. Init => TypeOK
  BY InitialState
<1>2. TypeOK /\ [Next]_vars => TypeOK'
  BY TypeInductive
<1>. QED
  BY <1>1, <1>2, PTL DEF Spec

IInv == TypeOK /\ Descriptors /\ Sessions /\ Mutexes /\ Table

(* The conjunction of the parts is inductive if nobody logs in twice. *)
THEOREM ThreadsInvariant ==
  ASSUME MaxLogins <= 1
  PROVE  Spec => []IInv
<1>1. Init => IInv
  BY InitialState DEF IInv
<1>2. IInv /\ [Next]_vars => IInv'
  BY MaxLogins <= 1, TypeInductive, DescriptorsInductive, SessionsInductive,
     MutexesInductive, TableInductive DEF IInv
<1>. QED
  BY <1>1, <1>2, PTL DEF Spec

(* A mutex is held by a thread that is sending, for a context in session. *)
LEMMA OutliveState ==
  ASSUME IInv
  PROVE  ContextsOutliveUse
<1>. USE DEF IInv
<1>1. \A j \in 1 .. operator_count : SlotInUse(j) =>
        /\ pc[operator_write_mutexes[j]] \notin {"new", "close", "release", "done"}
        /\ operator_clients[j] = sock[operator_write_mutexes[j]]
  BY DEF Table, SlotInUse
<1>2. ASSUME NEW c \in Conn, pc[c] \in {"release", "done"}, write_mutex[c] # NoConn
      PROVE  FALSE
  <2>1. PICK holder \in Conn : write_mutex[c] = holder
    BY <1>2 DEF TypeOK
  <2>2. pc[holder] = "push" /\ operator_write_mutexes[i[holder]] = c
    BY <1>2, <2>1 DEF Mutexes
  <2>3. i[holder] \in 1 .. operator_count /\ SlotInUse(i[holder])
    BY <2>2 DEF Mutexes
  <2>. QED
    BY <1>1, <1>2, <2>2, <2>3
<1>. QED
  BY <1>1, <1>2 DEF ContextsOutliveUse

(* The holder of write_mutex[d] is the only one that can write to d. *)
LEMMA WriterState ==
  ASSUME IInv
  PROVE  OneWriterPerSocket
<1>. USE DEF IInv
<1>1. ASSUME NEW c \in Conn, NEW d \in Conn, WritesTo(c, d)
      PROVE  write_mutex[d] = c
  <2>1. CASE pc[c] = "send" /\ c = d
    BY <2>1 DEF Mutexes
  <2>2. CASE pc[c] = "push" /\ sock[d] # 0 /\ operator_clients[i[c]] = sock[d]
    <3>1. /\ i[c] \in 1 .. operator_count /\ SlotInUse(i[c])
          /\ write_mutex[operator_write_mutexes[i[c]]] = c
      BY <2>2 DEF Mutexes
    <3>2. PICK owner \in Conn : operator_write_mutexes[i[c]] = owner
      BY <3>1, SlotTypes DEF SlotInUse
    <3>3. sock[owner] = sock[d]
      BY <2>2, <3>1, <3>2 DEF Table, SlotInUse
    <3>4. owner = d
      BY <2>2, <3>3 DEF Descriptors
    <3>. QED
      BY <3>1, <3>2, <3>4
  <2>. QED
    BY <1>1, <2>1, <2>2 DEF WritesTo
<1>. QED
  BY <1>1 DEF OneWriterPerSocket

(***************************************************************************)
(* A write_mutex that a broadcast waits for is held by the thread of that  *)
(* context, in its send(): the only other candidate is a broadcast.        *)
(***************************************************************************)
LEMMA WaitsState ==
  ASSUME IInv
  PROVE  NoCircularWait
<1>. USE DEF IInv
<1>1. ASSUME NEW c \in Conn, NEW d \in Conn, pc[c] = "scan", WaitsFor(c, d)
      PROVE  pc[d] = "send"
  <2>1. /\ i[c] \in 1 .. operator_count
        /\ write_mutex[operator_write_mutexes[i[c]]] = d /\ SlotInUse(i[c])
    <3>1. i[c] <= operator_count /\ i[c] >= 1 /\ i[c] \in Nat /\ operator_count \in Nat
      BY <1>1, BoundsAssumption DEF WaitsFor, Mutexes, TypeOK
    <3>. QED
      BY <1>1, <3>1 DEF WaitsFor
  <2>2. operator_write_mutexes[i[c]] \in Conn
    BY <2>1, SlotTypes DEF SlotInUse
  <2>3. pc[d] \in {"send", "push"}
    BY <2>1, <2>2 DEF Mutexes
  <2>4. pc[d] # "push"
    BY <1>1 DEF Mutexes
  <2>. QED
    BY <2>3, <2>4
<1>2. ASSUME NEW c \in Conn, NEW d \in Conn, pc[c] # "scan", WaitsFor(c, d)
      PROVE  pc[d] \in {"scan", "push", "send"}
  BY <1>2 DEF WaitsFor, Mutexes
<1>. QED
  BY <1>1, <1>2 DEF NoCircularWait

(***************************************************************************)
(* No thread uses the context of another after it may have been freed:     *)
(* remove_operator precedes close() and free(), and broadcast_alert holds  *)
(* operator_mutex from its first slot to its last (server.c:95-135).       *)
(***************************************************************************)
THEOREM ContextsOutlive ==
  ASSUME MaxLogins <= 1
  PROVE  Spec => []ContextsOutliveUse
<1>1. Spec => []IInv
  BY MaxLogins <= 1, ThreadsInvariant
<1>2. IInv => ContextsOutliveUse
  BY OutliveState
<1>. QED
  BY <1>1, <1>2, PTL

(***************************************************************************)
(* Replies and alerts to one client never interleave: whoever sends on a   *)
(* socket holds the write_mutex of the context that owns it.               *)
(***************************************************************************)
THEOREM OneWriter ==
  ASSUME MaxLogins <= 1
  PROVE  Spec => []OneWriterPerSocket
<1>1. Spec => []IInv
  BY MaxLogins <= 1, ThreadsInvariant
<1>2. IInv => OneWriterPerSocket
  BY WriterState
<1>. QED
  BY <1>1, <1>2, PTL

(***************************************************************************)
(* The two kinds of mutex cannot be waited for in a circle (server.c:82-   *)
(* 118, 249-257): every wait ends at a thread that is inside send().       *)
(***************************************************************************)
THEOREM NoThreadsInACircle ==
  ASSUME MaxLogins <= 1
  PROVE  Spec => []NoCircularWait
<1>1. Spec => []IInv
  BY MaxLogins <= 1, ThreadsInvariant
<1>2. IInv => NoCircularWait
  BY WaitsState
<1>. QED
  BY <1>1, <1>2, PTL

-----------------------------------------------------------------------------
(* Sent to d: one more message. *)
Grows(d, message) == stream' = [stream EXCEPT ![d] = Append(@, message)]

(* An alert is sent once its broadcast has begun, to slots it has passed. *)
Sent ==
  \A d \in Conn : \A k \in 1 .. Len(stream[d]) : IsAlert(stream[d][k]) =>
    LET from == stream[d][k].from
    IN  /\ stream[d][k].n <= commands[from]
        /\ stream[d][k].n = commands[from] =>
             /\ pc[from] # "broadcast"
             /\ Running(from) =>
                  \E j \in 1 .. operator_count : j < i[from] /\ operator_write_mutexes[j] = d

(* A broadcast has been sent to the open connections of the slots it has passed. *)
Reached ==
  \A c \in Conn : Running(c) =>
    \A j \in 1 .. operator_count : \A d \in Conn :
      j < i[c] /\ operator_write_mutexes[j] = d /\ peer[d] = "open" =>
        \E k \in 1 .. Len(stream[d]) : stream[d][k] = Alert(c)

(* While it runs no other alert is sent. *)
Latest ==
  \A c, d \in Conn : Running(c) =>
    \A k, l \in 1 .. Len(stream[d]) :
      k < l /\ stream[d][k] = Alert(c) => ~IsAlert(stream[d][l])

(* Whoever has been answered, or will be, OK ROLE_... is in the table, while in session. *)
Roles ==
  \A c \in Conn : response[c] = "role" \/ AnsweredRole(c) =>
    /\ pc[c] # "new"
    /\ InSession(c) => Listed(c) \/ operator_count = MaxOperators

(* What a stream holds after a message has been added to one. *)
LEMMA Appended ==
  ASSUME TypeOK, NEW d \in Conn, NEW message \in Message, Grows(d, message)
  PROVE  /\ \A e \in Conn : Len(stream[e]) \in Nat
         /\ \A e \in Conn : e # d => stream'[e] = stream[e]
         /\ Len(stream'[d]) = Len(stream[d]) + 1
         /\ stream'[d][Len(stream[d]) + 1] = message
         /\ \A e \in Conn : \A k \in 1 .. Len(stream[e]) :
              k \in 1 .. Len(stream'[e]) /\ stream'[e][k] = stream[e][k]
         /\ \A e \in Conn : \A k \in 1 .. Len(stream'[e]) :
              k \in 1 .. Len(stream[e]) \/ (e = d /\ k = Len(stream[d]) + 1)
<1>1. \A e \in Conn : stream[e] \in Seq(Message) /\ Len(stream[e]) \in Nat
  BY DEF TypeOK
<1>2. stream'[d] = Append(stream[d], message)
  BY DEF Grows, TypeOK
<1>3. \A e \in Conn : e # d => stream'[e] = stream[e]
  BY DEF Grows, TypeOK
<1>4. /\ Len(stream'[d]) = Len(stream[d]) + 1
      /\ stream'[d][Len(stream[d]) + 1] = message
      /\ \A k \in 1 .. Len(stream[d]) : stream'[d][k] = stream[d][k]
  BY <1>1, <1>2, AppendProperties
<1>. QED
  BY <1>1, <1>3, <1>4

(* A broadcast writes to the connection that owns the slot. *)
LEMMA PushGoesToOwner ==
  ASSUME IInv, NEW c \in Conn, PushAlert(c)
  PROVE  \E d \in Conn :
           /\ operator_write_mutexes[i[c]] = d /\ i[c] \in 1 .. operator_count
           /\ logins[d] = 1
           /\ \/ peer[d] = "open" /\ peer' = peer /\ Grows(d, Alert(c))
              \/ peer[d] # "open" /\ stream' = stream
<1>. USE DEF IInv
<1>1. pc[c] = "push" /\ i[c] \in 1 .. operator_count /\ SlotInUse(i[c])
  BY DEF PushAlert, At, Mutexes
<1>2. PICK owner \in Conn : operator_write_mutexes[i[c]] = owner
  BY <1>1, SlotTypes DEF SlotInUse
<1>3. /\ logins[owner] = 1 /\ operator_clients[i[c]] = sock[owner] /\ sock[owner] # 0
  BY <1>1, <1>2, ConnAssumption DEF Table, Descriptors
<1>4. PICK d \in Conn : /\ sock[d] = operator_clients[i[c]]
                        /\ Delivered(d, Alert(c)) \/ Dropped(d) \/ Refused(d)
  BY DEF PushAlert
<1>5. d = owner
  BY <1>3, <1>4 DEF Descriptors
<1>6. ASSUME Delivered(d, Alert(c))
      PROVE  peer[d] = "open" /\ peer' = peer /\ Grows(d, Alert(c))
  <2>1. Alert(c).kind # "other"
    BY DEF Alert
  <2>. QED
    BY <1>6, <2>1 DEF Delivered, Grows
<1>7. ASSUME Dropped(d) \/ Refused(d)
      PROVE  peer[d] # "open" /\ stream' = stream
  BY <1>7 DEF Dropped, Refused
<1>. QED
  BY <1>1, <1>2, <1>3, <1>4, <1>5, <1>6, <1>7

(* A reply adds at most a role to the stream of its own connection. *)
LEMMA ReplyGoesHome ==
  ASSUME TypeOK, NEW c \in Conn, SendReply(c)
  PROVE  \/ stream' = stream
         \/ response[c] = "role" /\ Grows(c, Reply(c))
<1>1. CASE Dropped(c)
  BY <1>1 DEF Dropped
<1>2. CASE Delivered(c, Reply(c))
  <2>1. response[c] \in {"role", "other"} /\ Reply(c).kind = response[c]
    BY DEF TypeOK, Reply
  <2>. QED
    BY <1>2, <2>1 DEF Delivered, Grows
<1>. QED
  BY <1>1, <1>2 DEF SendReply

(* What a step does to the streams. *)
LEMMA StreamStep ==
  ASSUME IInv, [Next]_vars
  PROVE  \/ stream' = stream
         \/ \E c, d \in Conn :
              /\ PushAlert(c) /\ Grows(d, Alert(c)) /\ peer' = peer
              /\ operator_write_mutexes[i[c]] = d /\ i[c] \in 1 .. operator_count
              /\ logins[d] = 1
         \/ \E c \in Conn : SendReply(c) /\ response[c] = "role" /\ Grows(c, Reply(c))
<1>1. ASSUME NEW c \in Conn, PushAlert(c)
      PROVE  \/ stream' = stream
             \/ \E d \in Conn :
                  /\ Grows(d, Alert(c)) /\ peer' = peer
                  /\ operator_write_mutexes[i[c]] = d /\ i[c] \in 1 .. operator_count
                  /\ logins[d] = 1
  BY <1>1, PushGoesToOwner
<1>2. ASSUME NEW c \in Conn, SendReply(c)
      PROVE  \/ stream' = stream
             \/ response[c] = "role" /\ Grows(c, Reply(c))
  BY <1>2, ReplyGoesHome DEF IInv
<1>3. ASSUME NEW c \in Conn, NEW kind \in {"login", "measure", "other"}, Receive(c, kind)
      PROVE  stream' = stream
  BY <1>3 DEF Receive, network
<1>4. ASSUME NEW c \in Conn,
             Accept(c) \/ ReceiveFails(c) \/ register_operator(c) \/ BeginBroadcast(c)
             \/ SkipSlot(c) \/ LockSlot(c) \/ EndBroadcast(c) \/ LockOwn(c) \/ SendFails(c)
             \/ BrokenPipe(c) \/ remove_operator(c) \/ CloseSocket(c) \/ FreeContext(c)
             \/ PeerReads(c) \/ PeerCloses(c)
      PROVE  stream' = stream
  BY <1>4 DEF network, Accept, ReceiveFails, register_operator, BeginBroadcast, SkipSlot,
         LockSlot, EndBroadcast, LockOwn, SendFails, Refused, BrokenPipe, remove_operator,
         CloseSocket, FreeContext, PeerReads, PeerCloses
<1>5. ASSUME UNCHANGED vars PROVE stream' = stream
  BY <1>5 DEF vars, network
<1>. QED
  BY <1>1, <1>2, <1>3, <1>4, <1>5 DEF Next, Thread, Over

(* What a step does to a command and to a broadcast: it is received, it begins, *)
(* or it goes on, by at most one slot, with the table as it is.                 *)
LEMMA BroadcastStep ==
  ASSUME IInv, [Next]_vars, NEW f \in Conn
  PROVE  \/ commands'[f] = commands[f] + 1 /\ ~Running(f)'
         \/ /\ commands'[f] = commands[f]
            /\ pc'[f] = "broadcast" => pc[f] = "broadcast"
            /\ Running(f)' =>
                 \/ pc[f] = "broadcast" /\ i'[f] = 1
                 \/ /\ Running(f) /\ UNCHANGED registry
                    /\ \/ i'[f] = i[f]
                       \/ i'[f] = i[f] + 1 /\ (PushAlert(f) \/ ~SlotInUse(i[f]))
<1>. USE DEF IInv
<1>1. ASSUME NEW c \in Conn, NEW kind \in {"login", "measure", "other"}, Receive(c, kind)
      PROVE  \/ commands'[f] = commands[f] + 1 /\ pc'[f] \notin {"scan", "push"}
             \/ commands'[f] = commands[f] /\ pc'[f] = pc[f] /\ i'[f] = i[f] /\ UNCHANGED registry
  BY <1>1 DEF Receive, Goto, TypeOK
<1>2. ASSUME NEW c \in Conn, PushAlert(c)
      PROVE  /\ commands'[f] = commands[f] /\ UNCHANGED registry
             /\ \/ f = c /\ pc[f] = "push" /\ pc'[f] = "scan" /\ i'[f] = i[f] + 1
                \/ f # c /\ pc'[f] = pc[f] /\ i'[f] = i[f]
  BY <1>2 DEF PushAlert, At, Goto, TypeOK
<1>3. ASSUME NEW c \in Conn, SkipSlot(c)
      PROVE  /\ commands'[f] = commands[f] /\ UNCHANGED registry /\ pc'[f] = pc[f]
             /\ \/ i'[f] = i[f]
                \/ i'[f] = i[f] + 1 /\ ~SlotInUse(i[f])
  BY <1>3 DEF SkipSlot, At, TypeOK
<1>4. ASSUME NEW c \in Conn, register_operator(c) \/ remove_operator(c)
      PROVE  /\ commands'[f] = commands[f] /\ pc'[f] \notin {"scan", "push"}
             /\ pc'[f] = "broadcast" => pc[f] = "broadcast"
  <2>1. operator_mutex = NoConn
    BY <1>4 DEF register_operator, remove_operator
  <2>2. pc[f] \notin {"scan", "push"}
    BY <2>1, ConnAssumption DEF Mutexes
  <2>. QED
    BY <1>4, <2>2 DEF register_operator, remove_operator, At, Goto, TypeOK
<1>5. ASSUME NEW c \in Conn,
             BeginBroadcast(c) \/ LockSlot(c) \/ EndBroadcast(c)
      PROVE  /\ commands'[f] = commands[f] /\ UNCHANGED registry
             /\ \/ f = c /\ pc[f] = "broadcast" /\ pc'[f] = "scan" /\ i'[f] = 1
                \/ f = c /\ pc[f] = "scan" /\ pc'[f] = "push" /\ i'[f] = i[f]
                \/ f = c /\ pc'[f] = "reply"
                \/ f # c /\ pc'[f] = pc[f] /\ i'[f] = i[f]
  BY <1>5 DEF BeginBroadcast, LockSlot, EndBroadcast, At, Goto, TypeOK
<1>6. ASSUME NEW c \in Conn,
             Accept(c) \/ ReceiveFails(c) \/ LockOwn(c) \/ SendReply(c) \/ SendFails(c)
             \/ BrokenPipe(c) \/ CloseSocket(c) \/ FreeContext(c) \/ PeerReads(c)
             \/ PeerCloses(c)
      PROVE  /\ commands'[f] = commands[f] /\ UNCHANGED registry /\ i'[f] = i[f]
             /\ pc'[f] = pc[f] \/ pc'[f] \notin {"scan", "push", "broadcast"}
  BY <1>6 DEF Accept, ReceiveFails, LockOwn, SendReply, SendFails, BrokenPipe,
         CloseSocket, FreeContext, PeerReads, PeerCloses, Goto, TypeOK
<1>7. ASSUME UNCHANGED vars
      PROVE  /\ commands'[f] = commands[f] /\ UNCHANGED registry /\ i'[f] = i[f]
             /\ pc'[f] = pc[f]
  BY <1>7 DEF vars
<1>. QED
  BY <1>1, <1>2, <1>3, <1>4, <1>5, <1>6, <1>7 DEF Next, Thread, Over, Running

(* A connection that is not open will not be, and LOGINs are not forgotten. *)
LEMMA PeersStep ==
  ASSUME IInv, [Next]_vars, NEW d \in Conn
  PROVE  /\ peer'[d] = "open" => peer[d] = "open"
         /\ logins'[d] = 0 => logins[d] = 0
<1>. USE DEF IInv
<1>1. ASSUME NEW c \in Conn, NEW kind \in {"login", "measure", "other"}, Receive(c, kind)
      PROVE  peer' = peer /\ (logins'[d] = 0 => logins[d] = 0)
  <2>1. logins[d] \in Nat
    BY DEF TypeOK
  <2>2. logins' = logins \/ logins' = [logins EXCEPT ![c] = @ + 1]
    BY <1>1 DEF Receive
  <2>. QED
    BY <1>1, <2>1, <2>2 DEF Receive, network, TypeOK
<1>2. ASSUME NEW c \in Conn, PushAlert(c)
      PROVE  /\ peer'[d] = "open" => peer[d] = "open"
             /\ logins' = logins
  BY <1>2 DEF PushAlert, Delivered, Dropped, Refused, TypeOK
<1>3. ASSUME NEW c \in Conn,
             SendReply(c) \/ SendFails(c) \/ ReceiveFails(c) \/ CloseSocket(c) \/ PeerCloses(c)
      PROVE  (peer'[d] = "open" => peer[d] = "open") /\ logins' = logins
  BY <1>3 DEF SendReply, SendFails, ReceiveFails, CloseSocket, PeerCloses, Delivered,
         Dropped, Refused, TypeOK
<1>4. ASSUME NEW c \in Conn,
             Accept(c) \/ register_operator(c) \/ BeginBroadcast(c) \/ SkipSlot(c)
             \/ LockSlot(c) \/ EndBroadcast(c) \/ LockOwn(c) \/ BrokenPipe(c)
             \/ remove_operator(c) \/ FreeContext(c) \/ PeerReads(c)
      PROVE  peer' = peer /\ logins' = logins
  BY <1>4 DEF network, Accept, register_operator, BeginBroadcast, SkipSlot, LockSlot,
         EndBroadcast, LockOwn, BrokenPipe, remove_operator, FreeContext, PeerReads
<1>5. ASSUME UNCHANGED vars PROVE peer' = peer /\ logins' = logins
  BY <1>5 DEF vars, network
<1>. QED
  BY <1>1, <1>2, <1>3, <1>4, <1>5 DEF Next, Thread, Over

(* Of an alert that is sent now, nothing has been sent to its operator before. *)
LEMMA NotSentBefore ==
  ASSUME IInv, Sent, NEW c \in Conn, pc[c] = "push", NEW d \in Conn,
         operator_write_mutexes[i[c]] = d, i[c] \in 1 .. operator_count,
         NEW k \in 1 .. Len(stream[d])
  PROVE  stream[d][k] # Alert(c)
<1>. USE DEF IInv
<1>1. SUFFICES ASSUME stream[d][k] = Alert(c) PROVE FALSE
  OBVIOUS
<1>2. /\ IsAlert(stream[d][k]) /\ stream[d][k].from = c
      /\ stream[d][k].n = commands[c]
  BY <1>1 DEF IsAlert, Alert
<1>3. PICK j \in 1 .. operator_count : j < i[c] /\ operator_write_mutexes[j] = d
  BY <1>2 DEF Sent, Running
<1>4. j = i[c]
  BY <1>3, ConnAssumption DEF Table
<1>5. i[c] \in Nat
  BY DEF TypeOK
<1>. QED
  BY <1>3, <1>4, <1>5

LEMMA SentInductive ==
  ASSUME IInv, Sent, [Next]_vars
  PROVE  Sent'
<1>. USE DEF IInv
<1>1. ASSUME NEW d \in Conn, NEW k \in 1 .. Len(stream[d]), IsAlert(stream[d][k]),
             NEW s, s = stream[d][k]
      PROVE  /\ s.n <= commands'[s.from]
             /\ s.n = commands'[s.from] => pc'[s.from] # "broadcast"
             /\ s.n = commands'[s.from] /\ Running(s.from)' =>
                  \E j \in 1 .. operator_count' :
                    j < i'[s.from] /\ operator_write_mutexes'[j] = d
  <2>1. s \in Message /\ s.from \in Conn /\ s.n \in Nat
    <3>1. stream[d] \in Seq(Message)
      BY DEF TypeOK
    <3>2. s \in Message
      BY <1>1, <3>1
    <3>. QED
      BY <3>2 DEF Message
  <2>2. PICK f \in Conn : f = s.from
    BY <2>1
  <2>3. /\ s.n <= commands[f]
        /\ s.n = commands[f] => pc[f] # "broadcast"
        /\ s.n = commands[f] /\ Running(f) =>
             \E j \in 1 .. operator_count : j < i[f] /\ operator_write_mutexes[j] = d
    BY <1>1, <2>2 DEF Sent
  <2>4. commands[f] \in Nat /\ i[f] \in Nat
    BY DEF TypeOK
  <2>5. CASE commands'[f] = commands[f] + 1
    <3>1. s.n < commands'[f]
      BY <2>1, <2>3, <2>4, <2>5
    <3>. QED
      BY <2>1, <2>2, <2>4, <2>5, <3>1
  <2>6. CASE /\ commands'[f] = commands[f]
             /\ pc'[f] = "broadcast" => pc[f] = "broadcast"
             /\ Running(f)' =>
                  \/ pc[f] = "broadcast" /\ i'[f] = 1
                  \/ /\ Running(f) /\ UNCHANGED registry
                     /\ \/ i'[f] = i[f]
                        \/ i'[f] = i[f] + 1 /\ (PushAlert(f) \/ ~SlotInUse(i[f]))
    <3>1. ASSUME s.n = commands'[f], Running(f)'
          PROVE  \E j \in 1 .. operator_count' : j < i'[f] /\ operator_write_mutexes'[j] = d
      <4>1. pc[f] # "broadcast"
        BY <2>3, <2>6, <3>1
      <4>2. Running(f) /\ UNCHANGED registry /\ (i'[f] = i[f] \/ i'[f] = i[f] + 1)
        BY <2>6, <3>1, <4>1
      <4>3. PICK j \in 1 .. operator_count : j < i[f] /\ operator_write_mutexes[j] = d
        BY <2>3, <2>6, <3>1, <4>2
      <4>4. j < i'[f]
        BY <2>4, <4>2, <4>3
      <4>. QED
        BY <4>2, <4>3, <4>4 DEF registry
    <3>2. s.n = commands'[f] => pc'[f] # "broadcast"
      BY <2>3, <2>6
    <3>. QED
      BY <2>2, <2>3, <2>6, <3>1, <3>2
  <2>. QED
    BY <2>5, <2>6, BroadcastStep
<1>2. CASE stream' = stream
  BY <1>1, <1>2 DEF Sent
<1>3. CASE \E c, d \in Conn :
              /\ PushAlert(c) /\ Grows(d, Alert(c)) /\ peer' = peer
              /\ operator_write_mutexes[i[c]] = d /\ i[c] \in 1 .. operator_count
              /\ logins[d] = 1
  <2>1. PICK c \in Conn, d \in Conn :
              /\ PushAlert(c) /\ Grows(d, Alert(c))
              /\ operator_write_mutexes[i[c]] = d /\ i[c] \in 1 .. operator_count
    BY <1>3
  <2>2. Alert(c) \in Message
    BY MessageType
  <2>3. /\ pc'[c] = "scan" /\ commands' = commands /\ i'[c] = i[c] + 1 /\ i[c] \in Nat
        /\ UNCHANGED registry
    BY <2>1 DEF PushAlert, Goto, TypeOK
  <2>4. /\ Alert(c).from = c /\ Alert(c).n = commands[c] /\ commands[c] \in Nat
    BY DEF Alert, TypeOK
  <2>5. i[c] \in 1 .. operator_count' /\ i[c] < i'[c] /\ operator_write_mutexes'[i[c]] = d
    BY <2>1, <2>3 DEF registry
  <2>6. ASSUME NEW e \in Conn, NEW k \in 1 .. Len(stream'[e]), IsAlert(stream'[e][k]),
               NEW s, s = stream'[e][k]
        PROVE  /\ s.n <= commands'[s.from]
               /\ s.n = commands'[s.from] => pc'[s.from] # "broadcast"
               /\ s.n = commands'[s.from] /\ Running(s.from)' =>
                    \E j \in 1 .. operator_count' :
                      j < i'[s.from] /\ operator_write_mutexes'[j] = e
    <3>1. CASE k \in 1 .. Len(stream[e])
      <4>1. s = stream[e][k] /\ IsAlert(stream[e][k])
        BY <2>1, <2>2, <2>6, <3>1, Appended
      <4>. QED
        BY <1>1, <3>1, <4>1
    <3>2. CASE e = d /\ k = Len(stream[d]) + 1
      <4>1. s = Alert(c)
        BY <2>1, <2>2, <2>6, <3>2, Appended
      <4>. QED
        BY <2>3, <2>4, <2>5, <3>2, <4>1
    <3>. QED
      BY <2>1, <2>2, <3>1, <3>2, Appended
  <2>. QED
    BY <2>6 DEF Sent
<1>4. CASE \E c \in Conn : SendReply(c) /\ response[c] = "role" /\ Grows(c, Reply(c))
  <2>1. PICK c \in Conn : response[c] = "role" /\ Grows(c, Reply(c))
    BY <1>4
  <2>2. Reply(c) \in Message /\ ~IsAlert(Reply(c))
    BY <2>1, MessageType DEF Reply, IsAlert
  <2>3. ASSUME NEW e \in Conn, NEW k \in 1 .. Len(stream'[e]), IsAlert(stream'[e][k])
        PROVE  k \in 1 .. Len(stream[e]) /\ stream'[e][k] = stream[e][k]
    BY <2>1, <2>2, <2>3, Appended
  <2>. QED
    BY <1>1, <2>3 DEF Sent
<1>. QED
  BY <1>2, <1>3, <1>4, StreamStep

LEMMA ReachedInductive ==
  ASSUME IInv, Reached, [Next]_vars
  PROVE  Reached'
<1>. USE DEF IInv
<1>1. ASSUME NEW c \in Conn, Running(c)', NEW j \in 1 .. operator_count', NEW d \in Conn,
             j < i'[c], operator_write_mutexes'[j] = d, peer'[d] = "open"
      PROVE  \E k \in 1 .. Len(stream'[d]) : stream'[d][k] = Alert(c)'
  <2>1. peer[d] = "open"
    BY <1>1, PeersStep
  <2>2. operator_count' \in Nat /\ j \in Nat
    BY TypeInductive, BoundsAssumption, SMTT(30) DEF TypeOK
  <2>3. /\ commands'[c] = commands[c]
        /\ \/ pc[c] = "broadcast" /\ i'[c] = 1
           \/ /\ Running(c) /\ UNCHANGED registry
              /\ \/ i'[c] = i[c]
                 \/ i'[c] = i[c] + 1 /\ (PushAlert(c) \/ ~SlotInUse(i[c]))
    BY <1>1, BroadcastStep
  <2>4. Alert(c)' = Alert(c)
    BY <2>3 DEF Alert
  <2>5. /\ Running(c) /\ j \in 1 .. operator_count /\ operator_write_mutexes[j] = d
        /\ \/ i'[c] = i[c]
           \/ i'[c] = i[c] + 1 /\ (PushAlert(c) \/ ~SlotInUse(i[c]))
    BY <1>1, <2>2, <2>3 DEF registry
  <2>6. i[c] \in Nat
    BY DEF TypeOK
  <2>7. CASE j < i[c]
    <3>1. PICK k \in 1 .. Len(stream[d]) : stream[d][k] = Alert(c)
      BY <2>1, <2>5, <2>7 DEF Reached
    <3>2. k \in 1 .. Len(stream'[d]) /\ stream'[d][k] = stream[d][k]
      <4>1. CASE stream' = stream
        BY <4>1
      <4>2. ASSUME NEW e \in Conn, NEW message \in Message, Grows(e, message)
            PROVE  k \in 1 .. Len(stream'[d]) /\ stream'[d][k] = stream[d][k]
        BY <4>2, Appended
      <4>. QED
        BY <4>1, <4>2, StreamStep, MessageType
    <3>. QED
      BY <2>4, <3>1, <3>2
  <2>8. CASE ~(j < i[c])
    <3>1. j = i[c] /\ i'[c] = i[c] + 1 /\ (PushAlert(c) \/ ~SlotInUse(i[c]))
      BY <1>1, <2>2, <2>5, <2>6, <2>8
    <3>2. SlotInUse(j)
      <4>1. operator_clients[j] = sock[d] /\ sock[d] # 0
        BY <2>5, ConnAssumption DEF Table, Descriptors
      <4>2. sock[d] \in Fd \cup {0}
        BY DEF TypeOK
      <4>3. sock[d] \in Fd
        BY <4>1, <4>2
      <4>4. sock[d] \in Nat /\ sock[d] # 0
        BY <4>3, FdAssumption
      <4>. QED
        BY <2>5, <4>1, <4>4, ConnAssumption DEF SlotInUse
    <3>3. PushAlert(c)
      BY <3>1, <3>2
    <3>4. Grows(d, Alert(c))
      BY <2>1, <2>5, <3>1, <3>3, PushGoesToOwner
    <3>5. /\ Len(stream[d]) + 1 \in 1 .. Len(stream'[d])
          /\ stream'[d][Len(stream[d]) + 1] = Alert(c)
      BY <3>4, MessageType, Appended
    <3>. QED
      BY <2>4, <3>5
  <2>. QED
    BY <2>7, <2>8
<1>. QED
  BY <1>1 DEF Reached

LEMMA LatestInductive ==
  ASSUME IInv, Sent, Latest, [Next]_vars
  PROVE  Latest'
<1>. USE DEF IInv
(* Between messages that were there before. *)
<1>1. ASSUME NEW c \in Conn, Running(c)', NEW d \in Conn,
             NEW k \in 1 .. Len(stream[d]), NEW l \in 1 .. Len(stream[d]),
             k < l, stream[d][k] = Alert(c)'
      PROVE  ~IsAlert(stream[d][l])
  <2>1. /\ commands'[c] = commands[c]
        /\ pc[c] = "broadcast" \/ Running(c)
    BY <1>1, BroadcastStep
  <2>2. stream[d][k] = Alert(c)
    BY <1>1, <2>1 DEF Alert
  <2>3. /\ IsAlert(stream[d][k]) /\ stream[d][k].from = c /\ stream[d][k].n = commands[c]
    BY <2>2 DEF IsAlert, Alert
  <2>4. pc[c] # "broadcast"
    BY <2>3 DEF Sent
  <2>. QED
    BY <1>1, <2>1, <2>2, <2>4 DEF Latest
<1>2. CASE stream' = stream
  BY <1>1, <1>2 DEF Latest
<1>3. CASE \E c, d \in Conn :
              /\ PushAlert(c) /\ Grows(d, Alert(c)) /\ peer' = peer
              /\ operator_write_mutexes[i[c]] = d /\ i[c] \in 1 .. operator_count
              /\ logins[d] = 1
  <2>1. PICK c \in Conn, d \in Conn :
              /\ PushAlert(c) /\ Grows(d, Alert(c))
              /\ operator_write_mutexes[i[c]] = d /\ i[c] \in 1 .. operator_count
    BY <1>3
  <2>2. Alert(c) \in Message /\ pc[c] = "push" /\ operator_mutex' = operator_mutex
    BY <2>1, MessageType DEF PushAlert, At
  <2>3. Mutexes' /\ commands' = commands /\ operator_mutex = c
    BY <2>1, <2>2, MutexesInductive DEF Mutexes, PushAlert
  <2>4. ASSUME NEW f \in Conn, Running(f)' PROVE f = c /\ Alert(f)' = Alert(c)
    BY <2>2, <2>3, <2>4 DEF Mutexes, Running, Alert
  <2>5. ASSUME NEW f \in Conn, NEW e \in Conn, Running(f)',
               NEW k \in 1 .. Len(stream'[e]), NEW l \in 1 .. Len(stream'[e]),
               k < l, stream'[e][k] = Alert(f)'
        PROVE  ~IsAlert(stream'[e][l])
    <3>1. Len(stream[e]) \in Nat /\ Len(stream'[d]) = Len(stream[d]) + 1
      BY <2>1, <2>2, Appended
    <3>2. k \in 1 .. Len(stream[e])
      BY <2>1, <2>2, <2>5, <3>1, Appended
    <3>3. stream[e][k] = Alert(c) /\ stream[e][k] = Alert(f)'
      BY <2>1, <2>2, <2>4, <2>5, <3>2, Appended
    <3>4. CASE l \in 1 .. Len(stream[e])
      <4>1. stream'[e][l] = stream[e][l]
        BY <2>1, <2>2, <3>4, Appended
      <4>. QED
        BY <1>1, <2>5, <3>2, <3>3, <3>4, <4>1
    <3>5. CASE e = d /\ l = Len(stream[d]) + 1
      BY <2>1, <2>2, <3>2, <3>3, <3>5, NotSentBefore
    <3>. QED
      BY <2>1, <2>2, <3>4, <3>5, Appended
  <2>. QED
    BY <2>5 DEF Latest
<1>4. CASE \E c \in Conn : SendReply(c) /\ response[c] = "role" /\ Grows(c, Reply(c))
  <2>1. PICK c \in Conn : response[c] = "role" /\ Grows(c, Reply(c))
    BY <1>4
  <2>2. Reply(c) \in Message /\ ~IsAlert(Reply(c))
    BY <2>1, MessageType DEF Reply, IsAlert
  <2>3. ASSUME NEW f \in Conn, NEW e \in Conn, Running(f)',
               NEW k \in 1 .. Len(stream'[e]), NEW l \in 1 .. Len(stream'[e]),
               k < l, stream'[e][k] = Alert(f)', IsAlert(stream'[e][l])
        PROVE  FALSE
    <3>1. l \in 1 .. Len(stream[e]) /\ stream'[e][l] = stream[e][l]
      BY <2>1, <2>2, <2>3, Appended, SMTT(30)
    <3>2. k \in 1 .. Len(stream[e])
      BY <2>1, <2>2, <2>3, <3>1, Appended
    <3>3. stream'[e][k] = stream[e][k]
      BY <2>1, <2>2, <3>2, Appended
    <3>. QED
      BY <1>1, <2>3, <3>1, <3>2, <3>3
  <2>. QED
    BY <2>3 DEF Latest
<1>. QED
  BY <1>2, <1>3, <1>4, StreamStep

LEMMA OnlyToOperatorsInductive ==
  ASSUME IInv, AlertsOnlyToOperators, [Next]_vars
  PROVE  AlertsOnlyToOperators'
<1>. USE DEF IInv
<1>1. ASSUME NEW e \in Conn, logins'[e] = 0, NEW k \in 1 .. Len(stream'[e])
      PROVE  ~IsAlert(stream'[e][k])
  <2>1. logins[e] = 0
    BY <1>1, PeersStep
  <2>2. k \in 1 .. Len(stream[e]) => ~IsAlert(stream[e][k])
    BY <2>1 DEF AlertsOnlyToOperators
  <2>3. CASE stream' = stream
    BY <1>1, <2>2, <2>3
  <2>4. ASSUME NEW c \in Conn, NEW d \in Conn, Grows(d, Alert(c)), logins[d] = 1
        PROVE  ~IsAlert(stream'[e][k])
    BY <1>1, <2>1, <2>2, <2>4, MessageType, Appended
  <2>5. ASSUME NEW c \in Conn, response[c] = "role", Grows(c, Reply(c))
        PROVE  ~IsAlert(stream'[e][k])
    <3>1. Reply(c) \in Message /\ ~IsAlert(Reply(c))
      BY <2>5, MessageType DEF Reply, IsAlert
    <3>. QED
      BY <1>1, <2>2, <2>5, <3>1, Appended
  <2>. QED
    BY <2>3, <2>4, <2>5, StreamStep
<1>. QED
  BY <1>1 DEF AlertsOnlyToOperators

(***************************************************************************)
(* What an operator can see of the log without knowing of the others: no   *)
(* alert is received twice.                                                *)
(***************************************************************************)
AlertsAtMostOnce ==
  \A d \in Conn : \A k, l \in 1 .. Len(stream[d]) :
    IsAlert(stream[d][k]) /\ stream[d][k] = stream[d][l] => k = l

(***************************************************************************)
(* And what two operators can compare: if two alerts reach both of them,   *)
(* they do so in the same order.                                           *)
(***************************************************************************)
Before(d, a, b) ==
  \E k, l \in 1 .. Len(stream[d]) : k < l /\ stream[d][k] = a /\ stream[d][l] = b

AlertsTotallyOrdered ==
  \A d, e \in Conn : \A k, l \in 1 .. Len(stream[d]) :
    k < l /\ IsAlert(stream[d][k]) /\ IsAlert(stream[d][l]) =>
      ~Before(e, stream[d][l], stream[d][k])

LEMMA AtMostOnceInductive ==
  ASSUME IInv, Sent, AlertsAtMostOnce, [Next]_vars
  PROVE  AlertsAtMostOnce'
<1>. USE DEF IInv
<1>1. CASE stream' = stream
  BY <1>1 DEF AlertsAtMostOnce
<1>2. ASSUME NEW d \in Conn, NEW message \in Message, Grows(d, message),
             \/ ~IsAlert(message)
             \/ \A k \in 1 .. Len(stream[d]) : stream[d][k] # message
      PROVE  AlertsAtMostOnce'
  <2>1. ASSUME NEW e \in Conn, NEW k \in 1 .. Len(stream'[e]), NEW l \in 1 .. Len(stream'[e]),
               IsAlert(stream'[e][k]), stream'[e][k] = stream'[e][l]
        PROVE  k = l
    <3>1. CASE k \in 1 .. Len(stream[e]) /\ l \in 1 .. Len(stream[e])
      <4>1. stream'[e][k] = stream[e][k] /\ stream'[e][l] = stream[e][l]
        BY <1>2, <3>1, Appended
      <4>. QED
        BY <2>1, <3>1, <4>1 DEF AlertsAtMostOnce
    <3>2. CASE e = d /\ k = Len(stream[d]) + 1
      <4>1. IsAlert(message) /\ stream'[e][l] = message
        BY <1>2, <2>1, <3>2, Appended
      <4>. QED
        BY <1>2, <3>2, <4>1, Appended
    <3>3. CASE e = d /\ l = Len(stream[d]) + 1
      <4>1. IsAlert(message) /\ stream'[e][k] = message
        BY <1>2, <2>1, <3>3, Appended
      <4>. QED
        BY <1>2, <3>3, <4>1, Appended
    <3>. QED
      BY <1>2, <3>1, <3>2, <3>3, Appended
  <2>. QED
    BY <2>1 DEF AlertsAtMostOnce
<1>3. ASSUME NEW c \in Conn, NEW d \in Conn, PushAlert(c), Grows(d, Alert(c)),
             operator_write_mutexes[i[c]] = d, i[c] \in 1 .. operator_count
      PROVE  AlertsAtMostOnce'
  <2>1. pc[c] = "push" /\ Alert(c) \in Message
    BY <1>3, MessageType DEF PushAlert, At
  <2>2. \A k \in 1 .. Len(stream[d]) : stream[d][k] # Alert(c)
    BY <1>3, <2>1, NotSentBefore
  <2>. QED
    BY <1>2, <1>3, <2>1, <2>2
<1>4. ASSUME NEW c \in Conn, response[c] = "role", Grows(c, Reply(c))
      PROVE  AlertsAtMostOnce'
  <2>1. Reply(c) \in Message /\ ~IsAlert(Reply(c))
    BY <1>4, MessageType DEF Reply, IsAlert
  <2>. QED
    BY <1>2, <1>4, <2>1
<1>. QED
  BY <1>1, <1>3, <1>4, StreamStep

(***************************************************************************)
(* The alert that is being sent is the last of every stream that has it,   *)
(* so it never comes before another that an operator has had before it.    *)
(***************************************************************************)
LEMMA OrderInductive ==
  ASSUME IInv, Sent, Latest, AlertsAtMostOnce, AlertsTotallyOrdered, [Next]_vars
  PROVE  AlertsTotallyOrdered'
<1>. USE DEF IInv
<1>1. CASE stream' = stream
  BY <1>1 DEF AlertsTotallyOrdered, Before
<1>2. ASSUME NEW d \in Conn, NEW message \in Message, Grows(d, message),
             IsAlert(message) =>
               /\ \A k \in 1 .. Len(stream[d]) : stream[d][k] # message
               /\ \A e \in Conn : \A k, l \in 1 .. Len(stream[e]) :
                    k < l /\ stream[e][k] = message => ~IsAlert(stream[e][l])
      PROVE  AlertsTotallyOrdered'
  <2>1. ASSUME NEW e \in Conn, NEW k \in 1 .. Len(stream'[e]), NEW l \in 1 .. Len(stream'[e]),
               NEW f \in Conn, NEW m \in 1 .. Len(stream'[f]), NEW n \in 1 .. Len(stream'[f]),
               k < l, IsAlert(stream'[e][k]), IsAlert(stream'[e][l]),
               m < n, stream'[f][m] = stream'[e][l], stream'[f][n] = stream'[e][k]
        PROVE  FALSE
    <3>1. k \in 1 .. Len(stream[e]) /\ stream'[e][k] = stream[e][k]
      BY <1>2, <2>1, Appended, SMTT(30)
    <3>2. m \in 1 .. Len(stream[f]) /\ stream'[f][m] = stream[f][m]
      BY <1>2, <2>1, Appended
    <3>3. CASE l \in 1 .. Len(stream[e]) /\ n \in 1 .. Len(stream[f])
      <4>1. stream'[e][l] = stream[e][l] /\ stream'[f][n] = stream[f][n]
        BY <1>2, <3>3, Appended
      <4>2. Before(f, stream[e][l], stream[e][k])
        BY <2>1, <3>1, <3>2, <3>3, <4>1 DEF Before
      <4>. QED
        BY <2>1, <3>1, <3>3, <4>1, <4>2 DEF AlertsTotallyOrdered
    <3>4. CASE l \notin 1 .. Len(stream[e])
      <4>1. stream'[e][l] = message /\ e = d
        BY <1>2, <3>4, Appended
      <4>2. IsAlert(message) /\ stream[f][m] = message
        BY <2>1, <3>2, <4>1
      <4>3. CASE n \in 1 .. Len(stream[f])
        <5>1. stream'[f][n] = stream[f][n]
          BY <1>2, <4>3, Appended
        <5>. QED
          BY <1>2, <2>1, <3>2, <4>2, <4>3, <5>1
      <4>4. CASE n \notin 1 .. Len(stream[f])
        <5>1. f = d
          BY <1>2, <4>4, Appended
        <5>. QED
          BY <1>2, <3>2, <4>2, <5>1
      <4>. QED
        BY <4>3, <4>4
    <3>5. CASE n \notin 1 .. Len(stream[f])
      <4>1. stream'[f][n] = message /\ f = d
        BY <1>2, <3>5, Appended
      <4>2. IsAlert(message) /\ stream[e][k] = message
        BY <2>1, <3>1, <4>1
      <4>3. CASE l \in 1 .. Len(stream[e])
        <5>1. stream'[e][l] = stream[e][l]
          BY <1>2, <4>3, Appended
        <5>. QED
          BY <1>2, <2>1, <3>1, <4>2, <4>3, <5>1
      <4>4. CASE l \notin 1 .. Len(stream[e])
        BY <3>4, <4>4
      <4>. QED
        BY <4>3, <4>4
    <3>. QED
      BY <3>3, <3>4, <3>5
  <2>. QED
    BY <2>1, SMTT(30) DEF AlertsTotallyOrdered, Before
<1>3. ASSUME NEW c \in Conn, NEW d \in Conn, PushAlert(c), Grows(d, Alert(c)),
             operator_write_mutexes[i[c]] = d, i[c] \in 1 .. operator_count
      PROVE  AlertsTotallyOrdered'
  <2>1. pc[c] = "push" /\ Alert(c) \in Message
    BY <1>3, MessageType DEF PushAlert, At
  <2>2. \A k \in 1 .. Len(stream[d]) : stream[d][k] # Alert(c)
    BY <1>3, <2>1, NotSentBefore
  <2>3. \A e \in Conn : \A k, l \in 1 .. Len(stream[e]) :
          k < l /\ stream[e][k] = Alert(c) => ~IsAlert(stream[e][l])
    BY <2>1 DEF Latest, Running
  <2>. QED
    BY <1>2, <1>3, <2>1, <2>2, <2>3
<1>4. ASSUME NEW c \in Conn, response[c] = "role", Grows(c, Reply(c))
      PROVE  AlertsTotallyOrdered'
  <2>1. Reply(c) \in Message /\ ~IsAlert(Reply(c))
    BY <1>4, MessageType DEF Reply, IsAlert
  <2>. QED
    BY <1>2, <1>4, <2>1
<1>. QED
  BY <1>1, <1>3, <1>4, StreamStep

(* remove_operator finds the slot of its own connection, and no other. *)
LEMMA RemovesOwnSlot ==
  ASSUME IInv, NEW c \in Conn, remove_operator(c), NEW d \in Conn, d # c, Listed(d)
  PROVE  Listed(d)'
<1>. USE DEF IInv
<1>1. pc[c] = "remove" /\ operator_count' = operator_count
  BY DEF remove_operator, At
<1>2. sock[c] # 0
  BY <1>1 DEF Descriptors
<1>3. sock[c] \in Fd \cup {0}
  BY DEF TypeOK
<1>4. sock[c] \in Nat /\ sock[c] # 0
  BY <1>2, <1>3, FdAssumption
<1>5. PICK j \in 1 .. operator_count : operator_write_mutexes[j] = d
  BY DEF Listed
<1>6. j \notin SlotsOf(c)
  BY <1>4, <1>5, ConnAssumption DEF SlotsOf, Table, Descriptors
<1>7. operator_write_mutexes'[j] = operator_write_mutexes[j]
  <2>1. CASE SlotsOf(c) = {}
    BY <2>1 DEF remove_operator
  <2>2. CASE SlotsOf(c) # {}
    <3>1. PICK k \in SlotsOf(c) :
            operator_write_mutexes' = [operator_write_mutexes EXCEPT ![k] = NoConn]
      BY <2>2 DEF remove_operator
    <3>2. j \in Slots
      BY SlotTypes
    <3>. QED
      BY <1>6, <3>1, <3>2 DEF TypeOK
  <2>. QED
    BY <2>1, <2>2
<1>. QED
  BY <1>1, <1>5, <1>7 DEF Listed

(* A connection listed, or a full table, stays so while the session lasts. *)
LEMMA ListedStays ==
  ASSUME IInv, [Next]_vars, NEW d \in Conn, InSession(d)',
         Listed(d) \/ operator_count = MaxOperators
  PROVE  Listed(d)' \/ operator_count' = MaxOperators
<1>. USE DEF IInv
<1>1. ASSUME NEW c \in Conn, register_operator(c)
      PROVE  Listed(d)' \/ operator_count' = MaxOperators
  <2>1. CASE operator_count < MaxOperators
    <3>1. /\ operator_count' = operator_count + 1 /\ operator_count \in Nat
          /\ \A j \in 1 .. operator_count :
               j \in 1 .. operator_count' /\ operator_write_mutexes'[j] = operator_write_mutexes[j]
      BY <1>1, <2>1, BoundsAssumption DEF register_operator, TypeOK, Slots
    <3>2. Listed(d)
      BY <2>1, BoundsAssumption DEF TypeOK
    <3>. QED
      BY <3>1, <3>2 DEF Listed
  <2>2. CASE ~(operator_count < MaxOperators)
    BY <1>1, <2>2 DEF register_operator, registry, Listed
  <2>. QED
    BY <2>1, <2>2
<1>2. ASSUME NEW c \in Conn, remove_operator(c)
      PROVE  Listed(d)' \/ operator_count' = MaxOperators
  <2>1. pc'[c] = "close" /\ operator_count' = operator_count
    BY <1>2 DEF remove_operator, Goto, TypeOK
  <2>2. d # c
    BY <2>1 DEF InSession
  <2>. QED
    BY <1>2, <2>1, <2>2, RemovesOwnSlot
<1>3. ASSUME NEW c \in Conn, NEW kind \in {"login", "measure", "other"}, Receive(c, kind)
      PROVE  UNCHANGED registry
  BY <1>3 DEF Receive
<1>4. ASSUME NEW c \in Conn,
             Accept(c) \/ ReceiveFails(c) \/ BeginBroadcast(c) \/ SkipSlot(c)
             \/ LockSlot(c) \/ PushAlert(c) \/ EndBroadcast(c) \/ LockOwn(c)
             \/ SendReply(c) \/ SendFails(c) \/ BrokenPipe(c) \/ CloseSocket(c)
             \/ FreeContext(c) \/ PeerReads(c) \/ PeerCloses(c)
      PROVE  UNCHANGED registry
  BY <1>4 DEF Accept, ReceiveFails, BeginBroadcast, SkipSlot, LockSlot, PushAlert,
         EndBroadcast, LockOwn, SendReply, SendFails, BrokenPipe, CloseSocket, FreeContext,
         PeerReads, PeerCloses
<1>5. ASSUME UNCHANGED vars PROVE UNCHANGED registry
  BY <1>5 DEF vars
<1>6. ASSUME UNCHANGED registry PROVE Listed(d)' \/ operator_count' = MaxOperators
  BY <1>6 DEF registry, Listed
<1>. QED
  BY <1>1, <1>2, <1>3, <1>4, <1>5, <1>6 DEF Next, Thread, Over

(* A session begins at accept(), before which there is no role to send. *)
LEMMA SessionStep ==
  ASSUME IInv, [Next]_vars, NEW d \in Conn
  PROVE  /\ pc[d] # "new" => pc'[d] # "new"
         /\ pc[d] # "new" /\ InSession(d)' => InSession(d)
         /\ \/ response'[d] = "role" => response[d] = "role"
            \/ pc'[d] = "reply" /\ (Listed(d)' \/ operator_count' = MaxOperators)
<1>. USE DEF IInv
<1>1. ASSUME NEW c \in Conn, register_operator(c)
      PROVE  /\ pc[d] # "new" => pc'[d] # "new"
             /\ InSession(d)' => InSession(d)
             /\ \/ response'[d] = response[d]
                \/ pc'[d] = "reply" /\ (Listed(d)' \/ operator_count' = MaxOperators)
  <2>1. CASE d = c
    <3>1. pc[c] = "login" /\ pc'[c] = "reply"
      BY <1>1 DEF register_operator, At, Goto, TypeOK
    <3>2. CASE operator_count < MaxOperators
      <4>1. /\ operator_count' = operator_count + 1 /\ operator_count + 1 \in Slots
            /\ operator_count \in Nat /\ operator_write_mutexes'[operator_count + 1] = c
        BY <1>1, <3>2, BoundsAssumption DEF register_operator, TypeOK, Slots
      <4>. QED
        BY <2>1, <3>1, <4>1 DEF Listed, InSession
    <3>3. CASE ~(operator_count < MaxOperators)
      <4>1. operator_count' = MaxOperators
        BY <1>1, <3>3, BoundsAssumption DEF register_operator, registry, TypeOK
      <4>. QED
        BY <2>1, <3>1, <4>1 DEF InSession
    <3>. QED
      BY <3>2, <3>3
  <2>2. CASE d # c
    BY <1>1, <2>2 DEF register_operator, Goto, TypeOK, InSession
  <2>. QED
    BY <2>1, <2>2
<1>2. ASSUME NEW c \in Conn, NEW kind \in {"login", "measure", "other"}, Receive(c, kind)
      PROVE  /\ pc[d] # "new" => pc'[d] # "new"
             /\ InSession(d)' => InSession(d)
             /\ response' = response
  BY <1>2 DEF Receive, At, Goto, TypeOK, InSession
<1>3. ASSUME NEW c \in Conn,
             SendReply(c) \/ SendFails(c)
      PROVE  /\ pc[d] # "new" => pc'[d] # "new"
             /\ InSession(d)' => InSession(d)
             /\ response'[d] = "role" => response[d] = "role"
  BY <1>3 DEF SendReply, SendFails, At, Goto, TypeOK, InSession
<1>4. ASSUME NEW c \in Conn,
             ReceiveFails(c) \/ BeginBroadcast(c) \/ SkipSlot(c)
             \/ LockSlot(c) \/ PushAlert(c) \/ EndBroadcast(c) \/ LockOwn(c)
             \/ BrokenPipe(c) \/ remove_operator(c) \/ CloseSocket(c)
             \/ FreeContext(c) \/ PeerReads(c) \/ PeerCloses(c)
      PROVE  /\ pc[d] # "new" => pc'[d] # "new"
             /\ InSession(d)' => InSession(d)
             /\ response' = response
  BY <1>4 DEF ReceiveFails, BeginBroadcast, SkipSlot, LockSlot, PushAlert, EndBroadcast,
         LockOwn, BrokenPipe, remove_operator, CloseSocket, FreeContext, PeerReads,
         PeerCloses, At, Goto, TypeOK, InSession
<1>5. ASSUME NEW c \in Conn, Accept(c)
      PROVE  /\ pc[d] # "new" => pc'[d] = pc[d]
             /\ response' = response
  BY <1>5 DEF Accept, At, Goto, TypeOK
<1>6. ASSUME UNCHANGED vars
      PROVE  pc' = pc /\ response' = response
  BY <1>6 DEF vars
<1>. QED
  BY <1>1, <1>2, <1>3, <1>4, <1>5, <1>6 DEF Next, Thread, Over, InSession

LEMMA RolesInductive ==
  ASSUME IInv, Roles, [Next]_vars
  PROVE  Roles'
<1>. USE DEF IInv
<1>1. ASSUME NEW d \in Conn, AnsweredRole(d)'
      PROVE  response[d] = "role" \/ AnsweredRole(d)
  <2>1. PICK k \in 1 .. Len(stream'[d]) : stream'[d][k].kind = "role"
    BY <1>1 DEF AnsweredRole
  <2>2. CASE stream' = stream
    BY <2>1, <2>2 DEF AnsweredRole
  <2>3. ASSUME NEW c \in Conn, NEW e \in Conn, Grows(e, Alert(c))
        PROVE  AnsweredRole(d)
    <3>1. Alert(c) \in Message /\ Alert(c).kind # "role"
      BY MessageType DEF Alert
    <3>2. k \in 1 .. Len(stream[d]) /\ stream'[d][k] = stream[d][k]
      BY <2>1, <2>3, <3>1, Appended
    <3>. QED
      BY <2>1, <3>2 DEF AnsweredRole
  <2>4. ASSUME NEW c \in Conn, response[c] = "role", Grows(c, Reply(c))
        PROVE  response[d] = "role" \/ AnsweredRole(d)
    <3>1. CASE c = d
      BY <2>4, <3>1
    <3>2. CASE c # d
      <4>1. k \in 1 .. Len(stream[d]) /\ stream'[d][k] = stream[d][k]
        BY <2>1, <2>4, <3>2, MessageType, Appended
      <4>. QED
        BY <2>1, <4>1 DEF AnsweredRole
    <3>. QED
      BY <3>1, <3>2
  <2>. QED
    BY <2>2, <2>3, <2>4, StreamStep
<1>2. ASSUME NEW d \in Conn, response'[d] = "role" \/ AnsweredRole(d)'
      PROVE  /\ pc'[d] # "new"
             /\ InSession(d)' => Listed(d)' \/ operator_count' = MaxOperators
  <2>1. CASE response[d] = "role" \/ AnsweredRole(d)
    <3>1. /\ pc[d] # "new"
          /\ InSession(d) => Listed(d) \/ operator_count = MaxOperators
      BY <2>1 DEF Roles
    <3>2. pc'[d] # "new" /\ (InSession(d)' => InSession(d))
      BY <3>1, SessionStep
    <3>. QED
      BY <3>1, <3>2, ListedStays
  <2>2. CASE ~(response[d] = "role" \/ AnsweredRole(d))
    <3>1. pc'[d] = "reply" /\ (Listed(d)' \/ operator_count' = MaxOperators)
      BY <1>1, <1>2, <2>2, SessionStep
    <3>. QED
      BY <3>1
  <2>. QED
    BY <2>1, <2>2
<1>. QED
  BY <1>2 DEF Roles

(* A broadcast ends where the table does. *)
LEMMA EndsAtLastSlot ==
  ASSUME TypeOK, [Next]_vars, NEW f \in Conn, pc[f] = "scan", pc'[f] = "reply"
  PROVE  i[f] > operator_count
<1>1. ASSUME NEW c \in Conn, EndBroadcast(c), ~(i[f] > operator_count) PROVE FALSE
  BY <1>1 DEF EndBroadcast, At, Goto, TypeOK
<1>2. ASSUME NEW c \in Conn,
             \/ \E kind \in {"login", "measure", "other"} : Receive(c, kind)
             \/ Accept(c) \/ ReceiveFails(c) \/ register_operator(c) \/ BeginBroadcast(c)
             \/ SkipSlot(c) \/ LockSlot(c) \/ PushAlert(c) \/ LockOwn(c) \/ SendReply(c)
             \/ SendFails(c) \/ BrokenPipe(c) \/ remove_operator(c) \/ CloseSocket(c)
             \/ FreeContext(c) \/ PeerReads(c) \/ PeerCloses(c)
      PROVE  FALSE
  BY <1>2 DEF Receive, Accept, ReceiveFails, register_operator, BeginBroadcast, SkipSlot,
         LockSlot, PushAlert, LockOwn, SendReply, SendFails, BrokenPipe, remove_operator,
         CloseSocket, FreeContext, PeerReads, PeerCloses, At, Goto, TypeOK
<1>3. ASSUME UNCHANGED vars PROVE FALSE
  BY <1>3 DEF vars
<1>. QED
  BY <1>1, <1>2, <1>3 DEF Next, Thread, Over

-----------------------------------------------------------------------------
Streams ==
  /\ Sent /\ Reached /\ Latest /\ Roles
  /\ AlertsOnlyToOperators /\ AlertsAtMostOnce /\ AlertsTotallyOrdered

LEMMA InitialStreams ==
  ASSUME Init
  PROVE  Streams
<1>1. \A c \in Conn : Len(stream[c]) = 0 /\ pc[c] = "new" /\ response[c] = "other"
  BY DEF Init
<1>. QED
  BY <1>1 DEF Streams, Sent, Reached, Latest, Roles, Running, AnsweredRole,
         AlertsOnlyToOperators, AlertsAtMostOnce, AlertsTotallyOrdered

(***************************************************************************)
(* What has been sent to whom, if nobody logs in twice: an invariant       *)
(* together with that of the threads.                                      *)
(***************************************************************************)
THEOREM StreamsInvariant ==
  ASSUME MaxLogins <= 1
  PROVE  Spec => [](IInv /\ Streams)
<1>1. Spec => []IInv
  BY MaxLogins <= 1, ThreadsInvariant
<1>2. Init => Streams
  BY InitialStreams
<1>3. IInv /\ Streams /\ [Next]_vars => Streams'
  BY SentInductive, ReachedInductive, LatestInductive, RolesInductive,
     OnlyToOperatorsInductive, AtMostOnceInductive, OrderInductive DEF Streams
<1>. QED
  BY <1>1, <1>2, <1>3, PTL DEF Spec

(***************************************************************************)
(* Only operators are sent alerts (server.c:107-118): a slot in use has    *)
(* the descriptor of the connection that logged in, also after descriptors *)
(* have been reused.                                                       *)
(***************************************************************************)
THEOREM OnlyToOperators ==
  ASSUME MaxLogins <= 1
  PROVE  Spec => []AlertsOnlyToOperators
<1>1. Spec => [](IInv /\ Streams)
  BY MaxLogins <= 1, StreamsInvariant
<1>2. Streams => AlertsOnlyToOperators
  BY DEF Streams
<1>. QED
  BY <1>1, <1>2, PTL

(***************************************************************************)
(* No operator is sent an alert twice: broadcast_alert visits each slot    *)
(* once, and no connection has two.                                        *)
(***************************************************************************)
THEOREM AtMostOnce ==
  ASSUME MaxLogins <= 1
  PROVE  Spec => []AlertsAtMostOnce
<1>1. Spec => [](IInv /\ Streams)
  BY MaxLogins <= 1, StreamsInvariant
<1>2. Streams => AlertsAtMostOnce
  BY DEF Streams
<1>. QED
  BY <1>1, <1>2, PTL

(***************************************************************************)
(* Any number of racing broadcasts reach all operators in one order, since *)
(* operator_mutex is held from the first slot to the last.                 *)
(***************************************************************************)
THEOREM TotallyOrdered ==
  ASSUME MaxLogins <= 1
  PROVE  Spec => []AlertsTotallyOrdered
<1>1. Spec => [](IInv /\ Streams)
  BY MaxLogins <= 1, StreamsInvariant
<1>2. Streams => AlertsTotallyOrdered
  BY DEF Streams
<1>. QED
  BY <1>1, <1>2, PTL

(***************************************************************************)
(* An operator that was answered OK ROLE_... stays in the table until its  *)
(* session ends, unless the table was full: remove_operator of any other   *)
(* thread clears another slot.                                             *)
(***************************************************************************)
THEOREM StayListed ==
  ASSUME MaxLogins <= 1
  PROVE  Spec => []OperatorsStayListed
<1>1. Spec => [](IInv /\ Streams)
  BY MaxLogins <= 1, StreamsInvariant
<1>2. Streams => OperatorsStayListed
  BY DEF Streams, Roles, OperatorsStayListed
<1>. QED
  BY <1>1, <1>2, PTL

(***************************************************************************)
(* When broadcast_alert returns, the alert has been sent to every operator *)
(* in the table whose connection is open, whatever became of the others.   *)
(***************************************************************************)
THEOREM ReachesAll ==
  ASSUME MaxLogins <= 1
  PROVE  Spec => BroadcastReachesAll
<1>1. Spec => [](IInv /\ Streams)
  BY MaxLogins <= 1, StreamsInvariant
<1>2. IInv /\ Streams /\ [Next]_vars =>
        [\A c \in Conn : pc[c] = "scan" /\ pc'[c] = "reply" =>
           \A d \in Conn : Listed(d) /\ peer[d] = "open" =>
             \E k \in 1 .. Len(stream[d]) : stream[d][k] = Alert(c)]_vars
  <2>1. ASSUME IInv, Streams, [Next]_vars, NEW c \in Conn, pc[c] = "scan", pc'[c] = "reply",
               NEW d \in Conn, Listed(d), peer[d] = "open"
        PROVE  \E k \in 1 .. Len(stream[d]) : stream[d][k] = Alert(c)
    <3>1. i[c] > operator_count
      BY <2>1, EndsAtLastSlot DEF IInv
    <3>2. PICK j \in 1 .. operator_count : operator_write_mutexes[j] = d
      BY <2>1 DEF Listed
    <3>3. j < i[c]
      BY <2>1, <3>1, <3>2, BoundsAssumption DEF IInv, TypeOK
    <3>. QED
      BY <2>1, <3>2, <3>3 DEF Streams, Reached, Running
  <2>. QED
    BY <2>1
<1>. QED
  BY <1>1, <1>2, PTL DEF Spec, BroadcastReachesAll

-----------------------------------------------------------------------------
(* An alert is broadcast once; one that is being broadcast is the last entry. *)
Entries ==
  /\ \A k \in 1 .. Len(published) :
       /\ published[k].n <= commands[published[k].from]
       /\ published[k].n = commands[published[k].from] =>
            pc[published[k].from] # "broadcast"
  /\ \A c \in Conn : Running(c) =>
       Len(published) > 0 /\ published[Len(published)] = Alert(c)

(* The bound on all commands is one on those of each connection. *)
Counted == \A c \in Conn : commands[c] <= MaxCommands

LEMMA CountedInductive ==
  ASSUME IsFiniteSet(Conn), TypeOK, Counted, [Next]_vars
  PROVE  Counted'
<1>1. ASSUME NEW c \in Conn, NEW kind \in {"login", "measure", "other"}, Receive(c, kind)
      PROVE  Counted'
  <2> DEFINE own == {c} \X (1 .. MaxCommands)
  <2>1. /\ commands' = [commands EXCEPT ![c] = @ + 1]
        /\ Cardinality(Received) < MaxCommands
    BY <1>1 DEF Receive
  <2>2. IsFiniteSet(1 .. MaxCommands) /\ Cardinality(1 .. MaxCommands) = MaxCommands
    BY FS_Interval, BoundsAssumption
  <2>3. IsFiniteSet(Received)
    <3>1. IsFiniteSet(Conn \X (1 .. MaxCommands))
      BY <2>2, FS_Product
    <3>. QED
      BY <3>1, FS_Subset DEF Received
  <2>4. Cardinality(own) = MaxCommands
    <3>1. IsFiniteSet({c}) /\ Cardinality({c}) = 1
      BY FS_Singleton
    <3>2. Cardinality(own) = Cardinality({c}) * Cardinality(1 .. MaxCommands)
      BY <2>2, <3>1, FS_Product
    <3>. QED
      BY <2>2, <3>1, <3>2, BoundsAssumption
  <2>5. commands[c] < MaxCommands
    <3>1. SUFFICES ASSUME ~(commands[c] < MaxCommands) PROVE FALSE
      OBVIOUS
    <3>2. commands[c] \in Nat /\ commands[c] >= MaxCommands
      BY <3>1, BoundsAssumption DEF TypeOK
    <3>3. own \subseteq Received
      BY <3>2, BoundsAssumption DEF Received
    <3>4. Cardinality(own) <= Cardinality(Received) /\ Cardinality(Received) \in Nat
      BY <2>3, <3>3, FS_Subset, FS_CardinalityType
    <3>. QED
      BY <2>1, <2>4, <3>4, BoundsAssumption
  <2>. QED
    BY <2>1, <2>5, BoundsAssumption DEF Counted, TypeOK
<1>2. ASSUME NEW c \in Conn,
             Accept(c) \/ ReceiveFails(c) \/ register_operator(c) \/ BeginBroadcast(c)
             \/ SkipSlot(c) \/ LockSlot(c) \/ PushAlert(c) \/ EndBroadcast(c)
             \/ LockOwn(c) \/ SendReply(c) \/ SendFails(c) \/ BrokenPipe(c)
             \/ remove_operator(c) \/ CloseSocket(c) \/ FreeContext(c) \/ PeerReads(c)
             \/ PeerCloses(c)
      PROVE  commands' = commands
  BY <1>2 DEF Accept, ReceiveFails, register_operator, BeginBroadcast, SkipSlot, LockSlot,
         PushAlert, EndBroadcast, LockOwn, SendReply, SendFails, BrokenPipe,
         remove_operator, CloseSocket, FreeContext, PeerReads, PeerCloses
<1>3. ASSUME UNCHANGED vars PROVE commands' = commands
  BY <1>3 DEF vars
<1>. QED
  BY <1>1, <1>2, <1>3 DEF Next, Thread, Over, Counted

(* Only the beginning of a broadcast adds to the log, and starts the loop. *)
LEMMA LogStep ==
  ASSUME TypeOK, [Next]_vars
  PROVE  \/ \E c \in Conn : BeginBroadcast(c)
         \/ published' = published /\ \A f \in Conn : Running(f)' => Running(f)
<1>1. ASSUME NEW c \in Conn, NEW kind \in {"login", "measure", "other"}, Receive(c, kind)
      PROVE  published' = published /\ \A f \in Conn : Running(f)' => Running(f)
  BY <1>1 DEF Receive, Goto, TypeOK, Running
<1>2. ASSUME NEW c \in Conn,
             Accept(c) \/ ReceiveFails(c) \/ register_operator(c)
             \/ SkipSlot(c) \/ LockSlot(c) \/ PushAlert(c) \/ EndBroadcast(c)
             \/ LockOwn(c) \/ SendReply(c) \/ SendFails(c) \/ BrokenPipe(c)
             \/ remove_operator(c) \/ CloseSocket(c) \/ FreeContext(c) \/ PeerReads(c)
             \/ PeerCloses(c)
      PROVE  published' = published /\ \A f \in Conn : Running(f)' => Running(f)
  BY <1>2 DEF Accept, ReceiveFails, register_operator, SkipSlot, LockSlot,
         PushAlert, EndBroadcast, LockOwn, SendReply, SendFails, BrokenPipe,
         remove_operator, CloseSocket, FreeContext, PeerReads, PeerCloses, At, Goto,
         TypeOK, Running
<1>3. ASSUME UNCHANGED vars
      PROVE  published' = published /\ \A f \in Conn : Running(f)' => Running(f)
  BY <1>3 DEF vars, Running
<1>. QED
  BY <1>1, <1>2, <1>3 DEF Next, Thread, Over

LEMMA EntriesInductive ==
  ASSUME IInv, Entries, [Next]_vars
  PROVE  Entries'
<1>. USE DEF IInv
<1>1. published \in Seq(Message) /\ Len(published) \in Nat
  BY DEF TypeOK
<1>2. \A k \in 1 .. Len(published) :
        /\ published[k].from \in Conn /\ published[k].n \in Nat
        /\ commands[published[k].from] \in Nat
  <2>1. TAKE k \in 1 .. Len(published)
  <2>2. published[k] \in Message
    BY <1>1
  <2>3. published[k].from \in Conn /\ published[k].n \in Nat
    BY <2>2 DEF Message
  <2>. QED
    BY <2>3 DEF TypeOK
<1>3. \A k \in 1 .. Len(published) :
        /\ published[k].n <= commands'[published[k].from]
        /\ published[k].n = commands'[published[k].from] =>
             pc'[published[k].from] # "broadcast"
  <2>1. TAKE k \in 1 .. Len(published)
  <2>2. PICK f \in Conn : f = published[k].from
    BY <1>2
  <2>3. /\ published[k].n <= commands[f]
        /\ published[k].n = commands[f] => pc[f] # "broadcast"
    BY <2>2 DEF Entries
  <2>4. \/ commands'[f] = commands[f] + 1
        \/ /\ commands'[f] = commands[f]
           /\ pc'[f] = "broadcast" => pc[f] = "broadcast"
    BY BroadcastStep
  <2>. QED
    BY <1>2, <2>2, <2>3, <2>4
<1>4. ASSUME NEW c \in Conn, BeginBroadcast(c)
      PROVE  Entries'
  <2>1. /\ published' = Append(published, Alert(c)) /\ commands' = commands
        /\ pc'[c] = "scan" /\ operator_mutex = NoConn
        /\ \A f \in Conn : f # c => pc'[f] = pc[f]
    BY <1>4 DEF BeginBroadcast, Goto, TypeOK
  <2>2. /\ Len(published') = Len(published) + 1
        /\ published'[Len(published) + 1] = Alert(c)
        /\ \A k \in 1 .. Len(published) : published'[k] = published[k]
    BY <1>1, <2>1, MessageType, AppendProperties
  <2>3. \A f \in Conn : Running(f)' => f = c
    BY <2>1, ConnAssumption DEF Running, Mutexes
  <2>4. Alert(c)' = Alert(c)
    BY <2>1 DEF Alert
  <2>5. Alert(c).from = c /\ Alert(c).n = commands[c] /\ commands[c] \in Nat
    BY DEF Alert, TypeOK
  <2>6. \A k \in 1 .. Len(published') : k \in 1 .. Len(published) \/ k = Len(published) + 1
    BY <1>1, <2>2
  <2>7. \A k \in 1 .. Len(published') :
          /\ published'[k].n <= commands'[published'[k].from]
          /\ published'[k].n = commands'[published'[k].from] =>
               pc'[published'[k].from] # "broadcast"
    BY <1>3, <2>1, <2>2, <2>5, <2>6
  <2>8. \A f \in Conn : Running(f)' =>
          Len(published') > 0 /\ published'[Len(published')] = Alert(f)'
    BY <1>1, <2>2, <2>3, <2>4
  <2>. QED
    BY <2>7, <2>8 DEF Entries
<1>5. ASSUME published' = published, \A f \in Conn : Running(f)' => Running(f)
      PROVE  Entries'
  <2>1. \A f \in Conn : Running(f)' => Alert(f)' = Alert(f)
    BY BroadcastStep DEF Alert
  <2>2. \A f \in Conn : Running(f)' =>
          Len(published') > 0 /\ published'[Len(published')] = Alert(f)'
    BY <1>5, <2>1 DEF Entries
  <2>. QED
    BY <1>3, <1>5, <2>2 DEF Entries
<1>. QED
  BY <1>4, <1>5, LogStep

-----------------------------------------------------------------------------
(* A slot with a mutex is in use. *)
LEMMA OwnedIsInUse ==
  ASSUME IInv, NEW j \in 1 .. operator_count, operator_write_mutexes[j] # NoConn
  PROVE  SlotInUse(j) /\ operator_write_mutexes[j] \in Conn
<1>. USE DEF IInv
<1>1. PICK d \in Conn : operator_write_mutexes[j] = d
  BY SlotTypes
<1>2. operator_clients[j] = sock[d] /\ sock[d] # 0
  BY <1>1, ConnAssumption DEF Table, Descriptors
<1>3. sock[d] \in Fd \cup {0}
  BY DEF TypeOK
<1>4. sock[d] \in Fd
  BY <1>2, <1>3
<1>5. sock[d] \in Nat /\ sock[d] # 0
  BY <1>4, FdAssumption
<1>. QED
  BY <1>1, <1>2, <1>5, ConnAssumption DEF SlotInUse

(* While operator_mutex is free, nobody is behind. *)
LEMMA NobodyBehind ==
  ASSUME IInv, operator_mutex = NoConn, NEW d \in Conn
  PROVE  ~Behind(d) /\ \A b \in Conn : ~Running(b)
BY ConnAssumption DEF IInv, Mutexes, Running, Behind

(* The cursors depend on the table, the loop, and who is still there. *)
LEMMA CursorStays ==
  ASSUME published' = published,
         \A d \in Conn : (d \in Reachable)' <=> d \in Reachable,
         \A d \in Reachable : Behind(d)' <=> Behind(d)
  PROVE  Cursor' = Cursor
<1>1. Reachable' = Reachable
  BY DEF Reachable
<1>. QED
  BY <1>1 DEF Cursor

(* Steps of neither the table nor the loop. *)
LEMMA QuietStep ==
  ASSUME TypeOK, UNCHANGED <<registry, published, stream, i>>,
         \A d \in Conn : Listed(d) => (peer'[d] = "open" <=> peer[d] = "open"),
         \A b \in Conn : Running(b)' <=> Running(b)
  PROVE  UNCHANGED Log!vars
<1>1. \A d \in Conn : (Listed(d)' <=> Listed(d)) /\ (Behind(d)' <=> Behind(d))
  BY DEF Listed, Behind, registry
<1>2. Cursor' = Cursor
  BY <1>1, CursorStays DEF Reachable
<1>. QED
  BY <1>2 DEF Log!vars

LEMMA QuietActions ==
  ASSUME IInv, NEW c \in Conn,
         \/ \E kind \in {"login", "measure", "other"} : Receive(c, kind)
         \/ Accept(c) \/ ReceiveFails(c) \/ LockSlot(c) \/ LockOwn(c) \/ SendFails(c)
         \/ BrokenPipe(c) \/ CloseSocket(c) \/ FreeContext(c) \/ PeerReads(c)
  PROVE  UNCHANGED Log!vars
<1>. USE DEF IInv
<1>1. CASE \E kind \in {"login", "measure", "other"} : Receive(c, kind)
  <2>1. UNCHANGED <<registry, published, stream, i, peer>>
    BY <1>1 DEF Receive, network
  <2>2. \A b \in Conn : Running(b)' <=> Running(b)
    BY <1>1 DEF Receive, At, Goto, TypeOK, Running
  <2>. QED
    BY <2>1, <2>2, QuietStep
<1>2. CASE \/ Accept(c) \/ LockSlot(c) \/ LockOwn(c) \/ BrokenPipe(c) \/ FreeContext(c)
           \/ PeerReads(c)
  <2>1. UNCHANGED <<registry, published, stream, i, peer>>
    BY <1>2 DEF Accept, LockSlot, LockOwn, BrokenPipe, FreeContext, PeerReads, network
  <2>2. \A b \in Conn : Running(b)' <=> Running(b)
    BY <1>2 DEF Accept, LockSlot, LockOwn, BrokenPipe, FreeContext, PeerReads, At, Goto,
           TypeOK, Running
  <2>. QED
    BY <2>1, <2>2, QuietStep
<1>3. CASE ReceiveFails(c) \/ SendFails(c)
  <2>1. UNCHANGED <<registry, published, stream, i>>
    BY <1>3 DEF ReceiveFails, SendFails, Refused
  <2>2. \A d \in Conn : peer'[d] = "open" <=> peer[d] = "open"
    BY <1>3 DEF ReceiveFails, SendFails, Refused, TypeOK
  <2>3. \A b \in Conn : Running(b)' <=> Running(b)
    BY <1>3 DEF ReceiveFails, SendFails, At, Goto, TypeOK, Running
  <2>. QED
    BY <2>1, <2>2, <2>3, QuietStep
<1>4. CASE CloseSocket(c)
  <2>1. UNCHANGED <<registry, published, stream, i>> /\ pc[c] = "close"
    BY <1>4 DEF CloseSocket, At
  <2>2. ~Listed(c)
    BY <2>1, ConnAssumption DEF Listed, Table
  <2>3. \A d \in Conn : d # c => peer'[d] = peer[d]
    BY <1>4 DEF CloseSocket, TypeOK
  <2>4. \A b \in Conn : Running(b)' <=> Running(b)
    BY <1>4 DEF CloseSocket, At, Goto, TypeOK, Running
  <2>. QED
    BY <2>1, <2>2, <2>3, <2>4, QuietStep
<1>. QED
  BY <1>1, <1>2, <1>3, <1>4

(* The loop goes past a slot that sends to nobody, or ends. *)
LEMMA PassingSteps ==
  ASSUME IInv, NEW c \in Conn, SkipSlot(c) \/ EndBroadcast(c)
  PROVE  UNCHANGED Log!vars
<1>. USE DEF IInv
<1>1. /\ pc[c] = "scan" /\ UNCHANGED <<registry, published, stream, peer>>
      /\ i[c] \in Nat /\ i[c] >= 1 /\ operator_count \in Nat
  BY BoundsAssumption DEF SkipSlot, EndBroadcast, At, network, TypeOK, Mutexes
<1>2. \A b \in Conn : Running(b) => b = c
  BY <1>1 DEF Running, Mutexes
<1>3. ASSUME NEW d \in Conn PROVE Behind(d)' <=> Behind(d)
  <2>1. CASE SkipSlot(c)
    <3>1. /\ pc' = pc /\ i'[c] = i[c] + 1 /\ i[c] \in 1 .. operator_count
          /\ ~SlotInUse(i[c])
      BY <1>1, <2>1 DEF SkipSlot, TypeOK
    <3>2. operator_write_mutexes[i[c]] # d
      BY <3>1, OwnedIsInUse, ConnAssumption
    <3>3. Behind(d) <=> \E j \in i[c] .. operator_count : operator_write_mutexes[j] = d
      BY <1>1, <1>2 DEF Behind, Running
    <3>4. Behind(d)' <=> \E j \in i'[c] .. operator_count : operator_write_mutexes[j] = d
      BY <1>1, <1>2, <3>1 DEF Behind, Running, registry
    <3>. QED
      BY <1>1, <3>1, <3>2, <3>3, <3>4
  <2>2. CASE EndBroadcast(c)
    <3>1. i[c] > operator_count /\ pc'[c] = "reply" /\ \A b \in Conn : b # c => pc'[b] = pc[b]
      BY <2>2 DEF EndBroadcast, Goto, TypeOK
    <3>2. ~Behind(d)
      BY <1>1, <1>2, <3>1 DEF Behind
    <3>3. ~Behind(d)'
      BY <1>2, <3>1 DEF Behind, Running
    <3>. QED
      BY <3>2, <3>3
  <2>. QED
    BY <2>1, <2>2
<1>4. Cursor' = Cursor
  BY <1>1, <1>3, CursorStays DEF Reachable, Listed, registry
<1>. QED
  BY <1>1, <1>4 DEF Log!vars

(* A broadcast begins: whoever can be reached is behind from now on. *)
LEMMA BeginPublishes ==
  ASSUME IInv, Entries, Counted, NEW c \in Conn, BeginBroadcast(c)
  PROVE  Log!Next
<1>. USE DEF IInv
<1>1. /\ published' = Append(published, Alert(c)) /\ operator_mutex = NoConn
      /\ UNCHANGED <<registry, peer, stream>> /\ pc[c] = "broadcast"
      /\ pc'[c] = "scan" /\ i'[c] = 1
  BY DEF BeginBroadcast, At, Goto, network, TypeOK
<1>2. Len(published) \in Nat /\ Len(published') = Len(published) + 1
  BY <1>1, MessageType, AppendProperties DEF TypeOK
<1>3. Alert(c) \in [kind : {"alert"}, from : Conn, n : 0 .. MaxCommands]
  BY BoundsAssumption DEF Alert, Counted, TypeOK
<1>4. \A k \in 1 .. Len(published) : published[k] # Alert(c)
  BY <1>1 DEF Entries, Alert
<1>5. Reachable' = Reachable
  BY <1>1 DEF Reachable, Listed, registry
<1>6. \A d \in Reachable : ~Behind(d) /\ Behind(d)'
  <2>1. ASSUME NEW d \in Reachable PROVE Behind(d)'
    <3>1. PICK j \in 1 .. operator_count : operator_write_mutexes[j] = d
      BY DEF Reachable, Listed
    <3>. QED
      BY <1>1, <3>1 DEF Behind, Running, registry
  <2>. QED
    BY <1>1, <2>1, NobodyBehind DEF Reachable
<1>7. Cursor' = Cursor
  BY <1>2, <1>5, <1>6 DEF Cursor
<1>8. Log!Publish(Alert(c))
  BY <1>1, <1>4, <1>6, <1>7 DEF Log!Publish, Log!Listening, Cursor
<1>. QED
  BY <1>3, <1>8 DEF Log!Next

(* Entering the table is joining the log at its end. *)
LEMMA RegisterJoins ==
  ASSUME IInv, NEW c \in Conn, register_operator(c)
  PROVE  Log!Next \/ UNCHANGED Log!vars
<1>. USE DEF IInv
<1>1. /\ operator_mutex = NoConn /\ pc[c] = "login" /\ pc'[c] = "reply"
      /\ \A b \in Conn : b # c => pc'[b] = pc[b]
      /\ UNCHANGED <<published, stream, peer>>
  BY DEF register_operator, At, Goto, network, TypeOK
<1>2. \A d \in Conn : ~Behind(d) /\ ~Behind(d)'
  <2>1. \A b \in Conn : ~Running(b)'
    BY <1>1, NobodyBehind DEF Running
  <2>. QED
    BY <1>1, <2>1, NobodyBehind DEF Behind
<1>3. CASE operator_count < MaxOperators
  <2> DEFINE n == operator_count + 1
  <2>1. /\ operator_count' = n /\ n \in 1 .. n /\ operator_count \in Nat
        /\ operator_write_mutexes'[n] = c
        /\ \A j \in 1 .. operator_count : operator_write_mutexes'[j] = operator_write_mutexes[j]
    BY <1>3, BoundsAssumption DEF register_operator, TypeOK, Slots
  <2>2. \A j \in 1 .. operator_count' : j \in 1 .. operator_count \/ j = n
    BY <2>1
  <2>3. 1 .. operator_count \subseteq 1 .. operator_count'
    BY <2>1
  <2>4. ~Listed(c)
    BY <1>1, ConnAssumption DEF Listed, Table
  <2> HIDE DEF n
  <2>5. \A d \in Conn : Listed(d)' <=> (Listed(d) \/ d = c)
    BY <2>1, <2>2, <2>3 DEF Listed
  <2>6. CASE peer[c] = "open"
    <3>1. Reachable' = Reachable \cup {c} /\ c \notin Reachable
      BY <1>1, <2>4, <2>5, <2>6 DEF Reachable
    <3>2. Cursor' = [d \in Reachable \cup {c} |->
                       IF d = c THEN Len(published) + 1 ELSE Cursor[d]]
      BY <1>1, <1>2, <3>1 DEF Cursor, Reachable
    <3>3. Log!Join(c)
      BY <1>1, <3>1, <3>2 DEF Log!Join, Log!Listening, Cursor
    <3>. QED
      BY <3>3 DEF Log!Next
  <2>7. CASE peer[c] # "open"
    <3>1. \A d \in Conn : (d \in Reachable)' <=> d \in Reachable
      BY <1>1, <2>5, <2>7 DEF Reachable
    <3>2. Cursor' = Cursor
      BY <1>1, <1>2, <3>1, CursorStays DEF Reachable
    <3>. QED
      BY <1>1, <3>2 DEF Log!vars
  <2>. QED
    BY <2>6, <2>7
<1>4. CASE ~(operator_count < MaxOperators)
  <2>1. UNCHANGED registry
    BY <1>4 DEF register_operator
  <2>2. Cursor' = Cursor
    BY <1>1, <1>2, <2>1, CursorStays DEF Reachable, Listed, registry
  <2>. QED
    BY <1>1, <2>2 DEF Log!vars
<1>. QED
  BY <1>3, <1>4

(* A push that reaches its operator delivers the last entry, for the first time. *)
LEMMA PushDelivers ==
  ASSUME IInv, Entries, NEW c \in Conn, PushAlert(c)
  PROVE  Log!Next \/ UNCHANGED Log!vars
<1>. USE DEF IInv
<1>1. PICK d \in Conn :
        /\ operator_write_mutexes[i[c]] = d /\ i[c] \in 1 .. operator_count
        /\ \/ peer[d] = "open" /\ peer' = peer /\ Grows(d, Alert(c))
           \/ peer[d] # "open" /\ stream' = stream
  BY PushGoesToOwner
<1>2. /\ pc[c] = "push" /\ pc'[c] = "scan" /\ i'[c] = i[c] + 1 /\ i[c] \in Nat
      /\ operator_count \in Nat /\ UNCHANGED <<registry, published>>
      /\ \A b \in Conn : b # c => pc'[b] = pc[b]
  BY BoundsAssumption DEF PushAlert, At, Goto, TypeOK
<1>3. \A b \in Conn : Running(b) => b = c
  BY <1>2 DEF Running, Mutexes
<1>4. \A e \in Conn :
        Behind(e) <=> \E j \in i[c] .. operator_count : operator_write_mutexes[j] = e
  BY <1>2, <1>3 DEF Behind, Running
<1>5. \A e \in Conn :
        Behind(e)' <=> \E j \in i'[c] .. operator_count : operator_write_mutexes[j] = e
  BY <1>2, <1>3 DEF Behind, Running, registry
<1>6. \A e \in Conn : e # d => (Behind(e)' <=> Behind(e))
  BY <1>1, <1>2, <1>4, <1>5
<1>7. Behind(d) /\ ~Behind(d)'
  <2>1. Behind(d)
    BY <1>1, <1>2, <1>4
  <2>2. \A j \in 1 .. operator_count : operator_write_mutexes[j] = d => j = i[c]
    BY <1>1, ConnAssumption DEF Table
  <2>. QED
    BY <1>2, <1>5, <2>1, <2>2
<1>8. \A e \in Conn : peer'[e] = "open" <=> peer[e] = "open"
  <2>1. PICK f \in Conn : /\ sock[f] = operator_clients[i[c]]
                          /\ Delivered(f, Alert(c)) \/ Dropped(f) \/ Refused(f)
    BY DEF PushAlert
  <2>2. \/ peer' = peer
        \/ /\ peer[f] # "open" /\ peer'[f] # "open"
           /\ \A e \in Conn : e # f => peer'[e] = peer[e]
    BY <2>1 DEF Delivered, Dropped, Refused, TypeOK
  <2>. QED
    BY <2>2
<1>9. Listed(d) /\ \A e \in Conn : Listed(e)' <=> Listed(e)
  BY <1>1, <1>2 DEF Listed, registry
<1>10. CASE peer[d] = "open" /\ peer' = peer /\ Grows(d, Alert(c))
  <2>1. Reachable' = Reachable /\ d \in Reachable
    BY <1>9, <1>10 DEF Reachable
  <2>2. Len(published) \in Nat /\ Len(published) > 0 /\ published[Len(published)] = Alert(c)
    BY <1>2 DEF Entries, Running, TypeOK
  <2>3. Cursor[d] = Len(published)
    BY <1>7, <2>1 DEF Cursor
  <2>4. Cursor' = [Cursor EXCEPT ![d] = @ + 1]
    BY <1>2, <1>6, <1>7, <2>1, <2>2 DEF Cursor, Reachable
  <2>5. stream' = [stream EXCEPT ![d] = Append(@, published[Cursor[d]])]
    BY <1>10, <2>2, <2>3 DEF Grows
  <2>6. Log!Deliver(d)
    BY <1>2, <2>1, <2>2, <2>3, <2>4, <2>5 DEF Log!Deliver, Log!Listening, Cursor
  <2>. QED
    BY <2>6 DEF Log!Next
<1>11. CASE peer[d] # "open" /\ stream' = stream
  <2>1. \A e \in Conn : (e \in Reachable)' <=> e \in Reachable
    BY <1>8, <1>9 DEF Reachable
  <2>2. \A e \in Reachable : Behind(e)' <=> Behind(e)
    BY <1>6, <1>11 DEF Reachable
  <2>3. Cursor' = Cursor
    BY <1>2, <2>1, <2>2, CursorStays
  <2>. QED
    BY <1>2, <1>11, <2>3 DEF Log!vars
<1>. QED
  BY <1>1, <1>10, <1>11

(* The answer to a LOGIN goes to whoever asked; no others are remembered. *)
LEMMA ReplyAnswers ==
  ASSUME IInv, Counted, NEW c \in Conn, SendReply(c)
  PROVE  Log!Next \/ UNCHANGED Log!vars
<1>. USE DEF IInv
<1>1. /\ UNCHANGED <<registry, published, i>>
      /\ \A d \in Conn : peer'[d] = "open" <=> peer[d] = "open"
  BY DEF SendReply, Delivered, Dropped, TypeOK
<1>2. \A b \in Conn : Running(b)' <=> Running(b)
  BY DEF SendReply, At, Goto, TypeOK, Running
<1>3. CASE stream' = stream
  BY <1>1, <1>2, <1>3, QuietStep
<1>4. CASE response[c] = "role" /\ Grows(c, Reply(c))
  <2>1. Reply(c) \in [kind : {"role"}, from : Conn, n : 0 .. MaxCommands]
    BY <1>4, BoundsAssumption DEF Reply, Counted, TypeOK
  <2>2. \A d \in Conn : (Listed(d)' <=> Listed(d)) /\ (Behind(d)' <=> Behind(d))
    BY <1>1, <1>2 DEF Listed, Behind, registry
  <2>3. Cursor' = Cursor
    BY <1>1, <2>2, CursorStays DEF Reachable
  <2>4. Log!Answer(c, Reply(c))
    BY <1>1, <1>4, <2>3 DEF Log!Answer, Grows
  <2>. QED
    BY <2>1, <2>4 DEF Log!Next
<1>. QED
  BY <1>3, <1>4, ReplyGoesHome

(* Listeners leave when they close, or when their thread removes them. *)
LEMMA Leaving ==
  ASSUME IInv, NEW c \in Conn, UNCHANGED <<published, stream>>,
         \A d \in Conn : (d \in Reachable)' <=> d \in Reachable /\ d # c,
         \A d \in Conn : d # c => (Behind(d)' <=> Behind(d))
  PROVE  Log!Next \/ UNCHANGED Log!vars
<1>1. Reachable' = Reachable \ {c}
  BY DEF Reachable
<1>2. Cursor' = [d \in Reachable \ {c} |-> Cursor[d]]
  BY <1>1 DEF Cursor, Reachable
<1>3. CASE c \in Reachable
  <2>1. Log!Leave(c)
    BY <1>2, <1>3 DEF Log!Leave, Log!Listening, Cursor
  <2>. QED
    BY <2>1 DEF Log!Next
<1>4. CASE c \notin Reachable
  <2>1. Cursor' = Cursor
    BY <1>2, <1>4 DEF Cursor
  <2>. QED
    BY <2>1 DEF Log!vars
<1>. QED
  BY <1>3, <1>4

LEMMA ClosingLeaves ==
  ASSUME IInv, NEW c \in Conn, PeerCloses(c)
  PROVE  Log!Next \/ UNCHANGED Log!vars
<1>. USE DEF IInv
<1>1. /\ UNCHANGED <<registry, published, stream, i, pc>>
      /\ peer'[c] # "open" /\ \A d \in Conn : d # c => peer'[d] = peer[d]
  BY DEF PeerCloses, TypeOK
<1>2. \A d \in Conn : (Listed(d)' <=> Listed(d)) /\ (Behind(d)' <=> Behind(d))
  BY <1>1 DEF Listed, Behind, Running, registry
<1>3. \A d \in Conn : (d \in Reachable)' <=> d \in Reachable /\ d # c
  BY <1>1, <1>2 DEF Reachable
<1>. QED
  BY <1>1, <1>2, <1>3, Leaving

LEMMA RemovingLeaves ==
  ASSUME MaxLogins <= 1, IInv, [Next]_vars, NEW c \in Conn, remove_operator(c)
  PROVE  Log!Next \/ UNCHANGED Log!vars
<1>. USE DEF IInv
<1>1. /\ UNCHANGED <<published, stream, peer, operator_count>> /\ operator_mutex = NoConn
      /\ pc'[c] = "close" /\ \A d \in Conn : d # c => pc'[d] = pc[d]
  BY DEF remove_operator, At, Goto, network, TypeOK
<1>2. \A d \in Conn : ~Behind(d) /\ ~Behind(d)'
  <2>1. \A b \in Conn : ~Running(b)'
    BY <1>1, NobodyBehind DEF Running
  <2>. QED
    BY <1>1, <2>1, NobodyBehind DEF Behind
<1>3. ~Listed(c)'
  BY <1>1, TableInductive, ConnAssumption DEF Listed, Table
<1>4. \A d \in Conn : d # c => (Listed(d)' <=> Listed(d))
  <2>1. ASSUME NEW d \in Conn, Listed(d)' PROVE Listed(d)
    <3>1. PICK j \in 1 .. operator_count : operator_write_mutexes'[j] = d
      BY <1>1, <2>1 DEF Listed
    <3>2. operator_write_mutexes'[j] \in {operator_write_mutexes[j], NoConn}
      BY SlotTypes DEF remove_operator, TypeOK
    <3>. QED
      BY <3>1, <3>2, ConnAssumption DEF Listed
  <2>. QED
    BY <2>1, RemovesOwnSlot
<1>5. \A d \in Conn : (d \in Reachable)' <=> d \in Reachable /\ d # c
  BY <1>1, <1>3, <1>4 DEF Reachable
<1>. QED
  BY <1>1, <1>2, <1>5, Leaving

LEMMA InitialLog ==
  ASSUME Init
  PROVE  Log!Init /\ Entries /\ Counted
<1>1. Reachable = {}
  BY DEF Init, Reachable, Listed
<1>2. Log!Init
  BY <1>1 DEF Init, Log!Init, Cursor
<1>3. Entries /\ Counted
  BY BoundsAssumption DEF Init, Entries, Counted, Running
<1>. QED
  BY <1>2, <1>3

(***************************************************************************)
(* The threads, their mutexes and the table of server.c implement one log  *)
(* of alerts that every operator reads from its login on, without a gap,   *)
(* a repetition or a change of order, until its connection closes.         *)
(***************************************************************************)
THEOREM ThreadsImplementLog ==
  ASSUME MaxLogins <= 1, IsFiniteSet(Conn)
  PROVE  Spec => ImplementsLog
<1>1. Init => Log!Init /\ Entries /\ Counted
  BY InitialLog
<1>2. IInv /\ Entries /\ Counted /\ [Next]_vars => Entries' /\ Counted'
  BY IsFiniteSet(Conn), EntriesInductive, CountedInductive DEF IInv
<1>3. IInv /\ Entries /\ Counted /\ [Next]_vars => [Log!Next]_(Log!vars)
  <2>1. ASSUME IInv, Entries, Counted, [Next]_vars
        PROVE  Log!Next \/ UNCHANGED Log!vars
    <3>1. ASSUME UNCHANGED vars PROVE UNCHANGED Log!vars
      <4>1. UNCHANGED <<registry, published, stream, i, peer, pc>> /\ TypeOK
        BY <2>1, <3>1 DEF IInv, vars, network
      <4>. QED
        BY <4>1, QuietStep DEF Running
    <3>. QED
      BY MaxLogins <= 1, <2>1, <3>1, QuietActions, PassingSteps, BeginPublishes,
         RegisterJoins, PushDelivers, ReplyAnswers, ClosingLeaves, RemovingLeaves
      DEF Next, Thread, Over
  <2>. QED
    BY <2>1
<1>4. Spec => []IInv
  BY MaxLogins <= 1, ThreadsInvariant
<1>. QED
  BY <1>1, <1>2, <1>3, <1>4, PTL DEF Spec, ImplementsLog, Log!Spec
=============================================================================
