----------------------- MODULE OperatorSessionProofs -----------------------
(***************************************************************************)
(* Proofs about OperatorSession, for every number of changes, alerts and   *)
(* lost WebSockets, and every capacity of the channels.                    *)
(***************************************************************************)
EXTENDS OperatorSession, SequenceTheorems, TLAPS

(* LOGIN is on its way or being verified: nothing else has happened. *)
LoginPending ==
  /\ requests = <<"LOGIN">> /\ pc = "login" /\ link = "open"
  /\ reply = NoLine /\ lines = <<>> /\ ~registered

LaterCommands == {"OPERATOR_IDENTIFY", "GET_SENSORS"}

(* Before it connects the client has received nothing; until it has        *)
(* identified itself it does not poll.                                     *)
Quiet ==
  /\ pc = "start" => link = "none" /\ reply = NoLine /\ lines = <<>> /\ ~registered
  /\ pc \in {"start", "login", "identify", "failed"} => ~running
  /\ requests \in Seq(LaterCommands) \/ LoginPending
  /\ stage # "none" => LoginPending

(* Every reply so far was the thread's own, and the table had room for us. *)
Undisturbed == ~turnedAway /\ races = 0

(* Nothing but a refusal comes from a server that has not registered us. *)
Handshake ==
  link = "open" /\ ~registered /\ Undisturbed =>
    /\ pc \in {"login", "failed"}
    /\ requests \in {<<>>, <<"LOGIN">>}
    /\ reply \in {NoLine, Error}
    /\ lines \in Seq({Error})

IInv == Quiet /\ Handshake

(* Head and tail of a queue that is not empty. *)
LEMMA QueueFacts ==
  ASSUME NEW S, NEW s \in Seq(S), s # <<>>
  PROVE  Tail(s) \in Seq(S) /\ Head(s) \in S
OBVIOUS

(* An empty queue, and one with an item more. *)
LEMMA AppendFacts ==
  ASSUME NEW S
  PROVE  /\ <<>> \in Seq(S)
         /\ \A s \in Seq(S), c \in S : Append(s, c) \in Seq(S)
OBVIOUS

(* What is left of a queue when its first k items are taken together. *)
LEMMA RestFacts ==
  ASSUME NEW S, NEW s \in Seq(S), NEW k \in 1 .. Len(s)
  PROVE  SubSeq(s, k + 1, Len(s)) \in Seq(S)
OBVIOUS

(* The kinds of answers to LOGIN can be told apart. *)
LEMMA AnswersDiffer == Error.kind # "ok" /\ Ok.kind = "ok" /\ Error # NoLine /\ Ok # NoLine
BY DEF Error, Ok, NoLine, Line

(* A pending LOGIN is the only request there is. *)
LEMMA PendingFacts ==
  ASSUME Quiet
  PROVE  /\ requests # <<>> /\ Head(requests) = "LOGIN" => LoginPending
         /\ LoginPending => Head(requests) = "LOGIN" /\ Tail(requests) = <<>>
<1>1. requests \in Seq(LaterCommands) /\ requests # <<>> => Head(requests) # "LOGIN"
  BY DEF LaterCommands
<1>2. requests = <<"LOGIN">> => Head(requests) = "LOGIN" /\ Tail(requests) = <<>>
  OBVIOUS
<1>3. requests # <<>> /\ Head(requests) = "LOGIN" => LoginPending
  BY <1>1 DEF Quiet
<1> QED
  BY <1>2, <1>3 DEF LoginPending

(* What has been overwritten is counted. *)
LEMMA RacesCount ==
  ASSUME races \in Nat, [Next]_vars
  PROVE  races' \in Nat /\ races <= races'
<1>1. CASE SendForeign
  BY <1>1 DEF SendForeign
<1>2. CASE UNCHANGED races
  BY <1>2
<1>3. CASE Serve \/ AuthServe \/ AcceptOthers \/ register_operator \/ OthersLogIn
           \/ SensorsChange \/ PushAlert \/ ServerEnds
  BY <1>1, <1>2, <1>3 DEF Serve, AskService, ServiceLost, Refused, HandleCommand, SendReply,
       AuthServe, AcceptUs, AnswerUs, AnswerOthers, AcceptOthers, register_operator,
       OthersLogIn, SensorsChange, PushAlert, ServerEnds, RestOfLogin, RestOfService, login
<1>4. CASE connect \/ Read \/ pollSensors \/ disconnect
  BY <1>2, <1>4 DEF connect, Read, ReadLoginAnswer, ReadIdentifyAnswer, HandshakeFails,
       ReadLine, ReaderEnds, pollSensors, disconnect, server, login
<1>5. CASE \/ OpenPage \/ getSensors \/ fetchSensorsOnce \/ Subscribe \/ WebSocketDrops
           \/ \E k \in 1 .. Capacity : Render(k)
           \/ ClearAlerts \/ UNCHANGED vars
  BY <1>2, <1>5 DEF OpenPage, getSensors, fetchSensorsOnce, Subscribe, WebSocketDrops,
       Render, ClearAlerts, vars, server, login
<1> QED
  BY <1>3, <1>4, <1>5 DEF Next

(* A refusal leaves us unregistered, and LOGIN answered. *)
LEMMA RefusalKeeps ==
  ASSUME IInv, stage # "none", Refused
  PROVE  IInv'
<1>1. LoginPending /\ ~running
  BY DEF IInv, Quiet, LoginPending
<1>2. requests' = <<>> /\ <<>> \in Seq(LaterCommands)
  BY <1>1, PendingFacts DEF Refused, IInv
<1>3. UNCHANGED <<registered, turnedAway, races, lines, link, pc, running>>
  BY DEF Refused, RestOfLogin, client
<1>4. Quiet'
  BY <1>1, <1>2, <1>3 DEF Refused, Quiet, LoginPending
<1>5. Handshake'
  BY <1>1, <1>2, <1>3 DEF Refused, Handshake, LoginPending
<1> QED
  BY <1>4, <1>5 DEF IInv

(* Who is answered OK is in the table, or was turned away from it. *)
LEMMA RegisterKeeps ==
  ASSUME IInv, register_operator
  PROVE  IInv'
<1>1. LoginPending /\ ~running
  BY DEF register_operator, IInv, Quiet, LoginPending
<1>2. requests' = <<>> /\ <<>> \in Seq(LaterCommands)
  BY <1>1, PendingFacts DEF register_operator, IInv
<1>3. UNCHANGED <<races, lines, link, pc, running>> /\ (registered' \/ turnedAway')
  BY DEF register_operator, RestOfLogin, client
<1>4. Quiet'
  BY <1>1, <1>2, <1>3 DEF register_operator, Quiet, LoginPending
<1> QED
  BY <1>3, <1>4 DEF IInv, Handshake, Undisturbed

(* The steps of the service, and of other operators. *)
LEMMA AuthKeeps ==
  ASSUME IInv, AuthServe \/ AcceptOthers \/ OthersLogIn
  PROVE  IInv'
<1>1. CASE AnswerUs
  <2>1. CASE stage' = "register" /\ UNCHANGED <<registered, turnedAway, reply, requests, RestOfLogin>>
    <3>1. LoginPending
      BY <1>1 DEF AnswerUs, IInv, Quiet
    <3>2. UNCHANGED <<registered, turnedAway, races, reply, requests, lines, link, pc, running>>
      BY <2>1 DEF RestOfLogin, client
    <3> QED
      BY <2>1, <3>1, <3>2 DEF IInv, Quiet, LoginPending, Handshake, Undisturbed
  <2>2. CASE Refused
    BY <1>1, <2>2, RefusalKeeps DEF AnswerUs
  <2> QED
    BY <1>1, <2>1, <2>2 DEF AnswerUs
<1>2. CASE AcceptUs \/ AcceptOthers \/ AnswerOthers \/ OthersLogIn
  <2>1. UNCHANGED <<registered, turnedAway, races, reply, stage, requests, lines, link, pc,
                    running>>
    BY <1>2 DEF AcceptUs, AcceptOthers, AnswerOthers, OthersLogIn, RestOfService, wire, client
  <2> QED
    BY <2>1 DEF IInv, Quiet, LoginPending, Handshake, Undisturbed
<1> QED
  BY <1>1, <1>2 DEF AuthServe

(* The server thread takes LOGIN up, or answers it at once. *)
LEMMA AskKeeps ==
  ASSUME IInv, AskService
  PROVE  IInv'
<1>1. LoginPending /\ ~running
  BY PendingFacts DEF AskService, IInv, Quiet, LoginPending
<1>2. UNCHANGED <<registered, turnedAway, races, lines, link, pc, running>>
  BY DEF AskService, client
<1>3. CASE stage' = "verify" /\ UNCHANGED <<reply, requests>>
  BY <1>1, <1>2, <1>3 DEF IInv, Quiet, LoginPending, Handshake, Undisturbed
<1>4. CASE reply' = Error /\ requests' = Tail(requests) /\ UNCHANGED stage
  <2>1. requests' = <<>> /\ <<>> \in Seq(LaterCommands) /\ stage' = "none"
    BY <1>1, <1>4, PendingFacts DEF AskService, IInv
  <2> QED
    BY <1>1, <1>2, <1>4, <2>1 DEF IInv, Quiet, LoginPending, Handshake, Undisturbed
<1> QED
  BY <1>3, <1>4 DEF AskService

(* It takes up any other command, with those that follow it. *)
LEMMA HandleKeeps ==
  ASSUME IInv, HandleCommand
  PROVE  IInv'
<1>1. ~LoginPending /\ requests \in Seq(LaterCommands) /\ stage = "none"
  BY PendingFacts DEF HandleCommand, IInv, Quiet
<1>2. registered \/ ~Undisturbed
  BY <1>1 DEF HandleCommand, IInv, Handshake, LoginPending, Quiet
<1>3. requests' \in Seq(LaterCommands)
  BY <1>1, RestFacts DEF HandleCommand
<1> QED
  BY <1>1, <1>2, <1>3 DEF HandleCommand, IInv, Quiet, Handshake, Undisturbed, login, client

(* It sends a reply. *)
LEMMA SendKeeps ==
  ASSUME IInv, SendReply
  PROVE  IInv'
<1>1. ~LoginPending
  BY DEF SendReply, LoginPending
<1>2. Quiet'
  BY <1>1 DEF SendReply, IInv, Quiet, login, client
<1>3. ASSUME link = "open", ~registered, Undisturbed
      PROVE  lines' \in Seq({Error})
  <2>1. reply = Error /\ lines \in Seq({Error})
    BY <1>3 DEF SendReply, IInv, Handshake
  <2>2. ~Open(lines)
    BY <2>1 DEF Open, Error, Line
  <2> QED
    BY <2>1, <2>2 DEF SendReply, Put
<1> QED
  BY <1>2, <1>3 DEF SendReply, IInv, Handshake, Undisturbed, login, client

(* It sends what another thread has left in the buffer. *)
LEMMA ForeignKeeps ==
  ASSUME IInv, SendForeign, races \in Nat
  PROVE  IInv'
<1>1. ~LoginPending /\ races' # 0
  BY DEF SendForeign, LoginPending
<1>2. UNCHANGED <<registered, requests, stage, link, pc, running>>
  BY DEF SendForeign, client
<1>3. Quiet'
  BY <1>1, <1>2 DEF SendForeign, IInv, Quiet
<1> QED
  BY <1>1, <1>3 DEF IInv, Handshake, Undisturbed

(* The server's other actions. *)
LEMMA ServerKeeps ==
  ASSUME IInv, races \in Nat,
         SensorsChange \/ Serve \/ register_operator \/ PushAlert \/ ServerEnds
  PROVE  IInv'
<1>1. CASE SensorsChange
  BY <1>1 DEF SensorsChange, IInv, Quiet, LoginPending, Handshake, Undisturbed, login, wire,
              client
<1>2. CASE ServiceLost
  BY <1>2, RefusalKeeps DEF ServiceLost
<1>3. CASE PushAlert
  <2>1. registered /\ ~LoginPending
    BY <1>3 DEF PushAlert, LoginPending
  <2> QED
    BY <1>3, <2>1 DEF PushAlert, IInv, Quiet, Handshake, login, client
<1>4. CASE ServerEnds
  <2>1. pc # "start"
    BY <1>4 DEF ServerEnds, IInv, Quiet
  <2>2. /\ requests' = <<>> /\ <<>> \in Seq(LaterCommands)
        /\ link' # "open" /\ stage' = "none"
    BY <1>4 DEF ServerEnds
  <2> QED
    BY <1>4, <2>1, <2>2 DEF ServerEnds, IInv, Quiet, Handshake, client
<1> QED
  BY <1>1, <1>2, <1>3, <1>4, AskKeeps, HandleKeeps, SendKeeps, ForeignKeeps, RegisterKeeps
     DEF Serve

(* The client's actions: it goes on only with an OK, which no server sends *)
(* that has not registered it.                                             *)
LEMMA ClientKeeps ==
  ASSUME IInv,
         connect \/ Read \/ pollSensors \/ disconnect
  PROVE  IInv'
<1>1. CASE connect
  <2>1. /\ link = "none" /\ reply = NoLine /\ lines = <<>> /\ ~running /\ ~registered
        /\ stage = "none" /\ requests \in Seq(LaterCommands)
    BY <1>1 DEF connect, IInv, Quiet, LoginPending
  <2>2. UNCHANGED <<registered, turnedAway, races, reply, stage, lines, running>>
    BY <1>1 DEF connect, server, login
  <2>3. CASE link' = "open" /\ requests' = <<"LOGIN">> /\ pc' = "login"
    <3>1. LoginPending'
      BY <2>1, <2>2, <2>3 DEF LoginPending
    <3>2. Quiet'
      BY <2>1, <2>2, <2>3, <3>1 DEF Quiet
    <3>3. lines' \in Seq({Error})
      BY <2>1, <2>2
    <3> QED
      BY <2>1, <2>2, <2>3, <3>2, <3>3 DEF IInv, Handshake
  <2>4. CASE UNCHANGED <<link, requests>> /\ pc' = "failed"
    BY <2>1, <2>2, <2>4 DEF IInv, Quiet, Handshake
  <2> QED
    BY <1>1, <2>3, <2>4 DEF connect
<1>2. CASE ReadLoginAnswer
  <2>1. ~LoginPending /\ requests \in Seq(LaterCommands) /\ stage = "none" /\ ~running
    BY <1>2 DEF ReadLoginAnswer, HasLine, LoginPending, IInv, Quiet
  <2>2. UNCHANGED <<registered, turnedAway, races, reply, stage, link, running>>
    BY <1>2 DEF ReadLoginAnswer, server, login
  <2>3. requests' \in Seq(LaterCommands)
    BY <1>2, <2>1, SMTT(30) DEF ReadLoginAnswer, Flush, LaterCommands
  <2>4. Quiet'
    BY <1>2, <2>1, <2>2, <2>3 DEF ReadLoginAnswer, Quiet
  <2>5. SUFFICES ASSUME link = "open", ~registered, Undisturbed PROVE Handshake'
    BY <2>2, <2>4 DEF IInv, Handshake, Undisturbed
  <2>6. /\ lines \in Seq({Error}) /\ lines # <<>> /\ lines' = Tail(lines)
    BY <1>2, <2>5 DEF ReadLoginAnswer, HasLine, IInv, Handshake
  <2>7. lines' \in Seq({Error}) /\ Head(lines).kind # "ok"
    BY <2>6, QueueFacts, AnswersDiffer
  <2> QED
    BY <1>2, <2>2, <2>5, <2>7 DEF ReadLoginAnswer, IInv, Handshake
<1>3. CASE ReadIdentifyAnswer
  BY <1>3 DEF ReadIdentifyAnswer, HasLine, IInv, Quiet, LoginPending, Handshake, Undisturbed, server, login
<1>4. CASE HandshakeFails
  BY <1>4 DEF HandshakeFails, Over, IInv, Quiet, LoginPending, Handshake, Undisturbed, server, login,
              wire
<1>5. CASE ReadLine
  BY <1>5 DEF ReadLine, HasLine, IInv, Quiet, LoginPending, Handshake, Undisturbed, server, login
<1>6. CASE ReaderEnds
  BY <1>6 DEF ReaderEnds, Over, IInv, Quiet, LoginPending, Handshake, Undisturbed, server, login, wire
<1>7. CASE pollSensors
  <2>1. ~LoginPending /\ requests \in Seq(LaterCommands) /\ stage = "none"
    BY <1>7 DEF pollSensors, IInv, Quiet, LoginPending
  <2>2. requests' \in Seq(LaterCommands)
    BY <1>7, <2>1 DEF pollSensors, Flush, LaterCommands
  <2>3. link = "open" => registered \/ ~Undisturbed
    BY <1>7 DEF pollSensors, IInv, Quiet, Handshake
  <2> QED
    BY <1>7, <2>1, <2>2, <2>3 DEF pollSensors, IInv, Quiet, Handshake, Undisturbed, server, login, client
<1>8. CASE disconnect
  <2>1. ~LoginPending /\ stage = "none"
    BY <1>8 DEF disconnect, IInv, Quiet, LoginPending
  <2>2. requests' \in Seq(LaterCommands)
    BY <1>8 DEF disconnect
  <2> QED
    BY <1>8, <2>1, <2>2 DEF disconnect, IInv, Quiet, Handshake, login
<1> QED
  BY <1>1, <1>2, <1>3, <1>4, <1>5, <1>6, <1>7, <1>8 DEF Read

(* No step of the page touches the session. *)
LEMMA PageKeeps ==
  ASSUME IInv,
         \/ OpenPage \/ getSensors \/ fetchSensorsOnce \/ Subscribe \/ WebSocketDrops
         \/ \E k \in 1 .. Capacity : Render(k)
         \/ ClearAlerts \/ UNCHANGED vars
  PROVE  IInv'
<1>1. UNCHANGED <<server, wire, client>>
  BY DEF OpenPage, getSensors, fetchSensorsOnce, Subscribe, WebSocketDrops, Render,
         ClearAlerts, vars
<1> QED
  BY <1>1 DEF IInv, Quiet, LoginPending, Handshake, Undisturbed, server, login, wire, client

(* The session invariant holds of every reachable state. *)
LEMMA SessionInvariant == Spec => [](IInv /\ races \in Nat)
<1>1. Init => IInv /\ races \in Nat
  BY DEF Init, IInv, Quiet, LaterCommands, Handshake
<1>2. IInv /\ races \in Nat /\ [Next]_vars => (IInv /\ races \in Nat)'
  BY ServerKeeps, AuthKeeps, ClientKeeps, PageKeeps, RacesCount DEF Next
<1> QED
  BY <1>1, <1>2, PTL DEF Spec

(***************************************************************************)
(* A client that has started its reader, and whose connection lasts, is in *)
(* the server's table of operators, unless register_operator has found the *)
(* table full or another thread has overwritten a reply to this client     *)
(* (ServerConnectionService.java, authenticate; server.c, the LOGIN case   *)
(* of handle_client; protocol.c, resp_buf).                                *)
(***************************************************************************)
THEOREM Registered == Spec => []ReaderIsRegistered
<1>1. IInv /\ races \in Nat => ReaderIsRegistered
  BY DEF IInv, Handshake, Undisturbed, ReaderIsRegistered
<1> QED
  BY <1>1, SessionInvariant, PTL

-----------------------------------------------------------------------------
(* The lines that a server at version v may have sent. *)
Sendable(v) ==
  {l \in Lines : /\ l.kind = "sensors" => l.n <= v
                 /\ l.kind = "alert" => l.n \in 1 .. MaxAlerts}

Content ==
  /\ lines \in Seq(Sendable(version))
  /\ topic \in Seq(Sendable(version))
  /\ reply \in Sendable(version)

Safe == TypeOK /\ Content

(* A later server may have sent the same lines. *)
LEMMA SendableGrows ==
  ASSUME NEW v \in Nat, NEW w \in Nat, v <= w
  PROVE  Sendable(v) \subseteq Sendable(w) /\ Sendable(v) \subseteq Lines
BY DEF Sendable, Lines

LEMMA QueuesGrow ==
  ASSUME NEW S, NEW T, S \subseteq T, NEW s \in Seq(S)
  PROVE  s \in Seq(T)
OBVIOUS

(* What the server puts into a line. *)
LEMMA SentLines ==
  ASSUME NEW v \in Nat
  PROVE  /\ NoLine \in Sendable(v) /\ Ok \in Sendable(v) /\ Error \in Sendable(v)
         /\ Lost \in Sendable(v) /\ Sensors(v) \in Sendable(v)
         /\ \A n \in 1 .. MaxAlerts : AnAlert(n) \in Sendable(v)
<1>1. \A n \in Nat : /\ Sensors(n).kind = "sensors" /\ Sensors(n).n = n
                     /\ Sensors(n) \in Lines
  BY BoundsAssumption DEF Sensors, Lines
<1>2. \A n \in 1 .. MaxAlerts : AnAlert(n) \in Sendable(v)
  BY BoundsAssumption DEF AnAlert, Line, Sendable, Lines
<1>3. Sensors(v) \in Sendable(v)
  BY <1>1 DEF Sendable
<1> QED
  BY <1>2, <1>3 DEF NoLine, Ok, Error, Lost, Line, Sendable, Lines

(* What another thread may have left. *)
LEMMA ForeignFacts ==
  ASSUME version \in Nat, NEW text \in ForeignTexts
  PROVE  /\ text \in Sendable(version) /\ text.kind # "alert"
BY DEF ForeignTexts, Sendable, Lines

(* An open line may be continued: only its end changes. *)
LEMMA ReopenFacts ==
  ASSUME NEW v \in Nat, NEW s \in Seq(Sendable(v)), s # <<>>, NEW o \in BOOLEAN
  PROVE  /\ [s EXCEPT ![Len(s)].open = o] \in Seq(Sendable(v))
         /\ Len([s EXCEPT ![Len(s)].open = o]) = Len(s)
         /\ \A k \in 1 .. Len(s) :
              /\ [s EXCEPT ![Len(s)].open = o][k].kind = s[k].kind
              /\ [s EXCEPT ![Len(s)].open = o][k].n = s[k].n
<1> DEFINE t == [s EXCEPT ![Len(s)].open = o]
<1>1. Len(s) \in Nat /\ Len(s) \in 1 .. Len(s) /\ DOMAIN s = 1 .. Len(s)
  OBVIOUS
<1>2. \A k \in 1 .. Len(s) : s[k] \in Sendable(v)
  OBVIOUS
<1>3. \A k \in 1 .. Len(s) : t[k] = IF k = Len(s) THEN [s[k] EXCEPT !.open = o] ELSE s[k]
  BY <1>1
<1>4. \A l \in Sendable(v) : /\ [l EXCEPT !.open = o] \in Sendable(v)
                             /\ [l EXCEPT !.open = o].kind = l.kind
                             /\ [l EXCEPT !.open = o].n = l.n
  BY DEF Sendable, Lines
<1>5. \A k \in 1 .. Len(s) :
        t[k] \in Sendable(v) /\ t[k].kind = s[k].kind /\ t[k].n = s[k].n
  BY <1>2, <1>3, <1>4
<1>6. t \in [1 .. Len(s) -> Sendable(v)]
  BY <1>1, <1>5
<1>7. t \in Seq(Sendable(v)) /\ Len(t) = Len(s)
  BY <1>1, <1>6
<1> QED
  BY <1>5, <1>7

(* One line more, or the last one continued. *)
LEMMA PutFacts ==
  ASSUME NEW v \in Nat, lines \in Seq(Sendable(v)), NEW line \in Sendable(v), Put(line)
  PROVE  lines' \in Seq(Sendable(v))
<1>1. line.open \in BOOLEAN
  BY DEF Sendable, Lines
<1>2. CASE Open(lines)
  BY <1>1, <1>2, ReopenFacts DEF Put, Open
<1>3. CASE ~Open(lines)
  BY <1>3 DEF Put
<1> QED
  BY <1>2, <1>3

(* What is left of a queue when the k-th item is taken out. *)
LEMMA TakenOut ==
  ASSUME NEW S, NEW s \in Seq(S), NEW k \in 1 .. Len(s)
  PROVE  SubSeq(s, 1, k - 1) \o SubSeq(s, k + 1, Len(s)) \in Seq(S)
<1>1. SubSeq(s, 1, k - 1) \in Seq(S)
  OBVIOUS
<1>2. SubSeq(s, k + 1, Len(s)) \in Seq(S)
  OBVIOUS
<1> QED
  BY <1>1, <1>2

LEMMA PublishFacts ==
  ASSUME NEW v \in Nat, topic \in Seq(Sendable(v)), NEW line \in Sendable(v), Publish(line)
  PROVE  topic' \in Seq(Sendable(v))
BY DEF Publish

(* Content is all that depends on what is sent; the rest is finite. *)
LEMMA SafeInit == Init => Safe
<1>1. Init => <<>> \in Seq(Sendable(0)) /\ NoLine \in Sendable(0) /\ NoLine \in Lines
  BY SentLines, SendableGrows
<1>2. Init => Content
  BY <1>1 DEF Init, Content
<1>3. Init => requests \in Seq({"LOGIN", "OPERATOR_IDENTIFY", "GET_SENSORS"})
              /\ lines \in Seq(Lines) /\ topic \in Seq(Lines)
  BY DEF Init
<1>4. Init => /\ version \in 0 .. MaxVersion /\ alerts \in 0 .. MaxAlerts
              /\ drops \in 0 .. MaxDrops /\ feed \subseteq 1 .. MaxAlerts
              /\ cachedSensors \in 0 .. version /\ fetched \in 0 .. version
              /\ view \in 0 .. version /\ races \in 0 .. MaxRaces
              /\ operator_count \in 0 .. MaxOperators
  BY BoundsAssumption DEF Init
<1>5. Init => TypeOK
  BY <1>1, <1>3, <1>4 DEF Init, TypeOK
<1> QED
  BY <1>2, <1>5 DEF Safe

(* The server adds lines that it may send, and takes commands. *)
LEMMA ServerSafe ==
  ASSUME Safe, IInv, Serve \/ register_operator \/ PushAlert \/ ServerEnds
  PROVE  Safe'
<1> DEFINE LaterOrLogin == {"LOGIN", "OPERATOR_IDENTIFY", "GET_SENSORS"}
<1> USE DEF Serve, AskService, ServiceLost, Refused, register_operator, HandleCommand,
            SendReply, SendForeign, PushAlert, ServerEnds, RestOfLogin
<1>1. /\ version \in Nat /\ requests \in Seq(LaterOrLogin)
      /\ UNCHANGED <<version, client, browser>>
  BY BoundsAssumption DEF Safe, TypeOK
<1>2. requests' \in Seq(LaterOrLogin)
  <2>1. CASE requests # <<>> /\ requests' = Tail(requests)
    BY <1>1, <2>1, QueueFacts
  <2>2. CASE \E k \in 1 .. Len(requests) : requests' = SubSeq(requests, k + 1, Len(requests))
    BY <1>1, <2>2, RestFacts
  <2>3. CASE ServiceLost \/ register_operator
    BY <1>1, <2>3, QueueFacts DEF IInv, Quiet, LoginPending
  <2>4. CASE ServerEnds
    BY <2>4
  <2> QED
    BY <1>1, <2>1, <2>2, <2>3, <2>4
<1>3. reply' \in Sendable(version)
  BY <1>1, SentLines DEF Safe, Content
<1>4. lines' \in Seq(Sendable(version))
  <2>1. CASE SendReply
    BY <1>1, <2>1, PutFacts DEF Safe, Content
  <2>2. CASE PushAlert
    <3>1. alerts' \in 1 .. MaxAlerts
      BY <2>2, BoundsAssumption DEF Safe, TypeOK
    <3>2. AnAlert(alerts') \in Sendable(version)
      BY <1>1, <3>1, SentLines
    <3> QED
      BY <1>1, <2>2, <3>2, PutFacts DEF Safe, Content
  <2>3. CASE SendForeign
    BY <1>1, <2>3, ForeignFacts, PutFacts DEF Safe, Content
  <2>4. CASE lines' \in {lines, <<>>}
    BY <2>4, AppendFacts DEF Safe, Content
  <2>5. AskService \/ ServiceLost \/ register_operator \/ HandleCommand \/ ServerEnds
          => lines' \in {lines, <<>>}
    OBVIOUS
  <2> QED
    BY <2>1, <2>2, <2>3, <2>4, <2>5
<1>5. Content'
  BY <1>1, <1>3, <1>4 DEF Content, Safe, browser
<1>6. reply' \in Lines /\ lines' \in Seq(Lines)
  BY <1>1, <1>3, <1>4, SendableGrows, QueuesGrow
<1>7. alerts' \in 0 .. MaxAlerts
  BY BoundsAssumption DEF Safe, TypeOK, login
<1>8. /\ registered' \in BOOLEAN /\ turnedAway' \in BOOLEAN
      /\ stage' \in {"none", "verify", "register"}
      /\ auth' \in {"none", "other", "us", "ended"}
  <2>1. /\ registered \in BOOLEAN /\ turnedAway \in BOOLEAN
        /\ stage \in {"none", "verify", "register"}
        /\ auth \in {"none", "other", "us", "ended"}
    BY DEF Safe, TypeOK
  <2> QED
    BY <2>1 DEF login
<1>9. operator_count' \in 0 .. MaxOperators /\ races' \in 0 .. MaxRaces
  <2>1. /\ \/ operator_count' = operator_count
           \/ operator_count < MaxOperators /\ operator_count' = operator_count + 1
        /\ \/ races' = races
           \/ races < MaxRaces /\ races' = races + 1
    BY DEF login
  <2> QED
    BY <2>1, BoundsAssumption DEF Safe, TypeOK
<1>10. link' = link \/ link' \in {"eof", "reset"}
  OBVIOUS
<1>11. /\ link' \in {"none", "open", "eof", "reset"}
       /\ pc' = "reading" /\ link' = "open" => running'
  BY <1>1, <1>10 DEF Safe, TypeOK, client
<1> QED
  BY <1>1, <1>2, <1>5, <1>6, <1>7, <1>8, <1>9, <1>11 DEF Safe, TypeOK, client, browser

(* The sensors change: what has been sent may still have been. *)
LEMMA SensorsSafe ==
  ASSUME Safe, SensorsChange
  PROVE  Safe'
<1>1. version \in Nat /\ version' \in Nat /\ version <= version' /\ version' \in 0 .. MaxVersion
  BY BoundsAssumption DEF SensorsChange, Safe, TypeOK
<1>2. Content'
  BY <1>1, SendableGrows, QueuesGrow DEF SensorsChange, Safe, Content, wire, browser
<1>3. 0 .. version \subseteq 0 .. version'
  BY <1>1
<1> QED
  BY <1>1, <1>2, <1>3 DEF SensorsChange, Safe, TypeOK, login, wire, client, browser

(* The service only speaks to the server thread. *)
LEMMA AuthSafe ==
  ASSUME Safe, IInv, AuthServe \/ AcceptOthers \/ OthersLogIn
  PROVE  Safe'
<1> DEFINE LaterOrLogin == {"LOGIN", "OPERATOR_IDENTIFY", "GET_SENSORS"}
<1> USE DEF AuthServe, AcceptUs, AnswerUs, Refused, AnswerOthers, AcceptOthers, OthersLogIn,
            RestOfLogin, RestOfService
<1>1. version \in Nat /\ requests \in Seq(LaterOrLogin)
      /\ UNCHANGED <<version, alerts, registered, turnedAway, races, lines, link, client,
                     browser>>
  BY BoundsAssumption DEF Safe, TypeOK, wire
<1>2. requests' \in Seq(LaterOrLogin)
  <2>1. CASE AnswerUs
    BY <1>1, <2>1, QueueFacts DEF IInv, Quiet, LoginPending
  <2> QED
    BY <1>1, <2>1 DEF wire
<1>3. reply' \in Sendable(version)
  BY <1>1, SentLines DEF Safe, Content
<1>4. Content' /\ reply' \in Lines
  BY <1>1, <1>3, SendableGrows DEF Content, Safe, browser
<1>5. /\ stage' \in {"none", "verify", "register"}
      /\ auth' \in {"none", "other", "us", "ended"}
  BY DEF Safe, TypeOK
<1>6. operator_count' \in 0 .. MaxOperators
  BY BoundsAssumption DEF Safe, TypeOK
<1> QED
  BY <1>1, <1>2, <1>4, <1>5, <1>6 DEF Safe, TypeOK, client, browser

(* The client reads what has been sent, and publishes it. *)
LEMMA ConsumeSafe ==
  ASSUME Safe, NEW line \in Sendable(version), Consume(line)
  PROVE  topic' \in Seq(Sendable(version)) /\ cachedSensors' \in 0 .. version
<1>1. version \in Nat
  BY BoundsAssumption DEF Safe, TypeOK
<1>2. CASE line.kind = "sensors" /\ cachedSensors' = line.n /\ Publish(line)
  <2>1. line.n \in 0 .. version
    BY <1>1, <1>2 DEF Sendable, Lines
  <2> QED
    BY <1>1, <1>2, <2>1, PublishFacts DEF Safe, Content
<1>3. CASE line.kind = "alert" /\ Publish(line) /\ UNCHANGED cachedSensors
  BY <1>1, <1>3, PublishFacts DEF Safe, Content, TypeOK
<1>4. CASE UNCHANGED <<topic, cachedSensors>>
  BY <1>4 DEF Safe, Content, TypeOK
<1> QED
  BY <1>2, <1>3, <1>4 DEF Consume

LEMMA ClientSafe ==
  ASSUME Safe, connect \/ Read \/ pollSensors \/ disconnect
  PROVE  Safe'
<1> DEFINE Commands == {"LOGIN", "OPERATOR_IDENTIFY", "GET_SENSORS"}
<1>1. version \in Nat /\ requests \in Seq(Commands)
      /\ UNCHANGED <<version, alerts, turnedAway, operator_count, races, stage, auth>>
  BY BoundsAssumption DEF Safe, TypeOK, connect, Read, ReadLoginAnswer, ReadIdentifyAnswer,
       HandshakeFails, ReadLine, ReaderEnds, pollSensors, disconnect, server, login
<1>2. requests' \in Seq(Commands)
  <2>1. \/ requests' \in {requests, <<>>, <<"LOGIN">>}
        \/ \E c \in Commands : requests' = Append(requests, c)
    BY DEF connect, Read, ReadLoginAnswer, ReadIdentifyAnswer, Flush,
         HandshakeFails, ReadLine, ReaderEnds, pollSensors, disconnect, wire
  <2>2. <<"LOGIN">> \in Seq(Commands)
    OBVIOUS
  <2>3. CASE requests' \in {requests, <<>>, <<"LOGIN">>}
    BY <1>1, <2>2, <2>3, AppendFacts
  <2>4. CASE \E c \in Commands : requests' = Append(requests, c)
    BY <1>1, <2>4, AppendFacts
  <2> QED
    BY <2>1, <2>3, <2>4
<1>3. lines' \in Seq(Sendable(version))
  <2>1. lines' \in {lines, <<>>} \/ (lines # <<>> /\ lines' = Tail(lines))
    BY DEF connect, Read, ReadLoginAnswer, ReadIdentifyAnswer, HandshakeFails, ReadLine,
         HasLine, ReaderEnds, pollSensors, disconnect, wire
  <2>2. lines \in Seq(Sendable(version))
    BY DEF Safe, Content
  <2> QED
    BY <2>1, <2>2, QueueFacts, AppendFacts
<1>4. reply' \in Sendable(version)
  BY <1>1, SentLines DEF Safe, Content, connect, Read, ReadLoginAnswer, ReadIdentifyAnswer,
       HandshakeFails, ReadLine, ReaderEnds, pollSensors, disconnect, server
<1>5. topic' \in Seq(Sendable(version)) /\ cachedSensors' \in 0 .. version
  <2>1. CASE ReadLine
    BY <1>1, <2>1, QueueFacts, ConsumeSafe DEF ReadLine, HasLine, Safe, Content
  <2>2. CASE ReaderEnds
    BY <1>1, <2>2, SentLines, PublishFacts DEF ReaderEnds, Safe, Content, TypeOK
  <2> QED
    BY <2>1, <2>2 DEF Safe, Content, TypeOK, connect, Read, ReadLoginAnswer,
         ReadIdentifyAnswer, HandshakeFails, pollSensors, disconnect, client, browser
<1>6. UNCHANGED RestOfBrowser
  BY DEF connect, Read, ReadLoginAnswer, ReadIdentifyAnswer, HandshakeFails, ReadLine,
         ReaderEnds, pollSensors, disconnect, browser, RestOfBrowser
<1>7. /\ link' \in {"none", "open", "eof", "reset"} /\ registered' \in BOOLEAN
      /\ pc' \in {"start", "login", "identify", "reading", "ended", "failed"}
      /\ running' \in BOOLEAN
  BY DEF Safe, TypeOK, connect, Read, ReadLoginAnswer, ReadIdentifyAnswer, HandshakeFails,
         ReadLine, ReaderEnds, pollSensors, disconnect, client, wire, server
<1>8. /\ running' => pc' \in {"reading", "ended"}
      /\ pc' = "reading" /\ link' = "open" => running'
  BY DEF Safe, TypeOK, connect, Read, ReadLoginAnswer, ReadIdentifyAnswer, HandshakeFails,
         ReadLine, ReaderEnds, Over, pollSensors, disconnect, client, wire
<1>9. reply' \in Lines /\ lines' \in Seq(Lines) /\ topic' \in Seq(Lines)
  BY <1>1, <1>3, <1>4, <1>5, SendableGrows, QueuesGrow
<1> QED
  BY <1>1, <1>2, <1>3, <1>4, <1>5, <1>6, <1>7, <1>8, <1>9
     DEF Safe, Content, TypeOK, RestOfBrowser

(* The page shows what it has been sent. *)
LEMMA RenderSafe ==
  ASSUME Safe, NEW k \in 1 .. Capacity, Render(k)
  PROVE  Safe'
<1>1. version \in Nat /\ k \in 1 .. Len(topic) /\ topic \in Seq(Sendable(version))
  BY BoundsAssumption DEF Safe, TypeOK, Content, Render
<1>2. topic[k] \in Sendable(version)
  BY <1>1
<1>3. view' \in 0 .. version
  <2>1. topic[k].kind = "sensors" => topic[k].n \in 0 .. version
    BY <1>1, <1>2 DEF Sendable, Lines
  <2> QED
    BY <2>1 DEF Render, Safe, TypeOK
<1>4. feed' \subseteq 1 .. MaxAlerts
  <2>1. topic[k].kind = "alert" => topic[k].n \in 1 .. MaxAlerts
    BY <1>2 DEF Sendable
  <2> QED
    BY <2>1 DEF Render, Safe, TypeOK
<1>5. toast' \in BOOLEAN
  BY DEF Render, Safe, TypeOK
<1>6. topic' \in Seq(Sendable(version))
  BY <1>1, TakenOut DEF Render
<1>7. topic' \in Seq(Lines)
  BY <1>1, <1>6, SendableGrows, QueuesGrow
<1>8. /\ UNCHANGED <<version, alerts, registered, turnedAway, operator_count, races, reply,
                     stage, auth, requests, lines, link, pc, running, cachedSensors>>
      /\ UNCHANGED <<page, subscribed, drops, fetch, fetched>>
  BY DEF Render, server, login, wire, client
<1>9. Content'
  BY <1>6, <1>8 DEF Safe, Content
<1> QED
  BY <1>3, <1>4, <1>5, <1>7, <1>8, <1>9 DEF Safe, TypeOK

LEMMA PageSafe ==
  ASSUME Safe,
         \/ OpenPage \/ getSensors \/ fetchSensorsOnce \/ Subscribe \/ WebSocketDrops
         \/ ClearAlerts \/ UNCHANGED vars
  PROVE  Safe'
<1>1. UNCHANGED <<version, alerts, registered, turnedAway, operator_count, races, reply,
                  stage, auth, requests, lines, link, pc, running, cachedSensors>>
  BY DEF OpenPage, getSensors, fetchSensorsOnce, Subscribe, WebSocketDrops, ClearAlerts,
         vars, server, login, wire, client
<1>2. topic' \in {topic, <<>>}
  BY DEF OpenPage, getSensors, fetchSensorsOnce, Subscribe, WebSocketDrops, ClearAlerts,
         vars, browser
<1>3. Content' /\ topic' \in Seq(Lines)
  BY <1>1, <1>2, AppendFacts DEF Content, Safe, TypeOK
<1>4. drops' \in 0 .. MaxDrops
  BY BoundsAssumption DEF Safe, TypeOK, OpenPage, getSensors, fetchSensorsOnce, Subscribe,
       WebSocketDrops, ClearAlerts, vars, browser
<1>5. /\ fetched' \in {fetched, cachedSensors} /\ view' \in {view, fetched}
      /\ page' \in {page, "open"} /\ subscribed' \in {subscribed, TRUE, FALSE}
      /\ fetch' \in {fetch, "asked", "answered", "done"}
      /\ feed' \in {feed, {}} /\ toast' = toast
  BY DEF OpenPage, getSensors, fetchSensorsOnce, Subscribe, WebSocketDrops, ClearAlerts,
         vars, browser
<1>6. /\ fetched' \in 0 .. version /\ view' \in 0 .. version
      /\ page' \in {"closed", "open"} /\ subscribed' \in BOOLEAN
      /\ fetch' \in {"none", "asked", "answered", "done"}
      /\ feed' \subseteq 1 .. MaxAlerts /\ toast' \in BOOLEAN
  BY <1>5 DEF Safe, TypeOK
<1> QED
  BY <1>1, <1>3, <1>4, <1>6 DEF Safe, TypeOK

LEMMA SafeInvariant == Spec => []Safe
<1>1. Safe /\ IInv /\ [Next]_vars => Safe'
  BY ServerSafe, SensorsSafe, AuthSafe, ClientSafe, RenderSafe, PageSafe DEF Next
<1> QED
  BY <1>1, SafeInit, SessionInvariant, PTL DEF Spec

(***************************************************************************)
(* Every variable keeps its type, what is cached or shown has been the     *)
(* state of the sensors, and the client runs exactly after its handshake   *)
(* (ServerConnectionService.java, server.c, dashboard.js).                 *)
(***************************************************************************)
THEOREM TypeCorrect == Spec => []TypeOK
<1>1. Safe => TypeOK
  BY DEF Safe
<1> QED
  BY <1>1, SafeInvariant, PTL

-----------------------------------------------------------------------------
(* The lists on their way are in the order of their states, from the state *)
(* cached to that of the reply.                                            *)
Ascending ==
  /\ \A k \in 1 .. Len(lines) : lines[k].kind = "sensors" => cachedSensors <= lines[k].n
  /\ \A i \in 1 .. Len(lines), j \in 1 .. Len(lines) :
       i < j /\ lines[i].kind = "sensors" /\ lines[j].kind = "sensors"
         => lines[i].n <= lines[j].n
  /\ reply.kind = "sensors" =>
       /\ cachedSensors <= reply.n
       /\ \A k \in 1 .. Len(lines) : lines[k].kind = "sensors" => lines[k].n <= reply.n

LEMMA KindsDiffer ==
  /\ NoLine.kind # "sensors" /\ Ok.kind # "sensors" /\ Error.kind # "sensors"
  /\ \A n : AnAlert(n).kind # "sensors"
  /\ \A n : Sensors(n).kind = "sensors" /\ Sensors(n).n = n
BY DEF NoLine, Ok, Error, AnAlert, Sensors, Line

LEMMA VersionFacts ==
  ASSUME Safe
  PROVE  /\ version \in Nat /\ cachedSensors \in Nat /\ cachedSensors <= version
         /\ \A k \in 1 .. Len(lines) : lines[k].n \in Nat
         /\ \A k \in 1 .. Len(lines) : lines[k].kind = "sensors" => lines[k].n <= version
         /\ reply.n \in Nat /\ lines \in Seq(Sendable(version))
<1>1. version \in Nat /\ cachedSensors \in Nat /\ cachedSensors <= version
  BY BoundsAssumption DEF Safe, TypeOK
<1>2. lines \in Seq(Sendable(version)) /\ reply \in Sendable(version)
  BY DEF Safe, Content
<1>3. \A k \in 1 .. Len(lines) : lines[k] \in Sendable(version)
  BY <1>2
<1> QED
  BY <1>1, <1>2, <1>3 DEF Sendable, Lines

(* A line put behind the others keeps the order if it has the last state. *)
LEMMA PutAscends ==
  ASSUME Safe, Ascending, NEW line \in Sendable(version), Put(line),
         UNCHANGED cachedSensors, reply'.kind # "sensors" \/ line.kind # "sensors",
         reply' = reply \/ reply'.kind # "sensors",
         line = reply \/ line.kind # "sensors"
  PROVE  Ascending'
<1>1. lines \in Seq(Sendable(version)) /\ version \in Nat /\ line.open \in BOOLEAN
      /\ cachedSensors \in Nat
  BY VersionFacts DEF Sendable, Lines
<1>2. CASE Open(lines)
  <2>1. /\ Len(lines') = Len(lines)
        /\ \A k \in 1 .. Len(lines) :
             lines'[k].kind = lines[k].kind /\ lines'[k].n = lines[k].n
    BY <1>1, <1>2, ReopenFacts DEF Put, Open
  <2> QED
    BY <2>1 DEF Ascending
<1>3. CASE ~Open(lines)
  <2>1. lines' = Append(lines, line)
    BY <1>3 DEF Put
  <2>2. /\ Len(lines') = Len(lines) + 1 /\ Len(lines) \in Nat
        /\ lines'[Len(lines) + 1] = line
        /\ \A k \in 1 .. Len(lines) : lines'[k] = lines[k]
    BY <1>1, <2>1
  <2>3. \A k \in 1 .. Len(lines') : k \in 1 .. Len(lines) \/ k = Len(lines) + 1
    BY <2>2
  <2>4. line.kind = "sensors" =>
          /\ cachedSensors <= line.n
          /\ \A k \in 1 .. Len(lines) : lines[k].kind = "sensors" => lines[k].n <= line.n
    BY DEF Ascending
  <2>5. \A k \in 1 .. Len(lines') : lines'[k].kind = "sensors" => cachedSensors <= lines'[k].n
    BY <2>2, <2>3, <2>4 DEF Ascending
  <2>6. ASSUME NEW i \in 1 .. Len(lines'), NEW j \in 1 .. Len(lines'), i < j,
               lines'[i].kind = "sensors", lines'[j].kind = "sensors"
        PROVE  lines'[i].n <= lines'[j].n
    <3>1. i \in 1 .. Len(lines)
      BY <2>2, <2>6
    <3>2. CASE j \in 1 .. Len(lines)
      BY <2>2, <2>6, <3>1, <3>2 DEF Ascending
    <3>3. CASE j = Len(lines) + 1
      BY <2>2, <2>4, <2>6, <3>1, <3>3
    <3> QED
      BY <2>3, <3>2, <3>3
  <2>7. reply'.kind = "sensors" =>
          /\ cachedSensors <= reply'.n
          /\ \A k \in 1 .. Len(lines') : lines'[k].kind = "sensors" => lines'[k].n <= reply'.n
    BY <2>2, <2>3 DEF Ascending
  <2> QED
    BY <2>5, <2>6, <2>7 DEF Ascending
<1> QED
  BY <1>2, <1>3

(* The reader takes the first line, and caches no older state. *)
LEMMA ReadAscends ==
  ASSUME Safe, Ascending, lines # <<>>, lines' = Tail(lines), UNCHANGED reply,
         \/ UNCHANGED cachedSensors
         \/ Head(lines).kind = "sensors" /\ cachedSensors' = Head(lines).n
  PROVE  Ascending' /\ cachedSensors' >= cachedSensors
<1>1. lines \in Seq(Sendable(version)) /\ version \in Nat /\ cachedSensors \in Nat
      /\ \A k \in 1 .. Len(lines) : lines[k].n \in Nat
  <2>1. lines \in Seq(Sendable(version)) /\ version \in Nat /\ cachedSensors \in Nat
    BY VersionFacts
  <2>2. \A k \in 1 .. Len(lines) : lines[k].n \in Nat
    BY VersionFacts
  <2> QED
    BY <2>1, <2>2
<1>2. /\ Len(lines) \in Nat \ {0} /\ Head(lines) = lines[1] /\ 1 \in 1 .. Len(lines)
      /\ Len(lines') = Len(lines) - 1
      /\ \A k \in 1 .. Len(lines') : k + 1 \in 2 .. Len(lines) /\ lines'[k] = lines[k + 1]
  BY <1>1
<1>3. cachedSensors' >= cachedSensors
  BY <1>1, <1>2 DEF Ascending
<1>4. \A k \in 1 .. Len(lines') : lines'[k].kind = "sensors" => cachedSensors' <= lines'[k].n
  BY <1>1, <1>2 DEF Ascending
<1>5. \A i \in 1 .. Len(lines'), j \in 1 .. Len(lines') :
        i < j /\ lines'[i].kind = "sensors" /\ lines'[j].kind = "sensors"
          => lines'[i].n <= lines'[j].n
  BY <1>1, <1>2 DEF Ascending
<1>6. reply'.kind = "sensors" =>
        /\ cachedSensors' <= reply'.n
        /\ \A k \in 1 .. Len(lines') : lines'[k].kind = "sensors" => lines'[k].n <= reply'.n
  BY <1>1, <1>2 DEF Ascending
<1> QED
  BY <1>3, <1>4, <1>5, <1>6 DEF Ascending

(* Nothing new: lines may be lost, and a reply dropped or another one made. *)
LEMMA LossAscends ==
  ASSUME Safe, Ascending, lines' \in {lines, <<>>}, UNCHANGED cachedSensors,
         reply' = reply \/ reply'.kind # "sensors" \/ reply' = Sensors(version)
  PROVE  Ascending'
<1>1. \A k \in 1 .. Len(lines') : k \in 1 .. Len(lines) /\ lines'[k] = lines[k]
  OBVIOUS
<1>2. reply'.kind = "sensors" =>
        /\ cachedSensors <= reply'.n
        /\ \A k \in 1 .. Len(lines) : lines[k].kind = "sensors" => lines[k].n <= reply'.n
  <2>1. CASE reply' = Sensors(version)
    <3>1. cachedSensors <= version /\ reply'.n = version
      BY <2>1, VersionFacts, KindsDiffer
    <3>2. \A k \in 1 .. Len(lines) : lines[k].kind = "sensors" => lines[k].n <= version
      BY VersionFacts
    <3> QED
      BY <3>1, <3>2
  <2> QED
    BY <2>1 DEF Ascending
<1> QED
  BY <1>1, <1>2 DEF Ascending

(* Every step keeps the order while the thread's own replies are sent, and *)
(* only the reader touches the cache.                                      *)
LEMMA StepAscends ==
  ASSUME Safe, IInv, Ascending, [Next]_vars, races = 0, races' = 0
  PROVE  Ascending' /\ cachedSensors' >= cachedSensors
<1>1. cachedSensors \in Nat /\ version \in Nat
  BY VersionFacts
<1>2. CASE SendReply
  <2>1. reply \in Sendable(version) /\ reply'.kind # "sensors" /\ UNCHANGED cachedSensors
    BY <1>2, KindsDiffer DEF SendReply, Safe, Content, client
  <2> QED
    BY <1>1, <1>2, <2>1, PutAscends DEF SendReply
<1>3. CASE PushAlert
  <2>1. alerts' \in 1 .. MaxAlerts
    BY <1>3, BoundsAssumption DEF PushAlert, Safe, TypeOK
  <2>2. AnAlert(alerts') \in Sendable(version) /\ AnAlert(alerts').kind # "sensors"
    BY <1>1, <2>1, SentLines, KindsDiffer
  <2> QED
    BY <1>1, <1>3, <2>2, PutAscends DEF PushAlert, client
<1>4. CASE ReadLine
  BY <1>4, ReadAscends DEF ReadLine, HasLine, Consume, server
<1>5. CASE ReadLoginAnswer \/ ReadIdentifyAnswer
  BY <1>5, ReadAscends DEF ReadLoginAnswer, ReadIdentifyAnswer, HasLine, server
<1>6. CASE AskService \/ ServiceLost \/ register_operator \/ HandleCommand \/ ServerEnds
  <2>1. UNCHANGED cachedSensors /\ lines' \in {lines, <<>>}
    BY <1>6 DEF AskService, ServiceLost, Refused, register_operator, HandleCommand,
         ServerEnds, RestOfLogin, client
  <2>2. reply' = reply \/ reply'.kind # "sensors" \/ reply' = Sensors(version)
    BY <1>6, KindsDiffer DEF AskService, ServiceLost, Refused, register_operator,
         HandleCommand, ServerEnds
  <2> QED
    BY <1>1, <2>1, <2>2, LossAscends
<1>7. CASE AuthServe \/ AcceptOthers \/ OthersLogIn
  <2>1. UNCHANGED <<cachedSensors, lines>>
    BY <1>7 DEF AuthServe, AcceptUs, AnswerUs, Refused, AnswerOthers, AcceptOthers,
         OthersLogIn, RestOfLogin, RestOfService, client, wire
  <2>2. reply' = reply \/ reply'.kind # "sensors"
    BY <1>7, KindsDiffer DEF AuthServe, AcceptUs, AnswerUs, Refused, AnswerOthers,
         AcceptOthers, OthersLogIn, RestOfService
  <2> QED
    BY <1>1, <2>1, <2>2, LossAscends
<1>8. CASE connect \/ HandshakeFails \/ ReaderEnds \/ pollSensors \/ disconnect
  <2>1. UNCHANGED cachedSensors /\ lines' \in {lines, <<>>}
    BY <1>8 DEF connect, HandshakeFails, ReaderEnds, pollSensors, disconnect, client, wire
  <2>2. reply' = reply \/ reply'.kind # "sensors"
    BY <1>8, KindsDiffer DEF connect, HandshakeFails, ReaderEnds, pollSensors, disconnect,
         server
  <2> QED
    BY <1>1, <2>1, <2>2, LossAscends
<1>9. CASE \/ SensorsChange
           \/ OpenPage \/ getSensors \/ fetchSensorsOnce \/ Subscribe \/ WebSocketDrops
           \/ \E k \in 1 .. Capacity : Render(k)
           \/ ClearAlerts \/ UNCHANGED vars
  <2>1. UNCHANGED <<cachedSensors, lines, reply>>
    BY <1>9 DEF SensorsChange, OpenPage, getSensors, fetchSensorsOnce, Subscribe,
         WebSocketDrops, Render, ClearAlerts, vars, server, wire, client
  <2> QED
    BY <1>1, <2>1 DEF Ascending
<1>10. CASE SendForeign
  BY <1>10 DEF SendForeign
<1> QED
  BY <1>2, <1>3, <1>4, <1>5, <1>6, <1>7, <1>8, <1>9, <1>10 DEF Next, Serve, Read

(***************************************************************************)
(* As long as no reply to this client has been overwritten by another      *)
(* thread, its cache never goes back to an older state of the sensors      *)
(* (ServerConnectionService.java, startReaderThread; server.c, the         *)
(* GET_SENSORS case of handle_client).                                     *)
(***************************************************************************)
THEOREM CacheGrows == Spec => CacheNeverOlder
<1> DEFINE Ordered == races = 0 => Ascending
<1>1. Init => Ordered
  BY KindsDiffer DEF Init, Ascending
<1>2. ASSUME Safe, IInv, races \in Nat, Ordered, [Next]_vars
      PROVE  Ordered' /\ (races' = 0 => cachedSensors' >= cachedSensors)
  <2>1. races' = 0 => races = 0
    BY <1>2, RacesCount
  <2> QED
    BY <1>2, <2>1, StepAscends
<1>3. Safe /\ IInv /\ races \in Nat /\ Ordered /\ [Next]_vars => Ordered'
  BY <1>2
<1>4. Spec => []Ordered
  <2> HIDE DEF Ordered
  <2> QED
    BY <1>1, <1>3, SafeInvariant, SessionInvariant, PTL DEF Spec
<1>5. Safe /\ IInv /\ races \in Nat /\ Ordered /\ [Next]_vars
        => [races' = 0 => cachedSensors' >= cachedSensors]_vars
  BY <1>2
<1> HIDE DEF Ordered
<1> QED
  BY <1>4, <1>5, SafeInvariant, SessionInvariant, PTL DEF Spec, CacheNeverOlder

-----------------------------------------------------------------------------
(* Until it runs the client sends nothing but its handshake; and as long   *)
(* as no alert has come and no reply has been overwritten, an operator in  *)
(* the table is sent nothing but OKs before the end of its handshake.      *)
Commands == {"LOGIN", "OPERATOR_IDENTIFY"}

Unspoilt ==
  /\ ~running => requests \in Seq(Commands)
  /\ link = "open" /\ registered /\ alerts = 0 /\ races = 0 =>
       /\ pc # "failed"
       /\ pc \in {"login", "identify"} => lines \in Seq({Ok}) /\ reply \in {NoLine, Ok}

(* The verdict on LOGIN is the first thing the client is sent. *)
LEMMA VerdictUnspoilt ==
  ASSUME IInv, Unspoilt, stage # "none", Refused \/ register_operator
  PROVE  Unspoilt'
<1>1. LoginPending /\ ~running
  BY DEF IInv, Quiet, LoginPending
<1>2. requests' = <<>>
  BY <1>1, PendingFacts DEF Refused, register_operator, IInv
<1>3. requests' \in Seq(Commands) /\ lines \in Seq({Ok})
  BY <1>1, <1>2 DEF LoginPending
<1>4. UNCHANGED <<lines, link, pc, running>>
  BY DEF Refused, register_operator, RestOfLogin, client
<1>5. registered' => reply' = Ok
  BY <1>1 DEF Refused, register_operator, LoginPending
<1> QED
  BY <1>1, <1>3, <1>4, <1>5 DEF Unspoilt, LoginPending

(* The server thread takes a command up. *)
LEMMA ServeUnspoilt ==
  ASSUME IInv, Unspoilt, AskService \/ HandleCommand
  PROVE  Unspoilt'
<1>1. UNCHANGED <<alerts, races, registered, lines, link, pc, running>>
  BY DEF AskService, HandleCommand, login, client
<1>2. CASE AskService
  <2>1. LoginPending /\ Tail(requests) = <<>>
    BY <1>2, PendingFacts DEF AskService, IInv
  <2>2. requests' \in {requests, <<>>}
    BY <1>2, <2>1 DEF AskService
  <2>3. ~running' => requests' \in Seq(Commands)
    BY <1>1, <2>2, AppendFacts DEF Unspoilt
  <2> QED
    BY <1>1, <2>1, <2>3 DEF Unspoilt, LoginPending
<1>3. CASE HandleCommand
  <2>1. requests # <<>> /\ Head(requests) # "LOGIN"
    BY <1>3 DEF HandleCommand
  <2>2. ASSUME ~running PROVE requests' \in Seq(Commands) /\ reply' = Ok
    <3>1. requests \in Seq(Commands)
      BY <2>2 DEF Unspoilt
    <3>2. requests' \in Seq(Commands)
      BY <1>3, <3>1, RestFacts DEF HandleCommand
    <3>3. Head(requests) # "GET_SENSORS"
      BY <2>1, <3>1, QueueFacts DEF Commands
    <3> QED
      BY <1>3, <3>2, <3>3 DEF HandleCommand
  <2>3. pc \in {"login", "identify"} => ~running
    BY DEF IInv, Quiet
  <2> QED
    BY <1>1, <2>2, <2>3 DEF Unspoilt
<1> QED
  BY <1>2, <1>3

(* It sends a reply: an OK ends no other line. *)
LEMMA SendUnspoilt ==
  ASSUME IInv, Unspoilt, SendReply
  PROVE  Unspoilt'
<1>1. UNCHANGED <<alerts, races, registered, requests, link, pc, running>>
  BY DEF SendReply, login, client
<1>2. ASSUME lines \in Seq({Ok}), reply \in {NoLine, Ok}
      PROVE  lines' \in Seq({Ok})
  <2>1. ~Open(lines) /\ reply = Ok
    BY <1>2 DEF SendReply, Open, Ok, Line
  <2> QED
    BY <1>2, <2>1 DEF SendReply, Put
<1> QED
  BY <1>1, <1>2 DEF SendReply, Unspoilt

(* The client reads an answer of its handshake. *)
LEMMA AnswerUnspoilt ==
  ASSUME IInv, Unspoilt, ReadLoginAnswer \/ ReadIdentifyAnswer
  PROVE  Unspoilt'
<1>1. UNCHANGED <<alerts, races, registered, reply, link>> /\ lines # <<>> /\ lines' = Tail(lines)
  BY DEF ReadLoginAnswer, ReadIdentifyAnswer, HasLine, server, login
<1>2. ~running /\ pc \in {"login", "identify"}
  BY DEF ReadLoginAnswer, ReadIdentifyAnswer, IInv, Quiet
<1>3. requests' \in Seq(Commands)
  <2>1. requests \in Seq(Commands) /\ "OPERATOR_IDENTIFY" \in Commands
    BY <1>2 DEF Unspoilt, Commands
  <2>2. requests' \in {requests, Append(requests, "OPERATOR_IDENTIFY")}
    BY DEF ReadLoginAnswer, ReadIdentifyAnswer, Flush
  <2> QED
    BY <2>1, <2>2, AppendFacts
<1>4. ASSUME link = "open", registered, alerts = 0, races = 0
      PROVE  pc' # "failed" /\ lines' \in Seq({Ok}) /\ reply \in {NoLine, Ok}
  <2>1. lines \in Seq({Ok}) /\ reply \in {NoLine, Ok}
    BY <1>2, <1>4 DEF Unspoilt
  <2>2. Head(lines).kind = "ok" /\ lines' \in Seq({Ok})
    BY <1>1, <2>1, QueueFacts, AnswersDiffer
  <2> QED
    BY <2>1, <2>2 DEF ReadLoginAnswer, ReadIdentifyAnswer
<1> QED
  BY <1>1, <1>3, <1>4 DEF Unspoilt

(* All other steps. *)
LEMMA StepUnspoilt ==
  ASSUME Safe, IInv, Unspoilt, [Next]_vars
  PROVE  Unspoilt'
<1>0. CASE AnswerUs /\ ~Refused
  <2>1. UNCHANGED <<alerts, races, registered, reply, requests, lines, link, pc, running>>
    BY <1>0 DEF AnswerUs, RestOfLogin, client
  <2> QED
    BY <2>1 DEF Unspoilt
<1>1. CASE (AnswerUs /\ Refused) \/ ServiceLost \/ register_operator
  BY <1>1, VerdictUnspoilt DEF AnswerUs, ServiceLost, register_operator
<1>10. CASE SendForeign
  <2>1. races' # 0 /\ UNCHANGED <<requests, running>>
    BY <1>10, BoundsAssumption DEF SendForeign, Safe, TypeOK, client
  <2> QED
    BY <2>1 DEF Unspoilt
<1>2. CASE PushAlert
  <2>1. alerts' # 0 /\ UNCHANGED <<requests, running>>
    BY <1>2, BoundsAssumption DEF PushAlert, Safe, TypeOK, client
  <2> QED
    BY <2>1 DEF Unspoilt
<1>3. CASE ServerEnds \/ disconnect
  <2>1. link' # "open" /\ requests' = <<>>
    BY <1>3 DEF ServerEnds, disconnect
  <2> QED
    BY <2>1 DEF Unspoilt
<1>4. CASE connect
  <2>1. UNCHANGED <<alerts, races, registered, reply, lines, running>>
    BY <1>4 DEF connect, server, login
  <2>2. link = "none" /\ ~registered
    BY <1>4 DEF connect, IInv, Quiet
  <2>3. requests' \in {requests, <<"LOGIN">>} /\ <<"LOGIN">> \in Seq(Commands)
    BY <1>4 DEF connect, Commands
  <2>4. ~running' => requests' \in Seq(Commands)
    BY <2>1, <2>3 DEF Unspoilt
  <2> QED
    BY <2>1, <2>2, <2>4 DEF Unspoilt
<1>5. CASE HandshakeFails
  BY <1>5 DEF HandshakeFails, Over, Unspoilt, server, login, wire
<1>6. CASE ReadLine
  BY <1>6 DEF ReadLine, Unspoilt, server, login
<1>7. CASE ReaderEnds
  BY <1>7 DEF ReaderEnds, Unspoilt, server, login, wire
<1>8. CASE pollSensors
  BY <1>8 DEF pollSensors, Unspoilt, server, login, client
<1>9. CASE \/ SensorsChange \/ AcceptUs \/ AnswerOthers \/ AcceptOthers \/ OthersLogIn
           \/ OpenPage \/ getSensors \/ fetchSensorsOnce \/ Subscribe \/ WebSocketDrops
           \/ \E k \in 1 .. Capacity : Render(k)
           \/ ClearAlerts \/ UNCHANGED vars
  <2>1. UNCHANGED <<alerts, races, registered, reply, requests, lines, link, pc, running>>
    BY <1>9 DEF SensorsChange, AcceptUs, AnswerOthers, AcceptOthers, OthersLogIn,
         RestOfService, OpenPage, getSensors, fetchSensorsOnce, Subscribe, WebSocketDrops,
         Render, ClearAlerts, vars, server, login, wire, client
  <2> QED
    BY <2>1 DEF Unspoilt
<1> QED
  BY <1>0, <1>1, <1>2, <1>3, <1>4, <1>5, <1>6, <1>7, <1>8, <1>9, <1>10, ServeUnspoilt,
     SendUnspoilt, AnswerUnspoilt DEF Next, Serve, AuthServe, Read

(***************************************************************************)
(* A client that is in the table of operators, and still connected, gives  *)
(* its handshake up only because of an alert sent before an answer, or of  *)
(* a reply that another thread has overwritten (server.c,                  *)
(* register_operator before the reply to LOGIN; protocol.c, resp_buf;      *)
(* ServerConnectionService.java, authenticate).                            *)
(***************************************************************************)
THEOREM HandshakeSpoiltByOthers == Spec => []GivesUpOnlyIfOvertaken
<1>1. Init => Unspoilt
  BY DEF Init, Unspoilt
<1>2. Safe /\ IInv /\ Unspoilt /\ [Next]_vars => Unspoilt'
  BY StepUnspoilt
<1>3. Safe /\ Unspoilt => GivesUpOnlyIfOvertaken
  BY BoundsAssumption DEF Safe, TypeOK, Unspoilt, GivesUpOnlyIfOvertaken
<1> QED
  BY <1>1, <1>2, <1>3, SafeInvariant, SessionInvariant, PTL DEF Spec
-----------------------------------------------------------------------------
(* Each alert so far is in one place at most; a reply is none.             *)
Once ==
  /\ reply.kind # "alert"
  /\ Single(lines) /\ Single(topic)
  /\ \A n \in 1 .. MaxAlerts :
       /\ Holds(lines, n) => ~Holds(topic, n) /\ n \notin feed /\ n <= alerts
       /\ Holds(topic, n) => n \notin feed /\ n <= alerts
       /\ n \in feed => n <= alerts

LEMMA NotAlerts ==
  /\ NoLine.kind # "alert" /\ Ok.kind # "alert" /\ Error.kind # "alert"
  /\ Lost.kind # "alert"
  /\ \A n : Sensors(n).kind # "alert"
  /\ \A n : AnAlert(n).kind = "alert" /\ AnAlert(n).n = n
BY DEF NoLine, Ok, Error, Lost, AnAlert, Sensors, Line

(* An empty queue holds no alert. *)
LEMMA EmptyHolds == Single(<<>>) /\ \A n : ~Holds(<<>>, n)
BY DEF Single, Holds

(* A queue with a line more holds its alert too. *)
LEMMA AppendHolds ==
  ASSUME NEW S, NEW s \in Seq(S), NEW line \in S
  PROVE  /\ \A n : Holds(Append(s, line), n)
                     <=> Holds(s, n) \/ (line.kind = "alert" /\ line.n = n)
         /\ Single(s) /\ (line.kind = "alert" => ~Holds(s, line.n))
              => Single(Append(s, line))
<1> DEFINE t == Append(s, line)
<1>1. /\ Len(s) \in Nat /\ Len(t) = Len(s) + 1 /\ t[Len(s) + 1] = line
      /\ \A k \in 1 .. Len(s) : t[k] = s[k]
  OBVIOUS
<1>2. \A k \in 1 .. Len(t) : k \in 1 .. Len(s) \/ k = Len(s) + 1
  BY <1>1
<1>3. (1 .. Len(s)) \subseteq (1 .. Len(t)) /\ Len(s) + 1 \in 1 .. Len(t)
  BY <1>1
<1> HIDE DEF t
<1>4. \A n : Holds(t, n) <=> Holds(s, n) \/ (line.kind = "alert" /\ line.n = n)
  BY <1>1, <1>2, <1>3 DEF Holds
<1>5. ASSUME Single(s), line.kind = "alert" => ~Holds(s, line.n)
      PROVE  Single(t)
  <2> SUFFICES ASSUME NEW j \in 1 .. Len(t), NEW k \in 1 .. Len(t),
                      t[j].kind = "alert", t[k].kind = "alert", t[j].n = t[k].n
               PROVE  j = k
    BY DEF Single
  <2>1. CASE j \in 1 .. Len(s) /\ k \in 1 .. Len(s)
    BY <1>1, <1>5, <2>1 DEF Single
  <2>2. CASE j \in 1 .. Len(s) /\ k = Len(s) + 1
    BY <1>1, <1>5, <2>2 DEF Holds
  <2>3. CASE j = Len(s) + 1 /\ k \in 1 .. Len(s)
    BY <1>1, <1>5, <2>3 DEF Holds
  <2> QED
    BY <1>2, <2>1, <2>2, <2>3
<1> QED
  BY <1>4, <1>5 DEF t

(* A queue without its k-th line. *)
Without(s, k) == SubSeq(s, 1, k - 1) \o SubSeq(s, k + 1, Len(s))

(* Its lines are the others, each from a place of its own. *)
LEMMA WithoutFacts ==
  ASSUME NEW S, NEW s \in Seq(S), NEW k \in 1 .. Len(s),
         NEW i \in 1 .. Len(Without(s, k))
  PROVE  /\ i < k => i \in 1 .. Len(s) /\ Without(s, k)[i] = s[i]
         /\ ~(i < k) => i + 1 \in 1 .. Len(s) /\ Without(s, k)[i] = s[i + 1]
<1> DEFINE before == SubSeq(s, 1, k - 1)
           after == SubSeq(s, k + 1, Len(s))
<1>1. /\ before \in Seq(S) /\ Len(before) = k - 1
      /\ \A j \in 1 .. k - 1 : before[j] = s[j]
  OBVIOUS
<1>2. /\ after \in Seq(S) /\ Len(after) = Len(s) - k
      /\ \A j \in 1 .. Len(s) - k : after[j] = s[k + j]
  OBVIOUS
<1>3. Len(s) \in Nat /\ k \in Nat /\ 1 <= k /\ k <= Len(s)
  OBVIOUS
<1>4. Without(s, k) = before \o after
  BY DEF Without
<1> HIDE DEF before, after
<1>5. /\ Len(before \o after) = Len(before) + Len(after)
      /\ \A j \in 1 .. Len(before) + Len(after) :
           (before \o after)[j]
             = IF j <= Len(before) THEN before[j] ELSE after[j - Len(before)]
  BY <1>1, <1>2, ConcatProperties
<1>6. i \in Nat /\ 1 <= i /\ i <= Len(s) - 1
  BY <1>1, <1>2, <1>3, <1>4, <1>5
<1>7. Without(s, k)[i] = IF i <= k - 1 THEN before[i] ELSE after[i - (k - 1)]
  BY <1>1, <1>2, <1>3, <1>4, <1>5, <1>6
<1>8. CASE i < k
  BY <1>1, <1>3, <1>6, <1>7, <1>8
<1>9. CASE ~(i < k)
  <2>1. i - (k - 1) \in 1 .. Len(s) - k /\ k + (i - (k - 1)) = i + 1
    BY <1>3, <1>6, <1>9
  <2>2. after[i - (k - 1)] = s[k + (i - (k - 1))]
    BY <1>2, <2>1
  <2> QED
    BY <1>3, <1>6, <1>7, <1>9, <2>1, <2>2
<1> QED
  BY <1>8, <1>9

(* Only the alert taken out may be missing. *)
LEMMA TakenHolds ==
  ASSUME NEW S, NEW s \in Seq(S), NEW k \in 1 .. Len(s), Single(s)
  PROVE  /\ Single(Without(s, k))
         /\ \A n : Holds(Without(s, k), n) => Holds(s, n)
         /\ s[k].kind = "alert" => Holds(s, s[k].n) /\ ~Holds(Without(s, k), s[k].n)
<1> DEFINE t == Without(s, k)
           old(i) == IF i < k THEN i ELSE i + 1
<1>1. k \in Int /\ \A i \in 1 .. Len(t) : i \in Int
  OBVIOUS
<1>2. \A i \in 1 .. Len(t) : old(i) \in 1 .. Len(s) /\ t[i] = s[old(i)]
  BY WithoutFacts
<1>3. /\ \A i \in 1 .. Len(t) : old(i) # k
      /\ \A i, j \in 1 .. Len(t) : old(i) = old(j) => i = j
  BY <1>1
<1> HIDE DEF old, t
<1>4. Single(t)
  <2> SUFFICES ASSUME NEW i \in 1 .. Len(t), NEW j \in 1 .. Len(t),
                      t[i].kind = "alert", t[j].kind = "alert", t[i].n = t[j].n
               PROVE  i = j
    BY DEF Single
  <2>1. old(i) = old(j)
    BY <1>2 DEF Single
  <2> QED
    BY <1>3, <2>1
<1>5. \A n : Holds(t, n) => Holds(s, n)
  BY <1>2 DEF Holds
<1>6. ASSUME s[k].kind = "alert" PROVE Holds(s, s[k].n) /\ ~Holds(t, s[k].n)
  BY <1>2, <1>3, <1>6 DEF Holds, Single
<1> QED
  BY <1>4, <1>5, <1>6 DEF t

(* The first line is taken. *)
LEMMA TailHolds ==
  ASSUME NEW S, NEW s \in Seq(S), s # <<>>, Single(s)
  PROVE  /\ Single(Tail(s))
         /\ \A n : Holds(Tail(s), n) => Holds(s, n)
         /\ Head(s).kind = "alert" => Holds(s, Head(s).n) /\ ~Holds(Tail(s), Head(s).n)
<1>1. 1 \in 1 .. Len(s) /\ s[1] = Head(s)
  OBVIOUS
<1>2. Tail(s) = Without(s, 1)
  <2>1. Tail(s) = SubSeq(s, 2, Len(s)) /\ Tail(s) \in Seq(S)
    BY QueueFacts
  <2>2. SubSeq(s, 1, 0) = <<>>
    OBVIOUS
  <2>3. Without(s, 1) = <<>> \o Tail(s)
    BY <2>1, <2>2 DEF Without
  <2> QED
    BY <2>1, <2>3, ConcatEmptySeq
<1>3. /\ Single(Without(s, 1))
      /\ \A n : Holds(Without(s, 1), n) => Holds(s, n)
      /\ s[1].kind = "alert" => Holds(s, s[1].n) /\ ~Holds(Without(s, 1), s[1].n)
  BY <1>1, TakenHolds
<1> QED
  BY <1>1, <1>2, <1>3

(* The server puts a line behind the others, or continues the last one. *)
LEMMA PutHolds ==
  ASSUME Safe, Single(lines), NEW line \in Sendable(version), Put(line),
         line.kind = "alert" => ~Holds(lines, line.n)
  PROVE  /\ Single(lines')
         /\ \A n : Holds(lines', n) => Holds(lines, n) \/ (line.kind = "alert" /\ line.n = n)
<1>1. lines \in Seq(Sendable(version)) /\ version \in Nat /\ line.open \in BOOLEAN
  BY VersionFacts DEF Sendable, Lines
<1>2. CASE Open(lines)
  <2>1. /\ Len(lines') = Len(lines)
        /\ \A k \in 1 .. Len(lines) :
             lines'[k].kind = lines[k].kind /\ lines'[k].n = lines[k].n
    BY <1>1, <1>2, ReopenFacts DEF Put, Open
  <2> QED
    BY <2>1 DEF Single, Holds
<1>3. CASE ~Open(lines)
  BY <1>1, <1>3, AppendHolds DEF Put
<1> QED
  BY <1>2, <1>3

(* A line is published, or nothing is. *)
LEMMA PublishHolds ==
  ASSUME Safe, Single(topic), NEW line \in Sendable(version), Publish(line),
         line.kind = "alert" => ~Holds(topic, line.n)
  PROVE  /\ Single(topic')
         /\ \A n : Holds(topic', n) => Holds(topic, n) \/ (line.kind = "alert" /\ line.n = n)
<1>1. topic \in Seq(Sendable(version))
  BY DEF Safe, Content
<1> QED
  BY <1>1, AppendHolds DEF Publish

(* The server sends a reply, which is no alert. *)
LEMMA SendOnce ==
  ASSUME Safe, Once, SendReply
  PROVE  Once'
<1>1. /\ UNCHANGED <<alerts, topic, feed>> /\ reply' = NoLine
      /\ reply \in Sendable(version) /\ reply.kind # "alert"
  BY DEF SendReply, browser, Safe, Content, Once
<1>2. Single(lines') /\ \A n : Holds(lines', n) => Holds(lines, n)
  BY <1>1, PutHolds DEF SendReply, Once
<1> QED
  BY <1>1, <1>2, NotAlerts DEF Once

(* Nor is what it sends of another thread's. *)
LEMMA ForeignOnce ==
  ASSUME Safe, Once, SendForeign
  PROVE  Once'
<1>1. UNCHANGED <<alerts, topic, feed>> /\ reply' \in {NoLine, Error} /\ version \in Nat
  BY BoundsAssumption DEF SendForeign, browser, Safe, TypeOK
<1>2. PICK text \in ForeignTexts : Put(text)
  BY DEF SendForeign
<1>3. text \in Sendable(version) /\ text.kind # "alert"
  BY <1>1, ForeignFacts
<1>4. Single(lines') /\ \A n : Holds(lines', n) => Holds(lines, n)
  BY <1>2, <1>3, PutHolds DEF Once
<1> QED
  BY <1>1, <1>4, NotAlerts DEF Once

(* A broadcast sends an alert that has not been sent before. *)
LEMMA PushOnce ==
  ASSUME Safe, Once, PushAlert
  PROVE  Once'
<1>1. /\ UNCHANGED <<reply, topic, feed>> /\ alerts' = alerts + 1
      /\ alerts \in Nat /\ alerts' \in 1 .. MaxAlerts
      /\ Put(AnAlert(alerts'))
  BY BoundsAssumption DEF PushAlert, browser, Safe, TypeOK
<1>2. AnAlert(alerts') \in Sendable(version)
  BY <1>1, SentLines, VersionFacts
<1>3. /\ ~Holds(lines, alerts') /\ ~Holds(topic, alerts') /\ alerts' \notin feed
  BY <1>1 DEF Once
<1>4. Single(lines') /\ \A n : Holds(lines', n) => Holds(lines, n) \/ n = alerts'
  BY <1>1, <1>2, <1>3, NotAlerts, PutHolds DEF Once
<1> QED
  BY <1>1, <1>3, <1>4 DEF Once

(* The reader passes a line on: what it takes from the lines it publishes. *)
LEMMA ReadOnce ==
  ASSUME Safe, Once, ReadLine
  PROVE  Once'
<1>1. /\ UNCHANGED <<reply, alerts, feed>> /\ lines # <<>> /\ lines' = Tail(lines)
      /\ lines \in Seq(Sendable(version)) /\ Head(lines) \in Sendable(version)
  BY QueueFacts DEF ReadLine, HasLine, server, RestOfBrowser, Safe, Content
<1>2. /\ Single(lines') /\ \A n : Holds(lines', n) => Holds(lines, n)
      /\ Head(lines).kind = "alert"
           => Holds(lines, Head(lines).n) /\ ~Holds(lines', Head(lines).n)
  BY <1>1, TailHolds DEF Once
<1>3. Head(lines).kind = "alert" => Head(lines).n \in 1 .. MaxAlerts
  BY <1>1 DEF Sendable
<1>4. Head(lines).kind = "alert" => ~Holds(topic, Head(lines).n)
  BY <1>2, <1>3 DEF Once
<1>5. Publish(Head(lines)) \/ UNCHANGED topic
  BY DEF ReadLine, Consume
<1>6. /\ Single(topic')
      /\ \A n : Holds(topic', n)
                  => Holds(topic, n) \/ (Head(lines).kind = "alert" /\ Head(lines).n = n)
  BY <1>1, <1>4, <1>5, PublishHolds DEF Once
<1> QED
  BY <1>1, <1>2, <1>6 DEF Once

(* The page shows a line: what it takes from the topic it has not shown.   *)
LEMMA RenderOnce ==
  ASSUME Safe, Once, NEW k \in 1 .. Capacity, Render(k)
  PROVE  Once'
<1>1. /\ UNCHANGED <<reply, alerts, lines>>
      /\ topic \in Seq(Sendable(version)) /\ k \in 1 .. Len(topic)
  BY BoundsAssumption DEF Render, server, wire, Safe, Content
<1>2. /\ Single(topic') /\ \A n : Holds(topic', n) => Holds(topic, n)
      /\ topic[k].kind = "alert" => Holds(topic, topic[k].n) /\ ~Holds(topic', topic[k].n)
  <2>1. Single(topic)
    BY DEF Once
  <2>2. topic' = Without(topic, k)
    BY DEF Render, Without
  <2> QED
    BY <1>1, <2>1, <2>2, TakenHolds
<1>3. \A n : n \in feed' => n \in feed \/ (topic[k].kind = "alert" /\ topic[k].n = n)
  BY DEF Render
<1> QED
  BY <1>1, <1>2, <1>3 DEF Once

(* Lines, messages or alerts shown may be lost, and other lines published. *)
LEMMA LossOnce ==
  ASSUME Safe, Once, lines' \in {lines, <<>>, Tail(lines)}, lines = <<>> => lines' = <<>>,
         topic' \in {topic, <<>>}, feed' \in {feed, {}}, UNCHANGED alerts,
         reply'.kind # "alert"
  PROVE  Once'
<1>1. Single(lines') /\ \A n : Holds(lines', n) => Holds(lines, n)
  BY EmptyHolds, TailHolds DEF Once, Safe, Content
<1>2. Single(topic') /\ \A n : Holds(topic', n) => Holds(topic, n)
  BY EmptyHolds DEF Once
<1> QED
  BY <1>1, <1>2 DEF Once

(* Every step keeps each alert in one place. *)
LEMMA StepOnce ==
  ASSUME Safe, Once, [Next]_vars
  PROVE  Once'
<1>1. CASE ReaderEnds
  <2>1. UNCHANGED <<reply, alerts, lines, feed>>
    BY <1>1 DEF ReaderEnds, server, wire, RestOfBrowser
  <2>2. Lost \in Sendable(version) /\ (Publish(Lost) \/ UNCHANGED topic)
    BY <1>1, SentLines, VersionFacts DEF ReaderEnds
  <2>3. Single(topic') /\ \A n : Holds(topic', n) => Holds(topic, n)
    BY <2>2, NotAlerts, PublishHolds DEF Once
  <2> QED
    BY <2>1, <2>3 DEF Once
<1>2. CASE ReadLoginAnswer \/ ReadIdentifyAnswer
  BY <1>2, LossOnce DEF ReadLoginAnswer, ReadIdentifyAnswer, HasLine, server, browser, Once
<1>3. CASE AskService \/ ServiceLost \/ register_operator \/ HandleCommand \/ ServerEnds
  <2>1. UNCHANGED <<alerts, topic, feed>> /\ lines' \in {lines, <<>>}
    BY <1>3 DEF AskService, ServiceLost, Refused, register_operator, HandleCommand,
         ServerEnds, RestOfLogin, browser
  <2>2. reply'.kind # "alert"
    BY <1>3, NotAlerts DEF AskService, ServiceLost, Refused, register_operator,
         HandleCommand, ServerEnds, Once
  <2> QED
    BY <2>1, <2>2, LossOnce
<1>4. CASE AuthServe \/ AcceptOthers \/ OthersLogIn
  <2>1. UNCHANGED <<alerts, topic, feed, lines>>
    BY <1>4 DEF AuthServe, AcceptUs, AnswerUs, Refused, AnswerOthers, AcceptOthers,
         OthersLogIn, RestOfLogin, RestOfService, wire, browser
  <2>2. reply'.kind # "alert"
    BY <1>4, NotAlerts DEF AuthServe, AcceptUs, AnswerUs, Refused, AnswerOthers,
         AcceptOthers, OthersLogIn, RestOfService, Once
  <2> QED
    BY <2>1, <2>2, LossOnce
<1>5. CASE connect \/ HandshakeFails \/ pollSensors \/ disconnect
  <2>1. UNCHANGED <<alerts, topic, feed>> /\ lines' \in {lines, <<>>}
    BY <1>5 DEF connect, HandshakeFails, pollSensors, disconnect, server, wire, browser
  <2>2. reply'.kind # "alert"
    BY <1>5, NotAlerts DEF connect, HandshakeFails, pollSensors, disconnect, server, Once
  <2> QED
    BY <2>1, <2>2, LossOnce
<1>6. CASE \/ SensorsChange
           \/ OpenPage \/ getSensors \/ fetchSensorsOnce \/ Subscribe \/ WebSocketDrops
           \/ ClearAlerts \/ UNCHANGED vars
  <2>1. UNCHANGED <<alerts, lines, reply>> /\ topic' \in {topic, <<>>} /\ feed' \in {feed, {}}
    BY <1>6 DEF SensorsChange, OpenPage, getSensors, fetchSensorsOnce, Subscribe,
         WebSocketDrops, ClearAlerts, vars, server, wire, browser
  <2> QED
    BY <2>1, LossOnce DEF Once
<1> QED
  BY <1>1, <1>2, <1>3, <1>4, <1>5, <1>6, SendOnce, ForeignOnce,
     PushOnce, ReadOnce, RenderOnce
     DEF Next, Serve, Read

(***************************************************************************)
(* No alert reaches the page twice: it is at one time in one place of its  *)
(* way from broadcast_alert to the feed, or in none (server.c;             *)
(* ServerConnectionService.java, handleServerLine; dashboard.js).          *)
(***************************************************************************)
THEOREM AlertsOnce == Spec => []AlertsArriveOnce
<1>1. Init => Once
  BY EmptyHolds, NotAlerts DEF Init, Once
<1>2. Safe /\ Once /\ [Next]_vars => Once'
  BY StepOnce
<1>3. Once => AlertsArriveOnce
  BY DEF Once, AlertsArriveOnce
<1> QED
  BY <1>1, <1>2, <1>3, SafeInvariant, PTL DEF Spec
=============================================================================
