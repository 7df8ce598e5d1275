------------------------- MODULE ConnectionThreads -------------------------
(***************************************************************************)
(* server/src/server.c: one thread per accepted connection, the table of   *)
(* operators that receive alerts, and the two kinds of mutex that guard    *)
(* them (operator_mutex, and the write_mutex in each client_context_t).    *)
(*                                                                         *)
(* A member of Conn is one accepted connection: its socket, its context    *)
(* and its thread.  A command is abstracted to its effect on this state: a *)
(* "login" that the auth service accepts, a "measure" that raises an alert *)
(* and is broadcast, or any "other" command, which only gets a reply.  The *)
(* text of replies is the subject of module ResponseBuffer.                *)
(*                                                                         *)
(* The kernel is modelled from how server.c uses it: descriptors are the   *)
(* lowest free ones, a send blocks while the peer's buffer is full, and a  *)
(* send to a connection the peer has already reset raises SIGPIPE, which   *)
(* server.c neither handles nor masks, so that the process ends.           *)
(*                                                                         *)
(* Not part of the specification: RegisterPastTheEnd,                      *)
(* ReturnWithoutRemoving, ReplyWithoutLock, RemoveNothing,                 *)
(* RegisterWithoutCount, EndBeforeLastSlot, RegisterWithoutLock,           *)
(* SendFailsLocked, PushRetried, TimeoutIgnored.  They are faulty variants *)
(* of the definitions that follow them; README.md says which property each *)
(* one violates.                                                           *)
(***************************************************************************)
EXTENDS Integers, FiniteSets, Sequences

CONSTANTS
  Conn,          \* connections; each is accepted at most once
  NoConn,        \* a null mutex pointer, or the owner of a free mutex
  Fd,            \* descriptors available to connections
  MaxOperators,  \* slots of operator_clients (100 in server.c)
  MaxCommands,   \* bound: commands in a behaviour
  MaxLogins,     \* bound: LOGIN commands per connection
  SockBuf        \* messages a peer may leave unread before a send blocks

ASSUME ConnAssumption == NoConn \notin Conn
ASSUME FdAssumption == Fd \subseteq Nat \ {0}
ASSUME BoundsAssumption ==
  MaxOperators \in Nat /\ MaxCommands \in Nat /\ MaxLogins \in Nat /\ SockBuf \in Nat

Slots == 1 .. MaxOperators

VARIABLES
  alive,                   \* the server process runs
  pc,                      \* where each thread is in handle_client
  sock,                    \* context->client_fd while open, else 0
  operator_clients,        \* descriptor per slot; -1 when removed
  operator_write_mutexes,  \* owner of the mutex each slot points to
  operator_count,          \* slots handed out so far
  operator_mutex,          \* the thread that holds it
  write_mutex,             \* per connection, the thread that holds it
  i,                       \* loop variable of broadcast_alert
  response,                \* kind of the reply being prepared
  commands,                \* commands received, per connection
  logins,                  \* LOGIN commands received, per connection
  peer,                    \* remote end: open, fin, rst or dead
  stream,                  \* history: alerts and role replies accepted for the peer
  published,               \* history: the alerts broadcast, in the order of the locks
  unread                   \* how many messages the peer has not read

registry == <<operator_clients, operator_write_mutexes, operator_count>>
network == <<peer, stream, unread>>
vars == <<alive, pc, sock, registry, operator_mutex, write_mutex, i, response,
          commands, logins, published, network>>

-----------------------------------------------------------------------------
Message == [kind : {"role", "other", "alert"}, from : Conn, n : Nat]

Goto(c, label) == pc' = [pc EXCEPT ![c] = label]

At(c, label) == alive /\ pc[c] = label

(* The alert that thread c broadcasts: one per command. *)
Alert(c) == [kind |-> "alert", from |-> c, n |-> commands[c]]

Reply(c) == [kind |-> response[c], from |-> c, n |-> commands[c]]

(* Every command received so far, for the bound on their number. *)
Received == {r \in Conn \X (1 .. MaxCommands) : r[2] <= commands[r[1]]}

SlotInUse(j) == operator_clients[j] > 0 /\ operator_write_mutexes[j] # NoConn

-----------------------------------------------------------------------------
(* send() to the remote end of d. *)
Delivered(d, message) ==
  /\ peer[d] = "open" /\ unread[d] < SockBuf
  /\ stream' = IF message.kind = "other" THEN stream
               ELSE [stream EXCEPT ![d] = Append(@, message)]
  /\ unread' = [unread EXCEPT ![d] = @ + 1]
  /\ UNCHANGED peer

(* The peer has closed: the data is dropped and answered with a reset. *)
Dropped(d) ==
  /\ peer[d] = "fin"
  /\ \E next \in {"fin", "dead"} : peer' = [peer EXCEPT ![d] = next]
  /\ UNCHANGED <<stream, unread>>

(* The first send after a reset reports it. *)
Refused(d) ==
  /\ peer[d] = "rst"
  /\ peer' = [peer EXCEPT ![d] = "dead"]
  /\ UNCHANGED <<stream, unread>>

Init ==
  /\ alive = TRUE
  /\ pc = [c \in Conn |-> "new"]
  /\ sock = [c \in Conn |-> 0]
  /\ operator_clients = [j \in Slots |-> 0]
  /\ operator_write_mutexes = [j \in Slots |-> NoConn]
  /\ operator_count = 0
  /\ operator_mutex = NoConn
  /\ write_mutex = [c \in Conn |-> NoConn]
  /\ i = [c \in Conn |-> 0]
  /\ response = [c \in Conn |-> "other"]
  /\ commands = [c \in Conn |-> 0]
  /\ logins = [c \in Conn |-> 0]
  /\ peer = [c \in Conn |-> "open"]
  /\ stream = [c \in Conn |-> <<>>]
  /\ published = <<>>
  /\ unread = [c \in Conn |-> 0]

-----------------------------------------------------------------------------
(* accept(), a new context, and its thread. *)
Accept(c) ==
  /\ At(c, "new")
  /\ \E fd \in Fd :
       /\ \A d \in Conn : sock[d] # fd
       /\ \A lower \in Fd : lower < fd => \E d \in Conn : sock[d] = lower
       /\ sock' = [sock EXCEPT ![c] = fd]
  /\ Goto(c, "recv")
  /\ UNCHANGED <<alive, registry, operator_mutex, write_mutex, i, response, commands,
                 logins, published, network>>

(* recv() returns a command; what was sent before a close can still be read. *)
Receive(c, kind) ==
  /\ At(c, "recv")
  /\ Cardinality(Received) < MaxCommands
  /\ commands' = [commands EXCEPT ![c] = @ + 1]
  /\ \/ kind = "login" /\ logins[c] < MaxLogins /\ Goto(c, "login")
        /\ logins' = [logins EXCEPT ![c] = @ + 1]
     \/ kind = "measure" /\ Goto(c, "broadcast") /\ UNCHANGED logins
     \/ kind = "other" /\ Goto(c, "reply") /\ UNCHANGED logins
  /\ UNCHANGED <<alive, sock, registry, operator_mutex, write_mutex, i, response,
                 published, network>>

TimeoutIgnored(c) ==
  /\ At(c, "recv")
  /\ UNCHANGED vars

(* recv() returns 0 or -1: end of stream, 60 seconds of silence, or a reset, *)
(* which is reported once.                                                   *)
ReceiveFails(c) ==
  /\ At(c, "recv")
  /\ peer' = [peer EXCEPT ![c] = IF @ = "rst" THEN "dead" ELSE @]
  /\ Goto(c, "remove")
  /\ UNCHANGED <<alive, sock, registry, operator_mutex, write_mutex, i, response,
                 commands, logins, published, stream, unread>>

-----------------------------------------------------------------------------
RegisterWithoutCount(c) ==
  /\ At(c, "login")
  /\ operator_mutex = NoConn
  /\ IF operator_count < MaxOperators
     THEN /\ operator_clients' = [operator_clients EXCEPT ![operator_count + 1] = sock[c]]
          /\ operator_write_mutexes' =
               [operator_write_mutexes EXCEPT ![operator_count + 1] = c]
          /\ UNCHANGED operator_count
     ELSE UNCHANGED registry
  /\ response' = [response EXCEPT ![c] = "role"]
  /\ Goto(c, "reply")
  /\ UNCHANGED <<alive, sock, operator_mutex, write_mutex, i, commands, logins,
                 published, network>>

RegisterPastTheEnd(c) ==
  /\ At(c, "login")
  /\ operator_mutex = NoConn
  /\ operator_count' = operator_count + 1
  /\ operator_clients' = [j \in 1 .. operator_count' |->
       IF j = operator_count' THEN sock[c] ELSE operator_clients[j]]
  /\ operator_write_mutexes' = [j \in 1 .. operator_count' |->
       IF j = operator_count' THEN c ELSE operator_write_mutexes[j]]
  /\ response' = [response EXCEPT ![c] = "role"]
  /\ Goto(c, "reply")
  /\ UNCHANGED <<alive, sock, operator_mutex, write_mutex, i, commands, logins,
                 published, network>>

RegisterWithoutLock(c) ==
  /\ At(c, "login")
  /\ IF operator_count < MaxOperators
     THEN /\ operator_clients' = [operator_clients EXCEPT ![operator_count + 1] = sock[c]]
          /\ operator_write_mutexes' =
               [operator_write_mutexes EXCEPT ![operator_count + 1] = c]
          /\ operator_count' = operator_count + 1
     ELSE UNCHANGED registry
  /\ response' = [response EXCEPT ![c] = "role"]
  /\ Goto(c, "reply")
  /\ UNCHANGED <<alive, sock, operator_mutex, write_mutex, i, commands, logins,
                 published, network>>

(* The auth service vouches for the user; the reply says OK even if full. *)
register_operator(c) ==
  /\ At(c, "login")
  /\ operator_mutex = NoConn
  /\ IF operator_count < MaxOperators
     THEN /\ operator_clients' = [operator_clients EXCEPT ![operator_count + 1] = sock[c]]
          /\ operator_write_mutexes' =
               [operator_write_mutexes EXCEPT ![operator_count + 1] = c]
          /\ operator_count' = operator_count + 1
     ELSE UNCHANGED registry
  /\ response' = [response EXCEPT ![c] = "role"]
  /\ Goto(c, "reply")
  /\ UNCHANGED <<alive, sock, operator_mutex, write_mutex, i, commands, logins,
                 published, network>>

-----------------------------------------------------------------------------
(* broadcast_alert: pthread_mutex_lock(&operator_mutex). *)
BeginBroadcast(c) ==
  /\ At(c, "broadcast")
  /\ operator_mutex = NoConn
  /\ operator_mutex' = c
  /\ published' = Append(published, Alert(c))
  /\ i' = [i EXCEPT ![c] = 1]
  /\ Goto(c, "scan")
  /\ UNCHANGED <<alive, sock, registry, write_mutex, response, commands, logins,
                 network>>

(* A slot whose operator has left. *)
SkipSlot(c) ==
  /\ At(c, "scan")
  /\ i[c] <= operator_count /\ ~SlotInUse(i[c])
  /\ i' = [i EXCEPT ![c] = @ + 1]
  /\ UNCHANGED <<alive, pc, sock, registry, operator_mutex, write_mutex, response,
                 commands, logins, published, network>>

LockSlot(c) ==
  /\ At(c, "scan")
  /\ i[c] <= operator_count /\ SlotInUse(i[c])
  /\ write_mutex[operator_write_mutexes[i[c]]] = NoConn
  /\ write_mutex' = [write_mutex EXCEPT ![operator_write_mutexes[i[c]]] = c]
  /\ Goto(c, "push")
  /\ UNCHANGED <<alive, sock, registry, operator_mutex, i, response, commands, logins,
                 published, network>>

PushRetried(c) ==
  /\ At(c, "push")
  /\ \E d \in Conn :
       /\ sock[d] = operator_clients[i[c]]
       /\ \/ Delivered(d, Alert(c)) /\ i' = [i EXCEPT ![c] = @ + 1]
          \/ (Dropped(d) \/ Refused(d)) /\ UNCHANGED i
  /\ write_mutex' = [write_mutex EXCEPT ![operator_write_mutexes[i[c]]] = NoConn]
  /\ Goto(c, "scan")
  /\ UNCHANGED <<alive, sock, registry, operator_mutex, response, commands, logins,
                 published>>

(* send() to whoever owns the descriptor now, its result ignored; unlock. *)
PushAlert(c) ==
  /\ At(c, "push")
  /\ \E d \in Conn :
       /\ sock[d] = operator_clients[i[c]]
       /\ Delivered(d, Alert(c)) \/ Dropped(d) \/ Refused(d)
  /\ write_mutex' = [write_mutex EXCEPT ![operator_write_mutexes[i[c]]] = NoConn]
  /\ i' = [i EXCEPT ![c] = @ + 1]
  /\ Goto(c, "scan")
  /\ UNCHANGED <<alive, sock, registry, operator_mutex, response, commands, logins,
                 published>>

EndBeforeLastSlot(c) ==
  /\ At(c, "scan")
  /\ i[c] >= operator_count
  /\ operator_mutex' = NoConn
  /\ i' = [i EXCEPT ![c] = 0]
  /\ Goto(c, "reply")
  /\ UNCHANGED <<alive, sock, registry, write_mutex, response, commands, logins,
                 published, network>>

EndBroadcast(c) ==
  /\ At(c, "scan")
  /\ i[c] > operator_count
  /\ operator_mutex' = NoConn
  /\ i' = [i EXCEPT ![c] = 0]
  /\ Goto(c, "reply")
  /\ UNCHANGED <<alive, sock, registry, write_mutex, response, commands, logins,
                 published, network>>

-----------------------------------------------------------------------------
ReplyWithoutLock(c) ==
  /\ At(c, "reply")
  /\ Goto(c, "send")
  /\ UNCHANGED <<alive, sock, registry, operator_mutex, write_mutex, i, response,
                 commands, logins, published, network>>

(* pthread_mutex_lock(&context->write_mutex) *)
LockOwn(c) ==
  /\ At(c, "reply")
  /\ write_mutex[c] = NoConn
  /\ write_mutex' = [write_mutex EXCEPT ![c] = c]
  /\ Goto(c, "send")
  /\ UNCHANGED <<alive, sock, registry, operator_mutex, i, response, commands, logins,
                 published, network>>

(* send_complete_response succeeds; back to recv(). *)
SendReply(c) ==
  /\ At(c, "send")
  /\ Delivered(c, Reply(c)) \/ Dropped(c)
  /\ write_mutex' = [write_mutex EXCEPT ![c] = NoConn]
  /\ response' = [response EXCEPT ![c] = "other"]
  /\ Goto(c, "recv")
  /\ UNCHANGED <<alive, sock, registry, operator_mutex, i, commands, logins, published>>

ReturnWithoutRemoving(c) ==
  /\ At(c, "send")
  /\ Refused(c)
  /\ write_mutex' = [write_mutex EXCEPT ![c] = NoConn]
  /\ response' = [response EXCEPT ![c] = "other"]
  /\ Goto(c, "close")
  /\ UNCHANGED <<alive, sock, registry, operator_mutex, i, commands, logins, published>>

SendFailsLocked(c) ==
  /\ At(c, "send")
  /\ Refused(c)
  /\ response' = [response EXCEPT ![c] = "other"]
  /\ Goto(c, "remove")
  /\ UNCHANGED <<alive, sock, registry, operator_mutex, write_mutex, i, commands,
                 logins, published>>

(* send_complete_response returns -1: the loop is left. *)
SendFails(c) ==
  /\ At(c, "send")
  /\ Refused(c)
  /\ write_mutex' = [write_mutex EXCEPT ![c] = NoConn]
  /\ response' = [response EXCEPT ![c] = "other"]
  /\ Goto(c, "remove")
  /\ UNCHANGED <<alive, sock, registry, operator_mutex, i, commands, logins, published>>

(* Either send() hits a connection that is known to be reset: SIGPIPE. *)
BrokenPipe(c) ==
  /\ \/ At(c, "send") /\ peer[c] = "dead"
     \/ At(c, "push")
        /\ \E d \in Conn : sock[d] = operator_clients[i[c]] /\ peer[d] = "dead"
  /\ alive' = FALSE
  /\ UNCHANGED <<pc, sock, registry, operator_mutex, write_mutex, i, response, commands,
                 logins, published, network>>

-----------------------------------------------------------------------------
SlotsOf(c) == {j \in 1 .. operator_count : operator_clients[j] = sock[c]}

RemoveNothing(c) ==
  /\ At(c, "remove")
  /\ operator_mutex = NoConn
  /\ Goto(c, "close")
  /\ UNCHANGED <<alive, sock, registry, operator_mutex, write_mutex, i, response,
                 commands, logins, published, network>>

(* The first slot with this descriptor is cleared; the count never drops. *)
remove_operator(c) ==
  /\ At(c, "remove")
  /\ operator_mutex = NoConn
  /\ IF SlotsOf(c) = {}
     THEN UNCHANGED <<operator_clients, operator_write_mutexes>>
     ELSE \E j \in SlotsOf(c) :
            /\ \A k \in SlotsOf(c) : j <= k
            /\ operator_clients' = [operator_clients EXCEPT ![j] = -1]
            /\ operator_write_mutexes' = [operator_write_mutexes EXCEPT ![j] = NoConn]
  /\ Goto(c, "close")
  /\ UNCHANGED <<alive, sock, operator_count, operator_mutex, write_mutex, i, response,
                 commands, logins, published, network>>

(* CLOSE_SOCKET(client_fd): the descriptor may be reused from here on, and *)
(* the remote end, whatever its state was, has nobody to talk to.          *)
CloseSocket(c) ==
  /\ At(c, "close")
  /\ sock' = [sock EXCEPT ![c] = 0]
  /\ peer' = [peer EXCEPT ![c] = "fin"]
  /\ unread' = [unread EXCEPT ![c] = 0]
  /\ Goto(c, "release")
  /\ UNCHANGED <<alive, registry, operator_mutex, write_mutex, i, response, commands,
                 logins, published, stream>>

(* pthread_mutex_destroy, free(context). *)
FreeContext(c) ==
  /\ At(c, "release")
  /\ Goto(c, "done")
  /\ UNCHANGED <<alive, sock, registry, operator_mutex, write_mutex, i, response,
                 commands, logins, published, network>>

-----------------------------------------------------------------------------
(* The remote end: a sensor, an operator, or anything that can connect. *)
PeerReads(d) ==
  /\ alive /\ peer[d] = "open" /\ unread[d] > 0
  /\ unread' = [unread EXCEPT ![d] = @ - 1]
  /\ UNCHANGED <<alive, pc, sock, registry, operator_mutex, write_mutex, i, response,
                 commands, logins, published, peer, stream>>

(* What it has not read by then, it never will. *)
PeerCloses(d) ==
  /\ alive /\ peer[d] = "open" /\ sock[d] # 0
  /\ \E how \in {"fin", "rst"} : peer' = [peer EXCEPT ![d] = how]
  /\ unread' = [unread EXCEPT ![d] = 0]
  /\ UNCHANGED <<alive, pc, sock, registry, operator_mutex, write_mutex, i, response,
                 commands, logins, published, stream>>

(* Every connection is over, or the process is. *)
Over ==
  /\ ~alive \/ \A c \in Conn : pc[c] = "done"
  /\ UNCHANGED vars

(* What thread c does by itself, once it exists. *)
Thread(c) ==
  \/ \E kind \in {"login", "measure", "other"} : Receive(c, kind)
  \/ ReceiveFails(c)
  \/ register_operator(c)
  \/ BeginBroadcast(c) \/ SkipSlot(c) \/ LockSlot(c) \/ PushAlert(c) \/ EndBroadcast(c)
  \/ LockOwn(c) \/ SendReply(c) \/ SendFails(c) \/ BrokenPipe(c)
  \/ remove_operator(c) \/ CloseSocket(c) \/ FreeContext(c)

Next ==
  \/ \E c \in Conn : Accept(c) \/ Thread(c) \/ PeerReads(c) \/ PeerCloses(c)
  \/ Over

Spec == Init /\ [][Next]_vars

(* The scheduler runs every thread that can run; recv() has a timeout. *)
FairThreads == Spec /\ \A c \in Conn : WF_vars(Thread(c))

(* Moreover, every remote end that is still open keeps reading. *)
FairSpec == FairThreads /\ \A c \in Conn : WF_vars(PeerReads(c))

-----------------------------------------------------------------------------
Labels == {"new", "recv", "login", "broadcast", "scan", "push", "reply", "send",
           "remove", "close", "release", "done"}

(* Type invariant; the table of operators is never overrun. *)
TypeOK ==
  /\ alive \in BOOLEAN
  /\ pc \in [Conn -> Labels]
  /\ sock \in [Conn -> Fd \cup {0}]
  /\ operator_clients \in [Slots -> Fd \cup {0, -1}]
  /\ operator_write_mutexes \in [Slots -> Conn \cup {NoConn}]
  /\ operator_count \in 0 .. MaxOperators
  /\ operator_mutex \in Conn \cup {NoConn}
  /\ write_mutex \in [Conn -> Conn \cup {NoConn}]
  /\ i \in [Conn -> Nat]
  /\ response \in [Conn -> {"role", "other"}]
  /\ commands \in [Conn -> Nat]
  /\ logins \in [Conn -> Nat]
  /\ peer \in [Conn -> {"open", "fin", "rst", "dead"}]
  /\ stream \in [Conn -> Seq(Message)]
  /\ published \in Seq(Message)
  /\ unread \in [Conn -> Nat]

(* The table sends alerts to c. *)
Listed(c) == \E j \in 1 .. operator_count : operator_write_mutexes[j] = c

(***************************************************************************)
(* A context outlives every use of it.  A slot in use points to the        *)
(* write_mutex of a connection that has not begun to shut down, and holds  *)
(* that connection's own descriptor; a mutex is destroyed unlocked.  So    *)
(* broadcast_alert never touches freed memory nor another client's socket. *)
(***************************************************************************)
ContextsOutliveUse ==
  /\ \A j \in 1 .. operator_count :
       LET owner == operator_write_mutexes[j]
       IN  SlotInUse(j) => /\ pc[owner] \notin {"new", "close", "release", "done"}
                           /\ operator_clients[j] = sock[owner]
  /\ \A c \in Conn : pc[c] \in {"release", "done"} => write_mutex[c] = NoConn

(* Thread c is inside a send() on the socket of d. *)
WritesTo(c, d) ==
  \/ pc[c] = "send" /\ c = d
  \/ pc[c] = "push" /\ sock[d] # 0 /\ operator_clients[i[c]] = sock[d]

(***************************************************************************)
(* The reply of a thread and the alerts of all others never interleave     *)
(* inside a message: at most one thread writes to a socket at a time.      *)
(***************************************************************************)
OneWriterPerSocket ==
  \A c1, c2, d \in Conn : WritesTo(c1, d) /\ WritesTo(c2, d) => c1 = c2

IsAlert(message) == message.kind = "alert"

(***************************************************************************)
(* Only a connection that has sent LOGIN is ever sent an alert, although   *)
(* slots are found by descriptor and descriptors are reused.               *)
(***************************************************************************)
AlertsOnlyToOperators ==
  \A d \in Conn : logins[d] = 0 =>
    \A k \in 1 .. Len(stream[d]) : ~IsAlert(stream[d][k])

(***************************************************************************)
(* When a broadcast ends, every operator in the table whose connection is  *)
(* still open has been sent the alert.                                     *)
(***************************************************************************)
BroadcastReachesAll ==
  [][\A c \in Conn : pc[c] = "scan" /\ pc'[c] = "reply" =>
       \A d \in Conn : Listed(d) /\ peer[d] = "open" =>
         \E k \in 1 .. Len(stream[d]) : stream[d][k] = Alert(c)]_vars

AnsweredRole(c) == \E k \in 1 .. Len(stream[c]) : stream[c][k].kind = "role"

InSession(c) == pc[c] \notin {"new", "remove", "close", "release", "done"}

(***************************************************************************)
(* A connection that was answered "OK ROLE_..." stays in the table until   *)
(* it ends, unless every slot had been handed out.                         *)
(***************************************************************************)
OperatorsStayListed ==
  \A c \in Conn : AnsweredRole(c) /\ InSession(c) =>
    Listed(c) \/ operator_count = MaxOperators

(* Thread c cannot go on until thread d unlocks a mutex. *)
WaitsFor(c, d) ==
  \/ pc[c] \in {"login", "broadcast", "remove"} /\ operator_mutex = d
  \/ /\ pc[c] = "scan" /\ i[c] <= operator_count /\ SlotInUse(i[c])
     /\ write_mutex[operator_write_mutexes[i[c]]] = d
  \/ pc[c] = "reply" /\ write_mutex[c] = d

(***************************************************************************)
(* Threads never wait for each other in a circle, although broadcast_alert *)
(* takes write_mutexes of others while it holds operator_mutex: whoever is *)
(* waited for is inside send(), or is the broadcast, which itself waits    *)
(* for nobody but a thread inside send().                                  *)
(***************************************************************************)
NoCircularWait ==
  \A c, d \in Conn : WaitsFor(c, d) =>
    \/ pc[d] \in {"send", "push"}
    \/ pc[d] = "scan" /\ \A e \in Conn : WaitsFor(d, e) => pc[e] = "send"

-----------------------------------------------------------------------------
(* Thread c is in the loop of broadcast_alert. *)
Running(c) == pc[c] \in {"scan", "push"}

(* A broadcast has not come to the slot of d yet. *)
Behind(d) ==
  \E b \in Conn :
    /\ Running(b)
    /\ \E j \in i[b] .. operator_count : operator_write_mutexes[j] = d

(* The operators that alerts are sent to. *)
Reachable == {d \in Conn : Listed(d) /\ peer[d] = "open"}

(* The entry of the log that each of them is sent next. *)
Cursor == [d \in Reachable |->
  IF Behind(d) THEN Len(published) ELSE Len(published) + 1]

Log == INSTANCE AlertLog WITH
  Clients <- Conn,
  Alerts <- [kind : {"alert"}, from : Conn, n : 0 .. MaxCommands],
  Answers <- [kind : {"role"}, from : Conn, n : 0 .. MaxCommands],
  log <- published,
  next <- Cursor,
  received <- stream

(***************************************************************************)
(* The table, its two kinds of mutex and the loop of broadcast_alert are   *)
(* one log of alerts: every operator, from the moment it enters the table  *)
(* until its connection closes, is sent each alert that is broadcast,      *)
(* exactly once and in the one order of the log.                           *)
(***************************************************************************)
ImplementsLog == Log!Spec

-----------------------------------------------------------------------------
(* Each command is answered, or its connection ended, or the server did. *)
CommandsAnswered ==
  \A c \in Conn : (pc[c] \in {"login", "broadcast", "scan", "push", "reply", "send"})
                    ~> (pc[c] \in {"recv", "remove"} \/ ~alive)

(* A connection whose remote end is gone is released. *)
GoneClientsReleased ==
  \A c \in Conn : (peer[c] # "open" /\ sock[c] # 0) ~> (pc[c] = "done" \/ ~alive)

-----------------------------------------------------------------------------
(* What server.c or the documents say, and the code does not do.           *)

(* A failed send is logged and ends that connection only (server.c:65-69). *)
ServerSurvives == alive

(***************************************************************************)
(* server.c:197 logs "logged in and registered for alerts": while fewer    *)
(* than MaxOperators are connected, a login enters the table.              *)
(***************************************************************************)
LoginRegisters ==
  \A c \in Conn :
    /\ AnsweredRole(c) /\ InSession(c)
    /\ Cardinality({d \in Conn : Listed(d)}) < MaxOperators
    => Listed(c)
=============================================================================
