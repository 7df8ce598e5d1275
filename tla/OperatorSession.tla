-------------------------- MODULE OperatorSession --------------------------
(***************************************************************************)
(* From the C server to the operator's browser: the Java client            *)
(* (ServerConnectionService.java), the thread of server.c that serves it,  *)
(* and a page of the dashboard (dashboard.js, DashboardController.java).   *)
(*                                                                         *)
(* The sensors of the server are a version number that grows.  A line from *)
(* the server is a record; the lines that TCP has accepted and the client  *)
(* has not read are in lines.  A list of sensors may be too long for the   *)
(* reply buffer, which then cuts its end-of-line off: the line is open,    *)
(* and what is sent next is read as its continuation.                      *)
(*                                                                         *)
(* The server may end the connection, or its process may end, at any time: *)
(* the client then reads an end of stream ("eof") or an error ("reset").   *)
(* The client never connects again.                                        *)
(*                                                                         *)
(* The auth service serves one client at a time, in the order in which     *)
(* they have connected, and ends for good at the first exception.          *)
(*                                                                         *)
(* Spring's broker and the WebSocket to the page are modelled from how     *)
(* they are used: what is published while the page is subscribed reaches   *)
(* it in any order near to that of publication, unless the WebSocket       *)
(* drops, which the page repairs by connecting again.                      *)
(*                                                                         *)
(* The threads of the other connections appear where they reach ours: they *)
(* broadcast alerts, take places in the table of operators, of which none  *)
(* is ever given back, hold operator_mutex for as long as a send blocks,   *)
(* and may overwrite a reply in the buffer that all threads share (module  *)
(* ResponseBuffer has that race in detail).                                *)
(*                                                                         *)
(* Not part of the specification: AskAgain, AcceptAnyAnswer,               *)
(* IdentifyWithoutRunning, IdentifyUnknown, ReadAnyLine, ConsumeMisspelt,  *)
(* PublishTwice, PollOnce. They are faulty variants of the definitions     *)
(* that follow them; README.md says which property each one violates.      *)
(***************************************************************************)
EXTENDS Integers, Sequences

CONSTANTS
  LongFrom,     \* the version from which the list exceeds the reply buffer
  MaxVersion,   \* bound: changes of the sensors in a behaviour
  MaxAlerts,    \* bound: alerts in a behaviour
  MaxDrops,     \* bound: losses of the WebSocket in a behaviour
  MaxOperators, \* slots in the table of operators (100)
  MaxRaces,     \* bound: replies that another thread has overwritten
  Capacity      \* bound: items in each of requests, lines and topic

ASSUME BoundsAssumption ==
  /\ MaxVersion \in Nat /\ MaxAlerts \in Nat /\ MaxDrops \in Nat
  /\ MaxOperators \in Nat \ {0} /\ MaxRaces \in Nat
  /\ Capacity \in Nat \ {0} /\ LongFrom \in Nat

VARIABLES
  version,        \* what GET_SENSORS would answer
  alerts,         \* alerts broadcast while this operator is in the table
  registered,     \* the connection is in the table of operators
  turnedAway,     \* register_operator has found the table full (history)
  operator_count, \* slots of the table that have been taken
  requests,       \* commands sent and not yet received
  reply,          \* the reply the server thread is about to send, or NoLine
  races,          \* replies so far that were not the thread's own (history)
  stage,          \* LOGIN: none, verify (waits for the service) or register
  auth,           \* whom the service serves: none, other, us; or it has ended
  lines,          \* lines sent and not yet read
  link,           \* the connection: none, open, eof or reset
  pc,             \* where the client is
  running,        \* ServerConnectionService.running
  cachedSensors,  \* version in the cache
  page,           \* the page: closed or open
  subscribed,     \* it is subscribed to the topics
  drops,          \* losses of the WebSocket so far
  topic,          \* what it has been sent and has not yet rendered
  fetch,          \* its initial request: none, asked, answered, done
  fetched,        \* the version that request was answered with
  view,           \* the version shown
  feed,           \* the alerts shown
  toast           \* "connection lost" is shown

login == <<turnedAway, operator_count, races, stage, auth>>
server == <<version, alerts, registered, reply, login>>
wire == <<requests, lines, link>>
client == <<pc, running, cachedSensors>>
browser == <<page, subscribed, drops, topic, fetch, fetched, view, feed, toast>>
vars == <<server, wire, client, browser>>

-----------------------------------------------------------------------------
Line(kind, n) == [kind |-> kind, n |-> n, open |-> FALSE]
NoLine == Line("none", 0)
Ok == Line("ok", 0)
Error == Line("error", 0)
Sensors(n) == [kind |-> "sensors", n |-> n, open |-> n >= LongFrom]
AnAlert(n) == Line("alert", n)
Lost == Line("lost", 0)

Lines == [kind : {"none", "ok", "error", "lost", "sensors", "alert"}, n : Nat,
          open : BOOLEAN]

Room(queue) == Len(queue) < Capacity

(* The last line has not been ended: the reader does not return it yet. *)
Open(queue) == queue # <<>> /\ queue[Len(queue)].open

(* What is sent after an open line continues it, and may end it. *)
Put(line) ==
  /\ Room(lines) \/ Open(lines)
  /\ lines' = IF Open(lines) THEN [lines EXCEPT ![Len(lines)].open = line.open]
              ELSE Append(lines, line)

PublishTwice(line) ==
  IF subscribed
  THEN Room(topic) /\ topic' = topic \o (IF drops > 0 THEN <<line, line>> ELSE <<line>>)
  ELSE UNCHANGED topic

(* convertAndSend: only who is subscribed is sent anything. *)
Publish(line) ==
  IF subscribed THEN Room(topic) /\ topic' = Append(topic, line) ELSE UNCHANGED topic

RestOfBrowser == <<page, subscribed, drops, fetch, fetched, view, feed, toast>>

Init ==
  /\ version = 0 /\ alerts = 0 /\ registered = FALSE /\ reply = NoLine
  /\ turnedAway = FALSE /\ operator_count = 0 /\ races = 0
  /\ stage = "none" /\ auth = "none"
  /\ requests = <<>> /\ lines = <<>> /\ link = "none"
  /\ pc = "start" /\ running = FALSE /\ cachedSensors = 0
  /\ page = "closed" /\ subscribed = FALSE /\ drops = 0 /\ topic = <<>>
  /\ fetch = "none" /\ fetched = 0 /\ view = 0 /\ feed = {} /\ toast = FALSE

-----------------------------------------------------------------------------
(* The server thread of this connection, and the other threads.            *)

(* A sensor registers or measures. *)
SensorsChange ==
  /\ version < MaxVersion
  /\ version' = version + 1
  /\ UNCHANGED <<alerts, registered, reply, login, wire, client, browser>>

(* auth_client_verify asks the service, or cannot connect to it (503); nor *)
(* does it ask if another thread's parse has taken the arguments (400).    *)
AskService ==
  /\ link = "open" /\ reply = NoLine /\ stage = "none"
  /\ requests # <<>> /\ Head(requests) = "LOGIN"
  /\ \/ auth # "ended" /\ stage' = "verify" /\ UNCHANGED <<reply, requests>>
     \/ reply' = Error /\ requests' = Tail(requests) /\ UNCHANGED stage
  /\ UNCHANGED <<version, alerts, registered, turnedAway, operator_count, races, auth,
                 lines, link, client, browser>>

RestOfLogin == <<version, alerts, lines, link, client, browser, races>>

(* auth_client_verify returns without a role.  A service that has ended is *)
(* taken for a refusal.                                                    *)
Refused ==
  /\ stage' = "none" /\ reply' = Error /\ requests' = Tail(requests)
  /\ UNCHANGED <<registered, turnedAway, operator_count, RestOfLogin>>

(* It returns with one: the operator is put into the table, if there is a  *)
(* slot left, before it is answered OK.  The step takes place once         *)
(* operator_mutex is free, which another thread may hold for ever.         *)
register_operator ==
  /\ stage = "register"
  /\ IF operator_count < MaxOperators
     THEN /\ registered' = TRUE /\ operator_count' = operator_count + 1
          /\ UNCHANGED turnedAway
     ELSE turnedAway' = TRUE /\ UNCHANGED <<registered, operator_count>>
  /\ stage' = "none" /\ reply' = Ok /\ requests' = Tail(requests)
  /\ UNCHANGED <<auth, RestOfLogin>>

(* The same for another client.  No slot is ever given back. *)
OthersLogIn ==
  /\ operator_count < MaxOperators
  /\ operator_count' = operator_count + 1
  /\ UNCHANGED <<version, alerts, registered, turnedAway, reply, races, stage, auth, wire,
                 client, browser>>

(* The service: verify_user(), or an exception that ends it. *)
AnswerUs ==
  /\ auth = "us" /\ stage = "verify"
  /\ \/ /\ auth' = "none" /\ stage' = "register"
        /\ UNCHANGED <<registered, turnedAway, operator_count, reply, requests, RestOfLogin>>
     \/ auth' \in {"none", "ended"} /\ Refused

AskAgain ==
  /\ stage = "verify" /\ auth = "ended"
  /\ UNCHANGED vars

(* It has ended while our connection waited to be accepted. *)
ServiceLost ==
  /\ stage = "verify" /\ auth = "ended"
  /\ Refused
  /\ UNCHANGED auth

RestOfService ==
  <<version, alerts, registered, turnedAway, operator_count, reply, races, stage>>

(* accept(): us, or others who have connected before us. *)
AcceptUs ==
  /\ auth = "none" /\ stage = "verify"
  /\ auth' = "us"
  /\ UNCHANGED <<RestOfService, wire, client, browser>>

AcceptOthers ==
  /\ auth = "none" /\ requests = <<"LOGIN">> /\ stage = "none"
  /\ auth' = "other"
  /\ UNCHANGED <<RestOfService, wire, client, browser>>

(* They have been answered, or an exception ends the service.  recv() has  *)
(* no timeout: a client that sends nothing keeps the service for itself.   *)
AnswerOthers ==
  /\ auth = "other"
  /\ auth' \in {"none", "ended"}
  /\ UNCHANGED <<RestOfService, wire, client, browser>>

IdentifyUnknown ==
  /\ link = "open" /\ reply = NoLine
  /\ requests # <<>> /\ Head(requests) # "LOGIN"
  /\ reply' = IF Head(requests) = "GET_SENSORS" THEN Sensors(version) ELSE Error
  /\ \E k \in 1 .. Len(requests) : requests' = SubSeq(requests, k + 1, Len(requests))
  /\ UNCHANGED <<version, alerts, registered, login, lines, link, client, browser>>

(* recv() returns a command, and with it commands sent after it, which are *)
(* then ignored.                                                           *)
HandleCommand ==
  /\ link = "open" /\ reply = NoLine
  /\ requests # <<>> /\ Head(requests) # "LOGIN"
  /\ reply' = IF Head(requests) = "GET_SENSORS" THEN Sensors(version) ELSE Ok
  /\ \E k \in 1 .. Len(requests) : requests' = SubSeq(requests, k + 1, Len(requests))
  /\ UNCHANGED <<version, alerts, registered, login, lines, link, client, browser>>

(* The thread sends its reply.  A full buffer makes it wait: see Put. *)
SendReply ==
  /\ link = "open" /\ reply # NoLine
  /\ Put(reply)
  /\ reply' = NoLine
  /\ UNCHANGED <<version, alerts, registered, login, requests, link, client, browser>>

(* What other threads' commands leave in the buffer, and where it is cut.  *)
(* STATUS and ALERTS lines mean as little to the client as an error.       *)
ForeignTexts ==
  {text \in [kind : {"ok", "error", "sensors"}, n : 0 .. version, open : BOOLEAN] :
     text.kind # "sensors" => text.n = 0}

(* Another thread has built its reply over ours: that is sent, as far as   *)
(* the length measured reaches, perhaps with a rest that nobody knows.     *)
SendForeign ==
  /\ link = "open" /\ reply # NoLine /\ races < MaxRaces
  /\ \E text \in ForeignTexts : Put(text)
  /\ reply' \in {NoLine, Error}
  /\ races' = races + 1
  /\ UNCHANGED <<version, alerts, registered, turnedAway, operator_count, stage, auth,
                 requests, link, client, browser>>

(* Another thread's broadcast_alert reaches this operator. *)
PushAlert ==
  /\ link = "open" /\ registered /\ alerts < MaxAlerts
  /\ alerts' = alerts + 1
  /\ Put(AnAlert(alerts'))
  /\ UNCHANGED <<version, registered, reply, login, requests, link, client, browser>>

(* The thread leaves its loop, or the process ends; a reset may lose lines. *)
ServerEnds ==
  /\ link = "open"
  /\ \/ link' = "eof" /\ UNCHANGED lines
     \/ link' = "reset" /\ lines' \in {lines, <<>>}
  /\ registered' = FALSE /\ reply' = NoLine /\ requests' = <<>>
  /\ stage' = "none" /\ auth' = IF auth = "us" THEN "none" ELSE auth
  /\ UNCHANGED <<version, alerts, turnedAway, operator_count, races, client, browser>>

-----------------------------------------------------------------------------
(* The client.  A flush to a connection that is over fails silently.       *)
Flush(command) ==
  requests' = IF link = "open" THEN Append(requests, command) ELSE requests

(* readLine() has a line; at the end of the stream, also an open one. *)
HasLine == lines # <<>> /\ (~Head(lines).open \/ link = "eof")

Over == ~HasLine /\ link \in {"eof", "reset"}

connect ==
  /\ pc = "start"
  /\ \/ link' = "open" /\ requests' = <<"LOGIN">> /\ pc' = "login"
     \/ UNCHANGED <<link, requests>> /\ pc' = "failed"
  /\ UNCHANGED <<server, lines, running, cachedSensors, browser>>

AcceptAnyAnswer ==
  /\ pc = "login" /\ HasLine
  /\ lines' = Tail(lines)
  /\ Flush("OPERATOR_IDENTIFY") /\ pc' = "identify"
  /\ UNCHANGED <<server, link, running, cachedSensors, browser>>

(* authenticate(), as far as the answer to LOGIN. *)
ReadLoginAnswer ==
  /\ pc = "login" /\ HasLine
  /\ lines' = Tail(lines)
  /\ IF Head(lines).kind = "ok"
     THEN Flush("OPERATOR_IDENTIFY") /\ pc' = "identify"
     ELSE UNCHANGED requests /\ pc' = "failed"
  /\ UNCHANGED <<server, link, running, cachedSensors, browser>>

IdentifyWithoutRunning ==
  /\ pc = "identify" /\ HasLine
  /\ lines' = Tail(lines)
  /\ pc' = IF Head(lines).kind = "ok" THEN "reading" ELSE "failed"
  /\ UNCHANGED <<server, requests, link, running, cachedSensors, browser>>

(* authenticate(), the answer to OPERATOR_IDENTIFY, and startReaderThread(). *)
ReadIdentifyAnswer ==
  /\ pc = "identify" /\ HasLine
  /\ lines' = Tail(lines)
  /\ IF Head(lines).kind = "ok" THEN pc' = "reading" /\ running' = TRUE
     ELSE pc' = "failed" /\ UNCHANGED running
  /\ UNCHANGED <<server, requests, link, cachedSensors, browser>>

(* The connection ends before the handshake does: an IOException, logged. *)
HandshakeFails ==
  /\ pc \in {"login", "identify"} /\ Over
  /\ pc' = "failed"
  /\ UNCHANGED <<server, wire, running, cachedSensors, browser>>

ConsumeMisspelt(line) ==
  \/ line.kind = "sensors" /\ cachedSensors' = line.n /\ Publish(line)
  \/ line.kind # "sensors" /\ UNCHANGED <<topic, cachedSensors>>

(* What the reader thread does with a line; it ignores what it does not know. *)
Consume(line) ==
  \/ line.kind = "sensors" /\ cachedSensors' = line.n /\ Publish(line)
  \/ line.kind = "alert" /\ Publish(line) /\ UNCHANGED cachedSensors
  \/ line.kind \notin {"sensors", "alert"} /\ UNCHANGED <<topic, cachedSensors>>

ReadAnyLine ==
  /\ pc = "reading" /\ running
  /\ \E k \in 1 .. Len(lines) :
       /\ Consume(lines[k])
       /\ lines' = SubSeq(lines, 1, k - 1) \o SubSeq(lines, k + 1, Len(lines))
  /\ UNCHANGED <<server, requests, link, pc, running, RestOfBrowser>>

(* The reader thread: one line. *)
ReadLine ==
  /\ pc = "reading" /\ running /\ HasLine
  /\ Consume(Head(lines))
  /\ lines' = Tail(lines)
  /\ UNCHANGED <<server, requests, link, pc, running, RestOfBrowser>>

(* The reader thread ends; only an exception is published, and only while *)
(* the service has not been stopped.  running stays as it is.              *)
ReaderEnds ==
  /\ pc = "reading" /\ (Over \/ ~running)
  /\ IF link = "reset" /\ running THEN Publish(Lost) ELSE UNCHANGED topic
  /\ pc' = "ended"
  /\ UNCHANGED <<server, wire, running, cachedSensors, RestOfBrowser>>

PollOnce ==
  /\ running /\ Room(requests) /\ cachedSensors = 0
  /\ Flush("GET_SENSORS")
  /\ UNCHANGED <<server, lines, link, client, browser>>

(* Every two seconds, whatever has become of the reader. *)
pollSensors ==
  /\ running /\ Room(requests)
  /\ Flush("GET_SENSORS")
  /\ UNCHANGED <<server, lines, link, client, browser>>

(* The application is shut down: @PreDestroy. *)
disconnect ==
  /\ pc \in {"reading", "ended", "failed"} /\ link # "none"
  /\ running' = FALSE
  /\ link' = "reset" /\ lines' = <<>> /\ requests' = <<>>
  /\ registered' = FALSE /\ reply' = NoLine
  /\ UNCHANGED <<version, alerts, login, pc, cachedSensors, browser>>

-----------------------------------------------------------------------------
(* The page. *)
OpenPage ==
  /\ page = "closed"
  /\ page' = "open" /\ fetch' = "asked"
  /\ UNCHANGED <<server, wire, client, subscribed, drops, topic, fetched, view, feed,
                 toast>>

(* GET /api/sensors answers with the cache. *)
getSensors ==
  /\ fetch = "asked"
  /\ fetch' = "answered" /\ fetched' = cachedSensors
  /\ UNCHANGED <<server, wire, client, page, subscribed, drops, topic, view, feed, toast>>

(* The answer arrives, or the fetch fails, at any time after that. *)
fetchSensorsOnce ==
  /\ \/ fetch = "answered" /\ view' = fetched
     \/ fetch \in {"asked", "answered"} /\ UNCHANGED view
  /\ fetch' = "done"
  /\ UNCHANGED <<server, wire, client, page, subscribed, drops, topic, fetched, feed,
                 toast>>

(* stompClient.onConnect *)
Subscribe ==
  /\ page = "open" /\ ~subscribed
  /\ subscribed' = TRUE
  /\ UNCHANGED <<server, wire, client, page, drops, topic, fetch, fetched, view, feed,
                 toast>>

WebSocketDrops ==
  /\ subscribed /\ drops < MaxDrops
  /\ subscribed' = FALSE /\ topic' = <<>> /\ drops' = drops + 1
  /\ UNCHANGED <<server, wire, client, page, fetch, fetched, view, feed, toast>>

(* A subscription's callback gets the k-th of the messages on their way. *)
Render(k) ==
  /\ k <= Len(topic)
  /\ LET line == topic[k]
     IN  /\ view' = IF line.kind = "sensors" THEN line.n ELSE view
         /\ feed' = IF line.kind = "alert" THEN feed \cup {line.n} ELSE feed
         /\ toast' = (toast \/ line = Lost)
  /\ topic' = SubSeq(topic, 1, k - 1) \o SubSeq(topic, k + 1, Len(topic))
  /\ UNCHANGED <<server, wire, client, page, subscribed, drops, fetch, fetched>>

(* btnClearAlerts *)
ClearAlerts ==
  /\ feed # {}
  /\ feed' = {}
  /\ UNCHANGED <<server, wire, client, page, subscribed, drops, topic, fetch, fetched,
                 view, toast>>

-----------------------------------------------------------------------------
AuthServe == AcceptUs \/ AnswerUs \/ AnswerOthers

Serve == AskService \/ ServiceLost \/ HandleCommand \/ SendReply \/ SendForeign

Read ==
  ReadLoginAnswer \/ ReadIdentifyAnswer \/ HandshakeFails \/ ReadLine \/ ReaderEnds

Next ==
  \/ SensorsChange \/ Serve \/ PushAlert \/ ServerEnds
  \/ AuthServe \/ AcceptOthers \/ register_operator \/ OthersLogIn
  \/ connect \/ Read \/ pollSensors \/ disconnect
  \/ OpenPage \/ getSensors \/ fetchSensorsOnce \/ Subscribe \/ WebSocketDrops
  \/ \E k \in 1 .. Capacity : Render(k)
  \/ ClearAlerts

Spec == Init /\ [][Next]_vars

(***************************************************************************)
(* The server thread, the reader thread, the scheduled poll, the retries   *)
(* of the page and the oldest message on its way to it all go on, and an   *)
(* auth service that is waiting for a client accepts one.  Nothing is      *)
(* assumed of the clients of the auth service nor of its answers, of       *)
(* operator_mutex, of sensors, alerts, users or failures.                  *)
(***************************************************************************)
FairSpec ==
  /\ Spec
  /\ WF_vars(Serve) /\ WF_vars(AcceptUs) /\ WF_vars(Read) /\ WF_vars(pollSensors)
  /\ WF_vars(fetchSensorsOnce) /\ WF_vars(Subscribe) /\ WF_vars(Render(1))

-----------------------------------------------------------------------------
(* Type invariant; running tells whether the handshake has succeeded. *)
TypeOK ==
  /\ version \in 0 .. MaxVersion /\ alerts \in 0 .. MaxAlerts
  /\ registered \in BOOLEAN /\ reply \in Lines
  /\ turnedAway \in BOOLEAN /\ operator_count \in 0 .. MaxOperators
  /\ races \in 0 .. MaxRaces
  /\ stage \in {"none", "verify", "register"}
  /\ auth \in {"none", "other", "us", "ended"}
  /\ requests \in Seq({"LOGIN", "OPERATOR_IDENTIFY", "GET_SENSORS"})
  /\ lines \in Seq(Lines) /\ topic \in Seq(Lines)
  /\ link \in {"none", "open", "eof", "reset"}
  /\ pc \in {"start", "login", "identify", "reading", "ended", "failed"}
  /\ running \in BOOLEAN
  /\ running => pc \in {"reading", "ended"}
  /\ pc = "reading" /\ link = "open" => running
  /\ cachedSensors \in 0 .. version /\ fetched \in 0 .. version /\ view \in 0 .. version
  /\ page \in {"closed", "open"} /\ subscribed \in BOOLEAN /\ drops \in 0 .. MaxDrops
  /\ fetch \in {"none", "asked", "answered", "done"}
  /\ feed \subseteq 1 .. MaxAlerts /\ toast \in BOOLEAN

(***************************************************************************)
(* A client that believes to be an operator is one: while its connection   *)
(* lasts, the server has it in the table of those that receive alerts,     *)
(* unless the table was full when it logged in, or a reply to it was       *)
(* overwritten by another thread.                                          *)
(***************************************************************************)
ReaderIsRegistered ==
  pc = "reading" /\ link = "open" => registered \/ turnedAway \/ races > 0

(***************************************************************************)
(* Although the server has an operator in its table before it answers the  *)
(* LOGIN, a client that is registered and connected gives its handshake up *)
(* only if an alert has come before an answer, or another thread has       *)
(* overwritten one.                                                        *)
(***************************************************************************)
GivesUpOnlyIfOvertaken ==
  pc = "failed" /\ link = "open" /\ registered => alerts > 0 \/ races > 0

Holds(queue, n) ==
  \E k \in 1 .. Len(queue) : queue[k].kind = "alert" /\ queue[k].n = n

Single(queue) ==
  \A j, k \in 1 .. Len(queue) :
    queue[j].kind = "alert" /\ queue[k].kind = "alert" /\ queue[j].n = queue[k].n => j = k

(***************************************************************************)
(* No alert is on its way to the page twice, nor again once it is shown,   *)
(* although the page subscribes anew after every loss of its WebSocket.    *)
(***************************************************************************)
AlertsArriveOnce ==
  /\ Single(lines) /\ Single(topic)
  /\ \A n \in 1 .. MaxAlerts :
       /\ Holds(lines, n) => ~Holds(topic, n) /\ n \notin feed
       /\ Holds(topic, n) => n \notin feed

(***************************************************************************)
(* The cache never goes back to an older state of the sensors, although    *)
(* polls overtake each other's answers and alerts come in between, as long *)
(* as every reply is the thread's own.                                     *)
(***************************************************************************)
CacheNeverOlder == [][races' = 0 => cachedSensors' >= cachedSensors]_vars

Connected == pc = "reading" /\ link = "open"

(***************************************************************************)
(* The page ends up showing the present sensors while the connection       *)
(* lasts, if their list fits the reply buffer, although its first request  *)
(* may be answered late, polls are handled together, messages pass each    *)
(* other, the WebSocket may drop, and a reply may be overwritten by        *)
(* another thread, with an older list or without an end.                   *)
(***************************************************************************)
DashboardCatchesUp ==
  <>[](Connected /\ page = "open" => view = version \/ version >= LongFrom)

(* PROTOCOL.md:237, "Real-time sensor updates: Broadcast to all connected  *)
(* operators every 2 seconds (polling via `GET_SENSORS`)".                 *)
DashboardShowsAll == <>[](Connected /\ page = "open" => view = version)

(***************************************************************************)
(* An alert sent to a client that is reading is shown on a page that stays *)
(* subscribed, even if the connection ends in order behind it.             *)
(***************************************************************************)
OnTheWay(n) == \E k \in 1 .. Len(lines) : lines[k] = AnAlert(n)

AlertsAreShown ==
  \A n \in 1 .. MaxAlerts :
    (OnTheWay(n) /\ pc = "reading" /\ subscribed)
      ~> (n \in feed \/ ~subscribed \/ link = "reset")

(***************************************************************************)
(* connect() reads the answer to LOGIN without a timeout, and so does the  *)
(* server thread that of the auth service.  There are three places where   *)
(* it can wait for ever: the service serves one client, perhaps another    *)
(* than us, and never ends with it; operator_mutex is not obtained; or the *)
(* answer was cut off by another thread's.  An auth service that has       *)
(* ended, with or without us in its queue, is no such place.               *)
(***************************************************************************)
LoginSettles ==
  <>[](pc = "login") =>
    \/ <>[](auth \in {"us", "other"})
    \/ <>[](stage = "register")
    \/ <>[]Open(lines)
=============================================================================
