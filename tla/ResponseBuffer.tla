--------------------------- MODULE ResponseBuffer ---------------------------
(***************************************************************************)
(* server/src/protocol.c builds every reply in one static buffer,          *)
(* resp_buf, and returns a pointer to it; each thread of server.c builds   *)
(* its reply there and later sends from that pointer.  No mutex covers the *)
(* span from the first byte written to the last byte sent.                 *)
(*                                                                         *)
(* snprintf and send() are not atomic: a build has a first and a last      *)
(* step, and the reply is read twice, by strlen and by send().  Reading a  *)
(* buffer that several builds have written to gives the text of any of     *)
(* them or a mixture, which is the value Torn.                             *)
(*                                                                         *)
(* A reply is abstracted to the kind of the command it answers.  PING is   *)
(* answered with a string literal.  What a command does besides, and the   *)
(* mutexes of module ConnectionThreads, do not touch resp_buf.             *)
(*                                                                         *)
(* Not part of the specification: ReceiveUnbuilt, DefaultIsFinal. They are *)
(* faulty variants of the definitions that follow them; README.md says     *)
(* which property each one violates.                                       *)
(***************************************************************************)
EXTENDS Naturals, FiniteSets

CONSTANTS
  Threads,     \* connection threads
  Kinds,       \* kinds of commands whose reply is built by their own case
  MaxCommands  \* bound: commands in a behaviour

(* Commands answered otherwise: the literal, and "Command not found". *)
AllKinds == Kinds \cup {"ping", "unknown"}

(* The reply to a command of some kind is named after the kind. *)
Texts == AllKinds
Torn == "torn"
NotFound == "unknown"

ASSUME KindsAssumption == Kinds \subseteq STRING \ {"ping", "unknown", "torn", "none"}
ASSUME MaxCommandsAssumption == MaxCommands \in Nat

VARIABLES
  resp_buf,   \* the texts whose bytes the buffer may hold
  pc,         \* where each thread is between recv() and send()
  kind,       \* the command it handles
  text,       \* the text it builds, or has built
  over,       \* texts of other builds that overlap its current build
  length,     \* the text strlen measured
  answer,     \* the text it sent last
  received,   \* number of commands received
  disturbed,  \* history: another build touched this one before it was sent
  recent      \* history: texts built, in part at least, since its recv()

buffer == <<resp_buf, over>>
history == <<disturbed, recent>>
vars == <<buffer, pc, kind, text, length, answer, received, history>>

-----------------------------------------------------------------------------
Goto(t, label) == pc' = [pc EXCEPT ![t] = label]

Writing == {u \in Threads : pc[u] \in {"default", "reply"}}

(* The thread has begun its own reply and not sent it. *)
Holding(t) == pc[t] \in {"reply", "strlen", "send"}

(* What a read of the buffer may return. *)
Readable == resp_buf \cup (IF Cardinality(resp_buf) > 1 THEN {Torn} ELSE {})

Init ==
  /\ resp_buf = {}
  /\ pc = [t \in Threads |-> "recv"]
  /\ kind = [t \in Threads |-> "none"]
  /\ text = [t \in Threads |-> NotFound]
  /\ over = [t \in Threads |-> {}]
  /\ length = [t \in Threads |-> Torn]
  /\ answer = [t \in Threads |-> "none"]
  /\ received = 0
  /\ disturbed = [t \in Threads |-> FALSE]
  /\ recent = [t \in Threads |-> {}]

(* The first byte of snprintf(resp_buf, ...). *)
BeginWrite(t, new) ==
  /\ text' = [text EXCEPT ![t] = new]
  /\ resp_buf' = resp_buf \cup {new}
  /\ over' = [u \in Threads |->
       IF u = t THEN {text[v] : v \in Writing}
       ELSE IF u \in Writing THEN over[u] \cup {new} ELSE over[u]]
  /\ recent' = [u \in Threads |->
       IF pc[u] # "recv" THEN recent[u] \cup {new} ELSE recent[u]]
  /\ disturbed' = [u \in Threads |->
       IF u = t THEN Writing # {} ELSE disturbed[u] \/ Holding(u)]

(* Its last byte: only builds that overlap this one can still be read. *)
EndWrite(t) ==
  /\ resp_buf' = {text[t]} \cup over[t]
  /\ over' = [u \in Threads |-> over[u] \cap resp_buf']
  /\ UNCHANGED <<text, history>>

-----------------------------------------------------------------------------
ReceiveUnbuilt(t, k) ==
  /\ pc[t] = "recv" /\ received < MaxCommands
  /\ received' = received + 1
  /\ kind' = [kind EXCEPT ![t] = k]
  /\ recent' = [recent EXCEPT ![t] = {text[v] : v \in Writing}]
  /\ Goto(t, IF k = "unknown" THEN "strlen" ELSE "start")
  /\ UNCHANGED <<buffer, text, length, answer, disturbed>>

(* recv() returns a command. *)
Receive(t, k) ==
  /\ pc[t] = "recv" /\ received < MaxCommands
  /\ received' = received + 1
  /\ kind' = [kind EXCEPT ![t] = k]
  /\ recent' = [recent EXCEPT ![t] = {text[v] : v \in Writing}]
  /\ Goto(t, "start")
  /\ UNCHANGED <<buffer, text, length, answer, disturbed>>

(* response = protocol_build_error("404", ...), whatever the command. *)
BeginDefault(t) ==
  /\ pc[t] = "start"
  /\ BeginWrite(t, NotFound)
  /\ Goto(t, "default")
  /\ UNCHANGED <<kind, length, answer, received>>

DefaultIsFinal(t) ==
  /\ pc[t] = "default"
  /\ EndWrite(t)
  /\ Goto(t, IF kind[t] = "ping" THEN "literal" ELSE "strlen")
  /\ UNCHANGED <<kind, length, answer, received>>

EndDefault(t) ==
  /\ pc[t] = "default"
  /\ EndWrite(t)
  /\ Goto(t, IF kind[t] = "ping" THEN "literal" ELSE "handle")
  /\ UNCHANGED <<kind, length, answer, received>>

(* The case of the switch has acted and builds its reply. *)
BeginReply(t) ==
  /\ pc[t] = "handle"
  /\ BeginWrite(t, kind[t])
  /\ Goto(t, "reply")
  /\ UNCHANGED <<kind, length, answer, received>>

EndReply(t) ==
  /\ pc[t] = "reply"
  /\ EndWrite(t)
  /\ Goto(t, "strlen")
  /\ UNCHANGED <<kind, length, answer, received>>

(* send_complete_response: response_length = strlen(response). *)
Measure(t) ==
  /\ pc[t] = "strlen"
  /\ \E seen \in Readable : length' = [length EXCEPT ![t] = seen]
  /\ Goto(t, "send")
  /\ UNCHANGED <<buffer, kind, text, answer, received, history>>

(* A text cut to the length of another is no reply of the protocol. *)
Send(t) ==
  /\ pc[t] = "send"
  /\ \E seen \in Readable :
       answer' = [answer EXCEPT ![t] = IF seen = length[t] THEN seen ELSE Torn]
  /\ Goto(t, "recv")
  /\ UNCHANGED <<buffer, kind, text, length, received, history>>

(* response = "PONG\r\n" *)
SendLiteral(t) ==
  /\ pc[t] = "literal"
  /\ answer' = [answer EXCEPT ![t] = "ping"]
  /\ Goto(t, "recv")
  /\ UNCHANGED <<buffer, kind, text, length, received, history>>

(* The behaviour has used up its bound on commands. *)
Finished ==
  /\ received = MaxCommands /\ \A t \in Threads : pc[t] = "recv"
  /\ UNCHANGED vars

Next ==
  \/ \E t \in Threads :
       \/ \E k \in AllKinds : Receive(t, k)
       \/ BeginDefault(t) \/ EndDefault(t)
       \/ BeginReply(t) \/ EndReply(t)
       \/ Measure(t) \/ Send(t) \/ SendLiteral(t)
  \/ Finished

Spec == Init /\ [][Next]_vars

-----------------------------------------------------------------------------
(* Type invariant; whoever reads the buffer finds some text in it. *)
TypeOK ==
  /\ resp_buf \in SUBSET Texts
  /\ pc \in [Threads -> {"recv", "start", "default", "literal", "handle",
                         "reply", "strlen", "send"}]
  /\ kind \in [Threads -> AllKinds \cup {"none"}]
  /\ text \in [Threads -> Texts]
  /\ over \in [Threads -> SUBSET Texts]
  /\ length \in [Threads -> Texts \cup {Torn}]
  /\ answer \in [Threads -> Texts \cup {Torn, "none"}]
  /\ received \in Nat
  /\ disturbed \in [Threads -> BOOLEAN]
  /\ recent \in [Threads -> SUBSET Texts]
  /\ resp_buf = {} => \A t \in Threads : pc[t] \in {"recv", "start"}

Answered(t) == pc[t] = "recv" /\ kind[t] # "none"

(***************************************************************************)
(* An exchange is answered with the reply to its own command if no other   *)
(* build has overlapped it between its own build and its send; a PING is   *)
(* answered PONG in any case, its reply not being built in the buffer.     *)
(***************************************************************************)
UndisturbedIsOwn ==
  \A t \in Threads : Answered(t) /\ (~disturbed[t] \/ kind[t] = "ping") =>
    answer[t] = kind[t]

(***************************************************************************)
(* No answer is stale: even in a race, a client is sent a text that was    *)
(* built, in part at least, after its command had been received.  Every    *)
(* command begins by building a 404, which wipes the previous answers.     *)
(***************************************************************************)
AnswersAreRecent ==
  \A t \in Threads : Answered(t) =>
    answer[t] \in recent[t] \cup {Torn} \/ kind[t] = "ping"

(* README.md:24, "Proper synchronization for shared data structures". *)
AnswersAreOwn == \A t \in Threads : Answered(t) => answer[t] = kind[t]
=============================================================================
