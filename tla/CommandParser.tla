--------------------------- MODULE CommandParser ---------------------------
(***************************************************************************)
(* protocol_parse of server/src/protocol.c, between the 404 that           *)
(* handle_client builds first and the reply that it builds last (the       *)
(* extended module).  strtok keeps its position in a static variable: all  *)
(* threads share it, and take from it, token by token, whatever it points  *)
(* to.                                                                     *)
(*                                                                         *)
(* A call strtok(NULL, " ") loads the position and stores the next one.    *)
(* A position is a thread, in whose raw_buffer it is, and the number of an *)
(* argument of the command there.  In a foreign buffer, which its owner    *)
(* may be overwriting, the call finds an argument or the end, either way.  *)
(*                                                                         *)
(* Not part of the specification: TokenizeOnwards.  It is a faulty variant *)
(* of the definition that follows it.                                      *)
(***************************************************************************)
EXTENDS ResponseBuffer, Sequences

CONSTANTS
  Arity,     \* per kind of command, how many arguments its clients send
  MAX_ARGS   \* 8 in protocol.h

ASSUME ArityAssumption == Arity \in [AllKinds \cup {"none"} -> 0 .. MAX_ARGS]
ASSUME MaxArgsAssumption == MAX_ARGS \in Nat

VARIABLES
  olds,        \* strtok's position
  parse,       \* where a thread is: before, between calls, in a call, after
  loaded,      \* the position that its call has loaded
  args,        \* msg->args: where each argument has been found
  overlapped   \* history: another thread has parsed during its parse

parser == <<olds, parse, loaded, args, overlapped>>
allVars == <<vars, parser>>

-----------------------------------------------------------------------------
Position(t, n) == [buffer |-> t, next |-> n]

Own(t) == [n \in 1 .. Arity[kind[t]] |-> Position(t, n)]

Parsing == {t \in Threads : parse[t] \in {"between", "call"}}

ParserInit ==
  /\ Init
  /\ \E t \in Threads : olds = Position(t, 1)
  /\ parse = [t \in Threads |-> "before"]
  /\ loaded = [t \in Threads |-> olds]
  /\ args = [t \in Threads |-> <<>>]
  /\ overlapped = [t \in Threads |-> FALSE]

(* The 404 has been built: protocol_parse is next. *)
Parses(t) == pc[t] \in {"handle", "literal"} /\ parse[t] = "before"

Begin(t) ==
  /\ parse' = [parse EXCEPT ![t] = "between"]
  /\ args' = [args EXCEPT ![t] = <<>>]
  /\ overlapped' = [u \in Threads |->
       IF u = t THEN Parsing # {} ELSE overlapped[u] \/ u \in Parsing]
  /\ UNCHANGED <<vars, loaded>>

TokenizeOnwards(t) == Parses(t) /\ Begin(t) /\ UNCHANGED olds

(* strtok(msg->raw_buffer, " ") finds the name of the command. *)
Tokenize(t) == Parses(t) /\ Begin(t) /\ olds' = Position(t, 1)

(* strtok(NULL, " "), up to its load. *)
Load(t) ==
  /\ parse[t] = "between"
  /\ loaded' = [loaded EXCEPT ![t] = olds]
  /\ parse' = [parse EXCEPT ![t] = "call"]
  /\ UNCHANGED <<vars, olds, args, overlapped>>

(* It returns a token; one more than MAX_ARGS is not kept and is the last. *)
Take(t) ==
  LET p == loaded[t]
  IN  /\ parse[t] = "call" /\ p.next <= Arity[kind[p.buffer]]
      /\ olds' = Position(p.buffer, p.next + 1)
      /\ IF Len(args[t]) < MAX_ARGS
         THEN args' = [args EXCEPT ![t] = Append(@, p)]
              /\ parse' = [parse EXCEPT ![t] = "between"]
         ELSE UNCHANGED args /\ parse' = [parse EXCEPT ![t] = "after"]
      /\ UNCHANGED <<vars, loaded, overlapped>>

(* It returns NULL. *)
Finish(t) ==
  LET p == loaded[t]
  IN  /\ parse[t] = "call" /\ (p.buffer # t \/ p.next > Arity[kind[t]])
      /\ olds' = p
      /\ parse' = [parse EXCEPT ![t] = "after"]
      /\ UNCHANGED <<vars, loaded, args, overlapped>>

(* The reply, after the parse. *)
Reply(t) ==
  /\ parse[t] = "after" /\ (BeginReply(t) \/ SendLiteral(t))
  /\ parse' = [parse EXCEPT ![t] = "before"]
  /\ UNCHANGED <<olds, loaded, args, overlapped>>

(* The steps of ResponseBuffer before and after. *)
Exchange(t) ==
  /\ \/ \E k \in AllKinds : Receive(t, k)
     \/ BeginDefault(t) \/ EndDefault(t) \/ EndReply(t) \/ Measure(t) \/ Send(t)
  /\ UNCHANGED parser

ParserNext ==
  \/ \E t \in Threads :
       Exchange(t) \/ Tokenize(t) \/ Load(t) \/ Take(t) \/ Finish(t) \/ Reply(t)
  \/ Finished /\ UNCHANGED parser

ParserSpec == ParserInit /\ [][ParserNext]_allVars

-----------------------------------------------------------------------------
(***************************************************************************)
(* A command that no other thread parses at the same time has its own      *)
(* arguments, all of them and in order, wherever earlier parses, whole or  *)
(* mixed up, have left strtok's position.                                  *)
(***************************************************************************)
AloneIsOwn ==
  \A t \in Threads : parse[t] = "after" /\ ~overlapped[t] => args[t] = Own(t)
=============================================================================
