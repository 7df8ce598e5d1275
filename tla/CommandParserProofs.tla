------------------------- MODULE CommandParserProofs -------------------------
(***************************************************************************)
(* Proofs about CommandParser, for any number of threads, commands, kinds  *)
(* and arguments.                                                          *)
(***************************************************************************)
EXTENDS CommandParser, ResponseBufferProofs

Positions == [buffer : Threads, next : Nat]

ParserTypeOK ==
  /\ olds \in Positions
  /\ parse \in [Threads -> {"before", "between", "call", "after"}]
  /\ loaded \in [Threads -> Positions]
  /\ args \in [Threads -> Seq(Positions)]
  /\ overlapped \in [Threads -> BOOLEAN]

(* The command of a thread stays the same from its parse to its reply. *)
ParseInControl ==
  \A t \in Threads : parse[t] # "before" => pc[t] \in {"handle", "literal"}

(* So far, the call of an undisturbed thread has its first arguments. *)
Prefix(t) ==
  /\ olds = Position(t, Len(args[t]) + 1)
  /\ Len(args[t]) <= Arity[kind[t]]
  /\ \A n \in 1 .. Len(args[t]) : args[t][n] = Position(t, n)

Undivided ==
  \A t \in Threads : ~overlapped[t] =>
    /\ t \in Parsing => Parsing = {t} /\ Prefix(t)
    /\ parse[t] = "call" => loaded[t] = olds
    /\ parse[t] = "after" => args[t] = Own(t)

PInv == ParserTypeOK /\ ParseInControl /\ Undivided

-----------------------------------------------------------------------------
(* The parser only adds steps of its own to the exchange. *)
LEMMA StepRefines == ParserNext => [Next]_vars
BY DEF ParserNext, Exchange, Tokenize, Begin, Load, Take, Finish, Reply, Next

(* A thread that has just begun is alone exactly if nobody else parses. *)
LEMMA BeginKeeps ==
  ASSUME TypeOK, PInv, NEW t \in Threads, Tokenize(t)
  PROVE  PInv'
<1>1. /\ parse \in [Threads -> {"before", "between", "call", "after"}]
      /\ args \in [Threads -> Seq(Positions)] /\ overlapped \in [Threads -> BOOLEAN]
      /\ kind \in [Threads -> AllKinds \cup {"none"}]
  BY DEF PInv, ParserTypeOK, TypeOK
<1>2. /\ parse' = [parse EXCEPT ![t] = "between"] /\ args' = [args EXCEPT ![t] = <<>>]
      /\ olds' = Position(t, 1) /\ loaded' = loaded /\ UNCHANGED vars
      /\ parse[t] = "before" /\ pc[t] \in {"handle", "literal"}
      /\ overlapped' = [u \in Threads |->
           IF u = t THEN Parsing # {} ELSE overlapped[u] \/ u \in Parsing]
  BY DEF Tokenize, Begin, Parses
<1>3. <<>> \in Seq(Positions) /\ Position(t, 1) \in Positions
  BY DEF Position, Positions
<1>4. ParserTypeOK'
  <2>1. parse' \in [Threads -> {"before", "between", "call", "after"}]
    BY <1>1, <1>2
  <2>2. args' \in [Threads -> Seq(Positions)]
    BY <1>1, <1>2, <1>3
  <2>3. overlapped' \in [Threads -> BOOLEAN]
    BY <1>1, <1>2
  <2> QED
    BY <1>2, <1>3, <2>1, <2>2, <2>3 DEF PInv, ParserTypeOK
<1>5. ParseInControl'
  BY <1>1, <1>2 DEF PInv, ParseInControl, vars
<1>6. Parsing' = Parsing \cup {t}
  BY <1>1, <1>2 DEF Parsing
<1>7. ASSUME NEW u \in Threads, ~overlapped'[u]
      PROVE  /\ u \in Parsing' => Parsing' = {u} /\ Prefix(u)'
             /\ parse'[u] = "call" => loaded'[u] = olds'
             /\ parse'[u] = "after" => args'[u] = Own(u)'
  <2>1. CASE u = t
    <3>1. Parsing = {} /\ parse'[t] = "between" /\ args'[t] = <<>>
      BY <1>1, <1>2, <1>7, <2>1
    <3>2. Len(args'[t]) = 0 /\ Arity[kind'[t]] \in Nat
      BY <1>1, <1>2, <3>1, ArityAssumption, MaxArgsAssumption DEF vars
    <3>3. Prefix(t)'
      BY <1>2, <3>2 DEF Prefix, Position
    <3> QED
      BY <1>6, <2>1, <3>1, <3>3
  <2>2. CASE u # t
    <3>1. ~overlapped[u] /\ u \notin Parsing /\ parse'[u] = parse[u] /\ args'[u] = args[u]
          /\ kind' = kind
      BY <1>1, <1>2, <1>7, <2>2 DEF vars
    <3>2. parse[u] # "call" /\ u \notin Parsing'
      BY <1>6, <2>2, <3>1 DEF Parsing
    <3> QED
      BY <3>1, <3>2 DEF PInv, Undivided, Own
  <2> QED
    BY <2>1, <2>2
<1> QED
  BY <1>4, <1>5, <1>7 DEF PInv, Undivided

(* The calls of a thread that is alone find its arguments one by one. *)
LEMMA CallKeeps ==
  ASSUME TypeOK, PInv, NEW t \in Threads, Load(t) \/ Take(t) \/ Finish(t)
  PROVE  PInv'
<1>1. /\ parse \in [Threads -> {"before", "between", "call", "after"}]
      /\ args \in [Threads -> Seq(Positions)] /\ overlapped \in [Threads -> BOOLEAN]
      /\ loaded \in [Threads -> Positions] /\ olds \in Positions
      /\ kind \in [Threads -> AllKinds \cup {"none"}]
  BY DEF PInv, ParserTypeOK, TypeOK
<1>2. t \in Parsing /\ UNCHANGED <<vars, overlapped>>
  BY DEF Load, Take, Finish, Parsing
<1>3. Arity[kind[t]] \in 0 .. MAX_ARGS /\ MAX_ARGS \in Nat
  BY <1>1, ArityAssumption, MaxArgsAssumption
<1>4. loaded[t] \in Positions /\ loaded[t].next \in Nat /\ loaded[t].buffer \in Threads
      /\ Position(loaded[t].buffer, loaded[t].next + 1) \in Positions
  BY <1>1 DEF Positions, Position
<1>5. ParserTypeOK'
  <2>1. olds' \in Positions
    BY <1>1, <1>4 DEF Load, Take, Finish
  <2>2. parse' \in [Threads -> {"before", "between", "call", "after"}]
    BY <1>1 DEF Load, Take, Finish
  <2>3. loaded' \in [Threads -> Positions]
    BY <1>1 DEF Load, Take, Finish
  <2>4. args' \in [Threads -> Seq(Positions)]
    <3>1. Append(args[t], loaded[t]) \in Seq(Positions)
      BY <1>1, <1>4
    <3> QED
      BY <1>1, <3>1 DEF Load, Take, Finish
  <2> QED
    BY <1>1, <1>2, <2>1, <2>2, <2>3, <2>4 DEF ParserTypeOK
<1>6. ParseInControl'
  BY <1>1, <1>2 DEF PInv, ParseInControl, Load, Take, Finish, Parsing, vars
<1>7. \A u \in Threads : u # t => parse'[u] = parse[u] /\ args'[u] = args[u]
  BY <1>1 DEF Load, Take, Finish
<1>8. Parsing' \subseteq Parsing
  BY <1>1, <1>2, <1>7 DEF Parsing
<1>9. ASSUME NEW u \in Threads, ~overlapped[u], u # t
      PROVE  /\ u \in Parsing' => Parsing' = {u} /\ Prefix(u)'
             /\ parse'[u] = "call" => loaded'[u] = olds'
             /\ parse'[u] = "after" => args'[u] = Own(u)'
  <2>1. u \notin Parsing
    BY <1>2, <1>9 DEF PInv, Undivided
  <2>2. u \notin Parsing' /\ parse'[u] # "call"
    BY <1>7, <1>8, <1>9, <2>1 DEF Parsing
  <2>3. parse'[u] = "after" => args'[u] = Own(u)
    BY <1>7, <1>9 DEF PInv, Undivided
  <2> QED
    BY <1>2, <2>2, <2>3 DEF Own, vars
<1>10. ASSUME ~overlapped[t]
       PROVE  /\ t \in Parsing' => Parsing' = {t} /\ Prefix(t)'
              /\ parse'[t] = "call" => loaded'[t] = olds'
              /\ parse'[t] = "after" => args'[t] = Own(t)'
  <2>1. /\ Parsing = {t} /\ Prefix(t) /\ (parse[t] = "call" => loaded[t] = olds)
        /\ kind' = kind /\ args[t] \in Seq(Positions)
    BY <1>1, <1>2, <1>10 DEF PInv, Undivided, vars
  <2>2. CASE Load(t)
    <3>1. olds' = olds /\ args' = args /\ loaded'[t] = olds /\ parse'[t] = "call"
      BY <1>1, <2>2 DEF Load
    <3>2. Parsing' = {t}
      BY <1>8, <2>1, <3>1 DEF Parsing
    <3> QED
      BY <2>1, <3>1, <3>2 DEF Prefix
  <2>3. CASE Take(t)
    <3>1. /\ loaded[t] = Position(t, Len(args[t]) + 1) /\ Len(args[t]) \in Nat
          /\ Len(args[t]) + 1 <= Arity[kind[t]] /\ parse[t] = "call"
      BY <2>1, <2>3 DEF Take, Prefix, Position
    <3>2. /\ parse'[t] = "between" /\ args'[t] = Append(args[t], Position(t, Len(args[t]) + 1))
          /\ olds' = Position(t, Len(args[t]) + 2)
      BY <1>1, <1>3, <2>3, <3>1 DEF Take, Position
    <3>3. /\ Len(args'[t]) = Len(args[t]) + 1
          /\ \A n \in 1 .. Len(args[t]) : args'[t][n] = args[t][n]
          /\ args'[t][Len(args[t]) + 1] = Position(t, Len(args[t]) + 1)
      BY <2>1, <3>2
    <3>4. \A n \in 1 .. Len(args'[t]) : args'[t][n] = Position(t, n)
      <4>1. \A n \in 1 .. Len(args'[t]) : n \in 1 .. Len(args[t]) \/ n = Len(args[t]) + 1
        BY <3>1, <3>3
      <4> QED
        BY <2>1, <3>3, <4>1 DEF Prefix
    <3>5. Prefix(t)'
      BY <2>1, <3>1, <3>2, <3>3, <3>4 DEF Prefix
    <3>6. Parsing' = {t}
      BY <1>8, <2>1, <3>2 DEF Parsing
    <3> QED
      BY <3>2, <3>5, <3>6
  <2>4. CASE Finish(t)
    <3>1. /\ loaded[t] = Position(t, Len(args[t]) + 1) /\ Len(args[t]) \in Nat
          /\ parse[t] = "call"
      BY <2>1, <2>4 DEF Finish, Prefix
    <3>2. Len(args[t]) = Arity[kind[t]]
      BY <1>3, <2>1, <2>4, <3>1 DEF Finish, Prefix, Position
    <3>3. args[t] = Own(t)
      <4>1. Own(t) \in Seq(Positions) /\ Len(Own(t)) = Len(args[t])
        <5>1. Arity[kind[t]] \in Nat
          BY <1>3
        <5>2. Own(t) \in [1 .. Arity[kind[t]] -> Positions]
          BY DEF Own, Position, Positions
        <5> QED
          BY <3>2, <5>1, <5>2
      <4>2. \A n \in 1 .. Len(args[t]) : args[t][n] = Own(t)[n]
        BY <2>1, <3>2 DEF Own, Prefix
      <4> QED
        BY <2>1, <4>1, <4>2
    <3>4. parse'[t] = "after" /\ args' = args /\ Own(t)' = Own(t)
      BY <1>1, <2>1, <2>4 DEF Finish, Own
    <3> QED
      BY <3>3, <3>4 DEF Parsing
  <2> QED
    BY <2>2, <2>3, <2>4
<1> QED
  BY <1>2, <1>5, <1>6, <1>9, <1>10 DEF PInv, Undivided

(* The reply, and the steps before and after the parse. *)
LEMMA ExchangeKeeps ==
  ASSUME TypeOK, PInv, NEW t \in Threads, Exchange(t) \/ Reply(t)
  PROVE  PInv'
<1>1. /\ parse \in [Threads -> {"before", "between", "call", "after"}]
      /\ kind \in [Threads -> AllKinds \cup {"none"}]
      /\ pc \in [Threads -> {"recv", "start", "default", "literal", "handle",
                             "reply", "strlen", "send"}]
  BY DEF PInv, ParserTypeOK, TypeOK
<1>2. UNCHANGED <<olds, loaded, args, overlapped>>
  BY DEF Exchange, Reply, parser
<1>3. parse'[t] = "before" /\ \A u \in Threads : u # t => parse'[u] = parse[u]
  BY <1>1 DEF Exchange, Reply, parser, PInv, ParseInControl, Receive, BeginDefault,
     EndDefault, EndReply, Measure, Send
<1>4. \A u \in Threads : u # t => pc'[u] = pc[u] /\ kind'[u] = kind[u]
  BY <1>1 DEF Exchange, Reply, Receive, BeginDefault, EndDefault, BeginReply, EndReply,
     Measure, Send, SendLiteral, Goto
<1>5. parse' \in [Threads -> {"before", "between", "call", "after"}]
  BY <1>1 DEF Exchange, Reply, parser
<1>6. Parsing' = Parsing \ {t}
  BY <1>1, <1>3, <1>5 DEF Parsing
<1>7. ParserTypeOK' /\ ParseInControl'
  BY <1>2, <1>3, <1>4, <1>5 DEF PInv, ParserTypeOK, ParseInControl
<1>8. ASSUME NEW u \in Threads, ~overlapped[u], u # t
      PROVE  /\ u \in Parsing' => Parsing' = {u} /\ Prefix(u)'
             /\ parse'[u] = "call" => loaded'[u] = olds'
             /\ parse'[u] = "after" => args'[u] = Own(u)'
  <2>1. u \in Parsing' => Parsing = {u} /\ Parsing' = {u} /\ Prefix(u)
    BY <1>6, <1>8 DEF PInv, Undivided
  <2>2. parse[u] = "call" => loaded[u] = olds
    BY <1>8 DEF PInv, Undivided
  <2>3. parse[u] = "after" => args[u] = Own(u)
    BY <1>8 DEF PInv, Undivided
  <2> QED
    BY <1>2, <1>3, <1>4, <1>8, <2>1, <2>2, <2>3 DEF Prefix, Own
<1>9. t \notin Parsing' /\ parse'[t] \notin {"call", "after"}
  BY <1>3, <1>6
<1> QED
  BY <1>2, <1>7, <1>8, <1>9 DEF PInv, Undivided

(***************************************************************************)
(* Parsing only lengthens an exchange: what is proved of the buffer of     *)
(* replies holds with it (protocol.c, server.c).                           *)
(***************************************************************************)
THEOREM ParserRefinesBuffer == ParserSpec => Spec
<1>1. ParserInit => Init
  BY DEF ParserInit
<1>2. [ParserNext]_allVars => [Next]_vars
  BY StepRefines DEF allVars
<1> QED
  BY <1>1, <1>2, PTL DEF ParserSpec, Spec

LEMMA ParserInvariant == ParserSpec => [](TypeOK /\ PInv)
<1>1. ParserInit => PInv
  <2>1. ParserInit => ParserTypeOK
    <3>1. <<>> \in Seq(Positions)
      OBVIOUS
    <3>2. \A t \in Threads : Position(t, 1) \in Positions
      BY DEF Position, Positions
    <3> QED
      BY <3>1, <3>2 DEF ParserInit, ParserTypeOK
  <2>2. ParserInit => ParseInControl /\ Undivided
    BY DEF ParserInit, ParseInControl, Undivided, Parsing
  <2> QED
    BY <2>1, <2>2 DEF PInv
<1>2. TypeOK /\ PInv /\ [ParserNext]_allVars => PInv'
  <2>1. TypeOK /\ PInv /\ UNCHANGED allVars => PInv'
    BY DEF PInv, ParserTypeOK, ParseInControl, Undivided, Prefix, Parsing, Own, allVars,
       parser, vars
  <2>2. Finished /\ UNCHANGED parser => UNCHANGED allVars
    BY DEF Finished, allVars
  <2> QED
    BY <2>1, <2>2, BeginKeeps, CallKeeps, ExchangeKeeps DEF ParserNext
<1> QED
  BY <1>1, <1>2, ParserRefinesBuffer, TypeCorrect, PTL DEF ParserSpec

(***************************************************************************)
(* A command parsed alone has its own arguments (protocol.c,               *)
(* protocol_parse), whatever mixed-up parses have gone before.             *)
(***************************************************************************)
THEOREM ParsedAlone == ParserSpec => []AloneIsOwn
<1>1. PInv => AloneIsOwn
  BY DEF PInv, Undivided, AloneIsOwn
<1> QED
  BY <1>1, ParserInvariant, PTL
=============================================================================
