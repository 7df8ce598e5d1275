----------------------- MODULE ResponseBufferProofs ------------------------
(***************************************************************************)
(* Proofs about ResponseBuffer, for every set of threads and of kinds of   *)
(* commands and every number of commands.                                  *)
(***************************************************************************)
EXTENDS ResponseBuffer, FiniteSetTheorems, TLAPS

(* A thread that handles a command knows which; the 404 is built first.    *)
Control ==
  /\ \A t \in Threads : pc[t] # "recv" => kind[t] \in AllKinds
  /\ \A t \in Threads : pc[t] \in {"handle", "reply", "strlen", "send"} => kind[t] # "ping"
  /\ \A t \in Threads : pc[t] = "literal" => kind[t] = "ping"
  /\ \A t \in Threads : pc[t] = "reply" => text[t] = kind[t]

(* What overlapping builds have left in the buffer. *)
Overlaps ==
  \A t \in Writing :
    /\ text[t] \in resp_buf /\ over[t] \subseteq resp_buf
    /\ \A u \in Writing : u # t => text[u] \in over[t]

(* A reply that nothing has disturbed is alone in the buffer. *)
Alone ==
  \A t \in Threads : ~disturbed[t] =>
    /\ pc[t] = "reply" => over[t] = {} /\ Writing = {t}
    /\ pc[t] \in {"strlen", "send"} => resp_buf = {kind[t]} /\ Writing = {}
    /\ pc[t] = "send" => length[t] = kind[t]

(* What a thread may still come to send was built since its recv(). *)
Fresh ==
  \A t \in Threads :
    /\ pc[t] = "start" => \A u \in Writing : text[u] \in recent[t]
    /\ pc[t] = "default" => text[t] \in recent[t] /\ over[t] \subseteq recent[t]
    /\ pc[t] \in {"handle", "reply", "strlen", "send"} => resp_buf \subseteq recent[t]

(* Received and answered; so far the two properties hold. *)
Answers == UndisturbedIsOwn /\ AnswersAreRecent

Labels == {"recv", "start", "default", "literal", "handle", "reply", "strlen", "send"}

-----------------------------------------------------------------------------
(* The steps, by what they do to the buffer.                               *)
Begins(t, new, label) ==
  /\ \/ pc[t] = "start" /\ new = NotFound /\ label = "default"
     \/ pc[t] = "handle" /\ new = kind[t] /\ label = "reply"
  /\ BeginWrite(t, new) /\ Goto(t, label)
  /\ UNCHANGED <<kind, length, answer, received>>

Ends(t, label) ==
  /\ \/ /\ pc[t] = "default"
        /\ label = IF kind[t] = "ping" THEN "literal" ELSE "handle"
     \/ pc[t] = "reply" /\ label = "strlen"
  /\ EndWrite(t) /\ Goto(t, label)
  /\ UNCHANGED <<kind, length, answer, received>>

(* A step receives, begins a build, ends one, or leaves the buffer alone. *)
LEMMA StepKinds ==
  ASSUME [Next]_vars
  PROVE  \/ \E t \in Threads, k \in AllKinds : Receive(t, k)
         \/ \E t \in Threads : \E new, label : Begins(t, new, label)
         \/ \E t \in Threads : \E label : Ends(t, label)
         \/ \E t \in Threads : Measure(t) \/ Send(t) \/ SendLiteral(t)
         \/ UNCHANGED vars
<1>1. \A t \in Threads : BeginDefault(t) => Begins(t, NotFound, "default")
  BY DEF BeginDefault, Begins
<1>2. \A t \in Threads : BeginReply(t) => Begins(t, kind[t], "reply")
  BY DEF BeginReply, Begins
<1>3. \A t \in Threads :
        EndDefault(t) => Ends(t, IF kind[t] = "ping" THEN "literal" ELSE "handle")
  BY DEF EndDefault, Ends
<1>4. \A t \in Threads : EndReply(t) => Ends(t, "strlen")
  BY DEF EndReply, Ends
<1>5. Finished => UNCHANGED vars
  BY DEF Finished
<1>. QED
  BY <1>1, <1>2, <1>3, <1>4, <1>5 DEF Next

-----------------------------------------------------------------------------
(* The invariant holds before the first command. *)
LEMMA InitialState ==
  ASSUME Init
  PROVE  TypeOK /\ Control /\ Overlaps /\ Alone /\ Fresh /\ Answers
<1>1. TypeOK
  BY DEF Init, TypeOK, Texts, NotFound, AllKinds, Torn
<1>2. Control /\ Overlaps /\ Alone /\ Fresh /\ Answers
  BY DEF Init, Control, Overlaps, Alone, Fresh, Answers, UndisturbedIsOwn,
         AnswersAreRecent, Answered, Writing
<1>. QED
  BY <1>1, <1>2

(* The first byte of a build. *)
LEMMA BeginKeepsType ==
  ASSUME TypeOK, Control, NEW t \in Threads, NEW new, NEW label, Begins(t, new, label)
  PROVE  TypeOK'
<1>1. new \in Texts /\ label \in Labels
  BY DEF Begins, Control, Texts, NotFound, AllKinds, Labels
<1>2. resp_buf' = resp_buf \cup {new} /\ resp_buf' # {} /\ resp_buf' \in SUBSET Texts
  BY <1>1 DEF Begins, BeginWrite, TypeOK
<1>3. text' \in [Threads -> Texts] /\ pc' \in [Threads -> Labels]
  BY <1>1 DEF Begins, BeginWrite, Goto, TypeOK, Labels
<1>4. over' \in [Threads -> SUBSET Texts]
  <2>1. {text[v] : v \in Writing} \in SUBSET Texts
    BY DEF Writing, TypeOK
  <2>2. \A u \in Threads : over[u] \cup {new} \in SUBSET Texts
    BY <1>1 DEF TypeOK
  <2>. QED
    BY <2>1, <2>2 DEF Begins, BeginWrite, TypeOK
<1>5. recent' \in [Threads -> SUBSET Texts]
  <2>1. \A u \in Threads : recent[u] \cup {new} \in SUBSET Texts
    BY <1>1 DEF TypeOK
  <2>. QED
    BY <2>1 DEF Begins, BeginWrite, TypeOK
<1>6. disturbed' \in [Threads -> BOOLEAN]
  BY Zenon DEF Begins, BeginWrite, TypeOK
<1>. QED
  BY <1>2, <1>3, <1>4, <1>5, <1>6 DEF Begins, TypeOK, Labels

(* The last byte of a build. *)
LEMMA EndKeepsType ==
  ASSUME TypeOK, Control, NEW t \in Threads, NEW label, Ends(t, label)
  PROVE  TypeOK'
<1>1. label \in Labels
  BY DEF Ends, Labels
<1>2. resp_buf' = {text[t]} \cup over[t] /\ resp_buf' # {} /\ resp_buf' \in SUBSET Texts
  BY DEF Ends, EndWrite, TypeOK
<1>3. pc' \in [Threads -> Labels]
  BY <1>1 DEF Ends, Goto, TypeOK, Labels
<1>4. over' \in [Threads -> SUBSET Texts]
  BY DEF Ends, EndWrite, TypeOK
<1>. QED
  BY <1>2, <1>3, <1>4 DEF Ends, EndWrite, history, TypeOK, Labels

(* A read returns a text or a mixture. *)
LEMMA ReadableType ==
  ASSUME TypeOK
  PROVE  Readable \subseteq Texts \cup {Torn}
BY DEF Readable, TypeOK

(* strlen, send() and the literal. *)
LEMMA QuietKeepsType ==
  ASSUME TypeOK, Control, NEW t \in Threads, Measure(t) \/ Send(t) \/ SendLiteral(t)
  PROVE  TypeOK'
<1>1. CASE Measure(t)
  <2>1. length' \in [Threads -> Texts \cup {Torn}]
    BY <1>1, ReadableType DEF Measure, TypeOK
  <2>2. pc' \in [Threads -> Labels] /\ resp_buf # {}
    BY <1>1 DEF Measure, Goto, TypeOK, Labels
  <2>. QED
    BY <1>1, <2>1, <2>2 DEF Measure, buffer, history, TypeOK, Labels
<1>2. CASE Send(t)
  <2>1. answer' \in [Threads -> Texts \cup {Torn, "none"}]
    BY <1>2, ReadableType DEF Send, TypeOK
  <2>2. pc' \in [Threads -> Labels] /\ resp_buf # {}
    BY <1>2 DEF Send, Goto, TypeOK, Labels
  <2>. QED
    BY <1>2, <2>1, <2>2 DEF Send, buffer, history, TypeOK, Labels
<1>3. CASE SendLiteral(t)
  <2>1. answer' \in [Threads -> Texts \cup {Torn, "none"}]
    BY <1>3 DEF SendLiteral, TypeOK, Texts, AllKinds
  <2>2. pc' \in [Threads -> Labels] /\ resp_buf # {}
    BY <1>3 DEF SendLiteral, Goto, TypeOK, Labels
  <2>. QED
    BY <1>3, <2>1, <2>2 DEF SendLiteral, buffer, history, TypeOK, Labels
<1>. QED
  BY <1>1, <1>2, <1>3

(* A new command. *)
LEMMA ReceiveKeepsType ==
  ASSUME TypeOK, Control, NEW t \in Threads, NEW k \in AllKinds, Receive(t, k)
  PROVE  TypeOK'
<1>1. /\ received' \in Nat /\ kind' \in [Threads -> AllKinds \cup {"none"}]
      /\ pc' \in [Threads -> Labels]
  BY DEF Receive, Goto, TypeOK, Labels
<1>2. recent' \in [Threads -> SUBSET Texts]
  <2>1. {text[v] : v \in Writing} \in SUBSET Texts
    BY DEF Writing, TypeOK
  <2>. QED
    BY <2>1 DEF Receive, TypeOK
<1>3. resp_buf' = {} => \A u \in Threads : pc'[u] \in {"recv", "start"}
  BY DEF Receive, Goto, TypeOK, buffer
<1>. QED
  BY <1>1, <1>2, <1>3 DEF Receive, TypeOK, Labels, buffer

-----------------------------------------------------------------------------
(* What each kind of step does, variable by variable. *)
LEMMA BeginFacts ==
  ASSUME TypeOK, NEW t \in Threads, NEW new, NEW label, Begins(t, new, label)
  PROVE  /\ pc[t] \in {"start", "handle"} /\ label \in {"default", "reply"}
         /\ t \notin Writing /\ Writing' = Writing \cup {t}
         /\ pc'[t] = label /\ \A u \in Threads : u # t => pc'[u] = pc[u]
         /\ text'[t] = new /\ \A u \in Threads : u # t => text'[u] = text[u]
         /\ resp_buf' = resp_buf \cup {new}
         /\ over'[t] = {text[v] : v \in Writing}
         /\ \A u \in Threads : u # t =>
              over'[u] = IF u \in Writing THEN over[u] \cup {new} ELSE over[u]
         /\ \A u \in Threads :
              recent'[u] = IF pc[u] # "recv" THEN recent[u] \cup {new} ELSE recent[u]
         /\ disturbed'[t] = (Writing # {})
         /\ \A u \in Threads : u # t => disturbed'[u] = (disturbed[u] \/ Holding(u))
         /\ UNCHANGED <<kind, length, answer>>
<1>1. pc[t] \in {"start", "handle"} /\ label \in {"default", "reply"}
  BY DEF Begins
<1>2. pc'[t] = label /\ \A u \in Threads : u # t => pc'[u] = pc[u]
  BY DEF Begins, Goto, TypeOK
<1>3. t \notin Writing /\ Writing' = Writing \cup {t}
  BY <1>1, <1>2 DEF Writing
<1>4. /\ text'[t] = new /\ \A u \in Threads : u # t => text'[u] = text[u]
      /\ resp_buf' = resp_buf \cup {new}
  BY DEF Begins, BeginWrite, TypeOK
<1>5. /\ over'[t] = {text[v] : v \in Writing}
      /\ \A u \in Threads : u # t =>
           over'[u] = IF u \in Writing THEN over[u] \cup {new} ELSE over[u]
  BY DEF Begins, BeginWrite
<1>6. \A u \in Threads :
        recent'[u] = IF pc[u] # "recv" THEN recent[u] \cup {new} ELSE recent[u]
  BY DEF Begins, BeginWrite
<1>7. /\ disturbed'[t] = (Writing # {})
      /\ \A u \in Threads : u # t => disturbed'[u] = (disturbed[u] \/ Holding(u))
  BY Zenon DEF Begins, BeginWrite
<1>8. UNCHANGED <<kind, length, answer>>
  BY DEF Begins
<1>. QED
  BY <1>1, <1>2, <1>3, <1>4, <1>5, <1>6, <1>7, <1>8

(* What the end of a build leaves in the buffer, and for whom. *)
LEMMA EndFacts ==
  ASSUME TypeOK, NEW t \in Threads, NEW label, Ends(t, label)
  PROVE  /\ pc[t] \in {"default", "reply"} /\ t \in Writing /\ Writing' = Writing \ {t}
         /\ label \in {"literal", "handle", "strlen"}
         /\ pc'[t] = label /\ \A u \in Threads : u # t => pc'[u] = pc[u]
         /\ resp_buf' = {text[t]} \cup over[t]
         /\ \A u \in Threads : over'[u] = over[u] \cap resp_buf'
         /\ UNCHANGED <<text, kind, length, answer, disturbed, recent>>
<1>1. pc[t] \in {"default", "reply"} /\ label \in {"literal", "handle", "strlen"}
  BY DEF Ends
<1>2. pc'[t] = label /\ \A u \in Threads : u # t => pc'[u] = pc[u]
  BY DEF Ends, Goto, TypeOK
<1>3. t \in Writing /\ Writing' = Writing \ {t}
  BY <1>1, <1>2 DEF Writing
<1>. QED
  BY <1>1, <1>2, <1>3 DEF Ends, EndWrite, history

(* What strlen, send() and the literal change. *)
LEMMA QuietFacts ==
  ASSUME TypeOK, NEW t \in Threads,
         Measure(t) \/ Send(t) \/ SendLiteral(t) \/ \E k \in AllKinds : Receive(t, k)
  PROVE  /\ t \notin Writing /\ Writing' = Writing
         /\ \A u \in Threads : u # t => pc'[u] = pc[u]
         /\ UNCHANGED <<resp_buf, over, text, disturbed>>
<1>1. /\ pc[t] \in {"strlen", "send", "literal", "recv"}
      /\ pc'[t] \in {"send", "recv", "start"}
      /\ \A u \in Threads : u # t => pc'[u] = pc[u]
  BY DEF Measure, Send, SendLiteral, Receive, Goto, TypeOK
<1>2. t \notin Writing /\ Writing' = Writing
  BY <1>1 DEF Writing
<1>. QED
  BY <1>1, <1>2 DEF Measure, Send, SendLiteral, Receive, buffer, history

-----------------------------------------------------------------------------
(* A thread builds what its command asks for. *)
LEMMA ControlInductive ==
  ASSUME TypeOK, Control, [Next]_vars
  PROVE  TypeOK' /\ Control'
<1>1. ASSUME NEW t \in Threads, NEW k \in AllKinds, Receive(t, k) PROVE TypeOK' /\ Control'
  <2>1. Control'
    BY <1>1 DEF Receive, Goto, TypeOK, Control
  <2>. QED
    BY <1>1, <2>1, ReceiveKeepsType
<1>2. ASSUME NEW t \in Threads, NEW new, NEW label, Begins(t, new, label)
      PROVE  TypeOK' /\ Control'
  <2>1. Control'
    BY <1>2 DEF Begins, BeginWrite, Goto, TypeOK, Control
  <2>. QED
    BY <1>2, <2>1, BeginKeepsType
<1>3. ASSUME NEW t \in Threads, NEW label, Ends(t, label) PROVE TypeOK' /\ Control'
  <2>1. Control'
    BY <1>3 DEF Ends, EndWrite, Goto, TypeOK, Control
  <2>. QED
    BY <1>3, <2>1, EndKeepsType
<1>4. ASSUME NEW t \in Threads, Measure(t) \/ Send(t) \/ SendLiteral(t)
      PROVE  TypeOK' /\ Control'
  <2>1. Control'
    BY <1>4 DEF Measure, Send, SendLiteral, Goto, TypeOK, Control
  <2>. QED
    BY <1>4, <2>1, QuietKeepsType
<1>5. ASSUME UNCHANGED vars PROVE TypeOK' /\ Control'
  <2>1. TypeOK'
    BY <1>5 DEF vars, buffer, history, TypeOK
  <2>2. Control'
    BY <1>5 DEF vars, buffer, history, Control
  <2>. QED
    BY <2>1, <2>2
<1>. QED
  BY <1>1, <1>2, <1>3, <1>4, <1>5, StepKinds

(* Builds that overlap know of each other. *)
LEMMA OverlapsInductive ==
  ASSUME TypeOK, Overlaps, [Next]_vars
  PROVE  Overlaps'
<1>1. ASSUME NEW t \in Threads,
             Measure(t) \/ Send(t) \/ SendLiteral(t) \/ \E k \in AllKinds : Receive(t, k)
      PROVE  Overlaps'
  BY <1>1, QuietFacts DEF Overlaps
<1>2. ASSUME NEW t \in Threads, NEW new, NEW label, Begins(t, new, label)
      PROVE  Overlaps'
  <2>1. Writing \subseteq Threads
    BY DEF Writing
  <2>2. ASSUME NEW u \in Writing'
        PROVE  /\ text'[u] \in resp_buf' /\ over'[u] \subseteq resp_buf'
               /\ \A v \in Writing' : v # u => text'[v] \in over'[u]
    <3>1. CASE u = t
      <4>1. over'[t] = {text[v] : v \in Writing} /\ text'[t] = new
        BY <1>2, BeginFacts
      <4>2. \A v \in Writing' : v # t => v \in Writing /\ text'[v] = text[v]
        BY <1>2, <2>1, BeginFacts
      <4>3. resp_buf' = resp_buf \cup {new}
        BY <1>2, BeginFacts
      <4>. QED
        BY <3>1, <4>1, <4>2, <4>3 DEF Overlaps
    <3>2. CASE u # t
      <4>1. /\ u \in Writing /\ text'[u] = text[u] /\ over'[u] = over[u] \cup {new}
            /\ resp_buf' = resp_buf \cup {new}
        <5>1. u \in Writing /\ text'[u] = text[u]
          BY <1>2, <2>1, <3>2, BeginFacts
        <5>2. over'[u] = IF u \in Writing THEN over[u] \cup {new} ELSE over[u]
          BY <1>2, <2>1, <3>2, <5>1, BeginFacts, ZenonT(60)
        <5>3. resp_buf' = resp_buf \cup {new}
          BY <1>2, BeginFacts
        <5>. QED
          BY <5>1, <5>2, <5>3
      <4>2. \A v \in Writing' : text'[v] = new \/ (v \in Writing /\ text'[v] = text[v])
        BY <1>2, <2>1, BeginFacts
      <4>. QED
        BY <4>1, <4>2 DEF Overlaps
    <3>. QED
      BY <3>1, <3>2
  <2>. QED
    BY <2>2 DEF Overlaps
<1>3. ASSUME NEW t \in Threads, NEW label, Ends(t, label) PROVE Overlaps'
  <2>1. Writing \subseteq Threads
    BY DEF Writing
  <2>2. ASSUME NEW u \in Writing'
        PROVE  /\ text'[u] \in resp_buf' /\ over'[u] \subseteq resp_buf'
               /\ \A v \in Writing' : v # u => text'[v] \in over'[u]
    BY <1>3, <2>1, EndFacts DEF Overlaps
  <2>. QED
    BY <2>2 DEF Overlaps
<1>4. ASSUME UNCHANGED vars PROVE Overlaps'
  BY <1>4 DEF vars, buffer, Overlaps, Writing
<1>. QED
  BY <1>1, <1>2, <1>3, <1>4, StepKinds

(* Nothing older than a command is left when it comes to read. *)
LEMMA FreshInductive ==
  ASSUME TypeOK, Overlaps, Fresh, [Next]_vars
  PROVE  Fresh'
<1> DEFINE F(u) ==
      /\ pc[u] = "start" => \A v \in Writing : text[v] \in recent[u]
      /\ pc[u] = "default" => text[u] \in recent[u] /\ over[u] \subseteq recent[u]
      /\ pc[u] \in {"handle", "reply", "strlen", "send"} => resp_buf \subseteq recent[u]
<1>0. Writing \subseteq Threads
  BY DEF Writing
<1>1. ASSUME NEW t \in Threads, NEW k \in AllKinds, Receive(t, k) PROVE Fresh'
  <2>1. /\ pc'[t] = "start" /\ recent'[t] = {text[v] : v \in Writing}
        /\ \A u \in Threads : u # t => recent'[u] = recent[u]
    BY <1>1 DEF Receive, Goto, TypeOK
  <2>. QED
    BY <1>1, <2>1, QuietFacts DEF Fresh
<1>2. ASSUME NEW t \in Threads, Measure(t) \/ Send(t) \/ SendLiteral(t) PROVE Fresh'
  <2>1. /\ pc[t] \in {"strlen", "send", "literal"}
        /\ pc'[t] = "recv" \/ (pc[t] = "strlen" /\ pc'[t] = "send")
        /\ recent' = recent
    BY <1>2 DEF Measure, Send, SendLiteral, Goto, TypeOK, history
  <2>. QED
    BY <1>2, <2>1, QuietFacts DEF Fresh
<1>3. ASSUME NEW t \in Threads, NEW new, NEW label, Begins(t, new, label) PROVE Fresh'
  <2>1. ASSUME NEW u \in Threads PROVE F(u)'
    <3>1. CASE u = t
      <4>1. recent'[t] = recent[t] \cup {new}
        BY <1>3, BeginFacts
      <4>2. CASE pc[t] = "start"
        <5>1. pc'[t] = "default"
          BY <1>3, <4>2 DEF Begins, Goto, TypeOK
        <5>. QED
          BY <1>3, <3>1, <4>1, <4>2, <5>1, BeginFacts DEF Fresh
      <4>3. CASE pc[t] = "handle"
        <5>1. pc'[t] = "reply"
          BY <1>3, <4>3 DEF Begins, Goto, TypeOK
        <5>. QED
          BY <1>3, <3>1, <4>1, <4>3, <5>1, BeginFacts DEF Fresh
      <4>. QED
        BY <1>3, <4>2, <4>3, BeginFacts
    <3>2. CASE u # t
      <4>1. /\ pc'[u] = pc[u] /\ text'[u] = text[u]
            /\ pc[u] # "recv" => recent'[u] = recent[u] \cup {new}
            /\ over'[u] = IF u \in Writing THEN over[u] \cup {new} ELSE over[u]
        <5>1. pc'[u] = pc[u] /\ text'[u] = text[u]
          BY <1>3, <3>2, BeginFacts
        <5>2. pc[u] # "recv" => recent'[u] = recent[u] \cup {new}
          BY <1>3, <3>2, BeginFacts
        <5>3. over'[u] = IF u \in Writing THEN over[u] \cup {new} ELSE over[u]
          BY <1>3, <3>2, BeginFacts
        <5>. QED
          BY <5>1, <5>2, <5>3
      <4>2. \A v \in Writing' : text'[v] = new \/ (v \in Writing /\ text'[v] = text[v])
        BY <1>0, <1>3, BeginFacts
      <4>3. resp_buf' = resp_buf \cup {new}
        BY <1>3, BeginFacts
      <4>. QED
        BY <4>1, <4>2, <4>3 DEF Fresh
    <3>. QED
      BY <3>1, <3>2
  <2>. QED
    BY <2>1 DEF Fresh
<1>4. ASSUME NEW t \in Threads, NEW label, Ends(t, label) PROVE Fresh'
  <2>1. resp_buf' \subseteq resp_buf
    BY <1>4, EndFacts DEF Overlaps
  <2>2. ASSUME NEW u \in Threads PROVE F(u)'
    <3>1. CASE u = t
      BY <1>4, <2>1, <3>1, EndFacts DEF Fresh
    <3>2. CASE u # t
      BY <1>4, <2>1, <3>2, EndFacts DEF Fresh
    <3>. QED
      BY <3>1, <3>2
  <2>. QED
    BY <2>2 DEF Fresh
<1>5. ASSUME UNCHANGED vars PROVE Fresh'
  BY <1>5 DEF vars, buffer, history, Fresh, Writing
<1>. QED
  BY <1>1, <1>2, <1>3, <1>4, <1>5, StepKinds

(* An undisturbed reply stays alone in the buffer until it is sent. *)
LEMMA AloneInductive ==
  ASSUME TypeOK, Control, Alone, [Next]_vars
  PROVE  Alone'
<1> DEFINE A(u) == ~disturbed[u] =>
      /\ pc[u] = "reply" => over[u] = {} /\ Writing = {u}
      /\ pc[u] \in {"strlen", "send"} => resp_buf = {kind[u]} /\ Writing = {}
      /\ pc[u] = "send" => length[u] = kind[u]
<1>0. Writing \subseteq Threads
  BY DEF Writing
<1>1. ASSUME NEW t \in Threads, NEW k \in AllKinds, Receive(t, k) PROVE Alone'
  <2>1. /\ pc'[t] = "start" /\ \A u \in Threads : u # t => kind'[u] = kind[u]
        /\ length' = length
    BY <1>1 DEF Receive, Goto, TypeOK
  <2>. QED
    BY <1>1, <2>1, QuietFacts DEF Alone
<1>2. ASSUME NEW t \in Threads, Measure(t) PROVE Alone'
  <2>1. /\ pc[t] = "strlen" /\ pc'[t] = "send" /\ kind' = kind
        /\ \E seen \in Readable : length'[t] = seen
        /\ \A u \in Threads : u # t => length'[u] = length[u]
    BY <1>2 DEF Measure, Goto, TypeOK
  <2>2. ~disturbed[t] => length'[t] = kind[t]
    <3>1. ~disturbed[t] => resp_buf = {kind[t]}
      BY <2>1 DEF Alone
    <3>2. Cardinality({kind[t]}) = 1
      BY FS_Singleton
    <3>3. ~disturbed[t] => Readable = {kind[t]}
      BY <3>1, <3>2 DEF Readable
    <3>. QED
      BY <2>1, <3>3
  <2>. QED
    BY <1>2, <2>1, <2>2, QuietFacts DEF Alone
<1>3. ASSUME NEW t \in Threads, Send(t) \/ SendLiteral(t) PROVE Alone'
  <2>1. pc'[t] = "recv" /\ kind' = kind /\ length' = length
    BY <1>3 DEF Send, SendLiteral, Goto, TypeOK
  <2>. QED
    BY <1>3, <2>1, QuietFacts DEF Alone
<1>4. ASSUME NEW t \in Threads, NEW new, NEW label, Begins(t, new, label) PROVE Alone'
  <2>1. ASSUME NEW u \in Threads PROVE A(u)'
    <3>1. CASE u = t
      <4>1. CASE Writing = {}
        <5>1. over'[t] = {} /\ Writing' = {t} /\ pc'[t] \notin {"strlen", "send"}
          BY <1>4, <4>1, BeginFacts
        <5>. QED
          BY <3>1, <5>1
      <4>2. CASE Writing # {}
        <5>1. disturbed'[t]
          BY <1>4, <4>2, BeginFacts
        <5>. QED
          BY <3>1, <5>1
      <4>. QED
        BY <4>1, <4>2
    <3>2. CASE u # t
      <4>1. pc'[u] = pc[u] /\ (Holding(u) => disturbed'[u])
        BY <1>4, <3>2, BeginFacts, ZenonT(60)
      <4>. QED
        BY <4>1 DEF Holding
    <3>. QED
      BY <3>1, <3>2
  <2>. QED
    BY <2>1 DEF Alone
<1>5. ASSUME NEW t \in Threads, NEW label, Ends(t, label) PROVE Alone'
  <2>1. ASSUME NEW u \in Threads PROVE A(u)'
    <3>1. CASE u = t
      <4>1. CASE pc[t] = "reply"
        <5>1. /\ pc'[t] = "strlen" /\ text[t] = kind[t]
              /\ resp_buf' = {text[t]} \cup over[t] /\ Writing' = Writing \ {t}
              /\ kind' = kind /\ disturbed' = disturbed
          BY <1>5, <4>1, EndFacts DEF Ends, Control
        <5>2. ~disturbed[t] => over[t] = {} /\ Writing = {t}
          BY <4>1 DEF Alone
        <5>. QED
          BY <3>1, <5>1, <5>2
      <4>2. CASE pc[t] = "default"
        <5>1. pc'[t] \in {"literal", "handle"}
          BY <1>5, <4>2, EndFacts DEF Ends
        <5>. QED
          BY <3>1, <5>1
      <4>. QED
        BY <1>5, <4>1, <4>2, EndFacts
    <3>2. CASE u # t
      <4>1. pc'[u] = pc[u] /\ disturbed'[u] = disturbed[u] /\ t \in Writing
        BY <1>5, <3>2, EndFacts
      <4>2. ~disturbed[u] => pc[u] \notin {"reply", "strlen", "send"}
        BY <3>2, <4>1 DEF Alone
      <4>. QED
        BY <4>1, <4>2
    <3>. QED
      BY <3>1, <3>2
  <2>. QED
    BY <2>1 DEF Alone
<1>6. ASSUME UNCHANGED vars PROVE Alone'
  BY <1>6 DEF vars, buffer, history, Alone, Writing
<1>. QED
  BY <1>1, <1>2, <1>3, <1>4, <1>5, <1>6, StepKinds

(* The two properties of answers are preserved. *)
LEMMA AnswersInductive ==
  ASSUME TypeOK, Control, Alone, Fresh, Answers, [Next]_vars
  PROVE  Answers'
<1> DEFINE O(u) == Answered(u) /\ (~disturbed[u] \/ kind[u] = "ping") => answer[u] = kind[u]
           R(u) == Answered(u) => answer[u] \in recent[u] \cup {Torn} \/ kind[u] = "ping"
<1>1. ASSUME NEW t \in Threads, NEW k \in AllKinds, Receive(t, k) PROVE Answers'
  <2>1. /\ pc'[t] = "start" /\ answer' = answer
        /\ \A u \in Threads : u # t =>
             pc'[u] = pc[u] /\ kind'[u] = kind[u] /\ recent'[u] = recent[u]
        /\ disturbed' = disturbed
    BY <1>1 DEF Receive, Goto, TypeOK
  <2>. QED
    BY <2>1 DEF Answers, UndisturbedIsOwn, AnswersAreRecent, Answered
<1>2. ASSUME NEW t \in Threads, NEW new, NEW label, Begins(t, new, label) PROVE Answers'
  <2>1. ASSUME NEW u \in Threads PROVE O(u)' /\ R(u)'
    <3>1. CASE u = t
      <4>1. pc'[t] # "recv"
        BY <1>2, BeginFacts
      <4>. QED
        BY <3>1, <4>1 DEF Answered
    <3>2. CASE u # t
      <4>1. /\ pc'[u] = pc[u] /\ kind'[u] = kind[u] /\ answer'[u] = answer[u]
            /\ pc[u] = "recv" => recent'[u] = recent[u]
        BY <1>2, <3>2, BeginFacts, ZenonT(60)
      <4>2. ~disturbed'[u] => ~disturbed[u]
        BY <1>2, <3>2, BeginFacts
      <4>. QED
        BY <4>1, <4>2 DEF Answers, UndisturbedIsOwn, AnswersAreRecent, Answered
    <3>. QED
      BY <3>1, <3>2
  <2>. QED
    BY <2>1 DEF Answers, UndisturbedIsOwn, AnswersAreRecent
<1>3. ASSUME NEW t \in Threads, NEW label, Ends(t, label) PROVE Answers'
  <2>1. /\ \A u \in Threads : pc'[u] = "recv" => pc[u] = "recv"
        /\ UNCHANGED <<kind, answer, disturbed, recent>>
    BY <1>3, EndFacts
  <2>. QED
    BY <2>1 DEF Answers, UndisturbedIsOwn, AnswersAreRecent, Answered
<1>4. ASSUME NEW t \in Threads, Measure(t) PROVE Answers'
  <2>1. /\ \A u \in Threads : pc'[u] = "recv" => pc[u] = "recv"
        /\ UNCHANGED <<kind, answer, disturbed, recent>>
    BY <1>4 DEF Measure, Goto, TypeOK, history
  <2>. QED
    BY <2>1 DEF Answers, UndisturbedIsOwn, AnswersAreRecent, Answered
<1>5. ASSUME NEW t \in Threads, SendLiteral(t) PROVE Answers'
  <2>1. /\ answer'[t] = "ping" /\ kind[t] = "ping"
        /\ \A u \in Threads : u # t => pc'[u] = pc[u] /\ answer'[u] = answer[u]
        /\ UNCHANGED <<kind, disturbed, recent>>
    BY <1>5 DEF SendLiteral, Goto, TypeOK, history, Control
  <2>. QED
    BY <2>1 DEF Answers, UndisturbedIsOwn, AnswersAreRecent, Answered
<1>6. ASSUME NEW t \in Threads, Send(t) PROVE Answers'
  <2>1. /\ pc[t] = "send"
        /\ \A u \in Threads : u # t => pc'[u] = pc[u] /\ answer'[u] = answer[u]
        /\ UNCHANGED <<kind, disturbed, recent>>
    BY <1>6 DEF Send, Goto, TypeOK, history
  <2>2. PICK seen \in Readable : answer'[t] = IF seen = length[t] THEN seen ELSE Torn
    BY <1>6 DEF Send, TypeOK
  <2>3. answer'[t] \in recent[t] \cup {Torn}
    BY <2>1, <2>2 DEF Fresh, Readable
  <2>4. ~disturbed[t] => answer'[t] = kind[t]
    <3>1. ~disturbed[t] => resp_buf = {kind[t]} /\ length[t] = kind[t]
      BY <2>1 DEF Alone
    <3>2. Cardinality({kind[t]}) = 1
      BY FS_Singleton
    <3>3. ~disturbed[t] => Readable = {kind[t]}
      BY <3>1, <3>2 DEF Readable
    <3>. QED
      BY <2>2, <3>1, <3>3
  <2>5. kind[t] # "ping"
    BY <2>1 DEF Control
  <2>. QED
    BY <2>1, <2>3, <2>4, <2>5 DEF Answers, UndisturbedIsOwn, AnswersAreRecent, Answered
<1>7. ASSUME UNCHANGED vars PROVE Answers'
  BY <1>7 DEF vars, buffer, history, Answers, UndisturbedIsOwn, AnswersAreRecent, Answered
<1>. QED
  BY <1>1, <1>2, <1>3, <1>4, <1>5, <1>6, <1>7, StepKinds

-----------------------------------------------------------------------------
Buffer == TypeOK /\ Control /\ Overlaps /\ Alone /\ Fresh /\ Answers

(* The invariant that carries the three properties below. *)
THEOREM BufferInvariant == Spec => []Buffer
<1>1. Init => Buffer
  BY InitialState DEF Buffer
<1>2. Buffer /\ [Next]_vars => Buffer'
  BY ControlInductive, OverlapsInductive, AloneInductive, FreshInductive, AnswersInductive
  DEF Buffer
<1>. QED
  BY <1>1, <1>2, PTL DEF Spec

(* Type correctness; whoever reads the buffer finds some text in it. *)
THEOREM TypeCorrect == Spec => []TypeOK
<1>1. Buffer => TypeOK
  BY DEF Buffer
<1>. QED
  BY <1>1, BufferInvariant, PTL

(***************************************************************************)
(* A reply that no other thread's build has overlapped reaches its client, *)
(* and a PING is always answered PONG: the shared buffer spoils an answer  *)
(* only in a race.                                                         *)
(***************************************************************************)
THEOREM Undisturbed == Spec => []UndisturbedIsOwn
<1>1. Buffer => UndisturbedIsOwn
  BY DEF Buffer, Answers
<1>. QED
  BY <1>1, BufferInvariant, PTL

(* Even in a race, no client is sent an answer built before its command. *)
THEOREM Recent == Spec => []AnswersAreRecent
<1>1. Buffer => AnswersAreRecent
  BY DEF Buffer, Answers
<1>. QED
  BY <1>1, BufferInvariant, PTL
=============================================================================
