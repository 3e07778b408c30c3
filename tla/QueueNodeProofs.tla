--------------------------- MODULE QueueNodeProofs ---------------------------
(***************************************************************************)
(* Theorems about QueueNode, for any handlers, messages and bounds, with   *)
(* any number of loops at work on the same messages and messages stored    *)
(* twice: its types; that each fault costs at most one message, and none   *)
(* is lost without; and that no message is given up before the loops had   *)
(* enough deliveries to count.                                             *)
(***************************************************************************)
EXTENDS QueueNode, SequenceTheorems, FiniteSetTheorems, TLAPS

\* acknowledge sets the status before it takes the message out of flight.
AcksKnown == \A h \in Handler : call[h].at = "zrem" => call[h].msg \in acked

TypeInv == TypeOK /\ AcksKnown

HandStep == {"save", "zrem", "lpush"}

-----------------------------------------------------------------------------
(* What a step of a handler or a loop is about *)

\* The place a handler has come to says what else is known of it.
LEMMA CallParts ==
  ASSUME TypeOK, NEW h \in Handler
  PROVE  /\ call[h].at \in {"idle"} \cup StoreStep \cup ConsumeStep \cup AckStep
         /\ call[h].at = "idle" => call[h] = Idle
         /\ call[h].at # "idle" => call[h].msg \in Message /\ call[h] # Idle
         /\ call[h].at \in StoreStep => call[h] \in [at : StoreStep, msg : Message, remote : BOOLEAN]
         /\ call[h].at \in ConsumeStep => call[h] \in [at : ConsumeStep, msg : Message, retries : Nat]
         /\ call[h].at \in AckStep => call[h] \in [at : AckStep, msg : Message]
<1>1. call[h] \in Call
  BY DEF TypeOK
<1>2. CASE call[h] = Idle
  BY <1>2 DEF Idle, StoreStep, ConsumeStep, AckStep
<1>3. CASE call[h] \in [at : StoreStep, msg : Message, remote : BOOLEAN]
  BY <1>3 DEF Idle, StoreStep, ConsumeStep, AckStep
<1>4. CASE call[h] \in [at : ConsumeStep, msg : Message, retries : Nat]
  BY <1>4 DEF Idle, StoreStep, ConsumeStep, AckStep
<1>5. CASE call[h] \in [at : AckStep, msg : Message]
  BY <1>5 DEF Idle, StoreStep, ConsumeStep, AckStep
<1> QED
  BY <1>1, <1>2, <1>3, <1>4, <1>5 DEF Call

\* So does the place of a loop.
LEMMA LoopParts ==
  ASSUME TypeOK, NEW n \in Node
  PROVE  /\ loop[n].at \in {"sleep", "read", "dead"} \cup HandStep
         /\ loop[n].todo \subseteq Message
         /\ loop[n].at \in HandStep =>
              loop[n] \in [at : HandStep, todo : SUBSET Message, msg : Message, retries : Nat]
         /\ loop[n].at \notin HandStep => loop[n] \in [at : {"sleep", "read", "dead"}, todo : SUBSET Message]
<1>1. loop[n] \in Loop
  BY DEF TypeOK
<1>2. CASE loop[n] \in [at : {"sleep", "read", "dead"}, todo : SUBSET Message]
  BY <1>2 DEF HandStep
<1>3. CASE loop[n] \in [at : HandStep, todo : SUBSET Message, msg : Message, retries : Nat]
  BY <1>3 DEF HandStep
<1> QED
  BY <1>1, <1>2, <1>3 DEF Loop, HandStep

\* A step of a handler leaves the others where they are.
LEMMA Goes1 ==
  ASSUME TypeOK, NEW h \in Handler, NEW c, Goes(h, c)
  PROVE  call'[h] = c /\ \A g \in Handler \ {h} : call'[g] = call[g]
BY DEF TypeOK, Goes

\* A step of a loop leaves the others where they are.
LEMMA Moves1 ==
  ASSUME TypeOK, NEW n \in Node, NEW l, Moves(n, l)
  PROVE  loop'[n] = l /\ \A k \in Node \ {n} : loop'[k] = loop[k]
BY DEF TypeOK, Moves

\* A call table stays one when a handler goes to a place of calls.
LEMMA GoesType ==
  ASSUME TypeInv, NEW h \in Handler, NEW c \in Call, Goes(h, c),
         c.at = "zrem" => c.msg \in acked', acked \subseteq acked'
  PROVE  call' \in [Handler -> Call] /\ AcksKnown'
<1>1. call' \in [Handler -> Call]
  BY DEF TypeInv, TypeOK, Goes
<1> QED
  BY <1>1, Goes1 DEF TypeInv, AcksKnown

\* A loop table stays one.
LEMMA MovesType ==
  ASSUME TypeOK, NEW n \in Node, NEW l \in Loop, Moves(n, l)
  PROVE  loop' \in [Node -> Loop]
BY DEF TypeOK, Moves

\* Where a loop goes when it is done with a message
LEMMA NextExpiredType ==
  ASSUME NEW todo \in SUBSET Message
  PROVE  /\ NextExpired(todo) \in Loop
         /\ NextExpired(todo).at \in {"sleep", "read"}
         /\ NextExpired(todo).todo = todo
BY DEF NextExpired, Loop

\* What can be taken from the right end of the queue
LEMMA PopRight ==
  ASSUME NEW S, NEW s \in Seq(S), s # <<>>
  PROVE  /\ Last(s) \in S
         /\ Front(s) \in Seq(S)
         /\ Len(s) \in Nat \ {0}
         /\ Last(s) = s[Len(s)]
         /\ Len(Front(s)) = Len(s) - 1
         /\ \A i \in 1..Len(s) - 1 : Front(s)[i] = s[i]
<1>1. Len(s) \in Nat \ {0}
  BY EmptySeq, LenProperties
<1>2. /\ SubSeq(s, 1, Len(s) - 1) \in Seq(S)
      /\ Len(SubSeq(s, 1, Len(s) - 1)) = IF 1 <= Len(s) - 1 THEN (Len(s) - 1) - 1 + 1 ELSE 0
      /\ \A i \in 1..(Len(s) - 1) - 1 + 1 : SubSeq(s, 1, Len(s) - 1)[i] = s[1 + i - 1]
  <2>1. \A i \in 1..Len(s) - 1 : s[i] \in S
    BY <1>1, ElementOfSeq
  <2>2. 1 \in Int /\ Len(s) - 1 \in Int
    BY <1>1
  <2> QED
    BY <2>1, <2>2, SubSeqProperties
<1>3. \A i \in 1..Len(s) - 1 : SubSeq(s, 1, Len(s) - 1)[i] = s[i]
  <2>1. ASSUME NEW i \in 1..Len(s) - 1 PROVE SubSeq(s, 1, Len(s) - 1)[i] = s[i]
    <3>1. i \in 1..(Len(s) - 1) - 1 + 1 /\ 1 + i - 1 = i
      BY <1>1
    <3> QED
      BY <1>2, <3>1
  <2> QED
    BY <2>1
<1>4. Len(SubSeq(s, 1, Len(s) - 1)) = Len(s) - 1
  <2>1. CASE 1 <= Len(s) - 1
    <3>1. Len(SubSeq(s, 1, Len(s) - 1)) = (Len(s) - 1) - 1 + 1
      BY <1>2, <2>1
    <3> QED
      BY <1>1, <3>1
  <2>2. CASE Len(s) = 1
    <3>1. Len(SubSeq(s, 1, Len(s) - 1)) = 0
      BY <1>2, <2>2
    <3> QED
      BY <2>2, <3>1
  <2>3. 1 <= Len(s) - 1 \/ Len(s) = 1
    <3>1. \A k \in Nat \ {0} : 1 <= k - 1 \/ k = 1
      OBVIOUS
    <3> QED
      BY <1>1, <3>1
  <2> QED
    BY <2>1, <2>2, <2>3
<1>5. s[Len(s)] \in S
  BY <1>1, ElementOfSeq
<1> QED
  BY <1>1, <1>2, <1>3, <1>4, <1>5 DEF Front, Last

\* What is put at the left end of the queue
LEMMA PushLeft ==
  ASSUME NEW S, NEW s \in Seq(S), NEW e \in S
  PROVE  /\ <<e>> \o s \in Seq(S)
         /\ Len(<<e>> \o s) = Len(s) + 1
         /\ (<<e>> \o s)[1] = e
         /\ \A i \in 1..Len(s) : (<<e>> \o s)[i + 1] = s[i]
<1>1. <<e>> \in Seq(S) /\ Len(<<e>>) = 1 /\ Len(s) \in Nat
  BY LenProperties
<1>2. /\ <<e>> \o s \in Seq(S)
      /\ Len(<<e>> \o s) = 1 + Len(s)
      /\ \A i \in 1..1 + Len(s) : (<<e>> \o s)[i] = IF i <= 1 THEN <<e>>[i] ELSE s[i - 1]
  BY <1>1, ConcatProperties
<1>3. ASSUME NEW i \in 1..Len(s) PROVE (<<e>> \o s)[i + 1] = s[i]
  <2>1. i + 1 \in 1..1 + Len(s) /\ ~(i + 1 <= 1) /\ i + 1 - 1 = i
    BY <1>1
  <2> QED
    BY <1>2, <2>1
<1> QED
  BY <1>1, <1>2, <1>3

\* The elements that stay when one is taken
LEMMA PopRange ==
  ASSUME NEW S, NEW s \in Seq(S), s # <<>>
  PROVE  Range(s) = Range(Front(s)) \cup {Last(s)}
<1>1. /\ Front(s) \in Seq(S)
      /\ Len(s) \in Nat \ {0}
      /\ Last(s) = s[Len(s)]
      /\ Len(Front(s)) = Len(s) - 1
      /\ \A i \in 1..Len(s) - 1 : Front(s)[i] = s[i]
  BY PopRight
<1>2. DOMAIN s = 1..Len(s) /\ DOMAIN Front(s) = 1..Len(s) - 1
  BY <1>1, LenProperties
<1> QED
  BY <1>1, <1>2 DEF Range

\* The elements after one was added
LEMMA PushRange ==
  ASSUME NEW S, NEW s \in Seq(S), NEW e \in S
  PROVE  Range(<<e>> \o s) = Range(s) \cup {e}
<1> DEFINE t == <<e>> \o s
<1>1. /\ t \in Seq(S)
      /\ Len(s) \in Nat
      /\ Len(t) = Len(s) + 1
      /\ t[1] = e
      /\ \A i \in 1..Len(s) : t[i + 1] = s[i]
  BY PushLeft, LenProperties
<1>2. DOMAIN s = 1..Len(s) /\ DOMAIN t = 1..Len(s) + 1
  BY <1>1, LenProperties
<1> HIDE DEF t
<1>3. \A i \in 1..Len(s) + 1 : i # 1 => i - 1 \in 1..Len(s) /\ t[i] = s[i - 1]
  <2>1. ASSUME NEW i \in 1..Len(s) + 1, i # 1 PROVE i - 1 \in 1..Len(s) /\ t[i] = s[i - 1]
    <3>1. i - 1 \in 1..Len(s) /\ (i - 1) + 1 = i
      BY <1>1, <2>1
    <3> QED
      BY <1>1, <3>1
  <2> QED
    BY <2>1
<1>4. Range(t) = Range(s) \cup {e}
  <2>1. \A i \in 1..Len(s) : i + 1 \in 1..Len(s) + 1
    BY <1>1
  <2>2. 1 \in 1..Len(s) + 1
    BY <1>1
  <2> QED
    <3>1. ASSUME NEW x \in Range(t) PROVE x \in Range(s) \cup {e}
      <4>1. PICK i \in 1..Len(s) + 1 : x = t[i]
        BY <1>2, <3>1 DEF Range
      <4>2. CASE i = 1
        BY <1>1, <4>1, <4>2
      <4>3. CASE i # 1
        BY <1>2, <1>3, <4>1, <4>3 DEF Range
      <4> QED
        BY <4>2, <4>3
    <3>2. \A x \in Range(s) : x \in Range(t)
      BY <1>1, <1>2, <2>1 DEF Range
    <3>3. e \in Range(t)
      BY <1>1, <1>2, <2>2 DEF Range
    <3> QED
      BY <3>1, <3>2, <3>3
<1> QED
  BY <1>4 DEF t

-----------------------------------------------------------------------------
(* Types: one lemma for each kind of step *)

\* A new message is stored here or sent to its owner.
LEMMA ProduceType ==
  ASSUME TypeInv, NEW h \in Handler, NEW m \in Message, Produce(h, m) \/ ReceiveStore(h, m)
  PROVE  TypeInv'
<1>1. PICK c \in Call : /\ Goes(h, c)
                        /\ c.at # "zrem"
                        /\ UNCHANGED <<redis, loop, faults, history>>
                        /\ \E f \in {"sent", "storing"} : forward' = [forward EXCEPT ![m] = f] \/ UNCHANGED forward
  <2>1. /\ [at |-> "forward", msg |-> m, remote |-> FALSE] \in Call
        /\ \A b \in BOOLEAN : Storing(m, b) \in Call
    BY DEF Call, Storing, StoreStep
  <2>2. [at |-> "forward", msg |-> m, remote |-> FALSE].at # "zrem" /\ \A b \in BOOLEAN : Storing(m, b).at # "zrem"
    BY DEF Storing
  <2> QED
    BY <2>1, <2>2 DEF Produce, ReceiveStore
<1>2. call' \in [Handler -> Call] /\ AcksKnown'
  BY <1>1, GoesType DEF history
<1> QED
  BY <1>1, <1>2 DEF TypeInv, TypeOK, redis, history

\* The call to the owner is answered or fails.
LEMMA ForwardType ==
  ASSUME TypeInv, NEW h \in Handler, ForwardAnswered(h) \/ ForwardFailed(h)
  PROVE  TypeInv'
<1>1. call[h].msg \in Message
  BY CallParts DEF TypeInv, ForwardAnswered, ForwardFailed, At
<1>2. PICK c \in Call : /\ Goes(h, c)
                        /\ c.at # "zrem"
                        /\ UNCHANGED <<redis, loop, forward, faults, acked, givenUp, delivered, settled>>
                        /\ accepted' = accepted \cup {call[h].msg} \/ UNCHANGED accepted
  <2>1. Idle \in Call /\ Storing(call[h].msg, FALSE) \in Call /\ Idle.at # "zrem" /\ Storing(call[h].msg, FALSE).at # "zrem"
    BY <1>1 DEF Call, Storing, StoreStep, Idle
  <2> QED
    BY <2>1 DEF ForwardAnswered, ForwardFailed, history
<1>3. call' \in [Handler -> Call] /\ AcksKnown'
  BY <1>2, GoesType
<1> QED
  BY <1>1, <1>2, <1>3 DEF TypeInv, TypeOK, redis

\* The three commands that store a message
LEMMA StoreType ==
  ASSUME TypeInv, NEW h \in Handler, StoreHash(h) \/ StorePush(h) \/ StoreExpire(h)
  PROVE  TypeInv'
<1>1. /\ call[h] \in [at : StoreStep, msg : Message, remote : BOOLEAN]
      /\ call[h].msg \in Message
  BY CallParts DEF TypeInv, StoreHash, StorePush, StoreExpire, At, StoreStep
<1>2. \A s \in StoreStep : [call[h] EXCEPT !.at = s] \in Call /\ [call[h] EXCEPT !.at = s].at # "zrem"
  BY <1>1 DEF Call, StoreStep
<1>3. Idle \in Call /\ Idle.at # "zrem"
  BY DEF Call, Idle
<1>4. CASE StoreHash(h)
  <2>1. /\ hash' = [hash EXCEPT ![call[h].msg] = [status |-> Pending, retries |-> 0]]
        /\ Goes(h, [call[h] EXCEPT !.at = "lpush"])
        /\ UNCHANGED <<ttl, pending, inFlight, due, loop, forward, faults, history>>
    BY <1>4 DEF StoreHash
  <2>2. call' \in [Handler -> Call] /\ AcksKnown'
    BY <1>2, <2>1, GoesType DEF history, StoreStep
  <2>3. [status |-> Pending, retries |-> 0] \in Hash
    BY DEF Hash
  <2> QED
    BY <1>1, <2>1, <2>2, <2>3 DEF TypeInv, TypeOK, history
<1>5. CASE StorePush(h)
  <2>1. /\ pending' = <<call[h].msg>> \o pending
        /\ Goes(h, [call[h] EXCEPT !.at = "expire"])
        /\ UNCHANGED <<hash, ttl, inFlight, due, loop, forward, faults, history>>
    BY <1>5 DEF StorePush
  <2>2. call' \in [Handler -> Call] /\ AcksKnown'
    BY <1>2, <2>1, GoesType DEF history, StoreStep
  <2>3. pending' \in Seq(Message)
    BY <1>1, <2>1, PushLeft DEF TypeInv, TypeOK
  <2> QED
    BY <2>1, <2>2, <2>3 DEF TypeInv, TypeOK, history
<1>6. CASE StoreExpire(h)
  <2>1. /\ ttl' \in {ttl, ttl \cup {call[h].msg}}
        /\ forward' = [forward EXCEPT ![call[h].msg] = "stored"] \/ UNCHANGED forward
        /\ accepted' = accepted \cup {call[h].msg} \/ UNCHANGED accepted
        /\ Goes(h, Idle)
        /\ UNCHANGED <<hash, pending, inFlight, due, loop, faults, acked, givenUp, delivered, settled>>
    BY <1>6 DEF StoreExpire
  <2>2. call' \in [Handler -> Call] /\ AcksKnown'
    BY <1>3, <2>1, GoesType
  <2> QED
    BY <1>1, <2>1, <2>2 DEF TypeInv, TypeOK
<1> QED
  BY <1>4, <1>5, <1>6

\* The steps of a handler that takes a message out of the queue
LEMMA ConsumeType ==
  ASSUME TypeInv, NEW h \in Handler,
         Consume(h) \/ ConsumeRead(h) \/ ConsumeMark(h) \/ ConsumeZadd(h)
  PROVE  TypeInv'
<1>1. Idle \in Call /\ Idle.at # "zrem"
  BY DEF Call, Idle
<1>2. CASE Consume(h)
  <2>1. /\ pending # <<>>
        /\ Goes(h, [at |-> "read", msg |-> Last(pending), retries |-> 0])
        /\ pending' = Front(pending)
        /\ UNCHANGED <<hash, ttl, inFlight, due, loop, forward, faults, history>>
    BY <1>2 DEF Consume
  <2>2. Last(pending) \in Message /\ Front(pending) \in Seq(Message)
    BY <2>1, PopRight DEF TypeInv, TypeOK
  <2>3. [at |-> "read", msg |-> Last(pending), retries |-> 0] \in Call
    BY <2>2 DEF Call, ConsumeStep
  <2>4. call' \in [Handler -> Call] /\ AcksKnown'
    BY <2>1, <2>3, GoesType DEF history
  <2> QED
    BY <2>1, <2>2, <2>4 DEF TypeInv, TypeOK, history
<1>3. ASSUME At(h, "read") \/ At(h, "mark") \/ At(h, "zadd")
      PROVE  /\ call[h].msg \in Message
             /\ call[h].retries \in Nat
             /\ \A s \in ConsumeStep, r \in Nat :
                  [call[h] EXCEPT !.at = s, !.retries = r] \in Call
             /\ \A s \in ConsumeStep : [call[h] EXCEPT !.at = s] \in Call
  <2>1. call[h] \in [at : ConsumeStep, msg : Message, retries : Nat]
    BY <1>3, CallParts DEF TypeInv, At, ConsumeStep
  <2> QED
    BY <2>1 DEF Call
<1>4. CASE ConsumeRead(h)
  <2>1. hash[call[h].msg] \in Hash \cup {Absent}
    BY <1>3, <1>4 DEF ConsumeRead, TypeInv, TypeOK
  <2>2. hash[call[h].msg].retries # Unset => hash[call[h].msg].retries \in Nat
    BY <2>1 DEF Hash, Absent
  <2>3. PICK c \in Call : Goes(h, c) /\ c.at # "zrem"
    <3>1. CASE hash[call[h].msg].retries = Unset
      BY <1>1, <1>4, <3>1 DEF ConsumeRead
    <3>2. CASE hash[call[h].msg].retries # Unset
      <4> DEFINE c == [call[h] EXCEPT !.at = "mark", !.retries = hash[call[h].msg].retries]
      <4>1. c \in Call
        BY <1>3, <1>4, <2>2, <3>2 DEF ConsumeRead, ConsumeStep
      <4>2. c.at # "zrem"
        <5>1. call[h] \in [at : ConsumeStep, msg : Message, retries : Nat]
          BY <1>4, CallParts DEF TypeInv, At, ConsumeStep, ConsumeRead
        <5> QED
          BY <5>1
      <4>3. Goes(h, c)
        BY <1>4, <3>2 DEF ConsumeRead
      <4> QED
        BY <4>1, <4>2, <4>3
    <3> QED
      BY <3>1, <3>2
  <2>4. UNCHANGED <<redis, loop, forward, faults, history>>
    BY <1>4 DEF ConsumeRead
  <2>5. call' \in [Handler -> Call] /\ AcksKnown'
    BY <2>3, <2>4, GoesType DEF history
  <2> QED
    BY <2>4, <2>5 DEF TypeInv, TypeOK, redis, history
<1>5. CASE ConsumeMark(h)
  <2>1. /\ hash' = [hash EXCEPT ![call[h].msg] = [status |-> InFlight, retries |-> call[h].retries]]
        /\ Goes(h, [call[h] EXCEPT !.at = "zadd"])
        /\ UNCHANGED <<ttl, pending, inFlight, due, loop, forward, faults, history>>
    BY <1>5 DEF ConsumeMark
  <2>2. [call[h] EXCEPT !.at = "zadd"] \in Call /\ call[h].retries \in Nat
    BY <1>3, <1>5 DEF ConsumeMark, ConsumeStep
  <2>3. [call[h] EXCEPT !.at = "zadd"].at # "zrem"
    <3>1. call[h] \in [at : ConsumeStep, msg : Message, retries : Nat]
      BY <1>5, CallParts DEF TypeInv, At, ConsumeStep, ConsumeMark
    <3> QED
      BY <3>1
  <2>4. call' \in [Handler -> Call] /\ AcksKnown'
    BY <2>1, <2>2, <2>3, GoesType DEF history
  <2>5. [status |-> InFlight, retries |-> call[h].retries] \in Hash
    BY <2>2 DEF Hash
  <2> QED
    BY <2>1, <2>4, <2>5 DEF TypeInv, TypeOK, history
<1>6. CASE ConsumeZadd(h)
  <2>1. /\ inFlight' = inFlight \cup {call[h].msg}
        /\ due' = due \ {call[h].msg}
        /\ delivered' = [delivered EXCEPT ![call[h].msg] = @ + 1]
        /\ Goes(h, Idle)
        /\ UNCHANGED <<hash, ttl, pending, loop, forward, faults, accepted, acked, givenUp, settled>>
    BY <1>6 DEF ConsumeZadd
  <2>2. call' \in [Handler -> Call] /\ AcksKnown'
    BY <1>1, <2>1, GoesType
  <2>3. call[h].msg \in Message
    BY <1>3, <1>6 DEF ConsumeZadd
  <2> QED
    BY <2>1, <2>2, <2>3 DEF TypeInv, TypeOK
<1> QED
  BY <1>2, <1>4, <1>5, <1>6

\* The steps of an acknowledgement
LEMMA AckType ==
  ASSUME TypeInv, NEW h \in Handler,
         (\E m \in Message : Acknowledge(h, m)) \/ AckComplete(h) \/ AckZrem(h)
  PROVE  TypeInv'
<1>1. Idle \in Call /\ Idle.at # "zrem"
  BY DEF Call, Idle
<1>2. ASSUME NEW m \in Message, Acknowledge(h, m) PROVE TypeInv'
  <2>1. [at |-> "complete", msg |-> m] \in Call
    BY DEF Call, AckStep
  <2>2. call' \in [Handler -> Call] /\ AcksKnown'
    BY <1>2, <2>1, GoesType DEF Acknowledge, history
  <2> QED
    BY <1>2, <2>2 DEF TypeInv, TypeOK, Acknowledge, redis, history
<1>3. ASSUME At(h, "complete") \/ At(h, "zrem")
      PROVE  call[h] \in [at : AckStep, msg : Message]
  BY <1>3, CallParts DEF TypeInv, At, AckStep
<1>4. CASE AckComplete(h)
  <2>1. /\ hash' = [hash EXCEPT ![call[h].msg].status = Completed]
        /\ acked' = acked \cup {call[h].msg}
        /\ Goes(h, [call[h] EXCEPT !.at = "zrem"])
        /\ UNCHANGED <<ttl, pending, inFlight, due, loop, forward, faults, accepted, givenUp, delivered, settled>>
    BY <1>4 DEF AckComplete
  <2>2. call[h] \in [at : AckStep, msg : Message]
    BY <1>3, <1>4 DEF AckComplete
  <2>3. [call[h] EXCEPT !.at = "zrem"] \in Call /\ [call[h] EXCEPT !.at = "zrem"].msg = call[h].msg
    BY <2>2 DEF Call, AckStep
  <2>4. call' \in [Handler -> Call] /\ AcksKnown'
    <3>1. PICK c \in Call : c = [call[h] EXCEPT !.at = "zrem"]
      BY <2>3
    <3>2. Goes(h, c) /\ c.msg \in acked' /\ acked \subseteq acked'
      BY <2>1, <2>3, <3>1
    <3> QED
      BY <3>2, GoesType
  <2>5. hash[call[h].msg] \in Hash \cup {Absent}
    BY <2>2 DEF TypeInv, TypeOK
  <2>6. [hash[call[h].msg] EXCEPT !.status = Completed] \in Hash
    BY <2>5 DEF Hash, Absent
  <2>7. hash' \in [Message -> Hash \cup {Absent}]
    BY <2>1, <2>2, <2>6 DEF TypeInv, TypeOK
  <2> QED
    BY <2>1, <2>2, <2>4, <2>7 DEF TypeInv, TypeOK
<1>5. CASE AckZrem(h)
  <2>1. /\ inFlight' = inFlight \ {call[h].msg}
        /\ due' = due \ {call[h].msg}
        /\ settled' = settled \cup ({call[h].msg} \cap (inFlight \ due))
        /\ Goes(h, Idle)
        /\ UNCHANGED <<hash, ttl, pending, loop, forward, faults, accepted, acked, givenUp, delivered>>
    BY <1>5 DEF AckZrem
  <2>2. call' \in [Handler -> Call] /\ AcksKnown'
    BY <1>1, <2>1, GoesType
  <2>3. call[h].msg \in acked
    BY <1>5 DEF AckZrem, At, TypeInv, AcksKnown
  <2> QED
    BY <2>1, <2>2, <2>3 DEF TypeInv, TypeOK
<1> QED
  BY <1>2, <1>4, <1>5

\* The steps of a redelivery loop
LEMMA LoopType ==
  ASSUME TypeInv, NEW n \in Node, LoopStep(n)
  PROVE  TypeInv'
<1>1. /\ loop[n].todo \subseteq Message
      /\ loop[n].at \in HandStep =>
           loop[n] \in [at : HandStep, todo : SUBSET Message, msg : Message, retries : Nat]
  BY LoopParts DEF TypeInv
<1>2. NextExpired(loop[n].todo) \in Loop
  BY <1>1, NextExpiredType
<1>3. loop[n].at \in HandStep => \A s \in HandStep : [loop[n] EXCEPT !.at = s] \in Loop
  BY <1>1 DEF Loop, HandStep
<1>4. ASSUME UNCHANGED call, UNCHANGED acked PROVE AcksKnown'
  BY <1>4 DEF TypeInv, AcksKnown
<1>5. CASE Scan(n)
  <2>1. NextExpired(due) \in Loop
    BY NextExpiredType DEF TypeInv, TypeOK
  <2>2. loop' \in [Node -> Loop]
    BY <1>5, <2>1, MovesType DEF Scan, TypeInv
  <2> QED
    BY <1>4, <1>5, <2>2 DEF Scan, TypeInv, TypeOK, redis, history
<1>6. ASSUME NEW m \in Message, ReadExpired(n, m) PROVE TypeInv'
  <2>1. NextExpired(loop[n].todo \ {m}) \in Loop /\ Dead \in Loop
    <3>1. loop[n].todo \ {m} \in SUBSET Message
      BY <1>1
    <3> QED
      BY <3>1, NextExpiredType DEF Dead, Loop
  <2>2. hash[m] \in Hash \cup {Absent}
    BY DEF TypeInv, TypeOK
  <2>3. hash[m].retries # Unset =>
          [at |-> "save", todo |-> loop[n].todo \ {m}, msg |-> m, retries |-> hash[m].retries] \in Loop
    BY <1>1, <2>2 DEF Hash, Absent, Loop
  <2>4. loop' \in [Node -> Loop]
    BY <1>6, <2>1, <2>3, MovesType DEF ReadExpired, TypeInv
  <2> QED
    BY <1>4, <1>6, <2>4 DEF ReadExpired, TypeInv, TypeOK, redis, history
<1>7. CASE SaveExpired(n)
  <2>1. /\ hash' = [hash EXCEPT ![loop[n].msg] =
             IF GivesUp(n) THEN [status |-> Failed, retries |-> loop[n].retries]
                           ELSE [status |-> Pending, retries |-> loop[n].retries + 1]]
        /\ givenUp' \in {givenUp, givenUp \cup {loop[n].msg}}
        /\ Moves(n, [loop[n] EXCEPT !.at = "zrem"])
        /\ UNCHANGED <<ttl, pending, inFlight, due, call, forward, faults, accepted, acked, delivered, settled>>
    BY <1>7 DEF SaveExpired
  <2>2. loop[n].at \in HandStep
    BY <1>7 DEF SaveExpired, LoopAt, HandStep
  <2>3. loop' \in [Node -> Loop]
    BY <1>3, <2>1, <2>2, MovesType DEF TypeInv, HandStep
  <2>4. loop[n].msg \in Message /\ loop[n].retries \in Nat
    BY <1>1, <2>2
  <2>5. [status |-> Failed, retries |-> loop[n].retries] \in Hash /\ [status |-> Pending, retries |-> loop[n].retries + 1] \in Hash
    BY <2>4 DEF Hash
  <2>6. hash' \in [Message -> Hash \cup {Absent}]
    BY <2>1, <2>5 DEF TypeInv, TypeOK
  <2> QED
    BY <1>4, <2>1, <2>3, <2>4, <2>6 DEF TypeInv, TypeOK
<1>8. CASE RemoveExpired(n)
  <2>1. /\ inFlight' = inFlight \ {loop[n].msg}
        /\ due' = due \ {loop[n].msg}
        /\ Moves(n, IF GivesUp(n) THEN NextExpired(loop[n].todo) ELSE [loop[n] EXCEPT !.at = "lpush"])
        /\ UNCHANGED <<hash, ttl, pending, call, forward, faults, history>>
        /\ loop[n].at \in HandStep
    BY <1>8 DEF RemoveExpired, LoopAt, HandStep
  <2>2. loop' \in [Node -> Loop]
    BY <1>2, <1>3, <2>1, MovesType DEF TypeInv, HandStep
  <2> QED
    BY <1>4, <2>1, <2>2 DEF TypeInv, TypeOK, history
<1>9. CASE PushAgain(n)
  <2>1. /\ pending' = <<loop[n].msg>> \o pending
        /\ Moves(n, NextExpired(loop[n].todo))
        /\ UNCHANGED <<hash, ttl, inFlight, due, call, forward, faults, history>>
        /\ loop[n].at \in HandStep
    BY <1>9 DEF PushAgain, LoopAt, HandStep
  <2>2. loop' \in [Node -> Loop]
    BY <1>2, <2>1, MovesType DEF TypeInv
  <2>3. pending' \in Seq(Message)
    BY <1>1, <2>1, PushLeft DEF TypeInv, TypeOK
  <2> QED
    BY <1>4, <2>1, <2>2, <2>3 DEF TypeInv, TypeOK, history
<1> QED
  BY <1>5, <1>6, <1>7, <1>8, <1>9 DEF LoopStep

\* Time and faults
LEMMA OtherType ==
  ASSUME TypeInv,
         \/ \E m \in Message : PassDeadline(m) \/ Lapse(m)
         \/ \E h \in Handler : Abandon(h)
         \/ \E n \in Node : LoopFails(n) \/ Restart(n)
  PROVE  TypeInv'
<1>1. Idle \in Call /\ Idle.at # "zrem" /\ Dead \in Loop /\ Asleep \in Loop
  BY DEF Call, Idle, Loop, Dead, Asleep
<1>2. ASSUME NEW m \in Message, PassDeadline(m) PROVE TypeInv'
  BY <1>2 DEF PassDeadline, TypeInv, TypeOK, AcksKnown, history
<1>3. ASSUME Fault PROVE faults' \in 0..MaxFaults
  BY <1>3, QueueAssumption DEF Fault, TypeInv, TypeOK
<1>4. ASSUME NEW m \in Message, Lapse(m) PROVE TypeInv'
  BY <1>3, <1>4 DEF Lapse, TypeInv, TypeOK, AcksKnown, history
<1>5. ASSUME NEW h \in Handler, Abandon(h) PROVE TypeInv'
  <2>1. call' \in [Handler -> Call] /\ AcksKnown'
    BY <1>1, <1>5, GoesType DEF Abandon, history
  <2> QED
    BY <1>3, <1>5, <2>1 DEF Abandon, TypeInv, TypeOK, redis, history
<1>6. ASSUME NEW n \in Node, LoopFails(n) \/ Restart(n) PROVE TypeInv'
  <2>1. loop' \in [Node -> Loop]
    BY <1>1, <1>6, MovesType DEF LoopFails, Restart, TypeInv
  <2> QED
    BY <1>3, <1>6, <2>1 DEF LoopFails, Restart, TypeInv, TypeOK, AcksKnown, redis, history
<1> QED
  BY <1>2, <1>4, <1>5, <1>6

-----------------------------------------------------------------------------
\* The types are an invariant.
LEMMA TypeInvariance == QueueSpec => []TypeInv
<1>1. Init => TypeInv
  <2> SUFFICES ASSUME Init PROVE TypeInv
    OBVIOUS
  <2>1. Idle \in Call /\ Idle.at # "zrem" /\ Asleep \in Loop /\ <<>> \in Seq(Message)
    BY EmptySeq DEF Call, Idle, Loop, Asleep
  <2> QED
    BY <2>1, QueueAssumption DEF Init, TypeInv, TypeOK, AcksKnown
<1>2. TypeInv /\ [QueueNext]_vars => TypeInv'
  <2> SUFFICES ASSUME TypeInv, [QueueNext]_vars PROVE TypeInv'
    OBVIOUS
  <2>1. CASE UNCHANGED vars
    BY <2>1 DEF vars, redis, history, TypeInv, TypeOK, AcksKnown
  <2>2. CASE QueueNext
    <3>1. ASSUME NEW h \in Handler, HandlerStep(h) PROVE TypeInv'
      BY <3>1, ForwardType, StoreType, ConsumeType, AckType DEF HandlerStep
    <3> QED
      BY <2>2, <3>1, ProduceType, ConsumeType, AckType, LoopType, OtherType DEF QueueNext
  <2> QED
    BY <2>1, <2>2
<1> QED
  BY <1>1, <1>2, PTL DEF QueueSpec

\* Every variable of the queue keeps its type, for any handlers, loops, messages and
\* faults; in particular an acknowledgement settles only what was acknowledged.
THEOREM QueueTypes == QueueSpec => []TypeOK
<1>1. TypeInv => TypeOK
  BY DEF TypeInv
<1> QED
  BY <1>1, TypeInvariance, PTL

-----------------------------------------------------------------------------
(* A fault costs at most one message *)

Queued(m) == m \in Range(pending)

\* Handler h, or a loop that has not given up, is about to put m where it is kept.
Holding(h, m) == call[h].at \in ConsumeStep \cup {"lpush"} /\ call[h].msg = m
Returning(n, m) == loop[n].at \in {"zrem", "lpush"} /\ ~GivesUp(n) /\ loop[n].msg = m

\* The queue, a handler or a loop hands m on, for which somebody will want its hash.
Needed(m) ==
  \/ Queued(m)
  \/ \E h \in Handler : call[h].at \in {"lpush", "read"} /\ call[h].msg = m
  \/ \E n \in Node : loop[n].at \in {"zrem", "lpush"} /\ loop[n].msg = m

\* Its producer knows, or is about to know, that m is stored.
Stored(m) ==
  \/ m \in accepted
  \/ forward[m] = "stored"
  \/ \E h \in Handler : call[h].at = "expire" /\ call[h].msg = m

Kept(m) == UnderWay(m) \/ m \in acked \cup givenUp

\* What is handed on has a hash to go by; what a loop is done with is on record.
HasHash(m) == Needed(m) => hash[m].retries # Unset
OutOfRetries == \A n \in Node : loop[n].at = "zrem" /\ GivesUp(n) => loop[n].msg \in givenUp

\* What is stored is kept, but for the messages of X, of which there is one for every
\* fault at most.
KeptBut(X) ==
  /\ IsFiniteSet(X) /\ Cardinality(X) <= faults
  /\ \A m \in Message \ X : HasHash(m) /\ (Stored(m) => Kept(m))

KeepInv == OutOfRetries /\ \E X \in SUBSET Message : KeptBut(X)

\* What a step may do with a message and keep the invariant
Careful(m) ==
  /\ hash[m].retries # Unset => hash'[m].retries # Unset
  /\ Needed(m)' => Needed(m) \/ hash'[m].retries # Unset
  /\ Stored(m)' => Stored(m) \/ Kept(m)'
  /\ Kept(m) => Kept(m)'

\* A careful step keeps it: the same messages are spoilt after it.
LEMMA CarefulKeeps ==
  ASSUME KeepInv, OutOfRetries', UNCHANGED faults,
         \A m \in Message : HasHash(m) => Careful(m)
  PROVE  KeepInv'
<1>1. PICK X \in SUBSET Message : KeptBut(X)
  BY DEF KeepInv
<1>2. ASSUME NEW m \in Message \ X PROVE HasHash(m)' /\ (Stored(m)' => Kept(m)')
  BY <1>1, <1>2 DEF KeptBut, HasHash, Careful
<1>3. KeptBut(X)'
  BY <1>1, <1>2 DEF KeptBut
<1> QED
  BY <1>3 DEF KeepInv

\* A handler that goes on, with the loops at rest: it hands the message on that it
\* holds, and what it takes out of the queue or out of flight it holds or has on record.
LEMMA HandlerKeeps ==
  ASSUME TypeOK, NEW h \in Handler, NEW c, Goes(h, c), UNCHANGED loop,
         NEW m \in Message,
         givenUp \subseteq givenUp', acked \subseteq acked',
         Queued(m) => Queued(m)' \/ Holding(h, m)',
         m \in inFlight => m \in inFlight' \/ m \in acked',
         Holding(h, m) => Holding(h, m)' \/ Queued(m)' \/ m \in inFlight'
  PROVE  Kept(m) => Kept(m)'
<1>1. \A n \in Node : Returning(n, m) => Returning(n, m)'
  BY DEF Returning, GivesUp
<1>2. \A g \in Handler \ {h} : Holding(g, m) => Holding(g, m)'
  BY Goes1 DEF Holding
<1>3. InHand(m) <=> (\E g \in Handler : Holding(g, m)) \/ \E n \in Node : Returning(n, m)
  BY DEF InHand, Holding, Returning
<1>4. InHand(m)' <=> (\E g \in Handler : Holding(g, m)') \/ \E n \in Node : Returning(n, m)'
  BY DEF InHand, Holding, Returning
<1> QED
  BY <1>1, <1>2, <1>3, <1>4 DEF Kept, UnderWay, Queued

\* What such a step adds to those whose hash is wanted, and to those that are stored
LEMMA HandlerAdds ==
  ASSUME TypeOK, NEW h \in Handler, NEW c, Goes(h, c), UNCHANGED loop,
         NEW m \in Message
  PROVE  /\ (Queued(m)' => Needed(m)) =>
              (Needed(m)' => Needed(m) \/ (c.at \in {"lpush", "read"} /\ c.msg = m))
         /\ (m \in accepted' => Stored(m)) /\ (forward'[m] = "stored" => Stored(m)) =>
              (Stored(m)' => Stored(m) \/ (c.at = "expire" /\ c.msg = m))
<1>1. call'[h] = c /\ \A g \in Handler \ {h} : call'[g] = call[g]
  BY Goes1
<1>2. ASSUME Queued(m)' => Needed(m), Needed(m)', ~(c.at \in {"lpush", "read"} /\ c.msg = m)
      PROVE  Needed(m)
  BY <1>1, <1>2 DEF Needed
<1>3. ASSUME m \in accepted' => Stored(m), forward'[m] = "stored" => Stored(m), Stored(m)',
             ~(c.at = "expire" /\ c.msg = m)
      PROVE  Stored(m)
  BY <1>1, <1>3 DEF Stored
<1> QED
  BY <1>2, <1>3

\* The steps of a handler that touch no place where messages are kept: it goes to c.
Request(h, c) ==
  /\ Goes(h, c)
  /\ UNCHANGED <<ttl, pending, inFlight, due, loop, faults, givenUp, delivered, settled>>
  /\ call[h].at \notin ConsumeStep \cup {"lpush"}
  /\ c.at \notin {"lpush", "read", "mark", "zadd", "expire"}
  /\ acked \subseteq acked'
  /\ \A m \in Message : hash'[m].retries = hash[m].retries
  /\ \/ UNCHANGED accepted
     \/ accepted' = accepted \cup {call[h].msg} /\ forward[call[h].msg] = "stored"
  /\ \/ UNCHANGED forward
     \/ \E m \in Message, f \in {"sent", "storing"} : forward' = [forward EXCEPT ![m] = f]

LEMMA RequestParts ==
  ASSUME TypeInv, NEW h \in Handler,
         \/ \E m \in Message : Produce(h, m) \/ ReceiveStore(h, m) \/ Acknowledge(h, m)
         \/ ForwardAnswered(h) \/ ForwardFailed(h) \/ AckComplete(h)
  PROVE  \E c : Request(h, c)
<1>1. ASSUME NEW m \in Message, Produce(h, m) \/ ReceiveStore(h, m) \/ Acknowledge(h, m)
      PROVE  /\ call[h].at \notin ConsumeStep \cup {"lpush"}
             /\ UNCHANGED <<redis, loop, faults, history>>
             /\ \/ UNCHANGED forward
                \/ forward' = [forward EXCEPT ![m] = "sent"]
                \/ forward' = [forward EXCEPT ![m] = "storing"]
             /\ \/ Goes(h, Storing(m, FALSE)) \/ Goes(h, Storing(m, TRUE))
                \/ Goes(h, [at |-> "forward", msg |-> m, remote |-> FALSE])
                \/ Goes(h, [at |-> "complete", msg |-> m])
  <2>1. CASE Produce(h, m)
    <3>1. CASE m \in Forwarded
      BY <2>1, <3>1 DEF Produce, Idle, ConsumeStep
    <3>2. CASE m \notin Forwarded
      BY <2>1, <3>2 DEF Produce, Storing, Idle, ConsumeStep
    <3> QED
      BY <3>1, <3>2
  <2>2. CASE ReceiveStore(h, m)
    BY <2>2 DEF ReceiveStore, Storing, Idle, ConsumeStep
  <2>3. CASE Acknowledge(h, m)
    BY <2>3 DEF Acknowledge, Idle, ConsumeStep
  <2> QED
    BY <1>1, <2>1, <2>2, <2>3
<1>2. ASSUME NEW m \in Message
      PROVE  /\ Storing(m, FALSE).at \notin {"lpush", "read", "mark", "zadd", "expire"}
             /\ Storing(m, TRUE).at \notin {"lpush", "read", "mark", "zadd", "expire"}
             /\ [at |-> "forward", msg |-> m, remote |-> FALSE].at \notin {"lpush", "read", "mark", "zadd", "expire"}
             /\ [at |-> "complete", msg |-> m].at \notin {"lpush", "read", "mark", "zadd", "expire"}
  BY DEF Storing
<1>3. CASE \E m \in Message : Produce(h, m) \/ ReceiveStore(h, m) \/ Acknowledge(h, m)
  BY <1>1, <1>2, <1>3 DEF Request, redis, history
<1>4. CASE ForwardAnswered(h)
  BY <1>4 DEF Request, ForwardAnswered, At, redis, ConsumeStep, Idle
<1>5. CASE ForwardFailed(h)
  <2>1. Storing(call[h].msg, FALSE).at = "hset"
    BY DEF Storing
  <2> QED
    BY <1>5, <2>1 DEF Request, ForwardFailed, At, redis, history, ConsumeStep
<1>6. CASE AckComplete(h)
  <2>1. call[h] \in [at : AckStep, msg : Message]
    BY <1>6, CallParts DEF TypeInv, AckComplete, At, AckStep
  <2>2. [call[h] EXCEPT !.at = "zrem"].at = "zrem"
    BY <2>1
  <2>3. ASSUME NEW m \in Message PROVE hash'[m].retries = hash[m].retries
    <3>1. hash[m] \in Hash \cup {Absent}
      BY DEF TypeInv, TypeOK
    <3>2. hash'[m] = IF m = call[h].msg THEN [hash[m] EXCEPT !.status = Completed] ELSE hash[m]
      BY <1>6 DEF AckComplete, TypeInv, TypeOK
    <3> QED
      BY <3>1, <3>2 DEF Hash, Absent
  <2> QED
    BY <1>6, <2>2, <2>3 DEF Request, AckComplete, At, ConsumeStep
<1> QED
  BY <1>3, <1>4, <1>5, <1>6

\* They keep it.
LEMMA RequestsKeep ==
  ASSUME TypeInv, KeepInv, NEW h \in Handler,
         \/ \E m \in Message : Produce(h, m) \/ ReceiveStore(h, m) \/ Acknowledge(h, m)
         \/ ForwardAnswered(h) \/ ForwardFailed(h) \/ AckComplete(h)
  PROVE  KeepInv'
<1>0. PICK c : Request(h, c)
  BY RequestParts
<1>1. /\ Goes(h, c)
      /\ UNCHANGED <<pending, inFlight, loop, faults, givenUp>>
      /\ call[h].at \notin ConsumeStep \cup {"lpush"}
      /\ c.at \notin {"lpush", "read", "expire"}
      /\ acked \subseteq acked'
      /\ \A m \in Message : hash'[m].retries = hash[m].retries
      /\ \/ UNCHANGED accepted
         \/ accepted' = accepted \cup {call[h].msg} /\ forward[call[h].msg] = "stored"
      /\ \/ UNCHANGED forward
         \/ \E m \in Message, f \in {"sent", "storing"} : forward' = [forward EXCEPT ![m] = f]
  BY <1>0 DEF Request
<1>2. ASSUME NEW m \in Message PROVE Careful(m)
  <2>1. hash'[m].retries = hash[m].retries
    BY <1>1
  <2>2. ~Holding(h, m) /\ (Queued(m)' <=> Queued(m))
    BY <1>1 DEF Holding, Queued
  <2>3. Kept(m) => Kept(m)'
    BY <1>1, <2>2, HandlerKeeps DEF TypeInv
  <2>4. (m \in accepted' => Stored(m)) /\ (forward'[m] = "stored" => Stored(m))
    BY <1>1 DEF Stored, TypeInv, TypeOK
  <2>5. (Needed(m)' => Needed(m)) /\ (Stored(m)' => Stored(m))
    <3>1. Queued(m)' => Needed(m)
      BY <2>2 DEF Needed
    <3> QED
      BY <1>1, <2>4, <3>1, HandlerAdds DEF TypeInv
  <2> QED
    BY <2>1, <2>3, <2>5 DEF Careful
<1>3. OutOfRetries'
  BY <1>1 DEF KeepInv, OutOfRetries, GivesUp
<1> QED
  BY <1>1, <1>2, <1>3, CarefulKeeps

\* Storing: the hash first, then the queue; only what is in the queue counts as stored.
LEMMA StoreKeeps ==
  ASSUME TypeInv, KeepInv, NEW h \in Handler, StoreHash(h) \/ StorePush(h) \/ StoreExpire(h)
  PROVE  KeepInv'
<1>0. PICK k : k = call[h].msg
  OBVIOUS
<1>1. /\ call[h] \in [at : StoreStep, msg : Message, remote : BOOLEAN]
      /\ k \in Message
  BY <1>0, CallParts DEF TypeInv, StoreHash, StorePush, StoreExpire, At, StoreStep
<1>2. \A s \in StoreStep : [call[h] EXCEPT !.at = s].at = s /\ [call[h] EXCEPT !.at = s].msg = k
  BY <1>0, <1>1
<1>3. UNCHANGED <<loop, faults, acked, givenUp, inFlight>> /\ OutOfRetries'
  BY DEF StoreHash, StorePush, StoreExpire, history, KeepInv, OutOfRetries, GivesUp
<1>4. CASE StoreHash(h)
  <2>1. /\ call[h].at = "hset"
        /\ hash' = [hash EXCEPT ![k] = [status |-> Pending, retries |-> 0]]
        /\ Goes(h, [call[h] EXCEPT !.at = "lpush"])
        /\ UNCHANGED <<pending, forward, accepted>>
    BY <1>0, <1>4 DEF StoreHash, At, history
  <2>2. ASSUME NEW m \in Message PROVE Careful(m)
    <3>1. hash'[m] = IF m = k THEN [status |-> Pending, retries |-> 0] ELSE hash[m]
      BY <1>1, <2>1 DEF TypeInv, TypeOK
    <3>2. m = k => hash'[m].retries # Unset
      BY <3>1 DEF Unset
    <3>3. m # k => hash'[m] = hash[m]
      BY <3>1
    <3>4. ~Holding(h, m) /\ (Queued(m)' <=> Queued(m))
      BY <2>1 DEF Holding, Queued, ConsumeStep
    <3>5. Kept(m) => Kept(m)'
      BY <1>3, <2>1, <3>4, HandlerKeeps DEF TypeInv
    <3>6. /\ Needed(m)' => Needed(m) \/ m = k
          /\ Stored(m)' => Stored(m)
      <4>1. Queued(m)' => Needed(m)
        BY <3>4 DEF Needed
      <4>2. (m \in accepted' => Stored(m)) /\ (forward'[m] = "stored" => Stored(m))
        BY <2>1 DEF Stored
      <4> QED
        BY <1>2, <1>3, <2>1, <4>1, <4>2, HandlerAdds DEF TypeInv, StoreStep
    <3> QED
      BY <3>2, <3>3, <3>5, <3>6 DEF Careful
  <2> QED
    BY <1>3, <2>2, CarefulKeeps
<1>5. CASE StorePush(h)
  <2>1. /\ call[h].at = "lpush"
        /\ pending' = <<k>> \o pending
        /\ Goes(h, [call[h] EXCEPT !.at = "expire"])
        /\ UNCHANGED <<hash, forward, accepted>>
    BY <1>0, <1>5 DEF StorePush, At, history
  <2>2. Range(pending') = Range(pending) \cup {k}
    BY <1>1, <2>1, PushRange DEF TypeInv, TypeOK
  <2>3. ASSUME NEW m \in Message PROVE Careful(m)
    <3>1. /\ Queued(m) => Queued(m)'
          /\ Holding(h, m) => Queued(m)'
          /\ m = k => Queued(m)'
      BY <1>0, <2>2 DEF Holding, Queued
    <3>2. Kept(m) => Kept(m)'
      BY <1>3, <2>1, <3>1, HandlerKeeps DEF TypeInv
    <3>3. Queued(m)' => Kept(m)'
      BY DEF Queued, Kept, UnderWay
    <3>4. /\ Needed(m)' => Needed(m)
          /\ Stored(m)' => Stored(m) \/ m = k
      <4>1. Queued(m)' => Needed(m)
        BY <1>0, <2>1, <2>2 DEF Needed, Queued
      <4>2. (m \in accepted' => Stored(m)) /\ (forward'[m] = "stored" => Stored(m))
        BY <2>1 DEF Stored
      <4>3. PICK c : c = [call[h] EXCEPT !.at = "expire"]
        OBVIOUS
      <4>4. Goes(h, c) /\ c.at = "expire" /\ c.msg = k
        BY <1>2, <2>1, <4>3 DEF StoreStep
      <4>5. Needed(m)' => Needed(m)
        BY <1>3, <4>1, <4>4, HandlerAdds DEF TypeInv
      <4>6. Stored(m)' => Stored(m) \/ m = k
        BY <1>3, <4>2, <4>4, HandlerAdds DEF TypeInv
      <4> QED
        BY <4>5, <4>6
    <3> QED
      BY <2>1, <3>1, <3>2, <3>3, <3>4 DEF Careful
  <2> QED
    BY <1>3, <2>3, CarefulKeeps
<1>6. CASE StoreExpire(h)
  <2>1. /\ call[h].at = "expire"
        /\ Goes(h, Idle)
        /\ UNCHANGED <<hash, pending>>
        /\ forward' = [forward EXCEPT ![k] = "stored"] \/ UNCHANGED forward
        /\ accepted' = accepted \cup {k} \/ UNCHANGED accepted
    BY <1>0, <1>6 DEF StoreExpire, At
  <2>2. ASSUME NEW m \in Message PROVE Careful(m)
    <3>1. ~Holding(h, m) /\ (Queued(m)' <=> Queued(m))
      BY <2>1 DEF Holding, Queued, ConsumeStep
    <3>2. Kept(m) => Kept(m)'
      BY <1>3, <2>1, <3>1, HandlerKeeps DEF TypeInv
    <3>3. /\ Needed(m)' => Needed(m)
          /\ Stored(m)' => Stored(m)
      <4>1. Queued(m)' => Needed(m)
        BY <3>1 DEF Needed
      <4>2. (m \in accepted' => Stored(m)) /\ (forward'[m] = "stored" => Stored(m))
        <5>1. m = k => Stored(m)
          BY <1>0, <2>1 DEF Stored
        <5>2. m # k => forward'[m] = forward[m] /\ (m \in accepted' <=> m \in accepted)
          BY <2>1 DEF TypeInv, TypeOK
        <5> QED
          BY <5>1, <5>2 DEF Stored
      <4>3. Idle.at \notin {"lpush", "read", "expire"}
        BY DEF Idle
      <4> QED
        BY <1>3, <2>1, <4>1, <4>2, <4>3, HandlerAdds DEF TypeInv
    <3> QED
      BY <2>1, <3>2, <3>3 DEF Careful
  <2> QED
    BY <1>3, <2>2, CarefulKeeps
<1> QED
  BY <1>4, <1>5, <1>6

\* Consuming: the message is in the handler's hands until it is in flight, as its hash
\* is there to be read.
LEMMA ConsumeKeeps ==
  ASSUME TypeInv, KeepInv, NEW h \in Handler,
         Consume(h) \/ ConsumeRead(h) \/ ConsumeMark(h) \/ ConsumeZadd(h)
  PROVE  KeepInv'
<1>1. /\ UNCHANGED <<loop, faults, forward, accepted, acked, givenUp>> /\ OutOfRetries'
  BY DEF Consume, ConsumeRead, ConsumeMark, ConsumeZadd, redis, history, KeepInv, OutOfRetries, GivesUp
<1>2. ASSUME NEW m \in Message
      PROVE (m \in accepted' => Stored(m)) /\ (forward'[m] = "stored" => Stored(m))
  BY <1>1 DEF Stored
<1>3. CASE Consume(h)
  <2>1. PICK k, c : /\ k = Last(pending)
                    /\ c = [at |-> "read", msg |-> k, retries |-> 0]
    OBVIOUS
  <2>2. /\ call[h] = Idle
        /\ pending # <<>>
        /\ Goes(h, c)
        /\ pending' = Front(pending)
        /\ UNCHANGED <<hash, inFlight>>
        /\ c.at = "read" /\ c.msg = k
    BY <1>3, <2>1 DEF Consume
  <2>3. Range(pending) = Range(pending') \cup {k}
    BY <2>1, <2>2, PopRange DEF TypeInv, TypeOK
  <2>4. call'[h] = c
    BY <2>2, Goes1 DEF TypeInv
  <2>5. ASSUME NEW m \in Message PROVE Careful(m)
    <3>1. /\ ~Holding(h, m)
          /\ Queued(m) => Queued(m)' \/ Holding(h, m)'
      BY <2>2, <2>3, <2>4 DEF Holding, Queued, Idle, ConsumeStep
    <3>2. Kept(m) => Kept(m)'
      BY <1>1, <2>2, <3>1, HandlerKeeps DEF TypeInv
    <3>3. /\ Needed(m)' => Needed(m)
          /\ Stored(m)' => Stored(m)
      <4>1. (Queued(m)' => Needed(m)) /\ (m = k => Needed(m))
        BY <2>3 DEF Needed, Queued
      <4> QED
        BY <1>1, <1>2, <2>2, <4>1, HandlerAdds DEF TypeInv
    <3> QED
      BY <2>2, <3>2, <3>3 DEF Careful
  <2> QED
    BY <1>1, <2>5, CarefulKeeps
<1>4. ASSUME call[h].at \in ConsumeStep
      PROVE  /\ call[h].msg \in Message
             /\ call[h].retries \in Nat
             /\ [call[h] EXCEPT !.at = "zadd"].at = "zadd"
             /\ [call[h] EXCEPT !.at = "zadd"].msg = call[h].msg
             /\ \A r : /\ [call[h] EXCEPT !.at = "mark", !.retries = r].at = "mark"
                       /\ [call[h] EXCEPT !.at = "mark", !.retries = r].msg = call[h].msg
  <2>1. call[h] \in [at : ConsumeStep, msg : Message, retries : Nat]
    BY <1>4, CallParts DEF TypeInv
  <2> QED
    BY <2>1
<1>5. CASE ConsumeRead(h)
  <2>1. PICK k, c : /\ k = call[h].msg
                    /\ c = IF hash[k].retries = Unset THEN Idle
                           ELSE [call[h] EXCEPT !.at = "mark", !.retries = hash[k].retries]
    OBVIOUS
  <2>2. /\ call[h].at = "read"
        /\ Goes(h, c)
        /\ UNCHANGED <<hash, pending, inFlight>>
    BY <1>5, <2>1 DEF ConsumeRead, At, redis
  <2>3. /\ c.at \notin {"lpush", "read", "expire"}
        /\ hash[k].retries # Unset => c.at = "mark" /\ c.msg = k
    BY <1>4, <2>1, <2>2 DEF Idle, ConsumeStep
  <2>4. call'[h] = c
    BY <2>2, Goes1 DEF TypeInv
  <2>5. ASSUME NEW m \in Message, HasHash(m) PROVE Careful(m)
    <3>1. Holding(h, m) => Holding(h, m)'
      <4>1. ASSUME Holding(h, m) PROVE Holding(h, m)'
        <5>1. m = k /\ Needed(m)
          BY <2>1, <2>2, <4>1 DEF Holding, Needed
        <5>2. hash[k].retries # Unset
          BY <2>5, <5>1 DEF HasHash
        <5> QED
          BY <2>3, <2>4, <5>1, <5>2 DEF Holding, ConsumeStep
      <4> QED
        BY <4>1
    <3>2. Queued(m)' <=> Queued(m)
      BY <2>2 DEF Queued
    <3>3. Kept(m) => Kept(m)'
      BY <1>1, <2>2, <3>1, <3>2, HandlerKeeps DEF TypeInv
    <3>4. /\ Needed(m)' => Needed(m)
          /\ Stored(m)' => Stored(m)
      <4>1. Queued(m)' => Needed(m)
        BY <3>2 DEF Needed
      <4> QED
        BY <1>1, <1>2, <2>2, <2>3, <4>1, HandlerAdds DEF TypeInv
    <3> QED
      BY <2>2, <3>3, <3>4 DEF Careful
  <2> QED
    BY <1>1, <2>5, CarefulKeeps
<1>6. CASE ConsumeMark(h)
  <2>1. PICK k, c : k = call[h].msg /\ c = [call[h] EXCEPT !.at = "zadd"]
    OBVIOUS
  <2>2. /\ call[h].at = "mark"
        /\ Goes(h, c)
        /\ hash' = [hash EXCEPT ![k] = [status |-> InFlight, retries |-> call[h].retries]]
        /\ UNCHANGED <<pending, inFlight>>
    BY <1>6, <2>1 DEF ConsumeMark, At
  <2>3. c.at = "zadd" /\ c.msg = k /\ k \in Message /\ call[h].retries \in Nat
    BY <1>4, <2>1, <2>2 DEF ConsumeStep
  <2>4. call'[h] = c
    BY <2>2, Goes1 DEF TypeInv
  <2>5. ASSUME NEW m \in Message PROVE Careful(m)
    <3>1. Holding(h, m) => Holding(h, m)'
      BY <2>1, <2>3, <2>4 DEF Holding, ConsumeStep
    <3>2. Queued(m)' <=> Queued(m)
      BY <2>2 DEF Queued
    <3>3. Kept(m) => Kept(m)'
      BY <1>1, <2>2, <3>1, <3>2, HandlerKeeps DEF TypeInv
    <3>4. /\ Needed(m)' => Needed(m)
          /\ Stored(m)' => Stored(m)
      <4>1. Queued(m)' => Needed(m)
        BY <3>2 DEF Needed
      <4> QED
        BY <1>1, <1>2, <2>2, <2>3, <4>1, HandlerAdds DEF TypeInv
    <3>5. hash[m].retries # Unset => hash'[m].retries # Unset
      <4>1. hash'[m] = IF m = k THEN [status |-> InFlight, retries |-> call[h].retries] ELSE hash[m]
        BY <2>2, <2>3 DEF TypeInv, TypeOK
      <4>2. CASE m = k
        BY <2>3, <4>1, <4>2 DEF Unset
      <4>3. CASE m # k
        BY <4>1, <4>3
      <4> QED
        BY <4>2, <4>3
    <3> QED
      BY <3>3, <3>4, <3>5 DEF Careful
  <2> QED
    BY <1>1, <2>5, CarefulKeeps
<1>7. CASE ConsumeZadd(h)
  <2>1. PICK k : k = call[h].msg
    OBVIOUS
  <2>2. /\ call[h].at = "zadd"
        /\ Goes(h, Idle)
        /\ inFlight' = inFlight \cup {k}
        /\ UNCHANGED <<hash, pending>>
    BY <1>7, <2>1 DEF ConsumeZadd, At
  <2>3. Idle.at \notin {"lpush", "read", "expire"}
    BY DEF Idle
  <2>4. ASSUME NEW m \in Message PROVE Careful(m)
    <3>1. Holding(h, m) => m \in inFlight'
      BY <2>1, <2>2 DEF Holding
    <3>2. Queued(m)' <=> Queued(m)
      BY <2>2 DEF Queued
    <3>3. Kept(m) => Kept(m)'
      BY <1>1, <2>2, <3>1, <3>2, HandlerKeeps DEF TypeInv
    <3>4. /\ Needed(m)' => Needed(m)
          /\ Stored(m)' => Stored(m)
      <4>1. Queued(m)' => Needed(m)
        BY <3>2 DEF Needed
      <4> QED
        BY <1>1, <1>2, <2>2, <2>3, <4>1, HandlerAdds DEF TypeInv
    <3> QED
      BY <2>2, <3>3, <3>4 DEF Careful
  <2> QED
    BY <1>1, <2>4, CarefulKeeps
<1> QED
  BY <1>3, <1>5, <1>6, <1>7

\* What an acknowledgement takes out of flight was recorded as acknowledged before.
LEMMA AckKeeps ==
  ASSUME TypeInv, KeepInv, NEW h \in Handler, AckZrem(h)
  PROVE  KeepInv'
<1>1. /\ call[h].at = "zrem"
      /\ call[h].msg \in acked
      /\ Goes(h, Idle)
      /\ inFlight' = inFlight \ {call[h].msg}
      /\ UNCHANGED <<hash, pending, loop, faults, forward, accepted, acked, givenUp>>
  BY DEF AckZrem, At, TypeInv, AcksKnown
<1>2. Idle.at \notin {"lpush", "read", "expire"}
  BY DEF Idle
<1>3. ASSUME NEW m \in Message PROVE Careful(m)
  <2>1. ~Holding(h, m) /\ (Queued(m)' <=> Queued(m)) /\ (m \in inFlight => m \in inFlight' \/ m \in acked')
    BY <1>1 DEF Holding, Queued, ConsumeStep
  <2>2. Kept(m) => Kept(m)'
    BY <1>1, <2>1, HandlerKeeps DEF TypeInv
  <2>3. /\ Needed(m)' => Needed(m)
        /\ Stored(m)' => Stored(m)
    <3>1. Queued(m)' => Needed(m)
      BY <2>1 DEF Needed
    <3>2. (m \in accepted' => Stored(m)) /\ (forward'[m] = "stored" => Stored(m))
      BY <1>1 DEF Stored
    <3> QED
      BY <1>1, <1>2, <3>1, <3>2, HandlerAdds DEF TypeInv
  <2> QED
    BY <1>1, <2>2, <2>3 DEF Careful
<1>4. OutOfRetries'
  BY <1>1 DEF KeepInv, OutOfRetries, GivesUp
<1> QED
  BY <1>1, <1>3, <1>4, CarefulKeeps

\* A loop that goes on, with the handlers at rest
LEMMA LoopKeeps ==
  ASSUME TypeOK, NEW n \in Node, NEW l, Moves(n, l),
         UNCHANGED <<call, forward, faults, accepted, acked>>,
         NEW m \in Message,
         givenUp \subseteq givenUp',
         Queued(m) => Queued(m)',
         m \in inFlight => m \in inFlight' \/ Returning(n, m)' \/ m \in givenUp',
         Returning(n, m) => Returning(n, m)' \/ Queued(m)'
  PROVE  /\ Kept(m) => Kept(m)'
         /\ Stored(m)' => Stored(m)
<1>1. \A k \in Node \ {n} : Returning(k, m) => Returning(k, m)'
  BY Moves1 DEF Returning, GivesUp
<1>2. InHand(m) <=> (\E g \in Handler : Holding(g, m)) \/ \E k \in Node : Returning(k, m)
  BY DEF InHand, Holding, Returning
<1>3. InHand(m)' <=> (\E g \in Handler : Holding(g, m)') \/ \E k \in Node : Returning(k, m)'
  BY DEF InHand, Holding, Returning
<1>4. \A g \in Handler : Holding(g, m)' <=> Holding(g, m)
  BY DEF Holding
<1>5. Kept(m) => Kept(m)'
  BY <1>1, <1>2, <1>3, <1>4 DEF Kept, UnderWay, Queued
<1>6. Stored(m)' => Stored(m)
  BY DEF Stored
<1> QED
  BY <1>5, <1>6

\* What it adds to those whose hash is wanted, and to those at the end of their retries
LEMMA LoopAdds ==
  ASSUME TypeOK, NEW n \in Node, NEW l, Moves(n, l), UNCHANGED call, NEW m \in Message
  PROVE  /\ (Queued(m)' => Needed(m)) =>
              (Needed(m)' => Needed(m) \/ (l.at \in {"zrem", "lpush"} /\ l.msg = m))
         /\ OutOfRetries /\ givenUp \subseteq givenUp' /\
              (l.at = "zrem" /\ l.retries >= MaxRetries => l.msg \in givenUp') => OutOfRetries'
<1>1. loop'[n] = l /\ \A k \in Node \ {n} : loop'[k] = loop[k]
  BY Moves1
<1>2. ASSUME Queued(m)' => Needed(m), Needed(m)', ~(l.at \in {"zrem", "lpush"} /\ l.msg = m)
      PROVE  Needed(m)
  BY <1>1, <1>2 DEF Needed
<1>3. ASSUME OutOfRetries, givenUp \subseteq givenUp',
             l.at = "zrem" /\ l.retries >= MaxRetries => l.msg \in givenUp'
      PROVE  OutOfRetries'
  BY <1>1, <1>3 DEF OutOfRetries, GivesUp
<1> QED
  BY <1>2, <1>3

\* The loop looks for work.
LEMMA LoopReadsKeep ==
  ASSUME TypeInv, KeepInv, NEW n \in Node, Scan(n) \/ \E m \in Message : ReadExpired(n, m)
  PROVE  KeepInv'
<1>1. PICK l : /\ Moves(n, l)
               /\ loop[n].at \notin {"zrem", "lpush"}
               /\ l.at \notin {"zrem", "lpush"}
               /\ UNCHANGED <<redis, call, forward, faults, history>>
  <2>1. CASE Scan(n)
    <3>1. NextExpired(due).at \notin {"zrem", "lpush"}
      BY DEF NextExpired
    <3> QED
      BY <2>1, <3>1 DEF Scan, LoopAt
  <2>2. ASSUME NEW m \in Message, ReadExpired(n, m)
        PROVE  \E l : /\ Moves(n, l)
                      /\ loop[n].at \notin {"zrem", "lpush"}
                      /\ l.at \notin {"zrem", "lpush"}
                      /\ UNCHANGED <<redis, call, forward, faults, history>>
    <3>1. PICK rest, l :
            /\ rest = loop[n].todo \ {m}
            /\ l = IF hash[m] = Absent THEN NextExpired(rest)
                   ELSE IF hash[m].retries = Unset THEN Dead
                   ELSE [at |-> "save", todo |-> rest, msg |-> m, retries |-> hash[m].retries]
      OBVIOUS
    <3>2. l.at \notin {"zrem", "lpush"}
      BY <3>1 DEF NextExpired, Dead
    <3> QED
      BY <2>2, <3>1, <3>2 DEF ReadExpired, LoopAt
  <2> QED
    BY <2>1, <2>2
<1>2. ASSUME NEW m \in Message PROVE Careful(m)
  <2>1. ~Returning(n, m) /\ (Queued(m)' <=> Queued(m))
    BY <1>1 DEF Returning, Queued, redis
  <2>2. (Kept(m) => Kept(m)') /\ (Stored(m)' => Stored(m))
    BY <1>1, <2>1, LoopKeeps DEF TypeInv, redis, history
  <2>3. Needed(m)' => Needed(m)
    <3>1. Queued(m)' => Needed(m)
      BY <2>1 DEF Needed
    <3> QED
      BY <1>1, <3>1, LoopAdds DEF TypeInv
  <2> QED
    BY <1>1, <2>2, <2>3 DEF Careful, redis
<1>3. OutOfRetries'
  <2>1. loop'[n] = l /\ \A k \in Node \ {n} : loop'[k] = loop[k]
    BY <1>1, Moves1 DEF TypeInv
  <2> QED
    BY <1>1, <2>1 DEF KeepInv, OutOfRetries, GivesUp, history
<1> QED
  BY <1>1, <1>2, <1>3, CarefulKeeps

\* The loop redelivers: it gives a message up on record, or has it in hand from the
\* moment it is out of flight until it is in the queue.
LEMMA RedeliveryKeeps ==
  ASSUME TypeInv, KeepInv, NEW n \in Node, SaveExpired(n) \/ RemoveExpired(n) \/ PushAgain(n)
  PROVE  KeepInv'
<1>0. PICK k, r : k = loop[n].msg /\ r = loop[n].retries
  OBVIOUS
<1>1. /\ k \in Message /\ r \in Nat
      /\ loop[n].todo \in SUBSET Message
      /\ \A s \in HandStep : /\ [loop[n] EXCEPT !.at = s].at = s
                             /\ [loop[n] EXCEPT !.at = s].msg = k
                             /\ [loop[n] EXCEPT !.at = s].retries = r
  <2>1. loop[n] \in [at : HandStep, todo : SUBSET Message, msg : Message, retries : Nat]
    BY LoopParts DEF TypeInv, SaveExpired, RemoveExpired, PushAgain, LoopAt, HandStep
  <2> QED
    BY <1>0, <2>1
<1>2. NextExpired(loop[n].todo).at \in {"sleep", "read"}
  BY <1>1, NextExpiredType
<1>3. MaxRetries \in Nat
  BY QueueAssumption
<1>4. CASE SaveExpired(n)
  <2>1. PICK l : l = [loop[n] EXCEPT !.at = "zrem"]
    OBVIOUS
  <2>2. /\ loop[n].at = "save"
        /\ hash' = [hash EXCEPT ![k] = IF r >= MaxRetries THEN [status |-> Failed, retries |-> r]
                                       ELSE [status |-> Pending, retries |-> r + 1]]
        /\ givenUp' = IF r >= MaxRetries THEN givenUp \cup {k} ELSE givenUp
        /\ Moves(n, l)
        /\ UNCHANGED <<pending, inFlight, call, forward, faults, accepted, acked>>
    BY <1>0, <1>4, <2>1 DEF SaveExpired, LoopAt, GivesUp
  <2>3. l.at = "zrem" /\ l.msg = k /\ l.retries = r
    BY <1>1, <2>1 DEF HandStep
  <2>4. hash'[k].retries # Unset /\ \A m \in Message \ {k} : hash'[m] = hash[m]
    <3>1. hash'[k].retries \in {r, r + 1} /\ \A m \in Message \ {k} : hash'[m] = hash[m]
      BY <1>1, <2>2 DEF TypeInv, TypeOK
    <3> QED
      BY <1>1, <3>1 DEF Unset
  <2>5. OutOfRetries'
    BY <1>1, <2>2, <2>3, LoopAdds DEF TypeInv, KeepInv
  <2>6. ASSUME NEW m \in Message PROVE Careful(m)
    <3>1. ~Returning(n, m) /\ (Queued(m)' <=> Queued(m))
      BY <2>2 DEF Returning, Queued
    <3>2. (Kept(m) => Kept(m)') /\ (Stored(m)' => Stored(m))
      BY <2>2, <3>1, LoopKeeps DEF TypeInv
    <3>3. Needed(m)' => Needed(m) \/ m = k
      <4>1. Queued(m)' => Needed(m)
        BY <3>1 DEF Needed
      <4> QED
        BY <2>2, <2>3, <4>1, LoopAdds DEF TypeInv
    <3> QED
      BY <2>4, <3>2, <3>3 DEF Careful
  <2> QED
    BY <2>2, <2>5, <2>6, CarefulKeeps
<1>5. CASE RemoveExpired(n)
  <2>1. PICK l : l = IF GivesUp(n) THEN NextExpired(loop[n].todo) ELSE [loop[n] EXCEPT !.at = "lpush"]
    OBVIOUS
  <2>2. /\ loop[n].at = "zrem"
        /\ inFlight' = inFlight \ {k}
        /\ Moves(n, l)
        /\ UNCHANGED <<hash, pending, call, forward, faults, accepted, acked, givenUp>>
    BY <1>0, <1>5, <2>1 DEF RemoveExpired, LoopAt, history
  <2>3. /\ l.at # "zrem"
        /\ l.at = "lpush" => l.msg = k
        /\ ~GivesUp(n) => l.at = "lpush" /\ l.msg = k /\ l.retries = r
    BY <1>1, <1>2, <2>1 DEF HandStep
  <2>4. loop'[n] = l
    BY <2>2, Moves1 DEF TypeInv
  <2>5. k \in givenUp' \/ Returning(n, k)'
    <3>1. CASE GivesUp(n)
      BY <1>0, <2>2, <3>1 DEF KeepInv, OutOfRetries
    <3>2. CASE ~GivesUp(n)
      <4>1. ~(r >= MaxRetries)
        BY <1>0, <3>2 DEF GivesUp
      <4> QED
        BY <2>3, <2>4, <3>2, <4>1 DEF Returning, GivesUp
    <3> QED
      BY <3>1, <3>2
  <2>6. OutOfRetries'
    BY <1>1, <2>2, <2>3, LoopAdds DEF TypeInv, KeepInv
  <2>7. ASSUME NEW m \in Message PROVE Careful(m)
    <3>1. /\ Queued(m)' <=> Queued(m)
          /\ m \in inFlight => m \in inFlight' \/ Returning(n, m)' \/ m \in givenUp'
      BY <2>2, <2>5 DEF Queued
    <3>2. Returning(n, m) => Returning(n, m)'
      <4>1. ASSUME Returning(n, m) PROVE Returning(n, m)'
        <5>1. m = k /\ ~GivesUp(n) /\ ~(r >= MaxRetries)
          BY <1>0, <4>1 DEF Returning, GivesUp
        <5> QED
          BY <2>3, <2>4, <5>1 DEF Returning, GivesUp
      <4> QED
        BY <4>1
    <3>3. (Kept(m) => Kept(m)') /\ (Stored(m)' => Stored(m))
      BY <2>2, <3>1, <3>2, LoopKeeps DEF TypeInv
    <3>4. Needed(m)' => Needed(m)
      <4>1. (Queued(m)' => Needed(m)) /\ (m = k => Needed(m))
        BY <1>0, <2>2, <3>1 DEF Needed
      <4> QED
        BY <2>2, <2>3, <4>1, LoopAdds DEF TypeInv
    <3> QED
      BY <2>2, <3>3, <3>4 DEF Careful
  <2> QED
    BY <2>2, <2>6, <2>7, CarefulKeeps
<1>6. CASE PushAgain(n)
  <2>1. PICK l : l = NextExpired(loop[n].todo)
    OBVIOUS
  <2>2. /\ loop[n].at = "lpush"
        /\ pending' = <<k>> \o pending
        /\ Moves(n, l)
        /\ l.at \notin {"zrem", "lpush"}
        /\ UNCHANGED <<hash, inFlight, call, forward, faults, accepted, acked, givenUp>>
    BY <1>0, <1>2, <1>6, <2>1 DEF PushAgain, LoopAt, history
  <2>3. Range(pending') = Range(pending) \cup {k}
    BY <1>1, <2>2, PushRange DEF TypeInv, TypeOK
  <2>4. OutOfRetries'
    BY <1>1, <2>2, LoopAdds DEF TypeInv, KeepInv
  <2>5. ASSUME NEW m \in Message PROVE Careful(m)
    <3>1. (Queued(m) => Queued(m)') /\ (m = k => Queued(m)')
      BY <2>3 DEF Queued
    <3>2. Returning(n, m) => Queued(m)'
      BY <1>0, <3>1 DEF Returning
    <3>3. (Kept(m) => Kept(m)') /\ (Stored(m)' => Stored(m))
      BY <2>2, <3>1, <3>2, LoopKeeps DEF TypeInv
    <3>4. Needed(m)' => Needed(m)
      <4>1. Queued(m)' => Needed(m)
        BY <1>0, <2>2, <2>3 DEF Needed, Queued
      <4> QED
        BY <2>2, <4>1, LoopAdds DEF TypeInv
    <3> QED
      BY <2>2, <3>3, <3>4 DEF Careful
  <2> QED
    BY <2>2, <2>4, <2>5, CarefulKeeps
<1> QED
  BY <1>4, <1>5, <1>6

\* Every fault has at most one message in its hands, or is about its hash; the others
\* are as they were.
LEMMA FaultKeeps ==
  ASSUME TypeInv, KeepInv,
         \/ \E h \in Handler : Abandon(h)
         \/ \E n \in Node : LoopFails(n) \/ Restart(n)
         \/ \E k \in Message : Lapse(k)
  PROVE  KeepInv'
<1>1. PICK X \in SUBSET Message : KeptBut(X)
  BY DEF KeepInv
<1>2. /\ faults \in Nat /\ faults' = faults + 1
      /\ UNCHANGED <<pending, inFlight, forward, accepted, acked, givenUp>>
  BY QueueAssumption DEF Abandon, LoopFails, Restart, Lapse, Fault, redis, history, TypeInv, TypeOK
<1>3. /\ \A h \in Handler : call'[h] = call[h] \/ call'[h] = Idle
      /\ \A n \in Node : loop'[n] = loop[n] \/ loop'[n] = Dead \/ loop'[n] = Asleep
  BY Goes1, Moves1 DEF Abandon, LoopFails, Restart, Lapse, TypeInv
<1>4. \E k : \A m \in Message \ {k} :
        hash'[m] = hash[m] /\ (InHand(m) => InHand(m)')
  <2>1. CASE \E h \in Handler : Abandon(h)
    <3>1. PICK h \in Handler : Abandon(h)
      BY <2>1
    <3>2. UNCHANGED <<loop, hash>> /\ \A g \in Handler \ {h} : call'[g] = call[g]
      BY <3>1, Goes1 DEF Abandon, redis, TypeInv
    <3>3. \A m \in Message \ {call[h].msg} : InHand(m) => InHand(m)'
      BY <3>2 DEF InHand, GivesUp
    <3> QED
      BY <3>2, <3>3
  <2>2. CASE \E n \in Node : LoopFails(n) \/ Restart(n)
    <3>1. PICK n \in Node : LoopFails(n) \/ Restart(n)
      BY <2>2
    <3>2. UNCHANGED <<call, hash>> /\ \A k \in Node \ {n} : loop'[k] = loop[k]
      BY <3>1, Moves1 DEF LoopFails, Restart, redis, TypeInv
    <3>3. \A m \in Message \ {loop[n].msg} : InHand(m) => InHand(m)'
      BY <3>2 DEF InHand, GivesUp
    <3> QED
      BY <3>2, <3>3
  <2>3. CASE \E k \in Message : Lapse(k)
    <3>1. PICK k \in Message : Lapse(k)
      BY <2>3
    <3>2. UNCHANGED <<call, loop>> /\ \A m \in Message \ {k} : hash'[m] = hash[m]
      BY <3>1 DEF Lapse, TypeInv, TypeOK
    <3>3. \A m \in Message : InHand(m) => InHand(m)'
      BY <3>2 DEF InHand, GivesUp
    <3> QED
      BY <3>2, <3>3
  <2> QED
    BY <2>1, <2>2, <2>3
<1>5. PICK k : \A m \in Message \ {k} : hash'[m] = hash[m] /\ (InHand(m) => InHand(m)')
  BY <1>4
<1>6. PICK Y : Y = X \cup ({k} \cap Message)
  OBVIOUS
<1>7. Y \in SUBSET Message /\ IsFiniteSet(Y) /\ Cardinality(Y) <= faults'
  <2>1. CASE k \in Message
    <3>1. /\ Y = X \cup {k}
          /\ IsFiniteSet(Y)
          /\ Cardinality(Y) = IF k \in X THEN Cardinality(X) ELSE Cardinality(X) + 1
      BY <1>1, <1>6, <2>1, FS_AddElement DEF KeptBut
    <3>2. Cardinality(X) \in Nat
      BY <1>1, FS_CardinalityType DEF KeptBut
    <3> QED
      BY <1>1, <1>2, <2>1, <3>1, <3>2 DEF KeptBut
  <2>2. CASE k \notin Message
    <3>1. Y = X
      BY <1>6, <2>2
    <3>2. Cardinality(X) \in Nat
      BY <1>1, FS_CardinalityType DEF KeptBut
    <3> QED
      BY <1>1, <1>2, <3>1, <3>2 DEF KeptBut
  <2> QED
    BY <2>1, <2>2
<1>8. ASSUME NEW m \in Message \ Y PROVE HasHash(m)' /\ (Stored(m)' => Kept(m)')
  <2>1. m \in Message \ X /\ m # k
    BY <1>6, <1>8
  <2>2. /\ Needed(m)' => Needed(m)
        /\ Stored(m)' => Stored(m)
    BY <1>2, <1>3 DEF Needed, Stored, Queued, Idle, Dead, Asleep
  <2>3. Kept(m) => Kept(m)'
    BY <1>2, <1>5, <2>1 DEF Kept, UnderWay
  <2> QED
    BY <1>1, <1>5, <2>1, <2>2, <2>3 DEF KeptBut, HasHash
<1>9. OutOfRetries'
  BY <1>2, <1>3 DEF KeepInv, OutOfRetries, GivesUp, Dead, Asleep
<1> QED
  BY <1>7, <1>8, <1>9 DEF KeepInv, KeptBut

\* Time passes.
LEMMA TimeKeeps ==
  ASSUME TypeInv, KeepInv, NEW k \in Message, PassDeadline(k)
  PROVE  KeepInv'
<1>1. UNCHANGED <<hash, pending, inFlight, call, loop, forward, faults, accepted, acked, givenUp>>
  BY DEF PassDeadline, history
<1>2. ASSUME NEW m \in Message PROVE /\ Needed(m)' <=> Needed(m)
                                     /\ Stored(m)' <=> Stored(m)
                                     /\ Kept(m)' <=> Kept(m)
  BY <1>1 DEF Needed, Queued, Stored, Kept, UnderWay, InHand, GivesUp
<1>3. OutOfRetries'
  BY <1>1 DEF KeepInv, OutOfRetries, GivesUp
<1> QED
  BY <1>1, <1>2, <1>3, CarefulKeeps DEF Careful

\* The invariant that losses are counted by, for any number of loops and handlers
LEMMA KeepInvariance == QueueSpec => [](TypeInv /\ KeepInv)
<1>1. Init => KeepInv
  <2> SUFFICES ASSUME Init PROVE KeepInv
    OBVIOUS
  <2>1. /\ Range(pending) = {} /\ accepted = {} /\ faults = 0
        /\ \A h \in Handler : call[h].at = "idle"
        /\ \A n \in Node : loop[n].at = "sleep"
        /\ \A m \in Message : forward[m] = "no"
    BY DEF Init, Idle, Asleep, Range
  <2>2. KeptBut({})
    BY <2>1, FS_EmptySet DEF KeptBut, HasHash, Needed, Queued, Stored
  <2> QED
    BY <2>1, <2>2 DEF KeepInv, OutOfRetries
<1>2. TypeInv /\ KeepInv /\ [QueueNext]_vars => KeepInv'
  <2> SUFFICES ASSUME TypeInv, KeepInv, [QueueNext]_vars PROVE KeepInv'
    OBVIOUS
  <2>1. CASE UNCHANGED vars
    <3>1. \A m : /\ HasHash(m)' <=> HasHash(m)
                 /\ Stored(m)' <=> Stored(m)
                 /\ Kept(m)' <=> Kept(m)
      BY <2>1 DEF vars, redis, history, HasHash, Needed, Queued, Stored, Kept, UnderWay, InHand, GivesUp
    <3>2. OutOfRetries' /\ faults' = faults
      BY <2>1 DEF vars, redis, history, KeepInv, OutOfRetries, GivesUp
    <3> QED
      BY <3>1, <3>2 DEF KeepInv, KeptBut
  <2>2. CASE QueueNext
    <3>1. ASSUME NEW h \in Handler, HandlerStep(h) PROVE KeepInv'
      BY <3>1, RequestsKeep, StoreKeeps, ConsumeKeeps, AckKeeps DEF HandlerStep
    <3>2. ASSUME NEW n \in Node, LoopStep(n) PROVE KeepInv'
      BY <3>2, LoopReadsKeep, RedeliveryKeeps DEF LoopStep
    <3> QED
      BY <2>2, <3>1, <3>2, RequestsKeep, ConsumeKeeps, FaultKeeps, TimeKeeps DEF QueueNext
  <2> QED
    BY <2>1, <2>2
<1> QED
  BY <1>1, <1>2, TypeInvariance, PTL DEF QueueSpec

\* Of the messages whose producer was told "produced" no more are lost than handlers
\* and loops have failed and hashes expired, for any number of redelivery loops, with
\* messages stored twice because a forwarding timed out and acknowledgements late or
\* repeated; without faults nothing is lost.
THEOREM LossesAreCounted == QueueSpec => [](LossesAreFaults /\ (faults = 0 => NotLost))
<1>1. ASSUME TypeInv, KeepInv PROVE LossesAreFaults /\ (faults = 0 => NotLost)
  <2>1. PICK X \in SUBSET Message : KeptBut(X)
    BY <1>1 DEF KeepInv
  <2>2. Lost \subseteq X
    BY <1>1, <2>1 DEF Lost, KeptBut, Stored, Kept, TypeInv, TypeOK
  <2>3. /\ IsFiniteSet(Lost) /\ Cardinality(Lost) <= Cardinality(X)
        /\ Cardinality(Lost) \in Nat /\ Cardinality(X) \in Nat
        /\ Cardinality(X) <= faults /\ faults \in Nat
    BY <1>1, <2>1, <2>2, FS_Subset, FS_CardinalityType, QueueAssumption DEF KeptBut, TypeInv, TypeOK
  <2>4. LossesAreFaults
    BY <2>3 DEF LossesAreFaults
  <2>5. ASSUME faults = 0 PROVE NotLost
    <3>1. Lost = {}
      BY <2>3, <2>5, FS_EmptySet
    <3> QED
      BY <3>1 DEF Lost, NotLost
  <2> QED
    BY <2>4, <2>5
<1> QED
  BY <1>1, KeepInvariance, PTL

-----------------------------------------------------------------------------
(* No message is given up early *)

\* Handler h has read the hash of m; loop n has read it, or has written it back.
Marking(h, m) == call[h].at \in ConsumeStep /\ call[h].msg = m
Saving(n, m) == loop[n].at = "save" /\ loop[n].msg = m
Removing(n, m) == loop[n].at = "zrem" /\ loop[n].msg = m

\* Loop n can come to count the delivery of m that is the last so far.
MayCount(n, m) == m \in inFlight \/ m \in loop[n].todo \/ Saving(n, m)

\* S tells which loop has counted which delivery of m; whoever knows a number of retries
\* of m knows of no more than S and the faults account for.
Bounded(r, S) == r <= Cardinality(S) + faults
CountedBy(m, S) ==
  /\ S \subseteq Node \X (1..delivered[m])
  /\ Bounded(hash[m].retries, S)
  /\ \A h \in Handler : Marking(h, m) => Bounded(call[h].retries, S)
  /\ \A n \in Node : Saving(n, m) => Bounded(loop[n].retries, S)
  /\ \A n \in Node : Saving(n, m) \/ Removing(n, m) => m \notin loop[n].todo
  /\ \A n \in Node : MayCount(n, m) =>
       delivered[m] >= 1 /\ (<<n, delivered[m]>> \in S => Removing(n, m))
  /\ m \in givenUp => Bounded(MaxRetries + 1, S)

LateInv == \A m \in Message : \E S : CountedBy(m, S)

\* What S counts is finite, and at most all deliveries by all loops.
LEMMA CountsAreFinite ==
  ASSUME TypeOK, NEW m \in Message, NEW S, S \subseteq Node \X (1..delivered[m])
  PROVE  /\ IsFiniteSet(S) /\ Cardinality(S) \in Nat
         /\ Cardinality(S) <= Cardinality(Node) * delivered[m]
<1>1. IsFiniteSet(Node) /\ Cardinality(Node) \in Nat
  BY QueueAssumption, FS_CardinalityType
<1>2. delivered[m] \in Nat
  BY DEF TypeOK
<1>3. IsFiniteSet(1..delivered[m]) /\ Cardinality(1..delivered[m]) = delivered[m]
  <2>1. 0 <= delivered[m] /\ delivered[m] \in Int /\ 1 \in Int
    BY <1>2
  <2>2. IsFiniteSet(1..delivered[m])
    BY <2>1, FS_Interval
  <2>3. Cardinality(1..delivered[m]) = IF 1 > delivered[m] THEN 0 ELSE delivered[m] - 1 + 1
    BY <2>1, FS_Interval
  <2> QED
    BY <1>2, <2>2, <2>3
<1>4. /\ IsFiniteSet(Node \X (1..delivered[m]))
      /\ Cardinality(Node \X (1..delivered[m])) = Cardinality(Node) * delivered[m]
  BY <1>1, <1>3, FS_Product
<1> QED
  BY <1>4, FS_Subset, FS_CardinalityType

\* A bound stays one when there are more faults.
LEMMA StaysBounded ==
  ASSUME TypeOK, NEW m \in Message, NEW S, CountedBy(m, S), faults' \in {faults, faults + 1}
  PROVE  /\ \A r \in Int : Bounded(r, S) => Bounded(r, S)'
         /\ Bounded(0, S)
<1>1. Cardinality(S) \in Nat /\ faults \in Nat
  BY CountsAreFinite, QueueAssumption DEF TypeOK, CountedBy
<1> QED
  BY <1>1 DEF Bounded

\* The deliveries of a message by all loops are a bound on what anyone has counted.
LEMMA LateEnough ==
  ASSUME TypeOK, LateInv
  PROVE  GivenUpLate
<1>1. ASSUME NEW m \in givenUp PROVE Cardinality(Node) * delivered[m] + faults > MaxRetries
  <2>1. m \in Message
    BY DEF TypeOK
  <2>2. PICK S : CountedBy(m, S)
    BY <2>1 DEF LateInv
  <2>3. PICK p : p = Cardinality(Node) * delivered[m]
    OBVIOUS
  <2>4. Cardinality(S) \in Nat /\ Cardinality(S) <= p
    BY <2>1, <2>2, <2>3, CountsAreFinite DEF CountedBy
  <2>5. p \in Nat
    <3>1. Cardinality(Node) \in Nat /\ delivered[m] \in Nat
      BY <2>1, QueueAssumption, FS_CardinalityType DEF TypeOK
    <3> QED
      BY <2>3, <3>1
  <2>6. MaxRetries + 1 <= Cardinality(S) + faults
    BY <2>2 DEF CountedBy, Bounded
  <2>7. MaxRetries \in Nat /\ faults \in Nat
    BY QueueAssumption DEF TypeOK
  <2>8. p + faults > MaxRetries
    BY <2>4, <2>5, <2>6, <2>7
  <2> QED
    BY <2>3, <2>8
<1> QED
  BY <1>1 DEF GivenUpLate

\* A handler that writes or takes no number but those it may know, and puts a message
\* in flight only as a new delivery
LEMMA HandlerCounts ==
  ASSUME TypeOK, NEW h \in Handler, NEW c, Goes(h, c), UNCHANGED <<loop, givenUp>>,
         faults' \in {faults, faults + 1},
         NEW m \in Message, NEW S, CountedBy(m, S),
         Bounded(hash'[m].retries, S), hash'[m].retries \in Int,
         c.at \in ConsumeStep /\ c.msg = m => c.retries \in Nat /\ Bounded(c.retries, S),
         \/ delivered'[m] = delivered[m] /\ (m \in inFlight' => m \in inFlight)
         \/ delivered'[m] = delivered[m] + 1
  PROVE  CountedBy(m, S)'
<1>1. /\ \A r \in Int : Bounded(r, S) => Bounded(r, S)'
      /\ delivered[m] \in Nat
  BY StaysBounded DEF TypeOK
<1>2. S \subseteq Node \X (1..delivered'[m])
  <2>1. 1..delivered[m] \subseteq 1..delivered'[m]
    BY <1>1
  <2> QED
    BY <2>1 DEF CountedBy
<1>3. Bounded(hash[m].retries, S)'
  BY <1>1 DEF Bounded
<1>4. ASSUME NEW g \in Handler, Marking(g, m)' PROVE Bounded(call[g].retries, S)'
  <2>1. call'[h] = c /\ \A k \in Handler \ {h} : call'[k] = call[k]
    BY Goes1
  <2>2. CASE g = h
    <3>1. c.retries \in Nat /\ Bounded(c.retries, S)
      BY <1>4, <2>1, <2>2 DEF Marking
    <3>2. call'[g].retries = c.retries
      BY <2>1, <2>2
    <3> QED
      BY <1>1, <3>1, <3>2 DEF Bounded
  <2>3. CASE g # h
    <3>1. call'[g] = call[g] /\ Marking(g, m)
      BY <1>4, <2>1, <2>3 DEF Marking
    <3>2. call[g].retries \in Nat
      BY <3>1, CallParts DEF Marking
    <3> QED
      BY <1>1, <3>1, <3>2 DEF Bounded, CountedBy
  <2> QED
    BY <2>2, <2>3
<1>5. ASSUME NEW n \in Node
      PROVE  /\ Saving(n, m)' <=> Saving(n, m)
             /\ Removing(n, m)' <=> Removing(n, m)
             /\ loop'[n] = loop[n]
  BY DEF Saving, Removing
<1>6. ASSUME NEW n \in Node, Saving(n, m)' PROVE Bounded(loop[n].retries, S)'
  <2>1. Saving(n, m) /\ loop[n].retries \in Nat
    BY <1>5, <1>6, LoopParts DEF Saving, HandStep
  <2> QED
    BY <1>1, <1>5, <2>1 DEF Bounded, CountedBy
<1>7. ASSUME NEW n \in Node, MayCount(n, m)'
      PROVE  delivered'[m] >= 1 /\ (<<n, delivered'[m]>> \in S => Removing(n, m)')
  <2>1. CASE delivered'[m] = delivered[m] /\ (m \in inFlight' => m \in inFlight)
    BY <1>5, <1>7, <2>1 DEF MayCount, CountedBy
  <2>2. CASE delivered'[m] = delivered[m] + 1
    <3>1. delivered'[m] \notin 1..delivered[m]
      BY <1>1, <2>2
    <3>2. <<n, delivered'[m]>> \notin S
      BY <3>1 DEF CountedBy
    <3> QED
      BY <1>1, <2>2, <3>2
  <2> QED
    BY <2>1, <2>2
<1>8. m \in givenUp' => Bounded(MaxRetries + 1, S)'
  BY <1>1, QueueAssumption DEF CountedBy
<1> QED
  BY <1>2, <1>3, <1>4, <1>5, <1>6, <1>7, <1>8 DEF CountedBy

\* What the handlers do with a message is no more than that.
LEMMA HandlersCount ==
  ASSUME TypeInv, LateInv, NEW h \in Handler,
         \/ \E m \in Message : Produce(h, m) \/ ReceiveStore(h, m) \/ Acknowledge(h, m)
         \/ Consume(h) \/ HandlerStep(h) \/ Abandon(h)
  PROVE  LateInv'
<1>1. SUFFICES ASSUME NEW m \in Message PROVE \E S : CountedBy(m, S)'
  BY DEF LateInv
<1>2. PICK S : CountedBy(m, S)
  BY DEF LateInv
<1>3. /\ Bounded(hash[m].retries, S) /\ hash[m].retries \in Nat \cup {Unset}
      /\ Unset \in Int /\ 0 \in Nat
      /\ Bounded(0, S)
  <2>1. hash[m] \in Hash \cup {Absent}
    BY DEF TypeInv, TypeOK
  <2>2. hash[m].retries \in Nat \cup {Unset}
    BY <2>1 DEF Hash, Absent
  <2>3. Cardinality(S) \in Nat /\ faults \in Nat
    BY <1>2, CountsAreFinite, QueueAssumption DEF TypeInv, TypeOK, CountedBy
  <2> QED
    BY <1>2, <2>2, <2>3 DEF CountedBy, Bounded, Unset
<1>4. hash[m].retries \in Int
  BY <1>3
<1>5. CASE \/ \E k \in Message : Produce(h, k) \/ ReceiveStore(h, k) \/ Acknowledge(h, k)
           \/ ForwardAnswered(h) \/ ForwardFailed(h) \/ AckComplete(h)
  <2>1. PICK c : Request(h, c)
    BY <1>5, RequestParts
  <2>2. /\ Goes(h, c) /\ c.at \notin ConsumeStep
        /\ UNCHANGED <<inFlight, loop, faults, givenUp, delivered>>
        /\ hash'[m].retries = hash[m].retries
    BY <2>1 DEF Request, ConsumeStep
  <2> QED
    BY <1>2, <1>3, <1>4, <2>2, HandlerCounts DEF TypeInv
<1>6. CASE StoreHash(h) \/ StorePush(h) \/ StoreExpire(h)
  <2>1. call[h] \in [at : StoreStep, msg : Message, remote : BOOLEAN]
    BY <1>6, CallParts DEF TypeInv, StoreHash, StorePush, StoreExpire, At, StoreStep
  <2>2. PICK c : /\ Goes(h, c)
                 /\ c.at \notin ConsumeStep
                 /\ UNCHANGED <<inFlight, loop, faults, givenUp, delivered>>
                 /\ \/ UNCHANGED hash
                    \/ hash' = [hash EXCEPT ![call[h].msg] = [status |-> Pending, retries |-> 0]]
    <3>1. \A s \in {"lpush", "expire"} : [call[h] EXCEPT !.at = s].at = s
      BY <2>1
    <3>2. CASE StoreHash(h)
      BY <3>1, <3>2 DEF StoreHash, ConsumeStep, history
    <3>3. CASE StorePush(h)
      BY <3>1, <3>3 DEF StorePush, ConsumeStep, history
    <3>4. CASE StoreExpire(h)
      BY <3>4 DEF StoreExpire, ConsumeStep, Idle
    <3> QED
      BY <1>6, <3>2, <3>3, <3>4
  <2>3. hash'[m].retries = hash[m].retries \/ hash'[m].retries = 0
    <3>1. CASE UNCHANGED hash
      BY <3>1
    <3>2. CASE hash' = [hash EXCEPT ![call[h].msg] = [status |-> Pending, retries |-> 0]]
      BY <3>2 DEF TypeInv, TypeOK
    <3> QED
      BY <2>2, <3>1, <3>2
  <2> QED
    BY <1>2, <1>3, <1>4, <2>2, <2>3, HandlerCounts DEF TypeInv
<1>7. CASE Consume(h)
  <2>1. PICK c : c = [at |-> "read", msg |-> Last(pending), retries |-> 0]
    OBVIOUS
  <2>2. Goes(h, c) /\ c.retries = 0 /\ UNCHANGED <<hash, inFlight, loop, faults, givenUp, delivered>>
    BY <1>7, <2>1 DEF Consume, history
  <2> QED
    BY <1>2, <1>3, <1>4, <2>2, HandlerCounts DEF TypeInv
<1>8. CASE ConsumeRead(h) \/ ConsumeMark(h) \/ ConsumeZadd(h)
  <2>1. call[h] \in [at : ConsumeStep, msg : Message, retries : Nat]
    BY <1>8, CallParts DEF TypeInv, ConsumeRead, ConsumeMark, ConsumeZadd, At, ConsumeStep
  <2>2. call[h].msg = m => Bounded(call[h].retries, S)
    BY <1>2, <2>1 DEF CountedBy, Marking
  <2>3. CASE ConsumeRead(h)
    <3>1. PICK c : /\ Goes(h, c)
                   /\ c = IF hash[call[h].msg].retries = Unset THEN Idle
                          ELSE [call[h] EXCEPT !.at = "mark", !.retries = hash[call[h].msg].retries]
      BY <2>3 DEF ConsumeRead
    <3>2. c.at \in ConsumeStep /\ c.msg = m => c.retries \in Nat /\ Bounded(c.retries, S)
      <4>1. ASSUME c.at \in ConsumeStep, c.msg = m PROVE c.retries = hash[m].retries /\ c.retries # Unset
        <5>1. c # Idle
          BY <4>1 DEF Idle, ConsumeStep
        <5>2. /\ hash[call[h].msg].retries # Unset
              /\ c = [call[h] EXCEPT !.at = "mark", !.retries = hash[call[h].msg].retries]
          BY <3>1, <5>1
        <5>3. c.msg = call[h].msg /\ c.retries = hash[call[h].msg].retries
          BY <2>1, <5>2
        <5> QED
          BY <4>1, <5>2, <5>3
      <4> QED
        BY <1>3, <4>1
    <3>3. UNCHANGED <<hash, inFlight, loop, faults, givenUp, delivered>>
      BY <2>3 DEF ConsumeRead, redis, history
    <3> QED
      BY <1>2, <1>3, <1>4, <3>1, <3>2, <3>3, HandlerCounts DEF TypeInv
  <2>4. CASE ConsumeMark(h)
    <3>1. PICK c : c = [call[h] EXCEPT !.at = "zadd"]
      OBVIOUS
    <3>2. /\ Goes(h, c)
          /\ hash' = [hash EXCEPT ![call[h].msg] = [status |-> InFlight, retries |-> call[h].retries]]
          /\ UNCHANGED <<inFlight, loop, faults, givenUp, delivered>>
      BY <2>4, <3>1 DEF ConsumeMark, history
    <3>3. c.msg = call[h].msg /\ c.retries = call[h].retries /\ call[h].retries \in Nat
      BY <2>1, <3>1
    <3>4. hash'[m].retries = IF call[h].msg = m THEN call[h].retries ELSE hash[m].retries
      BY <3>2 DEF TypeInv, TypeOK
    <3> QED
      BY <1>2, <1>3, <1>4, <2>2, <3>2, <3>3, <3>4, HandlerCounts DEF TypeInv
  <2>5. CASE ConsumeZadd(h)
    <3>1. /\ Goes(h, Idle) /\ Idle.at \notin ConsumeStep
          /\ inFlight' = inFlight \cup {call[h].msg}
          /\ delivered' = [delivered EXCEPT ![call[h].msg] = @ + 1]
          /\ UNCHANGED <<hash, loop, faults, givenUp>>
      BY <2>5 DEF ConsumeZadd, Idle, ConsumeStep
    <3>2. \/ delivered'[m] = delivered[m] /\ (m \in inFlight' => m \in inFlight)
          \/ delivered'[m] = delivered[m] + 1
      BY <3>1 DEF TypeInv, TypeOK
    <3> QED
      BY <1>2, <1>3, <1>4, <3>1, <3>2, HandlerCounts DEF TypeInv
  <2> QED
    BY <1>8, <2>3, <2>4, <2>5
<1>9. CASE AckZrem(h) \/ Abandon(h)
  <2>1. /\ Goes(h, Idle) /\ Idle.at \notin ConsumeStep
        /\ inFlight' \subseteq inFlight
        /\ UNCHANGED <<hash, loop, givenUp, delivered>>
        /\ faults' \in {faults, faults + 1}
    BY <1>9 DEF AckZrem, Abandon, Fault, redis, history, Idle, ConsumeStep
  <2> QED
    BY <1>2, <1>3, <1>4, <2>1, HandlerCounts DEF TypeInv
<1> QED
  BY <1>5, <1>6, <1>7, <1>8, <1>9 DEF HandlerStep

\* A loop that takes a message into its hands only as one in flight or on its list, and
\* counts a delivery once
LEMMA LoopCounts ==
  ASSUME TypeOK, NEW n \in Node, NEW l, Moves(n, l), UNCHANGED <<call, delivered>>,
         NEW m \in Message, NEW S, CountedBy(m, S),
         NEW T, T \subseteq Node \X (1..delivered[m]),
         Cardinality(S) + faults <= Cardinality(T) + faults', faults' \in Nat,
         \A k \in Node \ {n} : <<k, delivered[m]>> \in T => <<k, delivered[m]>> \in S,
         inFlight' \subseteq inFlight,
         Bounded(hash[m].retries, T)',
         l.at = "save" /\ l.msg = m => Bounded(l.retries, T)',
         l.at \in {"save", "zrem"} /\ l.msg = m => m \notin l.todo,
         m \in inFlight' \/ m \in l.todo \/ (l.at = "save" /\ l.msg = m) =>
           delivered[m] >= 1 /\ (<<n, delivered[m]>> \in T => l.at = "zrem" /\ l.msg = m),
         m \in givenUp' => Bounded(MaxRetries + 1, T)'
  PROVE  CountedBy(m, T)'
<1>1. loop'[n] = l /\ \A k \in Node \ {n} : loop'[k] = loop[k]
  BY Moves1
<1>2. \A r \in Int : Bounded(r, S) => Bounded(r, T)'
  <2>1. /\ Cardinality(S) \in Nat /\ Cardinality(T) \in Nat
        /\ faults \in Nat
    BY CountsAreFinite, QueueAssumption DEF TypeOK, CountedBy
  <2> QED
    BY <2>1 DEF Bounded
<1>3. ASSUME NEW h \in Handler, Marking(h, m)' PROVE Bounded(call[h].retries, T)'
  <2>1. Marking(h, m) /\ call[h].retries \in Nat
    BY <1>3, CallParts DEF Marking
  <2>2. Bounded(call[h].retries, S)
    BY <2>1 DEF CountedBy
  <2> QED
    BY <1>2, <2>1, <2>2 DEF Bounded
<1>4. ASSUME NEW k \in Node, Saving(k, m)' PROVE Bounded(loop[k].retries, T)'
  <2>1. CASE k = n
    BY <1>1, <1>4, <2>1 DEF Saving, Bounded
  <2>2. CASE k # n
    <3>1. Saving(k, m) /\ loop[k].retries \in Nat /\ loop'[k] = loop[k]
      BY <1>1, <1>4, <2>2, LoopParts DEF Saving, HandStep
    <3>2. Bounded(loop[k].retries, S)
      BY <3>1 DEF CountedBy
    <3> QED
      BY <1>2, <3>1, <3>2 DEF Bounded
  <2> QED
    BY <2>1, <2>2
<1>5. ASSUME NEW k \in Node, Saving(k, m)' \/ Removing(k, m)' PROVE m \notin loop'[k].todo
  BY <1>1, <1>5 DEF Saving, Removing, CountedBy
<1>6. ASSUME NEW k \in Node, MayCount(k, m)'
      PROVE  delivered'[m] >= 1 /\ (<<k, delivered'[m]>> \in T => Removing(k, m)')
  <2>1. CASE k = n
    BY <1>1, <1>6, <2>1 DEF MayCount, Saving, Removing
  <2>2. CASE k # n
    <3>1. MayCount(k, m) /\ (Removing(k, m)' <=> Removing(k, m))
      BY <1>1, <1>6, <2>2 DEF MayCount, Saving, Removing
    <3> QED
      BY <2>2, <3>1 DEF CountedBy
  <2> QED
    BY <2>1, <2>2
<1> QED
  BY <1>3, <1>4, <1>5, <1>6 DEF CountedBy

\* So do the loops, as long as nothing fails.
LEMMA LoopsCount ==
  ASSUME TypeInv, LateInv, NEW n \in Node, LoopStep(n)
  PROVE  LateInv'
<1>1. SUFFICES ASSUME NEW m \in Message PROVE \E S : CountedBy(m, S)'
  BY DEF LateInv
<1>2. PICK S : CountedBy(m, S)
  BY DEF LateInv
<1>3. PICK d : d = delivered[m]
  OBVIOUS
<1>4. /\ S \subseteq Node \X (1..d) /\ d \in Nat
      /\ IsFiniteSet(S) /\ Cardinality(S) \in Nat
      /\ faults \in Nat /\ MaxRetries \in Nat
  BY <1>2, <1>3, CountsAreFinite, QueueAssumption DEF TypeInv, TypeOK, CountedBy
<1>5. UNCHANGED <<call, delivered, faults>>
  BY DEF LoopStep, Scan, ReadExpired, SaveExpired, RemoveExpired, PushAgain, history
<1>6. MayCount(n, m) => d >= 1 /\ (<<n, d>> \in S => Removing(n, m))
  BY <1>2, <1>3 DEF CountedBy
<1>7. CASE Scan(n) \/ \E k \in Message : ReadExpired(n, k)
  <2>1. PICK l : /\ Moves(n, l)
                 /\ UNCHANGED <<redis, givenUp>>
                 /\ loop[n].at # "zrem"
                 /\ l.todo \subseteq loop[n].todo \cup inFlight
                 /\ l.at # "zrem"
                 /\ l.at = "save" => /\ l.msg \in loop[n].todo \ l.todo
                                     /\ l.retries = hash[l.msg].retries
    <3>1. CASE Scan(n)
      <4>1. due \in SUBSET Message /\ due \subseteq inFlight
        BY DEF TypeInv, TypeOK
      <4>2. NextExpired(due).todo = due /\ NextExpired(due).at \in {"sleep", "read"}
        BY <4>1, NextExpiredType
      <4> QED
        BY <3>1, <4>1, <4>2 DEF Scan, LoopAt, history
    <3>2. ASSUME NEW k \in Message, ReadExpired(n, k)
          PROVE  \E l : /\ Moves(n, l)
                        /\ UNCHANGED <<redis, givenUp>>
                        /\ loop[n].at # "zrem"
                        /\ l.todo \subseteq loop[n].todo \cup inFlight
                        /\ l.at # "zrem"
                        /\ l.at = "save" => /\ l.msg \in loop[n].todo \ l.todo
                                            /\ l.retries = hash[l.msg].retries
      <4>1. PICK rest, l :
              /\ rest = loop[n].todo \ {k}
              /\ l = IF hash[k] = Absent THEN NextExpired(rest)
                     ELSE IF hash[k].retries = Unset THEN Dead
                     ELSE [at |-> "save", todo |-> rest, msg |-> k, retries |-> hash[k].retries]
        OBVIOUS
      <4>2. Moves(n, l) /\ k \in loop[n].todo /\ loop[n].at = "read" /\ UNCHANGED <<redis, givenUp>>
        BY <3>2, <4>1 DEF ReadExpired, LoopAt, history
      <4>3. NextExpired(rest).at \in {"sleep", "read"} /\ NextExpired(rest).todo = rest
        <5>1. rest \in SUBSET Message
          BY <4>1, LoopParts DEF TypeInv
        <5> QED
          BY <5>1, NextExpiredType
      <4>4. \/ l = NextExpired(rest)
            \/ l = Dead
            \/ l = [at |-> "save", todo |-> rest, msg |-> k, retries |-> hash[k].retries]
        BY <4>1
      <4>5. /\ l.todo \subseteq rest
            /\ l.at # "zrem"
            /\ l.at = "save" => l.msg = k /\ l.retries = hash[k].retries
        BY <4>3, <4>4 DEF Dead
      <4> QED
        BY <4>1, <4>2, <4>5
    <3> QED
      BY <1>7, <3>1, <3>2
  <2>2. ~Removing(n, m)
    BY <2>1 DEF Removing
  <2>3. m \in inFlight' \/ m \in l.todo \/ (l.at = "save" /\ l.msg = m) => MayCount(n, m)
    BY <2>1 DEF MayCount, redis
  <2>4. Bounded(hash[m].retries, S)' /\ (l.at = "save" /\ l.msg = m => Bounded(l.retries, S)')
    BY <1>2, <1>5, <2>1 DEF CountedBy, Bounded, redis
  <2>5. m \in givenUp' => Bounded(MaxRetries + 1, S)'
    BY <1>2, <1>5, <2>1 DEF CountedBy, Bounded
  <2>6. inFlight' \subseteq inFlight /\ Cardinality(S) + faults <= Cardinality(S) + faults'
    BY <1>4, <1>5, <2>1 DEF redis
  <2>7. CountedBy(m, S)'
    BY <1>2, <1>3, <1>4, <1>5, <1>6, <2>1, <2>2, <2>3, <2>4, <2>5, <2>6, LoopCounts DEF TypeInv
  <2> QED
    BY <2>7
<1>8. ASSUME loop[n].at \in HandStep
      PROVE  /\ loop[n].retries \in Nat
             /\ loop[n].todo \in SUBSET Message
             /\ \A s \in HandStep : /\ [loop[n] EXCEPT !.at = s].at = s
                                    /\ [loop[n] EXCEPT !.at = s].msg = loop[n].msg
                                    /\ [loop[n] EXCEPT !.at = s].todo = loop[n].todo
  <2>1. loop[n] \in [at : HandStep, todo : SUBSET Message, msg : Message, retries : Nat]
    BY <1>8, LoopParts DEF TypeInv
  <2> QED
    BY <2>1
<1>9. CASE SaveExpired(n)
  <2>1. PICK l, r : l = [loop[n] EXCEPT !.at = "zrem"] /\ r = loop[n].retries
    OBVIOUS
  <2>2. /\ loop[n].at = "save"
        /\ Moves(n, l)
        /\ hash' = [hash EXCEPT ![loop[n].msg] =
             IF r >= MaxRetries THEN [status |-> Failed, retries |-> r]
                                ELSE [status |-> Pending, retries |-> r + 1]]
        /\ givenUp' = IF r >= MaxRetries THEN givenUp \cup {loop[n].msg} ELSE givenUp
        /\ UNCHANGED inFlight
    BY <1>9, <2>1 DEF SaveExpired, LoopAt, GivesUp
  <2>3. l.at = "zrem" /\ l.msg = loop[n].msg /\ l.todo = loop[n].todo /\ r \in Nat
    BY <1>8, <2>1, <2>2 DEF HandStep
  <2>4. CASE loop[n].msg # m
    <3>1. hash'[m] = hash[m] /\ (m \in givenUp' => m \in givenUp)
      BY <2>2, <2>4 DEF TypeInv, TypeOK
    <3>2. Bounded(hash[m].retries, S)' /\ (m \in givenUp' => Bounded(MaxRetries + 1, S)')
      BY <1>2, <1>5, <3>1 DEF CountedBy, Bounded
    <3>3. m \in inFlight' \/ m \in l.todo => MayCount(n, m)
      BY <2>2, <2>3 DEF MayCount
    <3>4. ~Removing(n, m)
      BY <2>2 DEF Removing
    <3>5. Cardinality(S) + faults <= Cardinality(S) + faults'
      BY <1>4, <1>5
    <3>6. CountedBy(m, S)'
      BY <1>2, <1>3, <1>4, <1>5, <1>6, <2>2, <2>3, <2>4, <3>2, <3>3, <3>4, <3>5, LoopCounts DEF TypeInv
    <3> QED
      BY <3>6
  <2>5. CASE loop[n].msg = m
    <3>1. Saving(n, m)
      BY <2>2, <2>5 DEF Saving
    <3>2. d >= 1 /\ <<n, d>> \notin S /\ m \notin loop[n].todo /\ r <= Cardinality(S) + faults
      BY <1>2, <1>6, <2>1, <2>2, <3>1 DEF MayCount, Saving, Removing, CountedBy, Bounded
    <3>3. PICK T : T = S \cup {<<n, d>>}
      OBVIOUS
    <3>4. Cardinality(T) = Cardinality(S) + 1
      BY <1>4, <3>2, <3>3, FS_AddElement
    <3>5. T \subseteq Node \X (1..d)
      <4>1. d \in 1..d
        BY <1>4, <3>2
      <4> QED
        BY <1>4, <3>3, <4>1
    <3>6. hash'[m].retries \in {r, r + 1}
      BY <2>2, <2>5 DEF TypeInv, TypeOK
    <3>7. Bounded(hash[m].retries, T)'
      <4>1. hash'[m].retries <= Cardinality(T) + faults
        BY <1>4, <2>3, <3>2, <3>4, <3>6
      <4> QED
        BY <1>5, <4>1 DEF Bounded
    <3>8. ASSUME m \in givenUp' PROVE Bounded(MaxRetries + 1, T)'
      <4>1. CASE m \in givenUp
        <5>1. MaxRetries + 1 <= Cardinality(S) + faults
          BY <1>2, <4>1 DEF CountedBy, Bounded
        <5> QED
          BY <1>4, <1>5, <3>4, <5>1 DEF Bounded
      <4>2. CASE m \notin givenUp
        <5>1. r >= MaxRetries
          BY <2>2, <3>8, <4>2
        <5> QED
          BY <1>4, <1>5, <2>3, <3>2, <3>4, <5>1 DEF Bounded
      <4> QED
        BY <4>1, <4>2
    <3>9. Cardinality(S) + faults <= Cardinality(T) + faults'
      BY <1>4, <1>5, <3>4
    <3>10. \A k \in Node \ {n} : <<k, d>> \in T => <<k, d>> \in S
      BY <3>3
    <3>11. CountedBy(m, T)'
      BY <1>2, <1>3, <1>4, <1>5, <2>2, <2>3, <2>5, <3>2, <3>5, <3>7, <3>8, <3>9, <3>10, LoopCounts DEF TypeInv
    <3> QED
      BY <3>11
  <2> QED
    BY <2>4, <2>5
<1>10. CASE RemoveExpired(n) \/ PushAgain(n)
  <2>1. PICK l : /\ Moves(n, l)
                 /\ loop[n].at \in {"zrem", "lpush"}
                 /\ l.todo = loop[n].todo
                 /\ l.at \notin {"save", "zrem"}
                 /\ loop[n].at = "zrem" => inFlight' = inFlight \ {loop[n].msg}
                 /\ inFlight' \subseteq inFlight
                 /\ UNCHANGED <<hash, givenUp>>
    <3>1. loop[n].at \in HandStep /\ loop[n].todo \in SUBSET Message
      BY <1>8, <1>10 DEF RemoveExpired, PushAgain, LoopAt, HandStep
    <3>2. NextExpired(loop[n].todo).at \in {"sleep", "read"} /\ NextExpired(loop[n].todo).todo = loop[n].todo
      BY <3>1, NextExpiredType
    <3>3. /\ [loop[n] EXCEPT !.at = "lpush"].at = "lpush"
          /\ [loop[n] EXCEPT !.at = "lpush"].todo = loop[n].todo
      BY <1>8, <3>1 DEF HandStep
    <3>4. CASE RemoveExpired(n)
      <4>1. /\ loop[n].at = "zrem"
            /\ inFlight' = inFlight \ {loop[n].msg}
            /\ UNCHANGED <<hash, givenUp>>
            /\ \/ Moves(n, NextExpired(loop[n].todo))
               \/ Moves(n, [loop[n] EXCEPT !.at = "lpush"])
        BY <3>4 DEF RemoveExpired, LoopAt, history
      <4> QED
        BY <3>2, <3>3, <4>1
    <3>5. CASE PushAgain(n)
      BY <3>2, <3>5 DEF PushAgain, LoopAt, history
    <3> QED
      BY <1>10, <3>4, <3>5
  <2>2. Bounded(hash[m].retries, S)' /\ (m \in givenUp' => Bounded(MaxRetries + 1, S)')
    BY <1>2, <1>5, <2>1 DEF CountedBy, Bounded
  <2>3. m \in inFlight' \/ m \in l.todo => MayCount(n, m) /\ ~Removing(n, m)
    <3>1. CASE Removing(n, m)
      <4>1. m \notin loop[n].todo
        BY <1>2, <3>1 DEF CountedBy
      <4> QED
        BY <2>1, <3>1, <4>1 DEF Removing
    <3>2. CASE ~Removing(n, m)
      BY <2>1, <3>2 DEF MayCount
    <3> QED
      BY <3>1, <3>2
  <2>4. Cardinality(S) + faults <= Cardinality(S) + faults'
    BY <1>4, <1>5
  <2>5. CountedBy(m, S)'
    BY <1>2, <1>3, <1>4, <1>5, <1>6, <2>1, <2>2, <2>3, <2>4, LoopCounts DEF TypeInv
  <2> QED
    BY <2>5
<1> QED
  BY <1>7, <1>9, <1>10 DEF LoopStep

\* A loop that fails between counting a delivery and taking the message out of flight
\* lets its successor count it again: its own count goes to the account of the fault.
LEMMA FaultsCount ==
  ASSUME TypeInv, LateInv, NEW n \in Node, LoopFails(n) \/ Restart(n)
  PROVE  LateInv'
<1>1. SUFFICES ASSUME NEW m \in Message PROVE \E S : CountedBy(m, S)'
  BY DEF LateInv
<1>2. PICK S : CountedBy(m, S)
  BY DEF LateInv
<1>3. PICK d, T : d = delivered[m] /\ T = S \ {<<n, d>>}
  OBVIOUS
<1>4. /\ S \subseteq Node \X (1..d) /\ d \in Nat
      /\ IsFiniteSet(S) /\ Cardinality(S) \in Nat
      /\ faults \in Nat /\ MaxRetries \in Nat
  BY <1>2, <1>3, CountsAreFinite, QueueAssumption DEF TypeInv, TypeOK, CountedBy
<1>5. PICK l : /\ Moves(n, l)
               /\ l.at \in {"dead", "sleep"} /\ l.todo = {}
               /\ UNCHANGED <<redis, call, history>>
               /\ faults' = faults + 1
  BY DEF LoopFails, Restart, Fault, Dead, Asleep
<1>6. Cardinality(T) \in Nat /\ Cardinality(S) <= Cardinality(T) + 1
  <2>1. /\ IsFiniteSet(T)
        /\ Cardinality(T) = IF <<n, d>> \in S THEN Cardinality(S) - 1 ELSE Cardinality(S)
    BY <1>3, <1>4, FS_RemoveElement
  <2>2. Cardinality(T) \in Nat
    BY <2>1, FS_CardinalityType
  <2> QED
    BY <1>4, <2>1, <2>2
<1>7. Cardinality(S) + faults <= Cardinality(T) + faults' /\ faults' \in Nat
  BY <1>4, <1>5, <1>6
<1>8. \A r \in Int : Bounded(r, S) => Bounded(r, T)'
  BY <1>4, <1>6, <1>7 DEF Bounded
<1>9. Bounded(hash[m].retries, T)'
  <2>1. hash[m] \in Hash \cup {Absent}
    BY DEF TypeInv, TypeOK
  <2>2. hash[m].retries \in Int
    BY <2>1 DEF Hash, Absent, Unset
  <2> QED
    BY <1>2, <1>5, <1>8, <2>2 DEF CountedBy, Bounded, redis
<1>10. m \in givenUp' => Bounded(MaxRetries + 1, T)'
  BY <1>2, <1>4, <1>5, <1>8 DEF CountedBy, history
<1>11. m \in inFlight' => d >= 1 /\ <<n, d>> \notin T
  BY <1>2, <1>3, <1>5 DEF CountedBy, MayCount, redis
<1>12. /\ UNCHANGED <<call, delivered>> /\ inFlight' \subseteq inFlight
       /\ T \subseteq Node \X (1..d)
       /\ \A k \in Node \ {n} : <<k, d>> \in T => <<k, d>> \in S
  BY <1>3, <1>4, <1>5 DEF redis, history
<1>13. /\ ~(l.at \in {"save", "zrem"} /\ l.msg = m)
       /\ m \in inFlight' \/ m \in l.todo \/ (l.at = "save" /\ l.msg = m) => d >= 1 /\ <<n, d>> \notin T
  BY <1>5, <1>11
<1>14. CountedBy(m, T)'
  <2>1. d = delivered[m] /\ Moves(n, l)
    BY <1>3, <1>5
  <2> QED
    BY <1>2, <1>7, <1>9, <1>10, <1>12, <1>13, <2>1, LoopCounts DEF TypeInv
<1> QED
  BY <1>14

\* Time takes nothing from what is counted.
LEMMA TimeCounts ==
  ASSUME TypeInv, LateInv, NEW k \in Message, PassDeadline(k) \/ Lapse(k)
  PROVE  LateInv'
<1>1. SUFFICES ASSUME NEW m \in Message PROVE \E S : CountedBy(m, S)'
  BY DEF LateInv
<1>2. PICK S : CountedBy(m, S)
  BY DEF LateInv
<1>3. /\ UNCHANGED <<inFlight, call, loop, givenUp, delivered>>
      /\ faults' \in {faults, faults + 1}
      /\ hash'[m] = hash[m] \/ hash'[m] = Absent
  BY DEF PassDeadline, Lapse, Fault, history, TypeInv, TypeOK
<1>4. /\ \A r \in Int : Bounded(r, S) => Bounded(r, S)'
      /\ Bounded(0, S)
  BY <1>2, <1>3, StaysBounded DEF TypeInv
<1>5. Bounded(hash[m].retries, S)'
  <2>1. hash[m] \in Hash \cup {Absent}
    BY DEF TypeInv, TypeOK
  <2>2. hash[m].retries \in Int /\ Bounded(hash[m].retries, S)
    BY <1>2, <2>1 DEF Hash, Absent, Unset, CountedBy
  <2>3. CASE hash'[m] = hash[m]
    BY <1>4, <2>2, <2>3 DEF Bounded
  <2>4. CASE hash'[m] = Absent
    <3>1. Cardinality(S) \in Nat /\ faults \in Nat
      BY <1>2, CountsAreFinite, QueueAssumption DEF TypeInv, TypeOK, CountedBy
    <3> QED
      BY <1>3, <2>4, <3>1 DEF Bounded, Absent, Unset
  <2> QED
    BY <1>3, <2>3, <2>4
<1>6. ASSUME NEW h \in Handler, Marking(h, m)' PROVE Bounded(call[h].retries, S)'
  <2>1. Marking(h, m) /\ call[h].retries \in Nat
    BY <1>3, <1>6, CallParts DEF Marking, TypeInv
  <2> QED
    BY <1>2, <1>3, <1>4, <2>1 DEF CountedBy, Bounded
<1>7. ASSUME NEW n \in Node, Saving(n, m)' PROVE Bounded(loop[n].retries, S)'
  <2>1. Saving(n, m) /\ loop[n].retries \in Nat
    BY <1>3, <1>7, LoopParts DEF Saving, TypeInv, HandStep
  <2> QED
    BY <1>2, <1>3, <1>4, <2>1 DEF CountedBy, Bounded
<1>8. m \in givenUp' => Bounded(MaxRetries + 1, S)'
  BY <1>2, <1>3, <1>4, QueueAssumption DEF CountedBy
<1>9. CountedBy(m, S)'
  BY <1>2, <1>3, <1>5, <1>6, <1>7, <1>8 DEF CountedBy, MayCount, Saving, Removing
<1> QED
  BY <1>9

\* By the time a message is given up it was handed out so often that the loops of all
\* nodes, each counting every delivery once, come to more than its retries, a fault
\* being good for one count more; for any number of loops, messages and retries.
THEOREM GivenUpIsLate == QueueSpec => []GivenUpLate
<1>1. Init => LateInv
  <2> SUFFICES ASSUME Init, NEW m \in Message PROVE \E S : CountedBy(m, S)
    BY DEF LateInv
  <2>1. /\ hash[m].retries = -1
        /\ inFlight = {} /\ givenUp = {} /\ faults = 0 /\ delivered[m] = 0
        /\ \A h \in Handler : call[h].at = "idle"
        /\ \A n \in Node : loop[n].at = "sleep" /\ loop[n].todo = {}
    BY DEF Init, Absent, Unset, Idle, Asleep
  <2>2. Bounded(hash[m].retries, {})
    BY <2>1, FS_EmptySet DEF Bounded
  <2>3. CountedBy(m, {})
    BY <2>1, <2>2 DEF CountedBy, Marking, Saving, Removing, MayCount, ConsumeStep
  <2> QED
    BY <2>3
<1>2. TypeInv /\ LateInv /\ [QueueNext]_vars => LateInv'
  <2> SUFFICES ASSUME TypeInv, LateInv, [QueueNext]_vars PROVE LateInv'
    OBVIOUS
  <2>1. CASE UNCHANGED vars
    <3>1. ASSUME NEW m \in Message, NEW S, CountedBy(m, S) PROVE CountedBy(m, S)'
      BY <2>1, <3>1 DEF vars, redis, history, CountedBy, Marking, Saving, Removing, MayCount, Bounded
    <3> QED
      BY <3>1 DEF LateInv
  <2>2. CASE QueueNext
    BY <2>2, HandlersCount, LoopsCount, FaultsCount, TimeCounts DEF QueueNext
  <2> QED
    BY <2>1, <2>2
<1>3. TypeInv /\ LateInv => GivenUpLate
  BY LateEnough DEF TypeInv
<1> QED
  BY <1>1, <1>2, <1>3, TypeInvariance, PTL DEF QueueSpec
=============================================================================
