---------------------------- MODULE Feeds_proofs ----------------------------
(***************************************************************************)
(* Proofs about the two ways of a candle to the sockets.  First CandleFeed,*)
(* through apps/FlowEx and Redis, for any number of candles, clients and   *)
(* faults.  Then GatewayFeed, from Nobitex through the market service and  *)
(* the gateway, for any sockets, streams and channels, and any number of   *)
(* clients and connections.  The two share nothing, and a theorem about one*)
(* leaves the variables of the other free.                                 *)
(***************************************************************************)
EXTENDS CandleFeed, GatewayFeed, SequenceTheorems, TLAPS

----------------------------------------------------------------------------
(* FlowEx (CandleFeed).                                                     *)

\* A client is given up only while another one can follow.
SuccessorFollows == flowexLink = "disconnected" => flowexClient < MaxFlowExClients

(* The commands of the handlers that have not gone on, in the order they   *)
(* were sent: a command stays in its place when Redis executes it, and when *)
(* it is sent again.                                                       *)
Sent == answers \o wire

\* Commands of one kind are sent in the order of the candles, and a candle
\* is published before the next one is even in the cache for its handler.
SentInOrder ==
  \A i, j \in DOMAIN Sent :
    /\ i < j /\ Sent[i].op = Sent[j].op => Sent[i].candle < Sent[j].candle
    /\ Sent[i].op = "publish" /\ Sent[j].op = "set" => Sent[i].candle < Sent[j].candle

\* What is answered or published has been cached, and what is cached has
\* arrived.
CachedFirst ==
  /\ cache <= received
  /\ \A i \in DOMAIN Sent :
       /\ Sent[i].candle <= received
       /\ i <= Len(answers) \/ Sent[i].op = "publish" => Sent[i].candle <= cache

\* The candles that have left Redis, for the orders or for the sockets, and
\* the calls of queue.add and the jobs that came of them.
Queued == Elements(checks) \cup Elements(adds)
Heard == Elements(inbox) \cup Queued \cup Elements(added) \cup Elements(shown)

\* They were cached, and before those that still wait for their SET.
HeardInOrder ==
  \A n \in Heard :
    /\ n <= cache
    /\ \A i \in DOMAIN Sent : Sent[i].op = "set" => n < Sent[i].candle

\* The sockets have been served the candles before those being published.
ShownInOrder ==
  /\ Increasing(shown, {})
  /\ \A n \in Elements(shown) : \A i \in DOMAIN Sent :
       Sent[i].op = "publish" => n < Sent[i].candle

\* The messages that are in no order: those of the other process, and what
\* was sent again.
Exempt == resent \cup {Foreign}

\* The others are in order at every station on their way to the orders, and
\* from each station to those before it.
CheckedInOrder ==
  /\ Increasing(checks, Exempt) /\ Increasing(adds, Exempt) /\ Increasing(inbox, Exempt)
  /\ \A n \in Elements(checks) \ Exempt : \A m \in Elements(adds) \ Exempt : n < m
  /\ \A n \in Queued \ Exempt : \A m \in Elements(inbox) \ Exempt : n < m
  /\ \A n \in (Queued \cup Elements(inbox)) \ Exempt : \A i \in DOMAIN Sent :
       Len(answers) < i /\ Sent[i].op = "publish" /\ Sent[i].candle \notin Exempt =>
         n < Sent[i].candle

CandleInv ==
  /\ TypeOK /\ SuccessorFollows
  /\ SentInOrder /\ CachedFirst /\ HeardInOrder /\ ShownInOrder /\ CheckedInOrder

----------------------------------------------------------------------------
(* Sequences of candles.                                                    *)

LEMMA ElementsOfAppend ==
  ASSUME NEW S, NEW s \in Seq(S), NEW e \in S
  PROVE  Elements(Append(s, e)) = Elements(s) \cup {e}
<1>1. /\ Len(Append(s, e)) = Len(s) + 1 /\ Append(s, e)[Len(s) + 1] = e
      /\ \A k \in 1 .. Len(s) : Append(s, e)[k] = s[k]
  BY AppendProperties
<1>2. DOMAIN s = 1 .. Len(s) /\ DOMAIN Append(s, e) = 1 .. Len(s) + 1 /\ Len(s) \in Nat
  BY <1>1, AppendProperties, LenProperties
<1>3. Elements(Append(s, e)) \subseteq Elements(s) \cup {e}
  <2>. SUFFICES ASSUME NEW k \in 1 .. Len(s) + 1, k # Len(s) + 1 PROVE k \in 1 .. Len(s)
    BY <1>1, <1>2 DEF Elements
  <2>. QED  BY <1>2
<1>4. Elements(s) \cup {e} \subseteq Elements(Append(s, e))
  <2>. \A k \in 1 .. Len(s) : k \in 1 .. Len(s) + 1
    BY <1>2
  <2>. Len(s) + 1 \in 1 .. Len(s) + 1
    BY <1>2
  <2>. QED  BY <1>1, <1>2 DEF Elements
<1>. QED  BY <1>3, <1>4

LEMMA ElementsOfTail ==
  ASSUME NEW S, NEW s \in Seq(S), s # <<>>
  PROVE  Elements(Tail(s)) \subseteq Elements(s) /\ Head(s) \in Elements(s)
<1>1. /\ Tail(s) \in Seq(S) /\ Len(Tail(s)) = Len(s) - 1 /\ Len(s) \in Nat \ {0}
      /\ \A k \in 1 .. Len(s) - 1 : Tail(s)[k] = s[k + 1]
  BY HeadTailProperties, LenProperties, EmptySeq
<1>2. DOMAIN s = 1 .. Len(s) /\ DOMAIN Tail(s) = 1 .. Len(s) - 1 /\ Head(s) = s[1]
  BY <1>1, LenProperties
<1>3. \A k \in 1 .. Len(s) - 1 : k + 1 \in 1 .. Len(s)
  BY <1>1
<1>4. 1 \in 1 .. Len(s)
  BY <1>1
<1>. QED  BY <1>1, <1>2, <1>3, <1>4 DEF Elements

LEMMA IncreasingAppend ==
  ASSUME NEW S, NEW X, NEW s \in Seq(S), NEW e \in S, Increasing(s, X),
         e \notin X => \A n \in Elements(s) \ X : n < e
  PROVE  Increasing(Append(s, e), X)
<1>1. /\ Append(s, e) \in Seq(S)
      /\ Len(Append(s, e)) = Len(s) + 1 /\ Append(s, e)[Len(s) + 1] = e
      /\ \A k \in 1 .. Len(s) : Append(s, e)[k] = s[k]
  BY AppendProperties
<1>2. DOMAIN s = 1 .. Len(s) /\ DOMAIN Append(s, e) = 1 .. Len(s) + 1 /\ Len(s) \in Nat
  BY <1>1, LenProperties
<1>. SUFFICES ASSUME NEW i \in 1 .. Len(s) + 1, NEW j \in 1 .. Len(s) + 1, i < j,
                     Append(s, e)[i] \notin X, Append(s, e)[j] \notin X
              PROVE  Append(s, e)[i] < Append(s, e)[j]
  BY <1>2 DEF Increasing
<1>3. i \in 1 .. Len(s) /\ (j = Len(s) + 1 \/ j \in 1 .. Len(s))
  BY <1>2
<1>4. CASE j = Len(s) + 1
  BY <1>1, <1>2, <1>3, <1>4 DEF Elements
<1>5. CASE j \in 1 .. Len(s)
  BY <1>1, <1>2, <1>3, <1>5 DEF Increasing
<1>. QED  BY <1>3, <1>4, <1>5

LEMMA IncreasingTail ==
  ASSUME NEW S, NEW X, NEW s \in Seq(S), s # <<>>, Increasing(s, X)
  PROVE  /\ Increasing(Tail(s), X)
         /\ Head(s) \notin X => \A n \in Elements(Tail(s)) \ X : Head(s) < n
<1>1. /\ Tail(s) \in Seq(S) /\ Len(Tail(s)) = Len(s) - 1 /\ Len(s) \in Nat \ {0}
      /\ \A k \in 1 .. Len(s) - 1 : Tail(s)[k] = s[k + 1]
  BY HeadTailProperties, LenProperties, EmptySeq
<1>2. DOMAIN s = 1 .. Len(s) /\ DOMAIN Tail(s) = 1 .. Len(s) - 1 /\ Head(s) = s[1]
  BY <1>1, LenProperties
<1>3. Increasing(Tail(s), X)
  BY <1>1, <1>2 DEF Increasing
<1>4. ASSUME Head(s) \notin X, NEW n \in Elements(Tail(s)) \ X PROVE Head(s) < n
  <2>1. PICK k \in 1 .. Len(s) - 1 : n = Tail(s)[k]
    BY <1>2 DEF Elements
  <2>2. k + 1 \in 1 .. Len(s) /\ 1 \in 1 .. Len(s) /\ 1 < k + 1 /\ n = s[k + 1]
    BY <1>1, <2>1
  <2>. QED  BY <1>2, <1>4, <2>2 DEF Increasing
<1>. QED  BY <1>3, <1>4

LEMMA IncreasingExcept ==
  ASSUME NEW s, NEW X, NEW Y, X \subseteq Y, Increasing(s, X) PROVE Increasing(s, Y)
BY DEF Increasing

LEMMA ConcatIndex ==
  ASSUME NEW S, NEW s \in Seq(S), NEW r \in Seq(S)
  PROVE  /\ s \o r \in Seq(S) /\ DOMAIN (s \o r) = 1 .. Len(s) + Len(r)
         /\ Len(s \o r) = Len(s) + Len(r) /\ Len(s) \in Nat /\ Len(r) \in Nat
         /\ \A k \in 1 .. Len(s) : (s \o r)[k] = s[k]
         /\ \A k \in 1 .. Len(r) : (s \o r)[Len(s) + k] = r[k]
<1>1. s \o r \in Seq(S) /\ Len(s \o r) = Len(s) + Len(r)
  BY ConcatProperties
<1>2. Len(s) \in Nat /\ Len(r) \in Nat
  BY LenProperties
<1>3. DOMAIN (s \o r) = 1 .. Len(s) + Len(r)
  BY <1>1, LenProperties
<1>4. \A k \in 1 .. Len(s) + Len(r) :
        (s \o r)[k] = IF k <= Len(s) THEN s[k] ELSE r[k - Len(s)]
  BY ConcatProperties
<1>5. ASSUME NEW k \in 1 .. Len(s) PROVE (s \o r)[k] = s[k]
  BY <1>2, <1>4
<1>6. ASSUME NEW k \in 1 .. Len(r) PROVE (s \o r)[Len(s) + k] = r[k]
  BY <1>2, <1>4
<1>. QED  BY <1>1, <1>2, <1>3, <1>5, <1>6

LEMMA IncreasingConcat ==
  ASSUME NEW S, NEW X, NEW r \in Seq(S), NEW s \in Seq(S), Elements(r) \subseteq X,
         Increasing(s, X)
  PROVE  /\ r \o s \in Seq(S) /\ Elements(r \o s) = Elements(r) \cup Elements(s)
         /\ Increasing(r \o s, X)
<1>1. /\ r \o s \in Seq(S) /\ DOMAIN (r \o s) = 1 .. Len(r) + Len(s)
      /\ Len(r) \in Nat /\ Len(s) \in Nat /\ DOMAIN r = 1 .. Len(r) /\ DOMAIN s = 1 .. Len(s)
      /\ \A k \in 1 .. Len(r) : (r \o s)[k] = r[k]
      /\ \A k \in 1 .. Len(s) : (r \o s)[Len(r) + k] = s[k]
  BY ConcatIndex, LenProperties
<1>2. \A k \in 1 .. Len(r) + Len(s) :
        \/ k \in 1 .. Len(r)
        \/ k - Len(r) \in 1 .. Len(s) /\ Len(r) + (k - Len(r)) = k
  BY <1>1
<1>3. \A k \in DOMAIN (r \o s) : (r \o s)[k] \in Elements(r) \cup Elements(s)
  BY <1>1, <1>2 DEF Elements
<1>4. /\ \A k \in 1 .. Len(r) : k \in 1 .. Len(r) + Len(s)
      /\ \A k \in 1 .. Len(s) : Len(r) + k \in 1 .. Len(r) + Len(s)
  BY <1>1
<1>5. Elements(r \o s) = Elements(r) \cup Elements(s)
  <2>1. Elements(r \o s) \subseteq Elements(r) \cup Elements(s)
    BY <1>3 DEF Elements
  <2>2. \A k \in 1 .. Len(r) : r[k] \in Elements(r \o s)
    BY <1>1, <1>4 DEF Elements
  <2>3. \A k \in 1 .. Len(s) : s[k] \in Elements(r \o s)
    BY <1>1, <1>4 DEF Elements
  <2>4. Elements(r) \subseteq Elements(r \o s) /\ Elements(s) \subseteq Elements(r \o s)
    BY <1>1, <2>2, <2>3 DEF Elements
  <2>. QED  BY <2>1, <2>4
<1>6. ASSUME NEW i \in 1 .. Len(r) + Len(s), NEW j \in 1 .. Len(r) + Len(s), i < j,
             (r \o s)[i] \notin X, (r \o s)[j] \notin X
      PROVE  (r \o s)[i] < (r \o s)[j]
  <2>1. i \notin 1 .. Len(r) /\ j \notin 1 .. Len(r)
    BY <1>1, <1>6 DEF Elements
  <2>. DEFINE p == i - Len(r)
              q == j - Len(r)
  <2>2. p \in 1 .. Len(s) /\ Len(r) + p = i /\ q \in 1 .. Len(s) /\ Len(r) + q = j /\ p < q
    BY <1>1, <1>2, <1>6, <2>1
  <2>. HIDE DEF p, q
  <2>3. (r \o s)[i] = s[p] /\ (r \o s)[j] = s[q]
    BY <1>1, <2>2
  <2>4. \A a, b \in DOMAIN s : a < b /\ {s[a], s[b]} \cap X = {} => s[a] < s[b]
    BY DEF Increasing
  <2>5. s[p] \notin X /\ s[q] \notin X
    BY <1>6, <2>3
  <2>6. {s[p], s[q]} \cap X = {}
    BY <2>5
  <2>. QED  BY <1>1, <2>2, <2>3, <2>4, <2>6
<1>7. Increasing(r \o s, X)
  BY <1>1, <1>6 DEF Increasing
<1>. QED  BY <1>1, <1>5, <1>7

LEMMA ElementsOfSubSeq ==
  ASSUME NEW S, NEW s \in Seq(S), NEW k \in 0 .. Len(s)
  PROVE  /\ SubSeq(s, 1, k) \in Seq(S) /\ Elements(SubSeq(s, 1, k)) \subseteq Elements(s)
         /\ SubSeq(s, k + 1, Len(s)) \in Seq(S)
         /\ Elements(SubSeq(s, k + 1, Len(s))) \subseteq Elements(s)
<1>1. Len(s) \in Nat /\ DOMAIN s = 1 .. Len(s)
  BY LenProperties
<1>2. /\ \A i \in 1 .. k : s[i] \in Elements(s)
      /\ \A i \in k + 1 .. Len(s) : s[i] \in Elements(s)
  BY <1>1 DEF Elements
<1>3. /\ SubSeq(s, 1, k) \in Seq(Elements(s))
      /\ SubSeq(s, k + 1, Len(s)) \in Seq(Elements(s))
  BY <1>1, <1>2, SubSeqProperties
<1>4. Elements(s) \subseteq S
  BY DEF Elements
<1>. QED  BY <1>3, <1>4 DEF Elements

----------------------------------------------------------------------------
(* The commands sent.                                                       *)

LEMMA SentType ==
  ASSUME answers \in Seq(Command), wire \in Seq(Command)
  PROVE  /\ Sent \in Seq(Command) /\ DOMAIN Sent = 1 .. Len(answers) + Len(wire)
         /\ Len(Sent) = Len(answers) + Len(wire)
         /\ Len(answers) \in Nat /\ Len(wire) \in Nat
         /\ \A k \in 1 .. Len(answers) : Sent[k] = answers[k]
         /\ \A k \in 1 .. Len(wire) : Sent[Len(answers) + k] = wire[k]
BY ConcatIndex DEF Sent

\* Redis executes a command, and it stays in its place.
LEMMA ExecuteSent ==
  ASSUME TypeOK, Execute
  PROVE  /\ Sent' = Sent /\ Len(answers') = Len(answers) + 1
         /\ Len(answers) + 1 \in DOMAIN Sent /\ Head(wire) = Sent[Len(answers) + 1]
         /\ answers' \in Seq(Command) /\ wire' \in Seq(Command)
<1>1. wire \in Seq(Command) /\ answers \in Seq(Command) /\ wire # <<>>
  BY DEF TypeOK, Execute
<1>2. wire' = Tail(wire) /\ answers' = Append(answers, Head(wire))
  BY DEF Execute
<1>3. /\ Head(wire) \in Command /\ Tail(wire) \in Seq(Command) /\ Len(wire) \in Nat \ {0}
      /\ Head(wire) = wire[1] /\ wire = <<Head(wire)>> \o Tail(wire)
  BY <1>1, HeadTailProperties, LenProperties, EmptySeq
<1>4. /\ answers' \in Seq(Command) /\ Len(answers') = Len(answers) + 1
      /\ answers' = answers \o <<Head(wire)>>
  BY <1>1, <1>2, <1>3, AppendProperties, AppendIsConcat
<1>5. <<Head(wire)>> \in Seq(Command)
  BY <1>3
<1>6. (answers \o <<Head(wire)>>) \o Tail(wire) = answers \o (<<Head(wire)>> \o Tail(wire))
  BY <1>1, <1>3, <1>5, ConcatAssociative
<1>7. Sent' = Sent
  BY <1>2, <1>3, <1>4, <1>6 DEF Sent
<1>8. 1 \in 1 .. Len(wire)
  BY <1>3
<1>9. Len(answers) + 1 \in DOMAIN Sent /\ Sent[Len(answers) + 1] = Head(wire)
  BY <1>1, <1>3, <1>8, SentType
<1>. QED  BY <1>2, <1>3, <1>4, <1>7, <1>9

\* The first answer: the handler of its candle goes on.
LEMMA ContinueSent ==
  ASSUME TypeOK, Continue
  PROVE  /\ answers' \in Seq(Command) /\ wire' \in Seq(Command) /\ Head(answers) = Sent[1]
         /\ Head(answers) \in Command
         /\ 1 \in DOMAIN Sent /\ 1 <= Len(answers) /\ Len(answers') = Len(answers) - 1
         /\ Len(Sent) \in Nat \ {0} /\ DOMAIN Sent = 1 .. Len(Sent)
         /\ \A k \in 1 .. Len(Sent) - 1 : Sent'[k] = Sent[k + 1]
         /\ Head(answers).op = "set" =>
              /\ DOMAIN Sent' = 1 .. Len(Sent)
              /\ Sent'[Len(Sent)] = [op |-> "publish", candle |-> Head(answers).candle]
         /\ Head(answers).op = "publish" => DOMAIN Sent' = 1 .. Len(Sent) - 1
<1>1. wire \in Seq(Command) /\ answers \in Seq(Command) /\ answers # <<>>
  BY DEF TypeOK, Continue
<1>2. /\ answers' = Tail(answers) /\ Len(answers) \in Nat \ {0}
      /\ Tail(answers) \in Seq(Command) /\ Len(Tail(answers)) = Len(answers) - 1
      /\ Head(answers) = answers[1] /\ Head(answers) \in Command
      /\ \A k \in 1 .. Len(answers) - 1 : Tail(answers)[k] = answers[k + 1]
  BY <1>1, HeadTailProperties, LenProperties, EmptySeq DEF Continue
<1>3. 1 \in 1 .. Len(answers) /\ Len(wire) \in Nat /\ Len(answers) \in Nat
  BY <1>1, <1>2, LenProperties
<1>4. /\ DOMAIN Sent = 1 .. Len(Sent) /\ Len(Sent) = Len(answers) + Len(wire)
      /\ \A k \in 1 .. Len(answers) : Sent[k] = answers[k]
      /\ \A k \in 1 .. Len(wire) : Sent[Len(answers) + k] = wire[k]
  BY <1>1, SentType
<1>. DEFINE p == [op |-> "publish", candle |-> Head(answers).candle]
<1>5. /\ wire' \in Seq(Command) /\ \A k \in 1 .. Len(wire) : wire'[k] = wire[k]
      /\ Head(answers).op = "set" =>
           Len(wire') = Len(wire) + 1 /\ wire'[Len(wire) + 1] = p
      /\ Head(answers).op = "publish" => wire' = wire
      /\ Head(answers).op \in {"set", "publish"}
  <2>1. CASE Head(answers).op = "set"
    <3>1. p \in Command /\ wire' = Append(wire, p)
      BY <1>2, <2>1 DEF Continue, Send, Command
    <3>. QED  BY <1>1, <2>1, <3>1, AppendProperties
  <2>2. CASE Head(answers).op = "publish"
    BY <1>1, <2>2 DEF Continue
  <2>. QED  BY <1>2, <2>1, <2>2 DEF Command
<1>. HIDE DEF p
<1>6. /\ DOMAIN Sent' = 1 .. Len(answers') + Len(wire')
      /\ \A k \in 1 .. Len(answers') : Sent'[k] = answers'[k]
      /\ \A k \in 1 .. Len(wire') : Sent'[Len(answers') + k] = wire'[k]
  BY <1>2, <1>5, ConcatIndex DEF Sent
<1>7. Len(wire') \in Nat /\ Len(wire) <= Len(wire')
  BY <1>3, <1>5
<1>8. ASSUME NEW k \in 1 .. Len(Sent) - 1 PROVE Sent'[k] = Sent[k + 1]
  <2>1. CASE k <= Len(answers) - 1
    <3>1. /\ k \in 1 .. Len(answers') /\ k + 1 \in 1 .. Len(answers)
          /\ k \in 1 .. Len(answers) - 1
      BY <1>2, <1>3, <2>1
    <3>. QED  BY <1>2, <1>4, <1>6, <3>1
  <2>2. CASE ~(k <= Len(answers) - 1)
    <3>. DEFINE j == k - (Len(answers) - 1)
    <3>1. /\ j \in 1 .. Len(wire) /\ j \in 1 .. Len(wire')
          /\ k = Len(answers') + j /\ k + 1 = Len(answers) + j
      BY <1>2, <1>3, <1>4, <1>7, <2>2
    <3>2. Sent[Len(answers) + j] = wire[j] /\ Sent'[Len(answers') + j] = wire'[j]
      BY <1>4, <1>6, <3>1
    <3>3. wire'[j] = wire[j]
      BY <1>5, <3>1
    <3>. HIDE DEF j
    <3>. QED  BY <3>1, <3>2, <3>3
  <2>. QED  BY <2>1, <2>2
<1>9. CASE Head(answers).op = "set"
  <2>1. /\ Len(answers') + Len(wire') = Len(Sent) /\ Len(wire) + 1 \in 1 .. Len(wire')
        /\ Len(Sent) = Len(answers') + (Len(wire) + 1)
    <3>1. Len(wire') = Len(wire) + 1 /\ Len(answers') = Len(answers) - 1
      BY <1>2, <1>5, <1>9
    <3>. QED  BY <1>3, <1>4, <3>1
  <2>2. DOMAIN Sent' = 1 .. Len(Sent) /\ Sent'[Len(Sent)] = p
    BY <1>5, <1>6, <1>9, <2>1
  <2>. QED  BY <1>1, <1>2, <1>3, <1>4, <1>5, <1>8, <1>9, <2>2 DEF p
<1>10. CASE Head(answers).op = "publish"
  <2>1. DOMAIN Sent' = 1 .. Len(Sent) - 1
    BY <1>2, <1>3, <1>4, <1>5, <1>6, <1>10
  <2>. QED  BY <1>1, <1>2, <1>3, <1>4, <1>5, <1>8, <1>10, <2>1
<1>. QED  BY <1>5, <1>9, <1>10

----------------------------------------------------------------------------
(* The invariant.                                                           *)

LEMMA InitCandleInv == CandleAssumption /\ CandleInit => CandleInv
<1>. SUFFICES ASSUME CandleAssumption, CandleInit PROVE CandleInv
  OBVIOUS
<1>1. TypeOK /\ SuccessorFollows
  <2>1. /\ 1 \in 1 .. MaxFlowExClients /\ 0 \in 0 .. MaxCandles /\ 0 \in 0 .. MaxForeign
        /\ 0 \in 0 .. MaxFaults
    BY DEF CandleAssumption
  <2>2. <<>> \in Seq(Command) /\ <<>> \in Seq(Message) /\ <<>> \in Seq(Candles)
    OBVIOUS
  <2>3. /\ inbox \in Seq(Message) /\ adds \in Seq(Message) /\ added \in Seq(Message)
        /\ checks \in Seq(Message) /\ shown \in Seq(Candles)
        /\ wire \in Seq(Command) /\ answers \in Seq(Command)
    BY <2>2 DEF CandleInit
  <2>. QED  BY <2>1, <2>3 DEF CandleInit, TypeOK, SuccessorFollows
<1>2. Sent \in Seq(Command) /\ Len(Sent) = 0 /\ DOMAIN Sent = {}
  <2>1. DOMAIN Sent = 1 .. 0 + 0 /\ Len(Sent) = 0 + 0 /\ Sent \in Seq(Command)
    BY <1>1, SentType DEF CandleInit, TypeOK
  <2>. QED  BY <2>1
<1>3. Heard = {} /\ Queued = {} /\ Elements(inbox) = {} /\ Elements(shown) = {}
      /\ Elements(checks) = {}
  BY DEF CandleInit, Elements, Heard, Queued
<1>4. /\ Increasing(shown, {}) /\ Increasing(checks, Exempt)
      /\ Increasing(adds, Exempt) /\ Increasing(inbox, Exempt)
  BY DEF CandleInit, Increasing
<1>. QED  BY <1>1, <1>2, <1>3, <1>4 DEF CandleInit, CandleInv, SentInOrder, CachedFirst,
   HeardInOrder, ShownInOrder, CheckedInOrder

\* An element of a sequence of candles is a candle.
LEMMA ElementsType ==
  ASSUME NEW S, NEW s \in Seq(S) PROVE Elements(s) \subseteq S
BY DEF Elements

LEMMA HeardType ==
  ASSUME CandleAssumption, TypeOK PROVE Heard \subseteq Message /\ Message \subseteq Nat
<1>1. Candles \subseteq Message /\ Message \subseteq Nat
  BY DEF CandleAssumption, Candles, Message, Foreign
<1>2. /\ Elements(inbox) \subseteq Message /\ Elements(checks) \subseteq Message
      /\ Elements(adds) \subseteq Message /\ Elements(added) \subseteq Message
      /\ Elements(shown) \subseteq Candles
  BY ElementsType DEF TypeOK
<1>. QED  BY <1>1, <1>2 DEF Heard, Queued

LEMMA ArriveStep ==
  ASSUME CandleAssumption, CandleInv, Arrive PROVE CandleInv'
<1>. DEFINE n == received + 1
            cmd == [op |-> "set", candle |-> n]
<1>1. /\ n \in Candles /\ cmd \in Command /\ received' = n /\ wire' = Append(wire, cmd)
      /\ received \in Nat /\ cache \in Nat
      /\ UNCHANGED <<flowexClient, flowexLink, answers, cache, inbox, adds, added, checks,
                     shown, resent>>
      /\ UNCHANGED <<Heard, Queued, Exempt, Elements(inbox), Elements(checks), Elements(adds)>>
  BY DEF CandleAssumption, CandleInv, TypeOK, Arrive, Send, Candles, Command, nobitex, queue,
     history, Heard, Queued, Exempt, Elements
<1>2. TypeOK' /\ SuccessorFollows'
  BY <1>1, AppendProperties DEF CandleAssumption, CandleInv, TypeOK, SuccessorFollows,
     Arrive, nobitex, queue, history
<1>3. Sent \in Seq(Command) /\ Sent' = Append(Sent, cmd)
  <2>1. answers \in Seq(Command) /\ wire \in Seq(Command) /\ <<cmd>> \in Seq(Command)
    BY <1>1 DEF CandleInv, TypeOK
  <2>2. Sent \in Seq(Command)
    BY <2>1, SentType
  <2>3. Append(wire, cmd) = wire \o <<cmd>> /\ Append(Sent, cmd) = Sent \o <<cmd>>
    BY <1>1, <2>1, <2>2, AppendIsConcat
  <2>. QED  BY <1>1, <2>1, <2>2, <2>3, ConcatAssociative DEF Sent
<1>4. /\ DOMAIN Sent = 1 .. Len(Sent) /\ DOMAIN Sent' = 1 .. Len(Sent) + 1
      /\ Len(Sent) \in Nat /\ Sent'[Len(Sent) + 1] = cmd
      /\ \A k \in 1 .. Len(Sent) : Sent'[k] = Sent[k] /\ Sent[k] \in Command
  BY <1>1, <1>3, AppendProperties, LenProperties, ElementOfSeq
<1>5. \A k \in 1 .. Len(Sent) : Sent[k].candle \in Nat /\ Sent[k].candle < n
  <2>1. \A k \in 1 .. Len(Sent) : Sent[k].candle \in Nat
    BY <1>4 DEF Command, Candles
  <2>2. \A k \in 1 .. Len(Sent) : Sent[k].candle <= received
    BY <1>4 DEF CandleInv, CachedFirst
  <2>. QED  BY <1>1, <2>1, <2>2
<1>6. Len(answers) <= Len(Sent) /\ Len(answers) \in Nat
  BY SentType DEF CandleInv, TypeOK
<1>. HIDE DEF n
<1>7. SentInOrder'
  <2>. SUFFICES ASSUME NEW i \in 1 .. Len(Sent) + 1, NEW j \in 1 .. Len(Sent) + 1
                PROVE  /\ i < j /\ Sent'[i].op = Sent'[j].op =>
                            Sent'[i].candle < Sent'[j].candle
                       /\ Sent'[i].op = "publish" /\ Sent'[j].op = "set" =>
                            Sent'[i].candle < Sent'[j].candle
    BY <1>4 DEF SentInOrder
  <2>1. CASE i \in 1 .. Len(Sent) /\ j \in 1 .. Len(Sent)
    BY <1>4, <2>1 DEF CandleInv, SentInOrder
  <2>2. CASE i \in 1 .. Len(Sent) /\ j = Len(Sent) + 1
    BY <1>4, <1>5, <2>2
  <2>3. CASE i = Len(Sent) + 1
    BY <1>4, <2>3
  <2>. QED  BY <1>4, <2>1, <2>2, <2>3
<1>8. CachedFirst'
  <2>1. cache' <= received'
    BY <1>1 DEF CandleInv, CachedFirst, n
  <2>. SUFFICES ASSUME NEW i \in 1 .. Len(Sent) + 1
                PROVE  /\ Sent'[i].candle <= received'
                       /\ i <= Len(answers') \/ Sent'[i].op = "publish" =>
                            Sent'[i].candle <= cache'
    BY <1>4, <2>1 DEF CachedFirst
  <2>2. CASE i \in 1 .. Len(Sent)
    <3>1. Sent'[i] = Sent[i] /\ Sent[i].candle <= received'
      BY <1>1, <1>4, <1>5, <2>2 DEF n
    <3>. QED  BY <1>1, <1>4, <2>2, <3>1 DEF CandleInv, CachedFirst
  <2>3. CASE i = Len(Sent) + 1
    <3>1. Sent'[i] = cmd /\ cmd.candle <= received' /\ cmd.op # "publish"
      BY <1>1, <1>4, <2>3 DEF n
    <3>2. ~(i <= Len(answers'))
      BY <1>1, <1>4, <1>6, <2>3
    <3>. QED  BY <3>1, <3>2
  <2>. QED  BY <1>4, <2>2, <2>3
<1>9. HeardInOrder'
  <2>. SUFFICES ASSUME NEW m \in Heard,
                       NEW i \in 1 .. Len(Sent) + 1, Sent'[i].op = "set"
                PROVE  m < Sent'[i].candle
    <3>1. DOMAIN Sent' = 1 .. Len(Sent) + 1
      BY <1>4
    <3>2. \A k \in Heard : k <= cache'
      BY <1>1 DEF CandleInv, HeardInOrder
    <3>. QED  BY <1>1, <3>1, <3>2 DEF HeardInOrder
  <2>1. CASE i \in 1 .. Len(Sent)
    BY <1>1, <1>4, <2>1 DEF CandleInv, HeardInOrder
  <2>2. CASE i = Len(Sent) + 1
    <3>1. m \in Nat /\ m <= cache /\ cache <= received
      BY HeardType DEF CandleInv, TypeOK, HeardInOrder, CachedFirst
    <3>. QED  BY <1>1, <1>4, <2>2, <3>1 DEF n
  <2>. QED  BY <1>4, <2>1, <2>2
<1>10. ShownInOrder'
  <2>1. \A i \in 1 .. Len(Sent) + 1 : Sent'[i].op = "publish" =>
          i \in 1 .. Len(Sent) /\ Sent'[i] = Sent[i]
    BY <1>4
  <2>. QED  BY <1>1, <1>4, <2>1 DEF CandleInv, ShownInOrder, Elements, Increasing
<1>11. CheckedInOrder'
  <2>1. \A i \in 1 .. Len(Sent) + 1 : Sent'[i].op = "publish" =>
          i \in 1 .. Len(Sent) /\ Sent'[i] = Sent[i]
    BY <1>4
  <2>. QED  BY <1>1, <1>4, <2>1 DEF CandleInv, CheckedInOrder, Increasing
<1>. QED  BY <1>2, <1>7, <1>8, <1>9, <1>10, <1>11 DEF CandleInv

LEMMA ExecuteStep ==
  ASSUME CandleAssumption, CandleInv, Execute PROVE CandleInv'
<1>. DEFINE cmd == Head(wire)
            here == Len(answers) + 1
<1>1. /\ Sent' = Sent /\ Len(answers') = here /\ here \in DOMAIN Sent /\ cmd = Sent[here]
      /\ Sent \in Seq(Command) /\ DOMAIN Sent = 1 .. Len(Sent) /\ Len(Sent) \in Nat
      /\ Len(answers) \in Nat /\ cmd \in Command
      /\ \A k \in DOMAIN Sent : Sent[k] \in Command
  <2>1. TypeOK /\ answers \in Seq(Command) /\ wire \in Seq(Command)
    BY DEF CandleInv, TypeOK
  <2>2. Sent \in Seq(Command) /\ Len(answers) \in Nat
    BY <2>1, SentType
  <2>3. \A k \in DOMAIN Sent : Sent[k] \in Command
    BY <2>2, LenProperties, ElementOfSeq
  <2>. QED  BY <2>1, <2>2, <2>3, ExecuteSent, LenProperties
<1>2. /\ UNCHANGED <<flowexClient, flowexLink, received, adds, added, checks, shown, resent>>
      /\ UNCHANGED <<Queued, Exempt, Elements(checks), Elements(adds), Elements(added),
                     Elements(shown)>>
      /\ \/ cmd.op = "set" /\ cache' = cmd.candle /\ UNCHANGED inbox
         \/ /\ cmd.op = "publish" /\ UNCHANGED cache
            /\ inbox' = Append(inbox, cmd.candle) \/ UNCHANGED inbox
  BY DEF Execute, nobitex, queue, Queued, Exempt, Elements
<1>3. /\ received \in Nat /\ cache \in Nat /\ cmd.candle \in Candles /\ cmd.candle \in Nat
      /\ \A k \in DOMAIN Sent : Sent[k].candle \in Nat
      /\ cmd.op \in {"set", "publish"}
      /\ cmd.candle \in Message
  BY <1>1 DEF CandleInv, TypeOK, Command, Candles, Message
<1>4. TypeOK'
  <2>1. cache' \in 0 .. MaxCandles
    BY <1>2, <1>3 DEF CandleInv, TypeOK, Candles, CandleAssumption
  <2>2. inbox' \in Seq(Message)
    <3>1. Append(inbox, cmd.candle) \in Seq(Message)
      BY <1>3, AppendProperties DEF CandleInv, TypeOK
    <3>. QED  BY <1>2, <3>1 DEF CandleInv, TypeOK
  <2>3. answers' \in Seq(Command) /\ wire' \in Seq(Command)
    BY ExecuteSent DEF CandleInv
  <2>4. dropped' \subseteq Message
    BY <1>3 DEF CandleInv, TypeOK, Execute
  <2>. QED  BY <1>2, <1>3, <2>1, <2>2, <2>3, <2>4 DEF CandleInv, TypeOK, Execute, nobitex
<1>5. SuccessorFollows' /\ SentInOrder'
  BY <1>1, <1>2 DEF CandleInv, SuccessorFollows, SentInOrder
<1>6. Elements(inbox') \subseteq Elements(inbox) \cup {cmd.candle}
  <2>1. Elements(Append(inbox, cmd.candle)) = Elements(inbox) \cup {cmd.candle}
    BY <1>3, ElementsOfAppend DEF CandleInv, TypeOK
  <2>. QED  BY <1>2, <2>1
<1>7. /\ \A m \in Heard : m \in Nat
      /\ Heard' \subseteq Heard \cup {cmd.candle}
      /\ inbox' = inbox => Heard' = Heard /\ Elements(inbox') = Elements(inbox)
  <2>1. Heard' = Elements(inbox') \cup Queued \cup Elements(added) \cup Elements(shown)
    BY <1>2 DEF Heard
  <2>2. \A m \in Heard : m \in Nat
    BY HeardType DEF CandleInv
  <2>3. inbox' = inbox => Elements(inbox') = Elements(inbox)
    OBVIOUS
  <2>. QED  BY <1>6, <2>1, <2>2, <2>3 DEF Heard
<1>8. CASE cmd.op = "set"
  <2>1. cache' = cmd.candle /\ Heard' = Heard /\ UNCHANGED <<inbox, Elements(inbox)>>
    BY <1>2, <1>7, <1>8
  <2>2. ASSUME NEW i \in DOMAIN Sent, i <= here \/ Sent[i].op = "publish"
        PROVE  Sent[i].candle <= cmd.candle
    <3>1. CASE i = here
      BY <1>1, <1>3, <3>1
    <3>2. CASE Sent[i].op = "publish"
      BY <1>1, <1>3, <1>8, <3>2 DEF CandleInv, SentInOrder
    <3>3. CASE i < here /\ Sent[i].op = "set"
      BY <1>1, <1>3, <1>8, <3>3 DEF CandleInv, SentInOrder
    <3>. QED  BY <1>1, <2>2, <3>1, <3>2, <3>3 DEF Command
  <2>3. CachedFirst'
    BY <1>1, <1>2, <1>3, <2>1, <2>2 DEF CandleInv, CachedFirst
  <2>4. HeardInOrder'
    <3>1. \A m \in Heard : m <= cmd.candle
      BY <1>1, <1>3, <1>7, <1>8 DEF CandleInv, HeardInOrder
    <3>. QED  BY <1>1, <2>1, <3>1 DEF CandleInv, HeardInOrder
  <2>5. ShownInOrder' /\ CheckedInOrder'
    <3>1. \A i \in DOMAIN Sent : here < i => Len(answers) < i
      BY <1>1
    <3>. QED  BY <1>1, <1>2, <2>1, <3>1 DEF CandleInv, ShownInOrder, CheckedInOrder
  <2>. QED  BY <1>4, <1>5, <2>3, <2>4, <2>5 DEF CandleInv
<1>9. CASE cmd.op = "publish"
  <2>1. cache' = cache
    BY <1>2, <1>9
  <2>2. /\ cmd.candle <= cache
        /\ \A i \in DOMAIN Sent : Sent[i].op = "set" => cmd.candle < Sent[i].candle
    BY <1>1, <1>9 DEF CandleInv, CachedFirst, SentInOrder
  <2>3. CachedFirst'
    <3>1. \A i \in DOMAIN Sent : i <= here => i <= Len(answers) \/ Sent[i].op = "publish"
      BY <1>1, <1>9
    <3>. QED  BY <1>1, <1>2, <2>1, <3>1 DEF CandleInv, CachedFirst
  <2>4. HeardInOrder'
    <3>. QED  BY <1>1, <1>7, <2>1, <2>2 DEF CandleInv, HeardInOrder
  <2>5. ShownInOrder'
    BY <1>1, <1>2 DEF CandleInv, ShownInOrder
  <2>6. \A m \in (Queued \cup Elements(inbox)) \ Exempt :
          cmd.candle \notin Exempt => m < cmd.candle
    BY <1>1, <1>9 DEF CandleInv, CheckedInOrder
  <2>7. Increasing(inbox', Exempt)
    <3>1. Increasing(Append(inbox, cmd.candle), Exempt)
      BY <1>3, <2>6, IncreasingAppend DEF CandleInv, TypeOK, CheckedInOrder
    <3>. QED  BY <1>2, <3>1 DEF CandleInv, CheckedInOrder
  <2>8. \A i \in DOMAIN Sent : here < i /\ Sent[i].op = "publish" =>
          Len(answers) < i /\ cmd.candle < Sent[i].candle
    BY <1>1, <1>9 DEF CandleInv, SentInOrder
  <2>9. CheckedInOrder'
    BY <1>1, <1>2, <1>6, <2>6, <2>7, <2>8 DEF CandleInv, CheckedInOrder
  <2>. QED  BY <1>4, <1>5, <2>3, <2>4, <2>5, <2>9 DEF CandleInv
<1>. QED  BY <1>3, <1>8, <1>9


LEMMA ContinueStep ==
  ASSUME CandleInv, Continue PROVE CandleInv'
<1>. DEFINE cmd == Head(answers)
            last == Len(Sent)
<1>1. /\ answers' \in Seq(Command) /\ wire' \in Seq(Command)
      /\ 1 <= Len(answers) /\ Len(answers') = Len(answers) - 1 /\ Len(answers) \in Nat
      /\ cmd = Sent[1] /\ cmd \in Command
      /\ last \in Nat \ {0} /\ 1 \in DOMAIN Sent /\ DOMAIN Sent = 1 .. last
      /\ \A k \in 1 .. last - 1 : Sent'[k] = Sent[k + 1]
      /\ cmd.op = "set" =>
              /\ DOMAIN Sent' = 1 .. last
              /\ Sent'[last] = [op |-> "publish", candle |-> cmd.candle]
      /\ cmd.op = "publish" => DOMAIN Sent' = 1 .. last - 1
  BY ContinueSent, SentType DEF CandleInv, TypeOK
<1>2. \A k \in DOMAIN Sent : Sent[k] \in Command
  BY SentType, ElementOfSeq DEF CandleInv, TypeOK
<1>3. /\ cmd.op \in {"set", "publish"} /\ cmd.candle \in Candles
      /\ cmd.op = "set" => UNCHANGED shown
      /\ cmd.op = "publish" => shown' = Append(shown, cmd.candle)
      /\ UNCHANGED <<flowexClient, flowexLink, received, cache, inbox, adds, added, checks,
                     resent, dropped>>
      /\ UNCHANGED <<Queued, Exempt, Elements(inbox), Elements(checks), Elements(adds),
                     Elements(added)>>
  BY <1>1 DEF Continue, Command, nobitex, queue, history, Queued, Exempt, Elements
<1>. HIDE DEF cmd, last
<1>4. TypeOK' /\ SuccessorFollows'
  <2>1. shown' \in Seq(Candles)
    <3>1. shown \in Seq(Candles) /\ Append(shown, cmd.candle) \in Seq(Candles)
      BY <1>3, AppendProperties DEF CandleInv, TypeOK
    <3>. QED  BY <1>3, <3>1
  <2>. QED  BY <1>1, <1>3, <2>1 DEF CandleInv, TypeOK, SuccessorFollows, Continue,
     nobitex, queue, history
<1>5. /\ \A k \in DOMAIN Sent : Sent[k].candle \in Nat /\ Sent[k].op \in {"set", "publish"}
      /\ cmd.candle \in Nat /\ cache \in Nat /\ received \in Nat
  BY <1>2, <1>3 DEF CandleInv, TypeOK, Command, Candles
\* Each command that is left was sent already, one place further on.
<1>6. \A k \in 1 .. last - 1 : /\ k + 1 \in DOMAIN Sent /\ 1 < k + 1 /\ Sent'[k] = Sent[k + 1]
                               /\ k <= Len(answers') <=> k + 1 <= Len(answers)
  BY <1>1
<1>7. \A k \in 1 .. last - 1 : Sent'[k].op = cmd.op => cmd.candle < Sent'[k].candle
  BY <1>1, <1>6 DEF CandleInv, SentInOrder
<1>8. \A i, j \in 1 .. last - 1 :
        /\ i < j /\ Sent'[i].op = Sent'[j].op => Sent'[i].candle < Sent'[j].candle
        /\ Sent'[i].op = "publish" /\ Sent'[j].op = "set" => Sent'[i].candle < Sent'[j].candle
  <2>. SUFFICES ASSUME NEW i \in 1 .. last - 1, NEW j \in 1 .. last - 1
                PROVE  /\ i < j /\ Sent'[i].op = Sent'[j].op => Sent'[i].candle < Sent'[j].candle
                       /\ Sent'[i].op = "publish" /\ Sent'[j].op = "set" =>
                            Sent'[i].candle < Sent'[j].candle
    OBVIOUS
  <2>1. i < j => i + 1 < j + 1
    OBVIOUS
  <2>. QED  BY <1>6, <2>1 DEF CandleInv, SentInOrder
<1>9. CASE cmd.op = "set"
  <2>1. /\ DOMAIN Sent' = 1 .. last /\ last \in 1 .. last
        /\ Sent'[last].op = "publish" /\ Sent'[last].candle = cmd.candle
        /\ \A k \in 1 .. last : k # last => k \in 1 .. last - 1
    BY <1>1, <1>9
  <2>2. SentInOrder'
    <3>1. \A k \in 1 .. last - 1 : Sent'[k].op = "publish" => Sent'[k].candle < cmd.candle
      BY <1>1, <1>6, <1>9 DEF CandleInv, SentInOrder
    <3>2. \A k \in 1 .. last - 1 : Sent'[k].op = "set" => cmd.candle < Sent'[k].candle
      BY <1>7, <1>9
    <3>3. \A k \in 1 .. last : ~(last < k)
      BY <1>1
    <3>. SUFFICES ASSUME NEW i \in 1 .. last, NEW j \in 1 .. last
                  PROVE  /\ i < j /\ Sent'[i].op = Sent'[j].op =>
                              Sent'[i].candle < Sent'[j].candle
                         /\ Sent'[i].op = "publish" /\ Sent'[j].op = "set" =>
                              Sent'[i].candle < Sent'[j].candle
      BY <2>1 DEF SentInOrder
    <3>4. CASE i = last
      BY <2>1, <3>2, <3>3, <3>4
    <3>5. CASE i # last /\ j = last
      BY <2>1, <3>1, <3>5
    <3>6. CASE i # last /\ j # last
      BY <1>8, <2>1, <3>6
    <3>. QED  BY <3>4, <3>5, <3>6
  <2>3. CachedFirst'
    <3>1. cmd.candle <= cache /\ cmd.candle <= received
      BY <1>1 DEF CandleInv, CachedFirst
    <3>2. \A k \in 1 .. last - 1 :
            /\ Sent'[k].candle <= received
            /\ k <= Len(answers') \/ Sent'[k].op = "publish" => Sent'[k].candle <= cache
      BY <1>6 DEF CandleInv, CachedFirst
    <3>3. cache <= received
      BY DEF CandleInv, CachedFirst
    <3>. SUFFICES ASSUME NEW k \in 1 .. last
                  PROVE  /\ Sent'[k].candle <= received
                         /\ k <= Len(answers') \/ Sent'[k].op = "publish" =>
                              Sent'[k].candle <= cache
      BY <1>3, <2>1, <3>3 DEF CachedFirst
    <3>. QED  BY <2>1, <3>1, <3>2
  <2>4. HeardInOrder'
    <3>1. \A k \in 1 .. last : Sent'[k].op = "set" =>
            k + 1 \in DOMAIN Sent /\ Sent'[k] = Sent[k + 1]
      BY <1>6, <2>1
    <3>2. UNCHANGED <<Heard, cache>>
      BY <1>3, <1>9 DEF Heard, Elements
    <3>. QED  BY <2>1, <3>1, <3>2 DEF CandleInv, HeardInOrder
  <2>5. ShownInOrder'
    <3>1. \A n \in Elements(shown) : n < cmd.candle
      BY <1>1, <1>9 DEF CandleInv, HeardInOrder, Heard
    <3>2. \A k \in 1 .. last - 1, n \in Elements(shown) :
            Sent'[k].op = "publish" => n < Sent'[k].candle
      BY <1>6 DEF CandleInv, ShownInOrder
    <3>. QED  BY <1>3, <1>9, <2>1, <3>1, <3>2 DEF CandleInv, ShownInOrder, Elements,
       Increasing
  <2>6. CheckedInOrder'
    <3>1. \A n \in Queued \cup Elements(inbox) : n < cmd.candle
      BY <1>1, <1>9 DEF CandleInv, HeardInOrder, Heard
    <3>2. \A k \in 1 .. last - 1, n \in (Queued \cup Elements(inbox)) \ Exempt :
            Len(answers') < k /\ Sent'[k].op = "publish" /\ Sent'[k].candle \notin Exempt =>
              n < Sent'[k].candle
      <4>1. \A k \in 1 .. last - 1 : Len(answers') < k => Len(answers) < k + 1
        BY <1>1
      <4>. QED  BY <1>6, <4>1 DEF CandleInv, CheckedInOrder
    <3>3. \A n \in (Queued \cup Elements(inbox)) \ Exempt : \A k \in 1 .. last :
            Len(answers') < k /\ Sent'[k].op = "publish" /\ Sent'[k].candle \notin Exempt =>
              n < Sent'[k].candle
      BY <2>1, <3>1, <3>2
    <3>. QED  BY <1>3, <2>1, <3>3 DEF CandleInv, CheckedInOrder, Increasing
  <2>. QED  BY <1>4, <2>2, <2>3, <2>4, <2>5, <2>6 DEF CandleInv
<1>10. CASE cmd.op = "publish"
  <2>1. DOMAIN Sent' = 1 .. last - 1
    BY <1>1, <1>10
  <2>2. SentInOrder'
    BY <1>8, <2>1 DEF SentInOrder
  <2>3. CachedFirst'
    BY <1>3, <1>6, <2>1 DEF CandleInv, CachedFirst
  <2>4. Elements(shown') = Elements(shown) \cup {cmd.candle}
    <3>1. Elements(Append(shown, cmd.candle)) = Elements(shown) \cup {cmd.candle}
      BY <1>3, ElementsOfAppend DEF CandleInv, TypeOK
    <3>. QED  BY <1>3, <1>10, <3>1
  <2>5. HeardInOrder'
    <3>1. /\ cmd.candle <= cache
          /\ \A k \in DOMAIN Sent : Sent[k].op = "set" => cmd.candle < Sent[k].candle
      BY <1>1, <1>10 DEF CandleInv, CachedFirst, SentInOrder
    <3>2. Heard' = Heard \cup {cmd.candle}
      BY <1>3, <2>4 DEF Heard
    <3>. QED  BY <1>3, <1>6, <2>1, <3>1, <3>2 DEF CandleInv, HeardInOrder
  <2>6. ShownInOrder'
    <3>1. \A n \in Elements(shown) : n < cmd.candle
      BY <1>1, <1>10 DEF CandleInv, ShownInOrder
    <3>2. Increasing(shown', {})
      <4>1. shown \in Seq(Candles) /\ Increasing(shown, {})
        BY DEF CandleInv, TypeOK, ShownInOrder
      <4>2. \A n \in Elements(shown) \ {} : n < cmd.candle
        BY <3>1
      <4>3. Increasing(Append(shown, cmd.candle), {})
        BY <1>3, <4>1, <4>2, IncreasingAppend
      <4>. QED  BY <1>3, <1>10, <4>3
    <3>3. \A k \in 1 .. last - 1 : Sent'[k].op = "publish" =>
            \A n \in Elements(shown') : n < Sent'[k].candle
      BY <1>6, <1>7, <1>10, <2>4 DEF CandleInv, ShownInOrder
    <3>. QED  BY <2>1, <3>2, <3>3 DEF ShownInOrder
  <2>7. CheckedInOrder'
    <3>1. \A k \in 1 .. last - 1 : Len(answers') < k => Len(answers) < k + 1
      BY <1>1
    <3>. QED  BY <1>3, <1>6, <2>1, <3>1 DEF CandleInv, CheckedInOrder, Increasing
  <2>. QED  BY <1>4, <2>2, <2>3, <2>5, <2>6, <2>7 DEF CandleInv
<1>. QED  BY <1>3, <1>9, <1>10

\* A step between the channel and the jobs, by which nothing of this process
\* is heard that was not heard before.
LEMMA QueueStep ==
  ASSUME CandleAssumption, CandleInv, Heard' \subseteq Heard \cup {Foreign},
         UNCHANGED <<flowexClient, flowexLink, received, wire, answers, cache, shown>>
  PROVE  /\ SuccessorFollows' /\ SentInOrder' /\ CachedFirst' /\ ShownInOrder'
         /\ HeardInOrder' /\ Sent' = Sent
<1>1. Sent' = Sent
  BY DEF Sent
<1>2. SuccessorFollows' /\ SentInOrder' /\ CachedFirst' /\ ShownInOrder'
  BY <1>1 DEF CandleInv, SuccessorFollows, SentInOrder, CachedFirst, ShownInOrder, Elements,
     Increasing
<1>3. Foreign <= cache /\ \A i \in DOMAIN Sent : Foreign < Sent[i].candle
  <2>1. \A i \in DOMAIN Sent : Sent[i] \in Command
    BY SentType, ElementOfSeq DEF CandleInv, TypeOK
  <2>. QED  BY <2>1 DEF CandleInv, TypeOK, Command, Candles, Foreign
<1>4. HeardInOrder'
  BY <1>1, <1>3 DEF CandleInv, HeardInOrder
<1>. QED  BY <1>1, <1>2, <1>4

LEMMA EnqueueStep ==
  ASSUME CandleAssumption, CandleInv, EnqueueCheck PROVE CandleInv'
<1>. DEFINE n == Head(inbox)
<1>1. /\ inbox \in Seq(Message) /\ adds \in Seq(Message) /\ inbox # <<>>
      /\ inbox' = Tail(inbox)
      /\ adds' = adds \/ adds' = Append(adds, n)
      /\ UNCHANGED <<flowexClient, flowexLink, received, blank, wire, answers, cache,
                     subscriber, added, checks, shown, foreign, dropped, resent, faults>>
      /\ UNCHANGED <<Elements(checks), Elements(added), Elements(shown), Exempt>>
  BY DEF CandleInv, TypeOK, EnqueueCheck, nobitex, redis, history, Elements, Exempt
<1>2. inbox' \in Seq(Message) /\ n \in Elements(inbox) /\ n \in Message
  BY <1>1, HeadTailProperties, ElementsOfTail
<1>3. Elements(inbox') \subseteq Elements(inbox)
  BY <1>1, ElementsOfTail
<1>4. /\ Append(adds, n) \in Seq(Message)
      /\ Elements(Append(adds, n)) = Elements(adds) \cup {n}
  BY <1>1, <1>2, AppendProperties, ElementsOfAppend
<1>5. adds' \in Seq(Message) /\ Elements(adds') \subseteq Elements(adds) \cup {n}
  BY <1>1, <1>4
<1>6. Queued' \subseteq Queued \cup {n}
  BY <1>1, <1>5 DEF Queued
<1>7. Heard' \subseteq Heard
  BY <1>1, <1>2, <1>3, <1>6 DEF Heard
<1>8. TypeOK'
  BY <1>1, <1>2, <1>5 DEF CandleInv, TypeOK
<1>9. CheckedInOrder'
  <2>1. /\ Increasing(inbox', Exempt)
        /\ n \notin Exempt => \A m \in Elements(inbox') \ Exempt : n < m
    BY <1>1, IncreasingTail DEF CandleInv, CheckedInOrder
  <2>2. Increasing(adds', Exempt)
    <3>1. n \notin Exempt => \A m \in Elements(adds) \ Exempt : m < n
      BY <1>2 DEF CandleInv, CheckedInOrder, Queued
    <3>2. Increasing(Append(adds, n), Exempt)
      BY <1>1, <1>2, <3>1, IncreasingAppend DEF CandleInv, CheckedInOrder
    <3>. QED  BY <1>1, <3>2 DEF CandleInv, CheckedInOrder
  <2>3. \A m \in Elements(checks) \ Exempt : \A k \in Elements(adds') \ Exempt : m < k
    BY <1>2, <1>5 DEF CandleInv, CheckedInOrder, Queued
  <2>4. \A m \in Queued' \ Exempt : \A k \in Elements(inbox') \ Exempt : m < k
    BY <1>3, <1>6, <2>1 DEF CandleInv, CheckedInOrder
  <2>5. Queued' \cup Elements(inbox') \subseteq Queued \cup Elements(inbox)
    BY <1>2, <1>3, <1>6
  <2>6. Sent' = Sent
    BY <1>1 DEF Sent
  <2>7. Increasing(checks', Exempt)
    BY <1>1 DEF CandleInv, CheckedInOrder
  <2>. QED  BY <1>1, <2>1, <2>2, <2>3, <2>4, <2>5, <2>6, <2>7 DEF CandleInv, CheckedInOrder
<1>. QED  BY <1>1, <1>7, <1>8, <1>9, QueueStep DEF CandleInv

LEMMA ExecuteAddStep ==
  ASSUME CandleAssumption, CandleInv, ExecuteAdd PROVE CandleInv'
<1>. DEFINE n == Head(adds)
<1>1. /\ adds \in Seq(Message) /\ added \in Seq(Message) /\ checks \in Seq(Message)
      /\ adds # <<>> /\ adds' = Tail(adds)
      /\ added' = Append(added, n) /\ checks' = Append(checks, n)
      /\ UNCHANGED <<flowexClient, flowexLink, received, blank, wire, answers, cache,
                     subscriber, inbox, shown, foreign, dropped, resent, faults>>
      /\ UNCHANGED <<Elements(inbox), Elements(shown), Exempt>>
  BY DEF CandleInv, TypeOK, ExecuteAdd, nobitex, redis, history, Elements, Exempt
<1>2. /\ adds' \in Seq(Message) /\ n \in Elements(adds) /\ n \in Message
      /\ Elements(adds') \subseteq Elements(adds)
  BY <1>1, HeadTailProperties, ElementsOfTail
<1>3. /\ added' \in Seq(Message) /\ checks' \in Seq(Message)
      /\ Elements(added') = Elements(added) \cup {n}
      /\ Elements(checks') = Elements(checks) \cup {n}
  BY <1>1, <1>2, AppendProperties, ElementsOfAppend
<1>4. Queued' \subseteq Queued /\ Heard' \subseteq Heard
  BY <1>1, <1>2, <1>3 DEF Queued, Heard
<1>5. TypeOK'
  BY <1>1, <1>2, <1>3 DEF CandleInv, TypeOK
<1>6. CheckedInOrder'
  <2>1. /\ Increasing(adds', Exempt)
        /\ n \notin Exempt => \A m \in Elements(adds') \ Exempt : n < m
    BY <1>1, IncreasingTail DEF CandleInv, CheckedInOrder
  <2>2. Increasing(checks', Exempt)
    BY <1>1, <1>2, IncreasingAppend DEF CandleInv, CheckedInOrder
  <2>3. \A m \in Elements(checks') \ Exempt : \A k \in Elements(adds') \ Exempt : m < k
    BY <1>2, <1>3, <2>1 DEF CandleInv, CheckedInOrder
  <2>4. Sent' = Sent
    BY <1>1 DEF Sent
  <2>5. Increasing(inbox', Exempt)
    BY <1>1 DEF CandleInv, CheckedInOrder
  <2>. QED  BY <1>1, <1>4, <2>1, <2>2, <2>3, <2>4, <2>5 DEF CandleInv, CheckedInOrder
<1>. QED  BY <1>1, <1>4, <1>5, <1>6, QueueStep DEF CandleInv

LEMMA AddReturnsStep ==
  ASSUME CandleAssumption, CandleInv, AddReturns PROVE CandleInv'
<1>1. /\ added \in Seq(Message) /\ added # <<>> /\ added' = Tail(added)
      /\ UNCHANGED <<flowexClient, flowexLink, received, blank, wire, answers, cache,
                     subscriber, inbox, adds, checks, shown, foreign, dropped, resent, faults>>
      /\ UNCHANGED <<Elements(inbox), Elements(shown), Exempt, Queued>>
  BY DEF CandleInv, TypeOK, AddReturns, nobitex, redis, history, Elements, Exempt, Queued
<1>2. added' \in Seq(Message) /\ Elements(added') \subseteq Elements(added)
  BY <1>1, HeadTailProperties, ElementsOfTail
<1>3. Heard' \subseteq Heard
  BY <1>1, <1>2 DEF Heard
<1>4. TypeOK'
  BY <1>1, <1>2 DEF CandleInv, TypeOK
<1>5. CheckedInOrder'
  BY <1>1 DEF CandleInv, CheckedInOrder, Sent, Increasing, Elements
<1>. QED  BY <1>1, <1>3, <1>4, <1>5, QueueStep DEF CandleInv

LEMMA PublishForeignStep ==
  ASSUME CandleAssumption, CandleInv, PublishForeign PROVE CandleInv'
<1>1. /\ inbox \in Seq(Message) /\ Foreign \in Message /\ inbox' = Append(inbox, Foreign)
      /\ UNCHANGED <<flowexClient, flowexLink, received, blank, wire, answers, cache,
                     subscriber, adds, added, checks, shown, dropped, resent, faults>>
      /\ UNCHANGED <<Elements(shown), Elements(added), Exempt, Queued>>
  BY DEF CandleInv, TypeOK, PublishForeign, nobitex, redis, queue, history, Elements,
     Exempt, Queued, Message
<1>2. /\ inbox' \in Seq(Message) /\ Elements(inbox') = Elements(inbox) \cup {Foreign}
      /\ Foreign \in Exempt
  BY <1>1, AppendProperties, ElementsOfAppend DEF Exempt
<1>3. Heard' \subseteq Heard \cup {Foreign}
  BY <1>1, <1>2 DEF Heard
<1>4. TypeOK'
  <2>1. foreign' \in 0 .. MaxForeign
    BY DEF CandleAssumption, CandleInv, TypeOK, PublishForeign
  <2>. QED  BY <1>1, <1>2, <2>1 DEF CandleInv, TypeOK
<1>5. CheckedInOrder'
  <2>1. Increasing(inbox', Exempt)
    BY <1>1, <1>2, IncreasingAppend DEF CandleInv, CheckedInOrder
  <2>2. Sent' = Sent
    BY <1>1 DEF Sent
  <2>. QED  BY <1>1, <1>2, <2>1, <2>2 DEF CandleInv, CheckedInOrder, Increasing, Elements
<1>. QED  BY <1>1, <1>3, <1>4, <1>5, QueueStep DEF CandleInv

LEMMA SubscriberLostStep ==
  ASSUME CandleAssumption, CandleInv, SubscriberLost PROVE CandleInv'
<1>1. /\ inbox' = <<>> /\ Elements(inbox') = {}
      /\ UNCHANGED <<flowexClient, flowexLink, received, blank, wire, answers, cache, adds,
                     added, checks, shown, foreign, resent>>
      /\ UNCHANGED <<Elements(shown), Elements(added), Exempt, Queued>>
  BY DEF SubscriberLost, nobitex, redis, queue, Elements, Exempt, Queued
<1>2. TypeOK'
  <2>1. faults' \in 0 .. MaxFaults
    BY DEF CandleAssumption, CandleInv, TypeOK, SubscriberLost
  <2>2. dropped' \subseteq Message /\ inbox' \in Seq(Message)
    BY <1>1, ElementsType DEF CandleInv, TypeOK, SubscriberLost
  <2>. QED  BY <1>1, <2>1, <2>2 DEF CandleInv, TypeOK, SubscriberLost
<1>3. Heard' \subseteq Heard
  BY <1>1 DEF Heard
<1>4. CheckedInOrder'
  <2>1. Increasing(inbox', Exempt)
    BY <1>1 DEF Increasing
  <2>2. Sent' = Sent
    BY <1>1 DEF Sent
  <2>. QED  BY <1>1, <2>1, <2>2 DEF CandleInv, CheckedInOrder, Increasing, Elements
<1>. QED  BY <1>1, <1>2, <1>3, <1>4, QueueStep DEF CandleInv

LEMMA QueueLostStep ==
  ASSUME CandleAssumption, CandleInv, QueueLost PROVE CandleInv'
<1>1. PICK k \in 0 .. Len(added) :
        /\ added' = SubSeq(added, 1, k)
        /\ adds' = SubSeq(added, k + 1, Len(added)) \o adds
        /\ resent' = resent \cup Elements(SubSeq(added, k + 1, Len(added)))
  BY DEF QueueLost
<1>. DEFINE again == SubSeq(added, k + 1, Len(added))
<1>2. /\ adds \in Seq(Message) /\ added \in Seq(Message) /\ Len(added) \in Nat
      /\ UNCHANGED <<flowexClient, flowexLink, received, blank, wire, answers, cache,
                     subscriber, inbox, checks, shown, foreign, dropped>>
      /\ UNCHANGED <<Elements(inbox), Elements(checks), Elements(shown)>>
  BY LenProperties DEF CandleInv, TypeOK, QueueLost, nobitex, redis, Elements
<1>3. /\ again \in Seq(Message) /\ Elements(again) \subseteq Elements(added)
      /\ added' \in Seq(Message) /\ Elements(added') \subseteq Elements(added)
  BY <1>1, <1>2, ElementsOfSubSeq
<1>. HIDE DEF again
<1>4. /\ Exempt' = Exempt \cup Elements(again) /\ resent' \subseteq Message
      /\ resent' = resent \cup Elements(again)
  <2>1. Elements(again) \subseteq Message
    BY <1>3, ElementsType
  <2>. QED  BY <1>1, <2>1 DEF CandleInv, TypeOK, Exempt, again
<1>5. adds' = again \o adds
  BY <1>1 DEF again
<1>6. /\ adds' \in Seq(Message) /\ Elements(adds') = Elements(again) \cup Elements(adds)
      /\ Increasing(adds', Exempt')
  <2>1. Increasing(adds, Exempt')
    BY <1>4, IncreasingExcept DEF CandleInv, CheckedInOrder
  <2>2. PICK X : X = Exempt'
    OBVIOUS
  <2>3. Elements(again) \subseteq X /\ Increasing(adds, X)
    BY <1>4, <2>1, <2>2
  <2>4. again \in Seq(Message) /\ adds \in Seq(Message)
    BY <1>2, <1>3
  <2>5. \A r, s \in Seq(Message) : Elements(r) \subseteq X /\ Increasing(s, X) =>
          /\ r \o s \in Seq(Message) /\ Elements(r \o s) = Elements(r) \cup Elements(s)
          /\ Increasing(r \o s, X)
    BY IncreasingConcat
  <2>6. /\ again \o adds \in Seq(Message)
        /\ Elements(again \o adds) = Elements(again) \cup Elements(adds)
        /\ Increasing(again \o adds, X)
    BY <2>3, <2>4, <2>5
  <2>. QED  BY <1>5, <2>2, <2>6
<1>7. Queued' = Queued \cup Elements(again) /\ Heard' \subseteq Heard
  BY <1>2, <1>3, <1>6 DEF Queued, Heard
<1>8. TypeOK'
  <2>1. faults' \in 0 .. MaxFaults
    BY DEF CandleAssumption, CandleInv, TypeOK, QueueLost
  <2>. QED  BY <1>2, <1>3, <1>4, <1>6, <2>1 DEF CandleInv, TypeOK
<1>9. CheckedInOrder'
  <2>1. Increasing(checks', Exempt') /\ Increasing(inbox', Exempt')
    BY <1>2, <1>4, IncreasingExcept DEF CandleInv, CheckedInOrder
  <2>2. \A m \in Elements(checks) \ Exempt' : \A j \in Elements(adds') \ Exempt' : m < j
    BY <1>4, <1>6 DEF CandleInv, CheckedInOrder
  <2>3. \A m \in Queued' \ Exempt' : \A j \in Elements(inbox) \ Exempt' : m < j
    BY <1>4, <1>7 DEF CandleInv, CheckedInOrder
  <2>4. Sent' = Sent
    BY <1>2 DEF Sent
  <2>5. \A m \in (Queued' \cup Elements(inbox)) \ Exempt' : \A i \in DOMAIN Sent :
          Len(answers) < i /\ Sent[i].op = "publish" /\ Sent[i].candle \notin Exempt' =>
            m < Sent[i].candle
    BY <1>4, <1>7 DEF CandleInv, CheckedInOrder
  <2>. QED  BY <1>2, <1>6, <2>1, <2>2, <2>3, <2>4, <2>5 DEF CheckedInOrder
<1>. QED  BY <1>2, <1>7, <1>8, <1>9, QueueStep DEF CandleInv

LEMMA PublisherLostStep ==
  ASSUME CandleAssumption, CandleInv, PublisherLost PROVE CandleInv'
<1>1. PICK k \in 0 .. Len(answers) :
        /\ answers' = SubSeq(answers, 1, k)
        /\ wire' = SubSeq(answers, k + 1, Len(answers)) \o wire
        /\ resent' = resent \cup {c.candle :
             c \in {e \in Elements(SubSeq(answers, k + 1, Len(answers))) : e.op = "publish"}}
  BY DEF PublisherLost
<1>. DEFINE again == SubSeq(answers, k + 1, Len(answers))
<1>2. /\ UNCHANGED <<flowexClient, flowexLink, received, blank, cache, subscriber, inbox,
                     adds, added, checks, shown, foreign, dropped>>
      /\ UNCHANGED <<Heard, Queued, Elements(inbox), Elements(checks), Elements(adds)>>
      /\ answers \in Seq(Command) /\ wire \in Seq(Command) /\ Len(answers) \in Nat
  BY LenProperties DEF PublisherLost, nobitex, queue, Elements, Heard, Queued, CandleInv, TypeOK
<1>3. /\ again \in Seq(Command) /\ Len(again) = Len(answers) - k
      /\ answers' \in Seq(Command) /\ Len(answers') = k
      /\ \A i \in 1 .. Len(answers) - k : again[i] = answers[k + i]
      /\ answers' \o again = answers
  <2>1. /\ \A i \in 1 .. k : answers[i] \in Command
        /\ \A i \in k + 1 .. Len(answers) : answers[i] \in Command
    BY <1>2, ElementOfSeq
  <2>2. /\ SubSeq(answers, 1, k) \in Seq(Command)
        /\ Len(SubSeq(answers, 1, k)) = IF 1 <= k THEN k - 1 + 1 ELSE 0
    BY <1>2, <2>1, SubSeqProperties
  <2>3. /\ again \in Seq(Command)
        /\ Len(again) = IF k + 1 <= Len(answers) THEN Len(answers) - (k + 1) + 1 ELSE 0
        /\ \A i \in 1 .. Len(answers) - (k + 1) + 1 : again[i] = answers[k + 1 + i - 1]
    BY <1>2, <2>1, SubSeqProperties
  <2>4. SubSeq(answers, 1, k) \o again = answers
    <3>1. SubSeq(answers, 1, k) \o again = SubSeq(answers, 1, Len(answers))
      <4>1. /\ 1 \in 1 .. Len(answers) + 1 /\ k \in 1 - 1 .. Len(answers)
            /\ Len(answers) \in k .. Len(answers)
        BY <1>2
      <4>. HIDE <1>1
      <4>. QED  BY <1>2, <4>1, ConcatAdjacentSubSeq
    <3>. QED  BY <1>2, <3>1, SubSeqFull
  <2>5. \A i \in 1 .. Len(answers) - k :
          i \in 1 .. Len(answers) - (k + 1) + 1 /\ k + 1 + i - 1 = k + i
    BY <1>2
  <2>6. answers' \in Seq(Command) /\ Len(answers') = k
    BY <1>1, <1>2, <2>2
  <2>7. Len(again) = Len(answers) - k
    BY <1>2, <2>3
  <2>8. \A i \in 1 .. Len(answers) - k : again[i] = answers[k + i]
    BY <2>3, <2>5
  <2>. QED  BY <1>1, <2>3, <2>4, <2>6, <2>7, <2>8
<1>4. wire' \in Seq(Command) /\ Sent' = Sent
  <2>1. (answers' \o again) \o wire = answers' \o (again \o wire)
    <3>1. answers' \in Seq(Command) /\ again \in Seq(Command) /\ wire \in Seq(Command)
      BY <1>2, <1>3
    <3>. HIDE DEF again
    <3>. QED  BY <3>1, ConcatAssociative
  <2>. QED  BY <1>1, <1>2, <1>3, <2>1, ConcatProperties DEF Sent
<1>5. resent' \subseteq Message /\ Exempt \subseteq Exempt' /\ resent' \subseteq Exempt'
  <2>1. Elements(again) \subseteq Command
    BY <1>3, ElementsType
  <2>. QED  BY <1>1, <2>1 DEF CandleInv, TypeOK, Command, Message, Exempt
\* What is sent again and was published already is known as such.
<1>6. ASSUME NEW i \in DOMAIN Sent, k < i, i <= Len(answers), Sent[i].op = "publish"
      PROVE  Sent[i].candle \in resent'
  <2>1. i \in 1 .. Len(answers) /\ i - k \in 1 .. Len(again) /\ k + (i - k) = i
    BY <1>2, <1>3, <1>6, SentType
  <2>2. Sent[i] = again[i - k] /\ i - k \in DOMAIN again
    BY <1>2, <1>3, <2>1, SentType, LenProperties
  <2>3. Sent[i] \in Elements(again)
    BY <2>2 DEF Elements
  <2>. QED  BY <1>1, <1>6, <2>3
<1>. HIDE DEF again
<1>7. TypeOK' /\ SuccessorFollows'
  <2>. faults' \in 0 .. MaxFaults
    BY DEF CandleAssumption, CandleInv, TypeOK, PublisherLost
  <2>. QED  BY <1>2, <1>3, <1>4, <1>5 DEF CandleInv, TypeOK, SuccessorFollows
<1>8. SentInOrder' /\ HeardInOrder'
  BY <1>2, <1>4 DEF CandleInv, SentInOrder, HeardInOrder
<1>9. CachedFirst'
  <2>1. \A i \in DOMAIN Sent : i <= k => i <= Len(answers)
    BY <1>2, SentType
  <2>. QED  BY <1>2, <1>3, <1>4, <2>1 DEF CandleInv, CachedFirst
<1>10. ShownInOrder'
  BY <1>2, <1>4 DEF CandleInv, ShownInOrder, Increasing
<1>11. CheckedInOrder'
  <2>1. Increasing(checks', Exempt') /\ Increasing(adds', Exempt') /\ Increasing(inbox', Exempt')
    BY <1>2, <1>5, IncreasingExcept DEF CandleInv, CheckedInOrder
  <2>2. ASSUME NEW n \in (Queued \cup Elements(inbox)) \ Exempt', NEW i \in DOMAIN Sent,
               k < i, Sent[i].op = "publish", Sent[i].candle \notin Exempt'
        PROVE  n < Sent[i].candle
    <3>1. ~(i <= Len(answers))
      BY <1>5, <1>6, <2>2
    <3>2. Len(answers) < i
      BY <1>2, <3>1, SentType
    <3>. QED  BY <1>5, <2>2, <3>2 DEF CandleInv, CheckedInOrder
  <2>. QED  BY <1>2, <1>3, <1>4, <1>5, <2>1, <2>2 DEF CandleInv, CheckedInOrder
<1>. QED  BY <1>7, <1>8, <1>9, <1>10, <1>11 DEF CandleInv

LEMMA CrashStep ==
  ASSUME CandleAssumption, CandleInv, Crash PROVE CandleInv'
<1>1. /\ inbox' = <<>> /\ wire' = <<>> /\ answers' = <<>> /\ adds' = <<>> /\ added' = <<>>
      /\ Elements(inbox') = {} /\ Elements(adds') = {} /\ Elements(added') = {}
      /\ flowexClient' = 1 /\ flowexLink' = "connecting" /\ subscriber' = FALSE
      /\ UNCHANGED <<received, blank, cache, checks, shown, foreign, resent>>
      /\ UNCHANGED <<Elements(checks), Elements(shown), Exempt>>
  BY DEF Crash, Elements, Exempt
<1>2. TypeOK' /\ SuccessorFollows'
  <2>1. faults' \in 0 .. MaxFaults
    BY DEF CandleAssumption, CandleInv, TypeOK, Crash
  <2>2. dropped' \subseteq Message
    <3>1. 1 .. received \subseteq Message
      BY DEF CandleAssumption, CandleInv, TypeOK, Candles, Message
    <3>. QED  BY <3>1 DEF CandleInv, TypeOK, Crash
  <2>3. <<>> \in Seq(Command) /\ <<>> \in Seq(Message) /\ 1 \in 1 .. MaxFlowExClients
    BY DEF CandleAssumption
  <2>4. /\ inbox' \in Seq(Message) /\ adds' \in Seq(Message) /\ added' \in Seq(Message)
        /\ wire' \in Seq(Command) /\ answers' \in Seq(Command)
    BY <1>1, <2>3
  <2>. QED  BY <1>1, <2>1, <2>2, <2>3, <2>4 DEF CandleInv, TypeOK, SuccessorFollows
<1>3. DOMAIN Sent' = {}
  <2>1. <<>> \in Seq(Command) /\ Len(<<>>) = 0
    OBVIOUS
  <2>2. DOMAIN (<<>> \o <<>>) = 1 .. 0 + 0
    BY <2>1, ConcatIndex
  <2>. QED  BY <1>1, <2>2 DEF Sent
<1>4. Increasing(inbox', Exempt) /\ Increasing(adds', Exempt)
  BY <1>1 DEF Increasing
<1>5. SentInOrder' /\ CachedFirst' /\ ShownInOrder'
  BY <1>1, <1>3 DEF CandleInv, SentInOrder, CachedFirst, ShownInOrder, Increasing
<1>6. HeardInOrder'
  BY <1>1, <1>3 DEF CandleInv, HeardInOrder, Heard, Queued
<1>7. CheckedInOrder'
  BY <1>1, <1>3, <1>4 DEF CandleInv, CheckedInOrder, Queued, Increasing
<1>. QED  BY <1>2, <1>5, <1>6, <1>7 DEF CandleInv

\* The connections, of the clients and of the subscriber.
LEMMA ConnectionStep ==
  ASSUME CandleAssumption, CandleInv,
         \/ FlowExConnected \/ FlowExDisconnected \/ FlowExReconnect
         \/ Subscribed \/ UNCHANGED candleVars
  PROVE  CandleInv'
<1>1. UNCHANGED <<received, wire, answers, cache, inbox, adds, added, checks, shown, foreign,
                  resent>>
  BY DEF FlowExConnected, FlowExDisconnected, FlowExReconnect, Subscribed,
     Rest, redis, queue, history, candleVars
<1>2. TypeOK' /\ SuccessorFollows'
  <2>1. UNCHANGED <<blank, dropped, faults>> /\ subscriber' \in BOOLEAN
    BY DEF CandleInv, TypeOK, FlowExConnected, FlowExDisconnected, FlowExReconnect,
       Subscribed, Rest, history, candleVars
  <2>2. /\ flowexClient' \in 1 .. MaxFlowExClients
        /\ flowexLink' \in {"connecting", "connected", "disconnected"}
        /\ flowexLink' = "disconnected" => flowexClient' < MaxFlowExClients
    BY DEF CandleAssumption, CandleInv, TypeOK, SuccessorFollows, FlowExConnected,
       FlowExDisconnected, FlowExReconnect, Subscribed, candleVars, nobitex
  <2>. QED  BY <1>1, <2>1, <2>2 DEF CandleInv, TypeOK, SuccessorFollows
<1>3. UNCHANGED <<Sent, Heard, Queued, Exempt, Elements(inbox), Elements(checks),
                  Elements(adds), Elements(shown)>>
  BY <1>1 DEF Sent, Heard, Queued, Exempt, Elements
<1>4. SentInOrder' /\ CachedFirst' /\ HeardInOrder'
  BY <1>1, <1>3 DEF CandleInv, SentInOrder, CachedFirst, HeardInOrder
<1>5. ShownInOrder' /\ CheckedInOrder'
  BY <1>1, <1>3 DEF CandleInv, ShownInOrder, CheckedInOrder, Increasing
<1>. QED  BY <1>2, <1>4, <1>5 DEF CandleInv

LEMMA NextCandleInv == CandleAssumption /\ CandleInv /\ [Next]_candleVars => CandleInv'
BY ArriveStep, ExecuteStep, ContinueStep, EnqueueStep, ExecuteAddStep, AddReturnsStep,
   PublishForeignStep, SubscriberLostStep, PublisherLostStep, QueueLostStep, CrashStep,
   ConnectionStep DEF Next

----------------------------------------------------------------------------
(* The inductive invariant: the order in which the commands of the handlers *)
(* were sent to Redis, and how far the cache, the orders and the sockets    *)
(* have come in it.                                                         *)
THEOREM CandleInvariance == Spec => []CandleInv
BY InitCandleInv, NextCandleInv, CandleAssumption, PTL DEF Spec

(* Every variable of FlowEx's candle feed keeps its type.                   *)
THEOREM CandleTypeCorrect == Spec => []TypeOK
<1>1. CandleInv => TypeOK
  BY DEF CandleInv
<1>. QED  BY <1>1, CandleInvariance, PTL

(* However the handlers of successive candles interleave, and whatever is   *)
(* lost, the sockets and the limit orders hear of candles in the order of   *)
(* their arrival, and of none that was not cached before.  Limit orders may *)
(* hear of those out of order that come from another process, or whose      *)
(* PUBLISH or queue.add was sent again.                                     *)
THEOREM CandlesInOrder == Spec => []CandlesStayInOrder
<1>1. CandleInv => CandlesStayInOrder
  BY DEF CandleInv, ShownInOrder, CheckedInOrder, HeardInOrder, Heard, Queued, Exempt,
     CandlesStayInOrder
<1>. QED  BY <1>1, CandleInvariance, PTL

----------------------------------------------------------------------------
(* The market service and the gateway (GatewayFeed).                        *)

\* A listener is added with each connection of the client.
ListenersOfConnects == listeners <= connects

\* A stream has a subscription once it has been opened, and a subscription
\* is of the client or of one before it.
StreamHasSubscription ==
  \A s \in Streams :
    /\ stream[s] = "idle" <=> on[s] = <<>>
    /\ stream[s] # "idle" => on[s][1] <= client
    /\ stream[s] # "idle" /\ on[s][1] = client => subs[on[s][2]] # "none"

\* A call has a channel, and only a call is served.
CallHasChannel ==
  \A s \in Streams : call[s] # "none" => asked[s] \in Channels

\* Only a call that has ended has unsubscribed a channel.
UnsubscribedByLostCall ==
  \A ch \in Channels : subs[ch] = "unsubscribed" =>
    \E t \in Streams : call[t] = "ended" /\ on[t] = <<client, ch>>

\* A timer is set only while there is a client to come.
TimerLeavesRoom == timer => client < MaxClients

GatewayInv ==
  /\ GatewayTypeOK
  /\ ListenersOfConnects /\ StreamHasSubscription /\ CallHasChannel
  /\ UnsubscribedByLostCall /\ TimerLeavesRoom

----------------------------------------------------------------------------
LEMMA InitGatewayInv == GatewayInit => GatewayInv
<1>. SUFFICES ASSUME GatewayInit PROVE GatewayInv
  OBVIOUS
<1>1. GatewayTypeOK
  <2>1. client \in Clients /\ connects \in 0 .. MaxConnects /\ listeners \in 0 .. MaxConnects
    BY FeedAssumption DEF GatewayInit, Init, Clients
  <2>. QED  BY <2>1 DEF GatewayInit, Init, GatewayTypeOK, FeedTypeOK
<1>2. ListenersOfConnects /\ StreamHasSubscription /\ CallHasChannel
      /\ UnsubscribedByLostCall /\ TimerLeavesRoom
  BY DEF GatewayInit, Init, ListenersOfConnects, StreamHasSubscription, CallHasChannel,
     UnsubscribedByLostCall, TimerLeavesRoom
<1>. QED  BY <1>1, <1>2 DEF GatewayInv

\* A new client has no subscriptions, and every stream listens to an older one.
LEMMA NewClientStep ==
  ASSUME GatewayInv, client < MaxClients, NewClient(client + 1), timer' = FALSE,
         UNCHANGED <<on, gateway>>,
         \/ UNCHANGED stream
         \/ stream' = [s \in Streams |-> IF stream[s] = "open" THEN "closed"
                                         ELSE stream[s]]
  PROVE  GatewayInv'
<1>. USE DEF GatewayInv, GatewayTypeOK, FeedTypeOK, Clients, gateway
<1>1. /\ client' = client + 1 /\ link' = "connecting"
      /\ connects' = 0 /\ listeners' = 0
      /\ subs' = [ch \in Channels |-> "none"]
  BY DEF NewClient
<1>2. stream' \in [Streams -> {"idle", "open", "closed"}]
      /\ \A s \in Streams : stream'[s] = "idle" <=> stream[s] = "idle"
  OBVIOUS
<1>3. GatewayTypeOK'
  <2>1. client' \in Clients /\ connects' \in 0 .. MaxConnects
        /\ listeners' \in 0 .. MaxConnects
    BY <1>1, FeedAssumption
  <2>2. /\ link' \in {"connecting", "connected", "disconnected"} /\ timer' \in BOOLEAN
        /\ subs' \in [Channels -> {"none", "subscribed", "unsubscribed"}]
        /\ on' \in [Streams -> (Clients \X Channels) \cup {<<>>}]
    BY <1>1
  <2>. QED  BY <1>2, <2>1, <2>2
<1>4. ListenersOfConnects' /\ CallHasChannel' /\ TimerLeavesRoom'
  BY <1>1 DEF ListenersOfConnects, CallHasChannel, TimerLeavesRoom
<1>5. StreamHasSubscription'
  <2>. SUFFICES ASSUME NEW s \in Streams
                PROVE  /\ stream'[s] = "idle" <=> on[s] = <<>>
                       /\ stream'[s] # "idle" => on[s][1] < client'
    BY <1>1 DEF StreamHasSubscription
  <2>. QED  BY <1>1, <1>2 DEF StreamHasSubscription
<1>6. UnsubscribedByLostCall'
  BY <1>1 DEF UnsubscribedByLostCall
<1>. QED  BY <1>3, <1>4, <1>5, <1>6

LEMMA ClientStep ==
  ASSUME GatewayInv, ClientEvent, UNCHANGED gateway
  PROVE  GatewayInv'
<1>1. CASE Connected \/ Lost \/ Disconnected
  <2>. USE DEF Connected, Lost, Disconnected, gateway
  <2>1. GatewayTypeOK' /\ ListenersOfConnects'
    <3>1. connects' \in 0 .. MaxConnects /\ listeners' \in 0 .. MaxConnects
          /\ listeners' <= connects'
      BY <1>1, FeedAssumption DEF GatewayInv, GatewayTypeOK, FeedTypeOK, ListenersOfConnects
    <3>2. link' \in {"connecting", "connected", "disconnected"} /\ timer' \in BOOLEAN
      BY <1>1 DEF GatewayInv, GatewayTypeOK, FeedTypeOK
    <3>3. UNCHANGED <<client, subs, stream, on, socket, call, asked>>
      BY <1>1
    <3>. QED
      BY <3>1, <3>2, <3>3 DEF GatewayInv, GatewayTypeOK, FeedTypeOK, ListenersOfConnects
  <2>2. StreamHasSubscription' /\ CallHasChannel' /\ UnsubscribedByLostCall'
    <3>1. UNCHANGED <<client, subs, stream, on, call, asked>>
      BY <1>1
    <3>2. StreamHasSubscription'
      BY <3>1 DEF GatewayInv, StreamHasSubscription
    <3>3. CallHasChannel'
      BY <3>1 DEF GatewayInv, CallHasChannel
    <3>4. UnsubscribedByLostCall'
      BY <3>1 DEF GatewayInv, UnsubscribedByLostCall
    <3>. QED  BY <3>2, <3>3, <3>4
  <2>3. TimerLeavesRoom'
    BY <1>1 DEF GatewayInv, TimerLeavesRoom
  <2>. QED  BY <2>1, <2>2, <2>3 DEF GatewayInv
<1>2. CASE Reconnect
  BY <1>2, NewClientStep DEF Reconnect, GatewayInv, TimerLeavesRoom, gateway
<1>3. CASE Restart
  BY <1>3, NewClientStep DEF Restart, gateway
<1>. QED  BY <1>1, <1>2, <1>3 DEF ClientEvent

----------------------------------------------------------------------------
(* The gateway and its calls.                                              *)

LEMMA SocketStep ==
  ASSUME GatewayInv,
         \/ \E k \in Sockets : HandleDisconnect(k)
         \/ \E s \in Streams, ch \in Channels : HandleSubscribeToCandles(s, ch)
         \/ \E s \in Streams : LoseCall(s)
  PROVE  GatewayInv'
<1>. USE DEF HandleDisconnect, HandleSubscribeToCandles, LoseCall, GatewayInv, vars
<1>1. GatewayTypeOK'
  BY DEF GatewayTypeOK, FeedTypeOK
<1>2. ListenersOfConnects' /\ StreamHasSubscription' /\ TimerLeavesRoom'
  BY DEF ListenersOfConnects, StreamHasSubscription, TimerLeavesRoom
<1>3. CallHasChannel'
  BY DEF CallHasChannel, GatewayTypeOK
<1>4. UnsubscribedByLostCall'
  <2>1. /\ UNCHANGED <<subs, on, client>>
        /\ \A t \in Streams : call[t] = "ended" => call'[t] = "ended"
    BY DEF GatewayTypeOK
  <2>. QED  BY <2>1 DEF UnsubscribedByLostCall
<1>. QED  BY <1>1, <1>2, <1>3, <1>4

LEMMA ServeStep ==
  ASSUME GatewayInv, NEW s \in Streams, ServeCall(s)
  PROVE  GatewayInv'
<1>. DEFINE ch == asked[s]
<1>. USE DEF GatewayInv, GatewayTypeOK, FeedTypeOK
<1>1. /\ ch \in Channels /\ stream[s] = "idle"
      /\ on' = [on EXCEPT ![s] = <<client, ch>>]
      /\ subs' = [subs EXCEPT ![ch] = IF @ = "none" THEN "subscribed" ELSE @]
      /\ stream' = [stream EXCEPT ![s] = "open"]
      /\ UNCHANGED <<client, link, connects, listeners, timer, socket, call, asked>>
  BY DEF ServeCall, OpenStream, CallHasChannel, gateway
<1>. HIDE DEF ch
<1>2. GatewayTypeOK'
  BY <1>1
<1>3. ListenersOfConnects' /\ CallHasChannel' /\ TimerLeavesRoom'
  BY <1>1 DEF ListenersOfConnects, CallHasChannel, TimerLeavesRoom
<1>4. StreamHasSubscription'
  <2>. SUFFICES ASSUME NEW t \in Streams
                PROVE  /\ stream'[t] = "idle" <=> on'[t] = <<>>
                       /\ stream'[t] # "idle" => on'[t][1] <= client
                       /\ stream'[t] # "idle" /\ on'[t][1] = client
                            => subs'[on'[t][2]] # "none"
    BY <1>1 DEF StreamHasSubscription
  <2>1. CASE t = s
    <3>1. stream'[t] = "open" /\ on'[t] = <<client, ch>> /\ subs'[ch] # "none"
      BY <1>1, <2>1
    <3>2. client \in Nat /\ client <= client
      BY FeedAssumption DEF Clients
    <3>. QED  BY <3>1, <3>2
  <2>2. CASE t # s
    <3>1. stream'[t] = stream[t] /\ on'[t] = on[t]
      BY <1>1, <2>2
    <3>2. \A c \in Channels : subs[c] # "none" => subs'[c] # "none"
      BY <1>1
    <3>3. stream[t] # "idle" => on[t] \in Clients \X Channels
      BY DEF StreamHasSubscription
    <3>. QED  BY <3>1, <3>2, <3>3 DEF StreamHasSubscription
  <2>. QED  BY <2>1, <2>2
<1>5. UnsubscribedByLostCall'
  <2>. SUFFICES ASSUME NEW c \in Channels, subs'[c] = "unsubscribed"
                PROVE  \E t \in Streams : call[t] = "ended" /\ on'[t] = <<client, c>>
    BY <1>1 DEF UnsubscribedByLostCall
  <2>1. PICK t \in Streams : call[t] = "ended" /\ on[t] = <<client, c>>
    BY <1>1 DEF UnsubscribedByLostCall
  <2>2. t # s
    BY <1>1, <2>1 DEF StreamHasSubscription
  <2>. QED  BY <1>1, <2>1, <2>2
<1>. QED  BY <1>2, <1>3, <1>4, <1>5

LEMMA EndStep ==
  ASSUME GatewayInv, NEW s \in Streams, NoticeEnd(s)
  PROVE  GatewayInv'
<1>. USE DEF GatewayInv, GatewayTypeOK, FeedTypeOK
<1>1. /\ call[s] = "ended" /\ stream[s] = "open"
      /\ stream' = [stream EXCEPT ![s] = "closed"]
      /\ subs' = IF on[s][1] = client
                 THEN [subs EXCEPT ![on[s][2]] = "unsubscribed"] ELSE subs
      /\ UNCHANGED <<client, link, connects, listeners, timer, on, socket, call, asked>>
  BY DEF NoticeEnd, CloseStream, gateway
<1>2. on[s] \in Clients \X Channels
  BY <1>1 DEF StreamHasSubscription
<1>3. GatewayTypeOK'
  BY <1>1
<1>4. ListenersOfConnects' /\ CallHasChannel' /\ TimerLeavesRoom'
  BY <1>1 DEF ListenersOfConnects, CallHasChannel, TimerLeavesRoom
<1>5. StreamHasSubscription'
  BY <1>1, <1>2 DEF StreamHasSubscription
<1>6. UnsubscribedByLostCall'
  <2>. SUFFICES ASSUME NEW c \in Channels, subs'[c] = "unsubscribed"
                PROVE  \E t \in Streams : call[t] = "ended" /\ on[t] = <<client, c>>
    BY <1>1 DEF UnsubscribedByLostCall
  <2>1. CASE subs[c] = "unsubscribed"
    BY <2>1 DEF UnsubscribedByLostCall
  <2>2. CASE subs[c] # "unsubscribed"
    <3>1. on[s][1] = client /\ on[s][2] = c
      BY <1>1, <1>2, <2>2
    <3>2. on[s] = <<client, c>>
      BY <1>2, <3>1
    <3>. QED  BY <1>1, <3>2
  <2>. QED  BY <2>1, <2>2
<1>. QED  BY <1>3, <1>4, <1>5, <1>6

LEMMA NextGatewayInv == GatewayInv /\ [GatewayNext]_<<vars, gateway>> => GatewayInv'
<1>. SUFFICES ASSUME GatewayInv, [GatewayNext]_<<vars, gateway>> PROVE GatewayInv'
  OBVIOUS
<1>1. CASE ClientEvent /\ UNCHANGED gateway
  BY <1>1, ClientStep
<1>2. CASE \/ \E k \in Sockets : HandleDisconnect(k)
           \/ \E s \in Streams, ch \in Channels : HandleSubscribeToCandles(s, ch)
           \/ \E s \in Streams : LoseCall(s)
  BY <1>2, SocketStep
<1>3. CASE \E s \in Streams : ServeCall(s)
  BY <1>3, ServeStep
<1>4. CASE \E s \in Streams : NoticeEnd(s)
  BY <1>4, EndStep
<1>5. CASE UNCHANGED <<vars, gateway>>
  BY <1>5 DEF vars, gateway, GatewayInv, GatewayTypeOK, FeedTypeOK, ListenersOfConnects,
     StreamHasSubscription, CallHasChannel, UnsubscribedByLostCall, TimerLeavesRoom
<1>. QED  BY <1>1, <1>2, <1>3, <1>4, <1>5 DEF GatewayNext, GatewayFinished

----------------------------------------------------------------------------
(* The inductive invariant: whose subscription a stream listens to, and    *)
(* which calls can have unsubscribed it.                                   *)
THEOREM GatewayInvariance == GatewaySpec => []GatewayInv
  BY InitGatewayInv, NextGatewayInv, PTL DEF GatewaySpec

(* Every variable of the feed and of the gateway keeps its type.           *)
THEOREM GatewayTypeCorrect == GatewaySpec => []GatewayTypeOK
<1>1. GatewayInv => GatewayTypeOK
  BY DEF GatewayInv
<1>. QED  BY <1>1, GatewayInvariance, PTL

(* However sockets come, go and subscribe again, an open stream loses its  *)
(* candles only to a lost call of its channel or to a replaced client.     *)
THEOREM OnlyLossStarves == GatewaySpec => []StarvedOnlyByLostCallOrReplacement
<1>1. GatewayInv => StarvedOnlyByLostCallOrReplacement
  <2>. SUFFICES ASSUME GatewayInv, NEW s \in Streams, stream[s] = "open",
                       link = "connected", ~(on[s][1] < client)
                PROVE  Fed(s) \/ \E t \in Streams : call[t] = "ended" /\ on[t] = on[s]
    BY DEF StarvedOnlyByLostCallOrReplacement, CutOff
  <2>. USE DEF GatewayInv, GatewayTypeOK, FeedTypeOK, Clients
  <2>1. on[s] \in Clients \X Channels
    BY DEF StreamHasSubscription
  <2>2. on[s][1] = client /\ on[s][2] \in Channels /\ on[s] = <<client, on[s][2]>>
    BY <2>1 DEF StreamHasSubscription
  <2>3. subs[on[s][2]] \in {"subscribed", "unsubscribed"}
    BY <2>2 DEF StreamHasSubscription
  <2>. QED  BY <2>2, <2>3 DEF UnsubscribedByLostCall, Fed
<1>. QED  BY <1>1, GatewayInvariance, PTL
=============================================================================
