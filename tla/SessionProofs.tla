---------------------------- MODULE SessionProofs ----------------------------
(***************************************************************************)
(* Proofs about Session for every MAX_SCORE, whatever is called, lost or    *)
(* reset: that the busy flags are backed, that both sides agree on the      *)
(* scores when nothing is under way, and that the chain of reads is read.   *)
(*                                                                          *)
(* What these say of quiet moments follows from where the messages are at   *)
(* all others.  Four queues hold them: toServer, the server's events,       *)
(* toClient and the client's events.  IInv says of each what it may hold    *)
(* (Only) and how much (Tokens).                                            *)
(***************************************************************************)
EXTENDS Session, SequenceTheorems, FiniteSetTheorems, TLAPS

Only(queue, kinds) == \A i \in 1 .. Len(queue) : queue[i] \in kinds

None(types) == {e \in Event : e.type \notin types}
IsScore(e) == e.type = "hvx" /\ e.char = "score"
NoScore == {e \in Event : ~IsScore(e)}
Scores(s) == {e \in Event : IsScore(e) => e.value = s}
Writes(s) == {e \in Event : e.type = "write" => e.score = s}

\* Which attributes have been read when an attribute is asked for.
Before(attr) == {Chain[i] : i \in 1 .. Position(attr) - 1}
InChain(read) ==
    {e \in Event : /\ e.type \in {"discover", "discovered"} => read = {}
                   /\ e.type \in {"read", "read_rsp"} => read = Before(e.attr)}

-----------------------------------------------------------------------------
\* Types, with those of the sequences that SessionTypeOK states by their elements.
Types ==
    /\ call \in [Device -> [Context -> Call]]
    /\ handle \in [Device -> BOOLEAN]
    /\ serverState \in {"READY", "CONNECTED"}
    /\ clientState \in {"READY", "CONNECTING", "CONNECTED"}
    /\ serverScore \in Score /\ clientScore \in Score /\ serverScoreView \in Score
    /\ params \in SUBSET Attribute
    /\ sending \in [Device -> SUBSET Context]
    /\ fault \in [Device -> BOOLEAN]
    /\ events \in [Device -> Seq(Event)]
    /\ linkUp \in BOOLEAN /\ sysAttrSet \in BOOLEAN
    /\ hvxBusy \in BOOLEAN /\ requestBusy \in BOOLEAN
    /\ cccd \in SUBSET Indicated
    /\ toServer \in Seq(Event) /\ toClient \in Seq(Event)
    /\ told \in BOOLEAN
    /\ written \in 0 .. Nothing
    /\ readHere \in SUBSET Attribute

\* Each queue holds what its other end sends.
RouteInv ==
    /\ Only(toServer, ClientPdu) /\ Only(toClient, ServerPdu)
    /\ Only(events[Server], None({"discover", "discovered", "read_rsp"}))
    /\ Only(events[Client], None({"discover", "read"}))

\* A device learns of a link first and of its end last, and of nothing between two
\* links.
QueueInv(d) ==
    /\ \A i \in 1 .. Len(events[d]) :
        /\ events[d][i].type = "connected" <=> i = 1 /\ ~handle[d]
        /\ events[d][i].type = "disconnected" <=> i = Len(events[d]) /\ ~linkUp
    /\ events[d] = <<>> => (handle[d] <=> linkUp)

\* The service states follow the handles, and the sends the service states.
StateInv ==
    /\ ~handle[Server] => serverState = "READY"
    /\ ~handle[Client] => clientState = "READY"
    /\ \A d \in Device : \A c \in sending[d] :
           /\ call[d][c] # NoCall /\ (d = Client => call[d][c].op = "set_score")
           /\ linkUp => IsServer(d) \/ IsClient(d)

\* The two sums of BusyIsBacked.
Asked == {"discover", "read", "write"}
Shown == {"read", "write"}
Answered == {"discovered", "read_rsp", "write_rsp"}
Requests == Tokens(toServer, Asked) + Tokens(events[Server], Shown) + Tokens(toClient, Answered)
Indications ==
    Tokens(toClient, {"hvx"}) + Tokens(events[Client], {"hvx"}) + Tokens(toServer, {"confirm"})

\* Nothing is on the air without a link, nothing is asked before the client knows
\* of it, and what is asked or indicated is under way until it is answered.
AirInv ==
    /\ ~linkUp => toServer = <<>> /\ toClient = <<>>
    /\ linkUp /\ ~handle[Client] => ~requestBusy
    /\ linkUp => /\ Indications = (IF hvxBusy THEN 1 ELSE 0)
                 /\ Requests = (IF requestBusy THEN 1 ELSE 0)

\* Indications are enabled, and come, only once the client's service is connected.
EnabledInv ==
    clientState # "CONNECTED" =>
        /\ linkUp => cccd = {}
        /\ Only(toServer, None({"cccd"}))
        /\ Only(toClient, None({"hvx"})) /\ Only(events[Client], None({"hvx"}))

\* Until a new score is published, the score that was indicated last is under way
\* or has arrived.
ToldInv ==
    linkUp /\ told =>
        /\ serverState = "CONNECTED" /\ "score" \in cccd
        /\ ~Publishing(Server) =>
            /\ Only(toClient, Scores(serverScore)) /\ Only(events[Client], Scores(serverScore))
            /\ Only(toClient, NoScore) /\ Only(events[Client], NoScore)
                   => serverScoreView = serverScore

\* So is the score that was written last; before the first there is no write.
WrittenInv ==
    linkUp =>
        IF written = Nothing
        THEN /\ Only(toServer, None({"write"})) /\ Only(events[Server], None({"write"}))
             /\ Only(toClient, None({"write_rsp"}))
        ELSE /\ clientState = "CONNECTED"
             /\ Only(toServer, Writes(written)) /\ Only(events[Server], Writes(written))
             /\ Only(toServer, None({"write"})) /\ Only(events[Server], None({"write"}))
                    => clientScore = written

Answers == Tokens(events[Client], {"discovered", "read_rsp"})

\* Before the first write the chain has one message under way, which tells how
\* far it has come, or has been read.
ChainInv ==
    linkUp /\ written = Nothing =>
        /\ ~handle[Client] => readHere = {} /\ Answers = 0
        /\ Answers <= IF requestBusy THEN 0 ELSE 1
        /\ Only(toServer, InChain(readHere)) /\ Only(events[Server], InChain(readHere))
        /\ Only(toClient, InChain(readHere)) /\ Only(events[Client], InChain(readHere))
        /\ handle[Client] /\ ~requestBusy /\ Answers = 0 => readHere = Attribute

\* What every step keeps, and the properties follow from.
IInv ==
    /\ Types /\ RouteInv /\ \A d \in Device : QueueInv(d)
    /\ StateInv /\ AirInv /\ EnabledInv /\ ToldInv /\ WrittenInv /\ ChainInv

-----------------------------------------------------------------------------
(***************************************************************************)
(* The queues.                                                             *)
(***************************************************************************)
\* An empty queue holds messages of any kind.
LEMMA OnlyEmpty == \A kinds : Only(<<>>, kinds)
  BY EmptySeq DEF Only

\* What a queue may hold once a message is added, and once the first is gone.
LEMMA OnlyAppend ==
    ASSUME NEW queue \in Seq(Event), NEW e \in Event
    PROVE  /\ Append(queue, e) \in Seq(Event) /\ Append(queue, e) # <<>>
           /\ \A kinds : Only(Append(queue, e), kinds) <=> Only(queue, kinds) /\ e \in kinds
  <1> DEFINE longer == Append(queue, e)
             n == Len(queue)
  <1>1. /\ longer \in Seq(Event) /\ longer # <<>> /\ n \in Nat /\ Len(longer) = n + 1
        /\ \A i \in 1 .. n : longer[i] = queue[i]
        /\ longer[n + 1] = e
    BY AppendProperties, LenProperties
  <1> HIDE DEF longer, n
  <1>2. ASSUME NEW kinds, Only(longer, kinds)
        PROVE  Only(queue, kinds) /\ e \in kinds
    <2>1. \A i \in 1 .. n : i \in 1 .. n + 1
      BY <1>1
    <2>2. n + 1 \in 1 .. n + 1
      BY <1>1
    <2>3. QED
      BY <1>1, <1>2, <2>1, <2>2 DEF Only, n
  <1>3. ASSUME NEW kinds, Only(queue, kinds), e \in kinds
        PROVE  Only(longer, kinds)
    <2>1. \A i \in 1 .. n + 1 : i \in 1 .. n \/ i = n + 1
      BY <1>1
    <2>2. QED
      BY <1>1, <1>3, <2>1 DEF Only, n
  <1>4. QED
    BY <1>1, <1>2, <1>3 DEF longer

\* What a queue may hold once its first message is gone.
LEMMA OnlyTail ==
    ASSUME NEW queue \in Seq(Event), queue # <<>>
    PROVE  /\ Tail(queue) \in Seq(Event) /\ Head(queue) \in Event
           /\ \A kinds : Only(queue, kinds) <=> Head(queue) \in kinds /\ Only(Tail(queue), kinds)
  <1> DEFINE rest == Tail(queue)
             n == Len(queue)
  <1>1. /\ rest \in Seq(Event) /\ Head(queue) \in Event /\ n \in Nat \ {0} /\ Len(rest) = n - 1
        /\ \A i \in 1 .. n - 1 : rest[i] = queue[i + 1]
        /\ Head(queue) = queue[1]
    BY HeadTailProperties, LenProperties, EmptySeq
  <1> HIDE DEF rest, n
  <1>2. ASSUME NEW kinds, Only(queue, kinds)
        PROVE  Head(queue) \in kinds /\ Only(rest, kinds)
    <2>1. 1 \in 1 .. n /\ \A i \in 1 .. n - 1 : i + 1 \in 1 .. n
      BY <1>1
    <2>2. QED
      BY <1>1, <1>2, <2>1 DEF Only, n
  <1>3. ASSUME NEW kinds, Head(queue) \in kinds, Only(rest, kinds)
        PROVE  Only(queue, kinds)
    <2> SUFFICES ASSUME NEW i \in 1 .. n PROVE queue[i] \in kinds
      BY DEF Only, n
    <2>1. CASE i = 1
      BY <1>1, <1>3, <2>1
    <2>2. CASE i # 1
      <3>1. i - 1 \in 1 .. n - 1 /\ (i - 1) + 1 = i
        BY <1>1, <2>2
      <3>2. rest[i - 1] \in kinds /\ rest[i - 1] = queue[(i - 1) + 1]
        BY <1>1, <1>3, <3>1 DEF Only
      <3>3. QED
        BY <3>1, <3>2
    <2>3. QED
      BY <2>1, <2>2
  <1>4. QED
    BY <1>1, <1>2, <1>3 DEF rest

\* What holds of every message of a kind holds of those of a narrower kind.
LEMMA OnlyMore ==
    ASSUME NEW queue, NEW few, NEW many, Only(queue, few), few \subseteq many
    PROVE  Only(queue, many)
  BY DEF Only

\* The places of the tokens of a queue.
Places(queue, types) == {i \in 1 .. Len(queue) : queue[i].type \in types}

\* The tokens of a queue can be counted.
LEMMA TokensFinite ==
    ASSUME NEW queue \in Seq(Event), NEW types
    PROVE  /\ IsFiniteSet(Places(queue, types)) /\ Places(queue, types) \subseteq 1 .. Len(queue)
           /\ Tokens(queue, types) = Cardinality(Places(queue, types))
           /\ Tokens(queue, types) \in Nat
  <1>1. Len(queue) \in Nat /\ Places(queue, types) \subseteq 1 .. Len(queue)
    BY LenProperties DEF Places
  <1>2. IsFiniteSet(1 .. Len(queue))
    BY <1>1, FS_Interval
  <1>3. IsFiniteSet(Places(queue, types))
    BY <1>1, <1>2, FS_Subset
  <1>4. Tokens(queue, types) = Cardinality(Places(queue, types))
    BY DEF Tokens, Places
  <1>5. QED
    BY <1>1, <1>3, <1>4, FS_CardinalityType

\* A queue without tokens holds other messages only.
LEMMA NoTokens ==
    ASSUME NEW queue \in Seq(Event), NEW types
    PROVE  /\ Tokens(queue, types) \in Nat
           /\ Tokens(queue, types) = 0 <=> Only(queue, None(types))
  <1>1. \A i \in 1 .. Len(queue) : queue[i] \in Event
    BY LenProperties, ElementOfSeq
  <1>2. Tokens(queue, types) = 0 <=> Places(queue, types) = {}
    BY TokensFinite, FS_EmptySet
  <1>3. Places(queue, types) = {} <=> Only(queue, None(types))
    BY <1>1 DEF Places, Only, None
  <1>4. QED
    BY <1>2, <1>3, TokensFinite

\* An empty queue has none.
LEMMA TokensEmpty == \A types : Tokens(<<>>, types) = 0
  <1>1. <<>> \in Seq(Event)
    BY EmptySeq
  <1>2. QED
    BY <1>1, NoTokens, OnlyEmpty

\* A message that is added counts if it is of the types.
LEMMA TokensAppend ==
    ASSUME NEW queue \in Seq(Event), NEW e \in Event, NEW types
    PROVE  Tokens(Append(queue, e), types)
               = Tokens(queue, types) + IF e.type \in types THEN 1 ELSE 0
  <1> DEFINE longer == Append(queue, e)
             n == Len(queue)
  <1>1. /\ longer \in Seq(Event) /\ n \in Nat /\ Len(longer) = n + 1
        /\ \A i \in 1 .. n : longer[i] = queue[i]
        /\ longer[n + 1] = e
    BY AppendProperties, LenProperties
  <1> HIDE DEF longer
  <1>2. e.type \in types => Places(longer, types) = Places(queue, types) \union {n + 1}
    BY <1>1 DEF Places
  <1>3. e.type \notin types => Places(longer, types) = Places(queue, types)
    BY <1>1 DEF Places
  <1>4. n + 1 \notin Places(queue, types)
    BY <1>1 DEF Places
  <1>5. IsFiniteSet(Places(queue, types)) /\ Cardinality(Places(queue, types)) \in Nat
    BY TokensFinite
  <1>6. e.type \in types =>
            Cardinality(Places(longer, types)) = Cardinality(Places(queue, types)) + 1
    BY <1>2, <1>4, <1>5, FS_AddElement
  <1>7. /\ Tokens(longer, types) = Cardinality(Places(longer, types))
        /\ Tokens(queue, types) = Cardinality(Places(queue, types))
    BY <1>1, TokensFinite
  <1>8. QED
    BY <1>3, <1>5, <1>6, <1>7 DEF longer

\* So does the first one that is taken.
LEMMA TokensTail ==
    ASSUME NEW queue \in Seq(Event), queue # <<>>, NEW types
    PROVE  Tokens(queue, types)
               = Tokens(Tail(queue), types) + IF Head(queue).type \in types THEN 1 ELSE 0
  <1> DEFINE rest == Tail(queue)
             n == Len(queue)
             P == Places(queue, types)
             Q == Places(rest, types)
             up == [i \in Q |-> i + 1]
  <1>1. /\ rest \in Seq(Event) /\ n \in Nat \ {0} /\ Len(rest) = n - 1
        /\ \A i \in 1 .. n - 1 : rest[i] = queue[i + 1]
        /\ Head(queue) = queue[1]
    BY HeadTailProperties, LenProperties, EmptySeq
  <1> HIDE DEF rest
  <1>2. /\ \A i \in 1 .. n - 1 : i \in Q <=> i + 1 \in P
        /\ Q \subseteq 1 .. n - 1 /\ P \subseteq 1 .. n
        /\ 1 \in P <=> Head(queue).type \in types
    BY <1>1 DEF Places
  <1>3. IsFiniteSet(P) /\ IsFiniteSet(Q) /\ Cardinality(P) \in Nat /\ Cardinality(Q) \in Nat
    BY <1>1, TokensFinite
  <1> HIDE DEF P, Q, n
  <1>4. up \in Bijection(Q, P \ {1})
    <2>1. up \in [Q -> P \ {1}]
      BY <1>1, <1>2
    <2>2. \A i, j \in Q : up[i] = up[j] => i = j
      BY <1>2
    <2>3. \A k \in P \ {1} : \E i \in Q : up[i] = k
      <3> TAKE k \in P \ {1}
      <3>1. k - 1 \in 1 .. n - 1 /\ (k - 1) + 1 = k
        BY <1>1, <1>2
      <3>2. k - 1 \in Q
        BY <1>2, <3>1
      <3>3. QED
        BY <3>1, <3>2
    <2>4. QED
      BY <2>1, <2>2, <2>3 DEF Bijection, Injection, Surjection, IsInjective
  <1>5. Cardinality(P \ {1}) = Cardinality(Q)
    BY <1>3, <1>4, FS_Bijection DEF ExistsBijection
  <1>6. Cardinality(P \ {1}) = IF 1 \in P THEN Cardinality(P) - 1 ELSE Cardinality(P)
    BY <1>3, FS_RemoveElement
  <1>7. Cardinality(P) = Cardinality(Q) + IF Head(queue).type \in types THEN 1 ELSE 0
    BY <1>2, <1>3, <1>5, <1>6
  <1>8. Tokens(queue, types) = Cardinality(P) /\ Tokens(rest, types) = Cardinality(Q)
    BY <1>1, TokensFinite DEF P, Q
  <1>9. QED
    BY <1>7, <1>8 DEF rest

-----------------------------------------------------------------------------
(***************************************************************************)
(* The messages.                                                           *)
(***************************************************************************)
\* What a message of each type carries.
LEMMA Fields ==
    ASSUME NEW e \in Event
    PROVE  /\ e.type \in {"discover", "discovered"} => e.pass \in {1, 2}
           /\ e.type \in {"read", "read_rsp"} => e.attr \in Attribute
           /\ e.type = "write" => e.score \in Score
           /\ e.type = "cccd" => e.char \in Indicated
           /\ e.type = "hvx" => e.char \in Indicated
           /\ IsScore(e) => e.value \in Score
           /\ e.type = "hvx" /\ e.char = "state" => e.value \in IndicatedState
  BY DEF Event, Gap, ClientPdu, ServerPdu, Indication, Indicated, IsScore

\* What the kinds that IInv speaks of have in them.
LEMMA Kinds ==
    ASSUME NEW e \in Event
    PROVE  /\ e \in ClientPdu <=> e.type \in {"discover", "read", "write", "cccd", "confirm"}
           /\ e \in ServerPdu <=> e.type \in {"discovered", "read_rsp", "write_rsp", "hvx"}
           /\ \A types : e \in None(types) <=> e.type \notin types
           /\ e \in NoScore <=> ~IsScore(e)
           /\ \A s : e \in Scores(s) <=> (IsScore(e) => e.value = s)
           /\ \A s : e \in Writes(s) <=> (e.type = "write" => e.score = s)
           /\ \A read : e \in InChain(read) <=>
                  /\ e.type \in {"discover", "discovered"} => read = {}
                  /\ e.type \in {"read", "read_rsp"} => read = Before(e.attr)
  <1>1. e \in ClientPdu <=> e.type \in {"discover", "read", "write", "cccd", "confirm"}
    BY DEF Event, Gap, ClientPdu, ServerPdu, Indication
  <1>2. e \in ServerPdu <=> e.type \in {"discovered", "read_rsp", "write_rsp", "hvx"}
    BY DEF Event, Gap, ClientPdu, ServerPdu, Indication
  <1>3. QED
    BY <1>1, <1>2 DEF None, NoScore, Scores, Writes, InChain

\* The messages there are.
LEMMA Messages ==
    /\ ClientPdu \subseteq Event /\ ServerPdu \subseteq Event
    /\ \A t \in {"connected", "disconnected", "confirm", "write_rsp", "sys_attr_missing"} :
           [type |-> t] \in Event
    /\ \A p \in {1, 2}, t \in {"discover", "discovered"} : [type |-> t, pass |-> p] \in Event
    /\ \A a \in Attribute, t \in {"read", "read_rsp"} : [type |-> t, attr |-> a] \in Event
    /\ \A s \in Score : [type |-> "write", score |-> s] \in Event
    /\ \A c \in Indicated : [type |-> "cccd", char |-> c] \in Event
    /\ \A s \in Score : [type |-> "hvx", char |-> "score", value |-> s] \in Event
    /\ \A s \in IndicatedState : [type |-> "hvx", char |-> "state", value |-> s] \in Event
  BY DEF Event, Gap, ClientPdu, ServerPdu, Indication

\* The order of the reads, and what has been read at each.
LEMMA ChainFacts ==
    /\ "info" \in Attribute /\ "game_time" \in Attribute
    /\ Before("info") = {} /\ Before("game_time") = {"info"}
    /\ Len(Chain) = 5
    /\ \A a \in Attribute :
        /\ Position(a) \in 1 .. 5
        /\ Position(a) < 5 => /\ Chain[Position(a) + 1] \in Attribute
                              /\ Before(Chain[Position(a) + 1]) = Before(a) \union {a}
        /\ ~(Position(a) < 5) => Before(a) \union {a} = Attribute
  <1>1. /\ Len(Chain) = 5
        /\ Chain[1] = "info" /\ Chain[2] = "game_time" /\ Chain[3] = "vibration"
        /\ Chain[4] = "hole" /\ Chain[5] = "target_score"
    BY DEF Chain
  <1>2. Attribute = {Chain[i] : i \in 1 .. 5}
    BY <1>1 DEF Attribute
  <1>3. \A i, j \in 1 .. 5 : Chain[i] = Chain[j] => i = j
    BY <1>1
  <1>4. \A i \in 1 .. 5 : Position(Chain[i]) = i
    BY <1>1, <1>3 DEF Position
  <1>5. \A i \in 1 .. 5 : Before(Chain[i]) = {Chain[j] : j \in 1 .. i - 1}
    BY <1>4 DEF Before
  <1>6. \A i \in 1 .. 4 : {Chain[j] : j \in 1 .. (i + 1) - 1}
                              = {Chain[j] : j \in 1 .. i - 1} \union {Chain[i]}
    <2> SUFFICES ASSUME NEW i \in 1 .. 4
                 PROVE  1 .. (i + 1) - 1 = (1 .. i - 1) \union {i}
      OBVIOUS
    <2> QED
      OBVIOUS
  <1>7. {Chain[j] : j \in 1 .. 5 - 1} \union {Chain[5]} = Attribute
    <2>1. (1 .. 5 - 1) \union {5} = 1 .. 5
      OBVIOUS
    <2>2. QED
      BY <1>2, <2>1
  <1>8. ASSUME NEW a \in Attribute
        PROVE  /\ Position(a) \in 1 .. 5
               /\ Position(a) < 5 => /\ Chain[Position(a) + 1] \in Attribute
                                     /\ Before(Chain[Position(a) + 1]) = Before(a) \union {a}
               /\ ~(Position(a) < 5) => Before(a) \union {a} = Attribute
    <2>1. PICK i \in 1 .. 5 : a = Chain[i]
      BY <1>2
    <2>2. Position(a) = i
      BY <1>4, <2>1
    <2>3. ASSUME i < 5 PROVE /\ Chain[i + 1] \in Attribute
                             /\ Before(Chain[i + 1]) = Before(a) \union {a}
      <3>1. i \in 1 .. 4 /\ i + 1 \in 1 .. 5
        BY <2>3
      <3>2. Before(Chain[i + 1]) = {Chain[j] : j \in 1 .. (i + 1) - 1}
        BY <1>5, <3>1
      <3>3. Before(a) = {Chain[j] : j \in 1 .. i - 1}
        BY <1>5, <2>1
      <3>4. QED
        BY <1>2, <1>6, <2>1, <3>1, <3>2, <3>3
    <2>4. ASSUME ~(i < 5) PROVE Before(a) \union {a} = Attribute
      <3>1. i = 5
        BY <2>4
      <3>2. Before(a) = {Chain[j] : j \in 1 .. 5 - 1}
        BY <1>5, <2>1, <3>1
      <3>3. QED
        BY <1>7, <2>1, <3>1, <3>2
    <2>5. QED
      BY <2>2, <2>3, <2>4
  <1>9. 1 \in 1 .. 5 /\ 2 \in 1 .. 5 /\ 1 .. 1 - 1 = {} /\ 1 .. 2 - 1 = {1}
    OBVIOUS
  <1>10. Before("info") = {} /\ Before("game_time") = {"info"}
    BY <1>1, <1>5, <1>9
  <1>11. QED
    BY <1>1, <1>2, <1>8, <1>9, <1>10

\* What is in a queue that is another one with one message more.
HasMore(longer, queue, e) ==
    /\ \A kinds : Only(longer, kinds) <=> Only(queue, kinds) /\ e \in kinds
    /\ \A types : /\ Tokens(queue, types) \in Nat /\ Tokens(longer, types) \in Nat
                  /\ Tokens(longer, types)
                         = Tokens(queue, types) + IF e.type \in types THEN 1 ELSE 0

\* A message is added to a queue.
LEMMA Added ==
    ASSUME NEW queue \in Seq(Event), NEW e \in Event
    PROVE  /\ Append(queue, e) \in Seq(Event) /\ Append(queue, e) # <<>>
           /\ HasMore(Append(queue, e), queue, e)
  <1>1. Append(queue, e) \in Seq(Event) /\ Append(queue, e) # <<>>
    BY OnlyAppend
  <1>2. \A kinds : Only(Append(queue, e), kinds) <=> Only(queue, kinds) /\ e \in kinds
    BY OnlyAppend
  <1>3. \A types : Tokens(queue, types) \in Nat /\ Tokens(Append(queue, e), types) \in Nat
    BY <1>1, NoTokens
  <1>4. \A types : Tokens(Append(queue, e), types)
                       = Tokens(queue, types) + IF e.type \in types THEN 1 ELSE 0
    BY TokensAppend
  <1>5. QED
    BY <1>1, <1>2, <1>3, <1>4 DEF HasMore

\* The first message of a queue is taken.
LEMMA Taken ==
    ASSUME NEW queue \in Seq(Event), queue # <<>>
    PROVE  /\ Tail(queue) \in Seq(Event) /\ Head(queue) \in Event
           /\ HasMore(queue, Tail(queue), Head(queue))
  <1>1. Tail(queue) \in Seq(Event) /\ Head(queue) \in Event
    BY OnlyTail
  <1>2. \A kinds : Only(queue, kinds) <=> Only(Tail(queue), kinds) /\ Head(queue) \in kinds
    BY OnlyTail
  <1>3. \A types : Tokens(queue, types) \in Nat /\ Tokens(Tail(queue), types) \in Nat
    BY <1>1, NoTokens
  <1>4. \A types : Tokens(queue, types)
                       = Tokens(Tail(queue), types) + IF Head(queue).type \in types THEN 1 ELSE 0
    BY TokensTail
  <1>5. QED
    BY <1>1, <1>2, <1>3, <1>4 DEF HasMore

-----------------------------------------------------------------------------
(***************************************************************************)
(* The events of a device.                                                 *)
(***************************************************************************)
Plain(e) == e.type \notin {"connected", "disconnected"}

\* The stack adds a message while there is a link, or tells of its end.
LEMMA QueueAdded ==
    ASSUME NEW d \in Device, QueueInv(d), linkUp, linkUp' \in BOOLEAN,
           events[d] \in Seq(Event), NEW e \in Event,
           events'[d] = Append(events[d], e), handle'[d] = handle[d],
           e.type # "connected", linkUp' <=> e.type # "disconnected"
    PROVE  QueueInv(d)'
  <1> DEFINE n == Len(events[d])
  <1>1. /\ events'[d] # <<>> /\ n \in Nat /\ Len(events'[d]) = n + 1
        /\ \A i \in 1 .. n : events'[d][i] = events[d][i]
        /\ events'[d][n + 1] = e
    BY AppendProperties, LenProperties
  <1>2. events[d] = <<>> <=> n = 0
    BY EmptySeq
  <1> HIDE DEF n
  <1>3. ASSUME NEW i \in 1 .. n + 1
        PROVE  /\ events'[d][i].type = "connected" <=> i = 1 /\ ~handle'[d]
               /\ events'[d][i].type = "disconnected" <=> i = n + 1 /\ ~linkUp'
    <2>1. CASE i \in 1 .. n
      BY <1>1, <2>1 DEF QueueInv, n
    <2>2. CASE i = n + 1
      BY <1>1, <1>2, <2>2 DEF QueueInv
    <2>3. QED
      BY <1>1, <2>1, <2>2
  <1>4. QED
    BY <1>1, <1>3 DEF QueueInv

\* A device handles its first event.
LEMMA QueueTaken ==
    ASSUME NEW d \in Device, QueueInv(d), linkUp' = linkUp, linkUp \in BOOLEAN,
           events[d] \in Seq(Event), events[d] # <<>>, events'[d] = Tail(events[d]),
           handle[d] \in BOOLEAN, handle'[d] \in BOOLEAN,
           Head(events[d]).type = "connected" => handle'[d],
           Head(events[d]).type = "disconnected" => ~handle'[d],
           Plain(Head(events[d])) => handle'[d] = handle[d]
    PROVE  /\ QueueInv(d)'
           /\ Head(events[d]).type = "connected" <=> ~handle[d]
           /\ Head(events[d]).type = "disconnected" => ~linkUp /\ events'[d] = <<>>
           /\ ~linkUp => handle[d] \/ events'[d] # <<>>
  <1> DEFINE n == Len(events[d])
  <1> DEFINE rest == Tail(events[d])
  <1>1. /\ rest \in Seq(Event) /\ n \in Nat \ {0} /\ Len(rest) = n - 1
        /\ \A i \in 1 .. n - 1 : rest[i] = events[d][i + 1]
        /\ Head(events[d]) = events[d][1]
    BY HeadTailProperties, LenProperties, EmptySeq
  <1>2. rest = <<>> <=> Len(rest) = 0
    BY <1>1, EmptySeq
  <1> HIDE DEF n
  <1>3. rest = <<>> <=> n = 1
    BY <1>1, <1>2
  <1>4. /\ n \in Nat \ {0} /\ Len(events'[d]) = n - 1
        /\ \A i \in 1 .. n - 1 : events'[d][i] = events[d][i + 1]
        /\ Head(events[d]) = events[d][1]
        /\ events'[d] = <<>> <=> n = 1
    BY <1>1, <1>3
  <1> HIDE DEF rest
  <1>5. /\ events[d][1].type = "connected" <=> ~handle[d]
        /\ events[d][1].type = "disconnected" <=> n = 1 /\ ~linkUp
    BY <1>4 DEF QueueInv, n
  <1>6. \A i \in 1 .. n - 1 : i + 1 \in 1 .. n /\ i + 1 # 1
    BY <1>4
  <1>7. ASSUME NEW i \in 1 .. n - 1
        PROVE  /\ events'[d][i].type # "connected" /\ handle'[d]
               /\ events'[d][i].type = "disconnected" <=> i = n - 1 /\ ~linkUp'
    <2>1. events'[d][i] = events[d][i + 1] /\ i + 1 \in 1 .. n /\ i + 1 # 1
      BY <1>4, <1>6
    <2>2. /\ events[d][i + 1].type # "connected"
          /\ events[d][i + 1].type = "disconnected" <=> i + 1 = n /\ ~linkUp
      BY <2>1 DEF QueueInv, n
    <2>3. handle'[d]
      BY <1>4, <1>5, <2>1 DEF Plain
    <2>4. i + 1 = n <=> i = n - 1
      BY <1>4
    <2>5. QED
      BY <2>1, <2>2, <2>3, <2>4
  <1>8. n = 1 => (handle'[d] <=> linkUp')
    BY <1>4, <1>5 DEF Plain
  <1>9. \A i \in 1 .. Len(events'[d]) :
            /\ events'[d][i].type = "connected" <=> i = 1 /\ ~handle'[d]
            /\ events'[d][i].type = "disconnected" <=> i = Len(events'[d]) /\ ~linkUp'
    BY <1>4, <1>7
  <1>10. QED
    BY <1>4, <1>5, <1>8, <1>9 DEF QueueInv

-----------------------------------------------------------------------------
(***************************************************************************)
(* The steps of the stack.                                                 *)
(***************************************************************************)
-----------------------------------------------------------------------------
(***************************************************************************)
(* The steps of the stack.                                                 *)
(***************************************************************************)
\* What every step starts from: the devices, and queues of known types.
Base ==
    /\ Server \in Device /\ Client \in Device /\ Server # Client
    /\ \A d \in Device : d = Server \/ d = Client
    /\ toServer \in Seq(Event) /\ toClient \in Seq(Event)
    /\ events \in [Device -> Seq(Event)]
    /\ events[Server] \in Seq(Event) /\ events[Client] \in Seq(Event)

\* The invariant gives that, and that tokens are numbers.
LEMMA BaseHolds ==
    ASSUME IInv
    PROVE  /\ Base
           /\ \A types : Tokens(toServer, types) \in Nat
           /\ \A types : Tokens(toClient, types) \in Nat
           /\ \A types : Tokens(events[Server], types) \in Nat
           /\ \A types : Tokens(events[Client], types) \in Nat
  <1>1. Base
    BY RolesAssumption DEF Base, IInv, Types
  <1>2. QED
    BY <1>1, NoTokens DEF Base

\* The server's stack answers a discovery.
LEMMA DiscoverReceived ==
    ASSUME IInv, ServerReceives, UNCHANGED history, Head(toServer).type = "discover"
    PROVE  IInv'
  <1> DEFINE e == Head(toServer)
             reply == [type |-> "discovered", pass |-> e.pass]
  <1>1. /\ toServer # <<>> /\ toServer' = Tail(toServer)
        /\ toClient' = Append(toClient, reply) /\ e.type = "discover"
    BY DEF ServerReceives
  <1>2. /\ linkUp
        /\ UNCHANGED <<handle, serverState, clientState, serverScore, clientScore,
                       serverScoreView, params, sending, fault, linkUp, sysAttrSet, cccd,
                       hvxBusy, requestBusy, events, call, told, written, readHere>>
    BY DEF IInv, AirInv, ServerReceives, appVars, history
  <1>3. /\ toServer \in Seq(Event) /\ toClient \in Seq(Event)
        /\ toServer' \in Seq(Event) /\ e \in Event
    BY <1>1, BaseHolds, Taken DEF Base
  <1>4. reply \in Event /\ reply.type = "discovered" /\ e.type = "discover"
    BY <1>1, <1>3, Fields, Messages
  <1> HIDE DEF e, reply
  <1>5. toClient' \in Seq(Event)
    BY <1>1, <1>3, <1>4, Added
  <1>6. /\ e \in Event /\ reply \in Event
        /\ HasMore(toServer, toServer', e) /\ HasMore(toClient', toClient, reply)
    BY <1>1, <1>3, <1>4, Added, Taken DEF e
  <1>7. Types'
    BY <1>2, <1>3, <1>5 DEF IInv, Types
  <1>8. RouteInv'
    BY <1>2, <1>4, <1>6, Kinds DEF IInv, HasMore, RouteInv
  <1>9. \A x \in Device : QueueInv(x)'
    BY <1>2 DEF IInv, QueueInv
  <1>10. StateInv'
    BY <1>2 DEF IInv, StateInv, IsServer, IsClient
  <1>11. AirInv'
    <2>1. Requests' = Requests /\ Indications' = Indications
      BY <1>2, <1>4, <1>6, BaseHolds DEF HasMore, Requests, Indications, Asked, Answered
    <2>2. QED
      BY <1>2, <2>1 DEF IInv, AirInv
  <1>12. EnabledInv'
    BY <1>2, <1>4, <1>6, Kinds DEF IInv, HasMore, EnabledInv
  <1>13. ToldInv'
    BY <1>2, <1>4, <1>6, Kinds DEF IInv, HasMore, ToldInv, Publishing, IsScore
  <1>14. WrittenInv'
    BY <1>2, <1>4, <1>6, Kinds DEF IInv, HasMore, WrittenInv
  <1>15. ChainInv'
    BY <1>2, <1>4, <1>6, Kinds DEF IInv, HasMore, ChainInv, Answers
  <1>16. QED
    BY <1>7, <1>8, <1>9, <1>10, <1>11, <1>12, <1>13, <1>14, <1>15 DEF IInv

\* The server's stack passes a read or a write on.
LEMMA RequestReceived ==
    ASSUME IInv, ServerReceives, UNCHANGED history, Head(toServer).type \in {"read", "write"}
    PROVE  IInv'
  <1> DEFINE e == Head(toServer)
  <1>1. /\ toServer # <<>> /\ toServer' = Tail(toServer)
        /\ Notify(Server, e)
    BY DEF ServerReceives
  <1>2. /\ linkUp
        /\ UNCHANGED <<handle, serverState, clientState, serverScore, clientScore,
                       serverScoreView, params, sending, fault, linkUp, sysAttrSet, cccd,
                       hvxBusy, requestBusy, toClient, call, told, written, readHere>>
    BY DEF IInv, AirInv, ServerReceives, appVars, history
  <1>3. Base /\ toServer' \in Seq(Event) /\ e \in Event
    BY <1>1, BaseHolds, Taken DEF Base
  <1>4. /\ events' \in [Device -> Seq(Event)] /\ events'[Client] = events[Client]
        /\ events'[Server] = Append(events[Server], e)
    BY <1>1, <1>3, Added DEF Base, Notify
  <1>5. e.type \in {"read", "write"} /\ events'[Client] = events[Client]
    BY <1>4
  <1>6. /\ e \in Event /\ HasMore(toServer, toServer', e)
        /\ HasMore(events'[Server], events[Server], e)
    BY <1>1, <1>3, <1>4, Added, Taken DEF Base
  <1> HIDE DEF e
  <1>7. Types'
    BY <1>2, <1>3, <1>4 DEF IInv, Types
  <1>8. RouteInv'
    BY <1>2, <1>5, <1>6, Kinds DEF IInv, HasMore, RouteInv
  <1>9. \A x \in Device : QueueInv(x)'
    <2>1. QueueInv(Server)'
      BY <1>2, <1>3, <1>4, <1>5, QueueAdded DEF Base, IInv, Types
    <2>2. QueueInv(Client)'
      BY <1>2, <1>3, <1>4 DEF Base, IInv, QueueInv
    <2>3. QED
      BY BaseHolds, <2>1, <2>2 DEF Base
  <1>10. StateInv'
    BY <1>2 DEF IInv, StateInv, IsServer, IsClient
  <1>11. AirInv'
    <2>1. Requests' = Requests /\ Indications' = Indications
      BY <1>2, <1>5, <1>6, BaseHolds DEF HasMore, Requests, Indications, Asked, Shown
    <2>2. QED
      BY <1>2, <2>1 DEF IInv, AirInv
  <1>12. EnabledInv'
    BY <1>2, <1>5, <1>6, Kinds DEF IInv, HasMore, EnabledInv
  <1>13. ToldInv'
    BY <1>2, <1>5, <1>6, Kinds DEF IInv, HasMore, ToldInv, Publishing, IsScore
  <1>14. WrittenInv'
    BY <1>2, <1>5, <1>6, Kinds DEF IInv, HasMore, WrittenInv
  <1>15. ChainInv'
    BY <1>2, <1>5, <1>6, Kinds DEF IInv, HasMore, ChainInv, Answers
  <1>16. QED
    BY <1>7, <1>8, <1>9, <1>10, <1>11, <1>12, <1>13, <1>14, <1>15 DEF IInv

\* The server's stack takes an indication to be enabled.
LEMMA EnableReceived ==
    ASSUME IInv, ServerReceives, UNCHANGED history, Head(toServer).type = "cccd"
    PROVE  IInv'
  <1> DEFINE e == Head(toServer)
  <1>1. /\ toServer # <<>> /\ toServer' = Tail(toServer)
        /\ cccd' = cccd \union {e.char} /\ e.type = "cccd"
    BY DEF ServerReceives
  <1>2. /\ linkUp
        /\ UNCHANGED <<handle, serverState, clientState, serverScore, clientScore,
                       serverScoreView, params, sending, fault, linkUp, sysAttrSet, hvxBusy,
                       requestBusy, toClient, events, call, told, written, readHere>>
    BY DEF IInv, AirInv, ServerReceives, appVars, history
  <1>3. toServer' \in Seq(Event) /\ e \in Event
    BY <1>1, BaseHolds, Taken DEF Base
  <1>4. cccd' = cccd \union {e.char} /\ e.type = "cccd" /\ e.char \in Indicated
    BY <1>1, <1>3, Fields
  <1>5. e \in Event /\ HasMore(toServer, toServer', e)
    BY <1>1, BaseHolds, Taken DEF Base
  <1> HIDE DEF e
  <1>6. Types'
    BY <1>2, <1>3, <1>4 DEF IInv, Types
  <1>7. RouteInv'
    BY <1>2, <1>4, <1>5, Kinds DEF IInv, HasMore, RouteInv
  <1>8. \A x \in Device : QueueInv(x)'
    BY <1>2 DEF IInv, QueueInv
  <1>9. StateInv'
    BY <1>2 DEF IInv, StateInv, IsServer, IsClient
  <1>10. AirInv'
    <2>1. Requests' = Requests /\ Indications' = Indications
      BY <1>2, <1>4, <1>5, BaseHolds DEF HasMore, Requests, Indications, Asked
    <2>2. QED
      BY <1>2, <2>1 DEF IInv, AirInv
  <1>11. EnabledInv'
    BY <1>2, <1>4, <1>5, Kinds DEF IInv, HasMore, EnabledInv
  <1>12. ToldInv'
    BY <1>2, <1>4, <1>5, Kinds DEF IInv, HasMore, ToldInv, Publishing, IsScore
  <1>13. WrittenInv'
    BY <1>2, <1>4, <1>5, Kinds DEF IInv, HasMore, WrittenInv
  <1>14. ChainInv'
    BY <1>2, <1>4, <1>5, Kinds DEF IInv, HasMore, ChainInv, Answers
  <1>15. QED
    BY <1>6, <1>7, <1>8, <1>9, <1>10, <1>11, <1>12, <1>13, <1>14 DEF IInv

\* The server's stack takes a confirmation.
LEMMA ConfirmReceived ==
    ASSUME IInv, ServerReceives, UNCHANGED history, Head(toServer).type = "confirm"
    PROVE  IInv'
  <1> DEFINE e == Head(toServer)
  <1>1. /\ toServer # <<>> /\ toServer' = Tail(toServer)
        /\ hvxBusy' = FALSE /\ e.type = "confirm"
    BY DEF ServerReceives
  <1>2. /\ linkUp
        /\ UNCHANGED <<handle, serverState, clientState, serverScore, clientScore,
                       serverScoreView, params, sending, fault, linkUp, sysAttrSet, cccd,
                       requestBusy, toClient, events, call, told, written, readHere>>
    BY DEF IInv, AirInv, ServerReceives, appVars, history
  <1>3. toServer' \in Seq(Event) /\ e \in Event
    BY <1>1, BaseHolds, Taken DEF Base
  <1>4. hvxBusy' = FALSE /\ e.type = "confirm"
    BY <1>1
  <1>5. e \in Event /\ HasMore(toServer, toServer', e)
    BY <1>1, BaseHolds, Taken DEF Base
  <1> HIDE DEF e
  <1>6. Types'
    BY <1>2, <1>3, <1>4 DEF IInv, Types
  <1>7. RouteInv'
    BY <1>2, <1>4, <1>5, Kinds DEF IInv, HasMore, RouteInv
  <1>8. \A x \in Device : QueueInv(x)'
    BY <1>2 DEF IInv, QueueInv
  <1>9. StateInv'
    BY <1>2 DEF IInv, StateInv, IsServer, IsClient
  <1>10. AirInv'
    <2>1. Requests' = Requests /\ Indications' = Indications - 1 /\ Indications' \in Nat
      BY <1>2, <1>4, <1>5, BaseHolds DEF HasMore, Requests, Indications, Asked
    <2>2. QED
      BY <1>2, <1>4, <2>1 DEF IInv, AirInv
  <1>11. EnabledInv'
    BY <1>2, <1>4, <1>5, Kinds DEF IInv, HasMore, EnabledInv
  <1>12. ToldInv'
    BY <1>2, <1>4, <1>5, Kinds DEF IInv, HasMore, ToldInv, Publishing, IsScore
  <1>13. WrittenInv'
    BY <1>2, <1>4, <1>5, Kinds DEF IInv, HasMore, WrittenInv
  <1>14. ChainInv'
    BY <1>2, <1>4, <1>5, Kinds DEF IInv, HasMore, ChainInv, Answers
  <1>15. QED
    BY <1>6, <1>7, <1>8, <1>9, <1>10, <1>11, <1>12, <1>13, <1>14 DEF IInv

\* A PDU reaches the server's stack.
LEMMA ServerReceivesStep ==
    ASSUME IInv, ServerReceives, UNCHANGED history
    PROVE  IInv'
  <1>1. Head(toServer).type \in {"discover", "read", "write", "cccd", "confirm"}
    BY DEF ServerReceives
  <1>2. QED
    BY <1>1, DiscoverReceived, RequestReceived, EnableReceived, ConfirmReceived

\* The server's stack asks for the system attributes.
LEMMA AsksForSysAttrStep ==
    ASSUME IInv, AsksForSysAttr, UNCHANGED history
    PROVE  IInv'
  <1> DEFINE e == [type |-> "sys_attr_missing"]
  <1>1. Notify(Server, e)
    BY DEF AsksForSysAttr
  <1>2. /\ linkUp
        /\ UNCHANGED <<handle, serverState, clientState, serverScore, clientScore,
                       serverScoreView, params, sending, fault, linkUp, sysAttrSet, cccd,
                       hvxBusy, requestBusy, toServer, toClient, call, told, written, readHere>>
    BY DEF IInv, AirInv, AsksForSysAttr, appVars, stackVars, history
  <1>3. e \in Event /\ e.type = "sys_attr_missing"
    BY Messages
  <1> HIDE DEF e
  <1>4. /\ Base
        /\ events' \in [Device -> Seq(Event)] /\ events'[Client] = events[Client]
        /\ events'[Server] = Append(events[Server], e)
    BY <1>1, <1>3, BaseHolds, Added DEF Base, Notify
  <1>5. events'[Client] = events[Client] /\ HasMore(events'[Server], events[Server], e)
    BY <1>3, <1>4, Added DEF Base
  <1>6. Types'
    BY <1>2, <1>3, <1>4 DEF IInv, Types
  <1>7. RouteInv'
    BY <1>2, <1>3, <1>5, Kinds DEF IInv, HasMore, RouteInv
  <1>8. \A x \in Device : QueueInv(x)'
    <2>1. QueueInv(Server)'
      BY <1>2, <1>3, <1>4, QueueAdded DEF Base, IInv, Types
    <2>2. QueueInv(Client)'
      BY <1>2, <1>4 DEF Base, IInv, QueueInv
    <2>3. QED
      BY BaseHolds, <2>1, <2>2 DEF Base
  <1>9. StateInv'
    BY <1>2 DEF IInv, StateInv, IsServer, IsClient
  <1>10. AirInv'
    <2>1. Requests' = Requests /\ Indications' = Indications
      BY <1>2, <1>3, <1>5, BaseHolds DEF HasMore, Requests, Indications, Shown
    <2>2. QED
      BY <1>2, <2>1 DEF IInv, AirInv
  <1>11. EnabledInv'
    BY <1>2, <1>3, <1>5, Kinds DEF IInv, HasMore, EnabledInv
  <1>12. ToldInv'
    BY <1>2, <1>3, <1>5, Kinds DEF IInv, HasMore, ToldInv, Publishing, IsScore
  <1>13. WrittenInv'
    BY <1>2, <1>3, <1>5, Kinds DEF IInv, HasMore, WrittenInv
  <1>14. ChainInv'
    BY <1>2, <1>3, <1>5, Kinds DEF IInv, HasMore, ChainInv, Answers
  <1>15. QED
    BY <1>6, <1>7, <1>8, <1>9, <1>10, <1>11, <1>12, <1>13, <1>14 DEF IInv

\* The client's stack takes the answer to a write, of which the application does not
\* learn.
LEMMA WriteAnswered ==
    ASSUME IInv, ClientReceives, UNCHANGED history, Head(toClient).type = "write_rsp"
    PROVE  IInv'
  <1> DEFINE e == Head(toClient)
  <1>1. /\ toClient # <<>> /\ toClient' = Tail(toClient)
        /\ requestBusy' = FALSE /\ e.type = "write_rsp"
    BY DEF ClientReceives
  <1>2. /\ linkUp
        /\ UNCHANGED <<handle, serverState, clientState, serverScore, clientScore,
                       serverScoreView, params, sending, fault, linkUp, sysAttrSet, cccd,
                       hvxBusy, toServer, events, call, told, written, readHere>>
    BY DEF IInv, AirInv, ClientReceives, appVars, history
  <1>3. toClient' \in Seq(Event) /\ e \in Event
    BY <1>1, BaseHolds, Taken DEF Base
  <1>4. requestBusy' = FALSE /\ e.type = "write_rsp"
    BY <1>1
  <1>5. e \in Event /\ HasMore(toClient, toClient', e)
    BY <1>1, BaseHolds, Taken DEF Base
  <1> HIDE DEF e
  <1>6. Types'
    BY <1>2, <1>3, <1>4 DEF IInv, Types
  <1>7. RouteInv'
    BY <1>2, <1>4, <1>5, Kinds DEF IInv, HasMore, RouteInv
  <1>8. \A x \in Device : QueueInv(x)'
    BY <1>2 DEF IInv, QueueInv
  <1>9. StateInv'
    BY <1>2 DEF IInv, StateInv, IsServer, IsClient
  <1>10. AirInv'
    <2>1. Requests' = Requests - 1 /\ Indications' = Indications /\ Requests' \in Nat
      BY <1>2, <1>4, <1>5, BaseHolds DEF HasMore, Requests, Indications, Answered
    <2>2. QED
      BY <1>2, <1>4, <2>1 DEF IInv, AirInv
  <1>11. EnabledInv'
    BY <1>2, <1>4, <1>5, Kinds DEF IInv, HasMore, EnabledInv
  <1>12. ToldInv'
    BY <1>2, <1>4, <1>5, Kinds DEF IInv, HasMore, ToldInv, Publishing, IsScore
  <1>13. WrittenInv'
    BY <1>2, <1>4, <1>5, Kinds DEF IInv, HasMore, WrittenInv
  <1>14. ChainInv'
    <2>1. written # Nothing
      BY <1>2, <1>4, <1>5, Kinds DEF IInv, HasMore, WrittenInv
    <2>2. QED
      BY <1>2, <2>1 DEF ChainInv
  <1>15. QED
    BY <1>6, <1>7, <1>8, <1>9, <1>10, <1>11, <1>12, <1>13, <1>14 DEF IInv

\* The client's stack passes an answer on.
LEMMA AnswerReceived ==
    ASSUME IInv, ClientReceives, UNCHANGED history,
           Head(toClient).type \in {"discovered", "read_rsp"}
    PROVE  IInv'
  <1> DEFINE e == Head(toClient)
  <1>1. /\ toClient # <<>> /\ toClient' = Tail(toClient) /\ Notify(Client, e)
        /\ requestBusy' = FALSE /\ e.type \in {"discovered", "read_rsp"}
    BY DEF ClientReceives
  <1>2. /\ linkUp
        /\ UNCHANGED <<handle, serverState, clientState, serverScore, clientScore,
                       serverScoreView, params, sending, fault, linkUp, sysAttrSet, cccd,
                       hvxBusy, toServer, call, told, written, readHere>>
    BY DEF IInv, AirInv, ClientReceives, appVars, history
  <1>3. Base /\ toClient' \in Seq(Event) /\ e \in Event
    BY <1>1, BaseHolds, Taken DEF Base
  <1>4. /\ events' \in [Device -> Seq(Event)] /\ events'[Server] = events[Server]
        /\ events'[Client] = Append(events[Client], e)
    BY <1>1, <1>3, Added DEF Base, Notify
  <1>5. /\ requestBusy' = FALSE /\ e.type \in {"discovered", "read_rsp"}
        /\ events'[Server] = events[Server]
    BY <1>1, <1>4
  <1>6. /\ e \in Event /\ HasMore(toClient, toClient', e)
        /\ HasMore(events'[Client], events[Client], e)
    BY <1>1, <1>3, <1>4, Added, Taken DEF Base
  <1> HIDE DEF e
  <1>7. Requests' = Requests - 1 /\ Indications' = Indications /\ Requests' \in Nat
    BY <1>2, <1>5, <1>6, BaseHolds DEF HasMore, Requests, Indications, Answered
  <1>8. Types'
    BY <1>2, <1>3, <1>4, <1>5 DEF IInv, Types
  <1>9. RouteInv'
    BY <1>2, <1>5, <1>6, Kinds DEF IInv, HasMore, RouteInv
  <1>10. \A x \in Device : QueueInv(x)'
    <2>1. QueueInv(Server)'
      BY <1>2, <1>3, <1>4 DEF Base, IInv, QueueInv
    <2>2. QueueInv(Client)'
      BY <1>2, <1>3, <1>4, <1>5, QueueAdded DEF Base, IInv, Types
    <2>3. QED
      BY BaseHolds, <2>1, <2>2 DEF Base
  <1>11. StateInv'
    BY <1>2 DEF IInv, StateInv, IsServer, IsClient
  <1>12. AirInv'
    BY <1>2, <1>5, <1>7 DEF IInv, AirInv
  <1>13. EnabledInv'
    BY <1>2, <1>5, <1>6, Kinds DEF IInv, HasMore, EnabledInv
  <1>14. ToldInv'
    BY <1>2, <1>5, <1>6, Kinds DEF IInv, HasMore, ToldInv, Publishing, IsScore
  <1>15. WrittenInv'
    BY <1>2, <1>5, <1>6, Kinds DEF IInv, HasMore, WrittenInv
  <1>16. ChainInv'
    <2>1. requestBusy /\ handle[Client]
      BY <1>2, <1>7 DEF IInv, AirInv
    <2>2. Answers' = Answers + 1 /\ Answers \in Nat
      BY <1>5, <1>6 DEF HasMore, Answers
    <2>3. QED
      BY <1>2, <1>5, <1>6, <2>1, <2>2, Kinds DEF IInv, HasMore, ChainInv
  <1>17. QED
    BY <1>8, <1>9, <1>10, <1>11, <1>12, <1>13, <1>14, <1>15, <1>16 DEF IInv

\* The client's stack passes an indication on.
LEMMA IndicationReceived ==
    ASSUME IInv, ClientReceives, UNCHANGED history, Head(toClient).type = "hvx"
    PROVE  IInv'
  <1> DEFINE e == Head(toClient)
  <1>1. /\ toClient # <<>> /\ toClient' = Tail(toClient) /\ Notify(Client, e)
        /\ e.type = "hvx"
    BY DEF ClientReceives
  <1>2. /\ linkUp
        /\ UNCHANGED <<handle, serverState, clientState, serverScore, clientScore,
                       serverScoreView, params, sending, fault, linkUp, sysAttrSet, cccd,
                       hvxBusy, requestBusy, toServer, call, told, written, readHere>>
    BY DEF IInv, Types, AirInv, ClientReceives, appVars, history
  <1>3. Base /\ toClient' \in Seq(Event) /\ e \in Event
    BY <1>1, BaseHolds, Taken DEF Base
  <1>4. /\ events' \in [Device -> Seq(Event)] /\ events'[Server] = events[Server]
        /\ events'[Client] = Append(events[Client], e)
    BY <1>1, <1>3, Added DEF Base, Notify
  <1>5. e.type = "hvx" /\ events'[Server] = events[Server]
    BY <1>1, <1>4
  <1>6. /\ e \in Event /\ HasMore(toClient, toClient', e)
        /\ HasMore(events'[Client], events[Client], e)
    BY <1>1, <1>3, <1>4, Added, Taken DEF Base
  <1> HIDE DEF e
  <1>7. Types'
    BY <1>2, <1>3, <1>4, <1>5 DEF IInv, Types
  <1>8. RouteInv'
    BY <1>2, <1>5, <1>6, Kinds DEF IInv, HasMore, RouteInv
  <1>9. \A x \in Device : QueueInv(x)'
    <2>1. QueueInv(Server)'
      BY <1>2, <1>3, <1>4 DEF Base, IInv, QueueInv
    <2>2. QueueInv(Client)'
      BY <1>2, <1>3, <1>4, <1>5, QueueAdded DEF Base, IInv, Types
    <2>3. QED
      BY BaseHolds, <2>1, <2>2 DEF Base
  <1>10. StateInv'
    BY <1>2 DEF IInv, StateInv, IsServer, IsClient
  <1>11. AirInv'
    <2>1. Requests' = Requests /\ Indications' = Indications
      BY <1>2, <1>5, <1>6, BaseHolds DEF HasMore, Requests, Indications, Answered
    <2>2. QED
      BY <1>2, <2>1 DEF IInv, AirInv
  <1>12. EnabledInv'
    BY <1>2, <1>5, <1>6, Kinds DEF IInv, HasMore, EnabledInv
  <1>13. ToldInv'
    BY <1>2, <1>5, <1>6, Kinds DEF IInv, HasMore, ToldInv, Publishing, IsScore
  <1>14. WrittenInv'
    BY <1>2, <1>5, <1>6, Kinds DEF IInv, HasMore, WrittenInv
  <1>15. ChainInv'
    BY <1>2, <1>5, <1>6, Kinds DEF IInv, HasMore, ChainInv, Answers
  <1>16. QED
    BY <1>7, <1>8, <1>9, <1>10, <1>11, <1>12, <1>13, <1>14, <1>15 DEF IInv

\* A PDU reaches the client's stack.
LEMMA ClientReceivesStep ==
    ASSUME IInv, ClientReceives, UNCHANGED history
    PROVE  IInv'
  <1>1. Only(toClient, ServerPdu) /\ toClient \in Seq(Event) /\ toClient # <<>>
    BY BaseHolds DEF IInv, RouteInv, Base, ClientReceives
  <1>2. Head(toClient) \in Event /\ Head(toClient) \in ServerPdu
    BY <1>1, OnlyTail
  <1>3. Head(toClient).type \in {"discovered", "read_rsp", "write_rsp", "hvx"}
    BY <1>2, Kinds
  <1>4. QED
    BY <1>3, WriteAnswered, AnswerReceived, IndicationReceived

\* A link comes up; both devices are told.
LEMMA NewLinkStep ==
    ASSUME IInv, NewLink
    PROVE  IInv'
  <1> DEFINE e == [type |-> "connected"]
  <1>1. /\ ~linkUp /\ linkUp' = TRUE /\ sysAttrSet' = FALSE /\ cccd' = {}
        /\ hvxBusy' = FALSE /\ requestBusy' = FALSE
        /\ events' = [d \in Device |-> <<e>>]
        /\ told' = FALSE /\ written' = Nothing /\ readHere' = {}
        /\ \A d \in Device : ~handle[d] /\ events[d] = <<>> /\ sending[d] = {}
    BY DEF NewLink, Connect
  <1>2. UNCHANGED <<handle, serverState, clientState, serverScore, clientScore,
                    serverScoreView, params, sending, fault, toServer, toClient, call>>
    BY DEF NewLink, Connect, appVars
  <1>3. e \in Event /\ e.type = "connected"
    BY Messages
  <1> HIDE DEF e
  <1>4. <<e>> \in Seq(Event) /\ HasMore(<<e>>, <<>>, e)
    <2>1. <<>> \in Seq(Event) /\ Append(<<>>, e) = <<e>>
      BY <1>3
    <2>2. QED
      BY <1>3, <2>1, Added
  <1>5. Base /\ \A d \in Device : events'[d] = <<e>>
    BY <1>1, BaseHolds
  <1>6. /\ toServer = <<>> /\ toClient = <<>>
        /\ events'[Server] = <<e>> /\ events'[Client] = <<e>>
        /\ ~handle[Server] /\ ~handle[Client] /\ clientState = "READY"
    BY <1>1, <1>5 DEF Base, IInv, AirInv, StateInv
  <1>7. /\ linkUp' = TRUE /\ cccd' = {} /\ hvxBusy' = FALSE /\ requestBusy' = FALSE
        /\ told' = FALSE /\ written' = Nothing /\ readHere' = {}
    BY <1>1
  <1>8. Types'
    <2>1. events' \in [Device -> Seq(Event)] /\ Nothing \in 0 .. Nothing
      BY <1>1, <1>4, MaxScoreAssumption DEF Nothing
    <2>2. QED
      BY <1>1, <1>2, <2>1 DEF IInv, Types
  <1>9. RouteInv'
    BY <1>2, <1>3, <1>4, <1>6, <1>7, OnlyEmpty, Kinds DEF IInv, HasMore, RouteInv
  <1>10. \A x \in Device : QueueInv(x)'
    <2>1. Len(<<e>>) = 1 /\ <<e>>[1] = e /\ <<e>> # <<>>
      OBVIOUS
    <2>2. \A i \in 1 .. 1 : i = 1
      OBVIOUS
    <2>3. QED
      BY <1>1, <1>2, <1>3, <1>5, <2>1, <2>2 DEF QueueInv
  <1>11. StateInv'
    BY <1>1, <1>2 DEF IInv, StateInv, IsServer, IsClient
  <1>12. AirInv'
    <2>1. Requests' = 0 /\ Indications' = 0
      BY <1>2, <1>3, <1>4, <1>6, TokensEmpty
         DEF HasMore, Requests, Indications, Shown
    <2>2. QED
      BY <1>2, <1>6, <1>7, <2>1 DEF AirInv
  <1>13. EnabledInv'
    BY <1>2, <1>3, <1>4, <1>6, <1>7, OnlyEmpty, Kinds DEF IInv, HasMore, EnabledInv
  <1>14. ToldInv'
    BY <1>7 DEF ToldInv
  <1>15. WrittenInv'
    BY <1>2, <1>3, <1>4, <1>6, <1>7, OnlyEmpty, Kinds DEF IInv, HasMore, WrittenInv
  <1>16. ChainInv'
    <2>1. Answers' = 0
      BY <1>3, <1>4, <1>6, TokensEmpty DEF HasMore, Answers
    <2>2. QED
      BY <1>2, <1>3, <1>4, <1>6, <1>7, <2>1, OnlyEmpty, Kinds DEF HasMore, ChainInv
  <1>17. QED
    BY <1>8, <1>9, <1>10, <1>11, <1>12, <1>13, <1>14, <1>15, <1>16 DEF IInv

\* What the end of a link leaves: nothing on the air, and all that is said of links
\* in use says nothing.
LEMMA WithoutLink ==
    ASSUME IInv, linkUp' = FALSE, toServer' = <<>>, toClient' = <<>>
    PROVE  /\ toServer' \in Seq(Event) /\ toClient' \in Seq(Event)
           /\ \A kinds : Only(toServer', kinds) /\ Only(toClient', kinds)
           /\ AirInv' /\ ToldInv' /\ WrittenInv' /\ ChainInv'
  <1>1. /\ toServer' \in Seq(Event) /\ toClient' \in Seq(Event)
        /\ \A kinds : Only(toServer', kinds) /\ Only(toClient', kinds)
    BY OnlyEmpty
  <1>2. AirInv' /\ ToldInv' /\ WrittenInv' /\ ChainInv'
    BY DEF AirInv, ToldInv, WrittenInv, ChainInv
  <1>3. QED
    BY <1>1, <1>2

\* The link is lost; both devices will be told.
LEMMA LinkLossStep ==
    ASSUME IInv, LinkLoss, UNCHANGED history
    PROVE  IInv'
  <1> DEFINE e == [type |-> "disconnected"]
  <1>1. /\ linkUp /\ linkUp' = FALSE /\ toServer' = <<>> /\ toClient' = <<>>
        /\ hvxBusy' = FALSE /\ requestBusy' = FALSE
        /\ UNCHANGED <<handle, serverState, clientState, serverScore, clientScore,
                       serverScoreView, params, sending, fault, call, sysAttrSet, cccd,
                       told, written, readHere>>
    BY DEF LinkLoss, LinkEnds, appVars, history
  <1>2. events' = [d \in Device |-> Append(events[d], e)]
    BY DEF LinkLoss, LinkEnds
  <1>3. e \in Event /\ e.type = "disconnected"
    BY Messages
  <1> HIDE DEF e
  <1>4. /\ Base /\ \A d \in Device : events[d] \in Seq(Event)
        /\ \A d \in Device : events'[d] = Append(events[d], e)
    BY <1>2, BaseHolds DEF Base
  <1>5. events' \in [Device -> Seq(Event)]
    BY <1>2, <1>3, <1>4, Added DEF Base
  <1>6. /\ HasMore(events'[Server], events[Server], e)
        /\ HasMore(events'[Client], events[Client], e)
    BY <1>3, <1>4, Added DEF Base
  <1>7. \A kinds : Only(toServer', kinds) /\ Only(toClient', kinds)
    BY <1>1, WithoutLink
  <1>8. Types'
    BY <1>1, <1>5, WithoutLink DEF IInv, Types
  <1>9. RouteInv'
    BY <1>1, <1>3, <1>6, <1>7, Kinds DEF IInv, HasMore, RouteInv
  <1>10. \A x \in Device : QueueInv(x)'
    BY <1>1, <1>3, <1>4, QueueAdded DEF IInv
  <1>11. StateInv'
    BY <1>1 DEF IInv, StateInv, IsServer, IsClient
  <1>12. AirInv'
    BY <1>1, WithoutLink
  <1>13. EnabledInv'
    BY <1>1, <1>3, <1>6, <1>7, Kinds DEF IInv, HasMore, EnabledInv
  <1>14. ToldInv'
    BY <1>1, WithoutLink
  <1>15. WrittenInv'
    BY <1>1, WithoutLink
  <1>16. ChainInv'
    BY <1>1, WithoutLink
  <1>17. QED
    BY <1>8, <1>9, <1>10, <1>11, <1>12, <1>13, <1>14, <1>15, <1>16 DEF IInv

\* A device is reset, and the other one will be told if there was a link.
LEMMA LinkResetStep ==
    ASSUME NEW d \in Device, IInv, LinkReset(d), UNCHANGED history
    PROVE  IInv'
  <1> DEFINE e == [type |-> "disconnected"]
             o == IF d = Server THEN Client ELSE Server
  <1>1. linkUp' = FALSE /\ toServer' = <<>> /\ toClient' = <<>>
    BY DEF LinkReset, LinkEnds
  <1>2. /\ hvxBusy' = FALSE /\ requestBusy' = FALSE
        /\ call' = [call EXCEPT ![d] = NoCalls]
        /\ sending' = [sending EXCEPT ![d] = {}]
        /\ fault' = [fault EXCEPT ![d] = FALSE]
        /\ handle' = [handle EXCEPT ![d] = FALSE]
        /\ UNCHANGED <<sysAttrSet, cccd, told, written, readHere>>
    BY DEF LinkReset, LinkEnds, history
  <1>3. /\ d = Server => /\ serverState' = "READY" /\ serverScore' = 0 /\ clientScore' = 0
                         /\ UNCHANGED <<clientState, serverScoreView, params>>
        /\ d # Server => /\ clientState' = "READY" /\ serverScoreView' = 0 /\ params' = {}
                         /\ UNCHANGED <<serverState, serverScore, clientScore>>
    BY DEF LinkReset
  <1>4. e \in Event /\ e.type = "disconnected"
    BY Messages
  <1> HIDE DEF e
  <1>5. /\ o \in Device /\ o # d /\ \A x \in Device : x = d \/ x = o
        /\ events \in [Device -> Seq(Event)] /\ events[o] \in Seq(Event)
    BY BaseHolds DEF Base
  <1>6. events'[d] = <<>> /\ events'[o] = IF linkUp THEN Append(events[o], e) ELSE events[o]
    BY <1>5 DEF LinkReset, LinkEnds, e
  <1>7. events' \in [Device -> Seq(Event)]
    <2>1. events'[d] \in Seq(Event) /\ events'[o] \in Seq(Event)
      BY <1>4, <1>5, <1>6, Added
    <2>2. events' = [x \in Device |-> events'[x]]
      BY DEF LinkReset, LinkEnds
    <2>3. QED
      BY <1>5, <2>1, <2>2
  <1>8. \A types : /\ Only(events'[d], None(types))
                   /\ Only(events[o], None(types)) /\ "disconnected" \notin types
                          => Only(events'[o], None(types))
    BY <1>4, <1>5, <1>6, OnlyEmpty, OnlyAppend, Kinds
  <1> HIDE DEF o
  <1>9. Types'
    <2>1. NoCalls \in [Context -> Call] /\ 0 \in Score
      BY MaxScoreAssumption DEF NoCalls, Call, Score
    <2>2. call' \in [Device -> [Context -> Call]] /\ sending' \in [Device -> SUBSET Context]
      BY <1>2, <2>1 DEF IInv, Types
    <2>3. QED
      BY <1>1, <1>2, <1>3, <1>7, <2>1, <2>2, WithoutLink DEF IInv, Types
  <1>10. RouteInv'
    <2>1. /\ Only(events'[Server], None({"discover", "discovered", "read_rsp"}))
          /\ Only(events'[Client], None({"discover", "read"}))
      BY <1>5, <1>8, BaseHolds DEF Base, IInv, RouteInv
    <2>2. QED
      BY <1>1, <2>1, WithoutLink DEF RouteInv
  <1>11. \A x \in Device : QueueInv(x)'
    <2>1. handle'[d] = FALSE /\ handle'[o] = handle[o] /\ linkUp' = FALSE
      BY <1>1, <1>2, <1>5 DEF IInv, Types
    <2>2. QueueInv(d)'
      BY <1>6, <2>1, EmptySeq DEF QueueInv
    <2>3. QueueInv(o)'
      <3>1. CASE linkUp
        BY <1>4, <1>5, <1>6, <2>1, <3>1, QueueAdded DEF IInv
      <3>2. CASE ~linkUp
        BY <1>5, <1>6, <2>1, <3>2 DEF IInv, QueueInv
      <3>3. QED
        BY <3>1, <3>2
    <2>4. QED
      BY <1>5, <2>2, <2>3
  <1>12. StateInv'
    <2>1. /\ sending'[d] = {} /\ handle'[d] = FALSE
          /\ sending'[o] = sending[o] /\ handle'[o] = handle[o] /\ call'[o] = call[o]
      BY <1>2, <1>5 DEF IInv, Types
    <2>2. \A x \in Device : \A c \in sending'[x] : x = o /\ c \in sending[o]
      BY <1>5, <2>1
    <2>3. ~handle'[Server] => serverState' = "READY"
      BY <1>3, <1>5, <2>1, BaseHolds DEF Base, IInv, StateInv
    <2>4. ~handle'[Client] => clientState' = "READY"
      BY <1>3, <1>5, <2>1, BaseHolds DEF Base, IInv, StateInv
    <2>5. QED
      BY <1>1, <1>5, <2>1, <2>2, <2>3, <2>4 DEF IInv, StateInv
  <1>13. AirInv'
    BY <1>1, WithoutLink
  <1>14. EnabledInv'
    <2>1. Only(events'[Client], None({"hvx"})) \/ clientState' = "CONNECTED"
      BY <1>3, <1>5, <1>8, BaseHolds DEF Base, IInv, EnabledInv
    <2>2. QED
      BY <1>1, <2>1, WithoutLink DEF EnabledInv
  <1>15. ToldInv'
    BY <1>1, WithoutLink
  <1>16. WrittenInv'
    BY <1>1, WithoutLink
  <1>17. ChainInv'
    BY <1>1, WithoutLink
  <1>18. QED
    BY <1>9, <1>10, <1>11, <1>12, <1>13, <1>14, <1>15, <1>16, <1>17 DEF IInv

-----------------------------------------------------------------------------
(***************************************************************************)
(* The event interrupts.                                                   *)
(***************************************************************************)
\* What is left of the events of a device that handles one.
LEMMA Handled ==
    ASSUME IInv, NEW d \in Device, NEW type, Handles(d, type)
    PROVE  /\ events' \in [Device -> Seq(Event)]
           /\ events[d] \in Seq(Event) /\ events[d] # <<>> /\ events'[d] = Tail(events[d])
           /\ \A o \in Device : o # d => events'[o] = events[o]
           /\ Head(events[d]) \in Event /\ Head(events[d]).type = type
           /\ HasMore(events[d], events'[d], Head(events[d]))
  <1>1. /\ events[d] # <<>> /\ Head(events[d]).type = type
        /\ events' = [events EXCEPT ![d] = Tail(@)]
    BY DEF Handles
  <1>2. events \in [Device -> Seq(Event)] /\ events[d] \in Seq(Event)
    BY BaseHolds DEF Base
  <1>3. /\ Tail(events[d]) \in Seq(Event) /\ Head(events[d]) \in Event
        /\ HasMore(events[d], Tail(events[d]), Head(events[d]))
    BY <1>1, <1>2, Taken
  <1>4. /\ events'[d] = Tail(events[d])
        /\ \A o \in Device : o # d => events'[o] = events[o]
        /\ events' \in [Device -> Seq(Event)]
    BY <1>1, <1>2, <1>3
  <1>5. QED
    BY <1>1, <1>2, <1>3, <1>4

\* The handlers of the first and of the last event change the handle, no other does.
LEMMA QueuesAfter ==
    ASSUME IInv, NEW d \in Device, NEW type, Handles(d, type), linkUp' = linkUp,
           handle'[d] \in BOOLEAN, \A o \in Device : o # d => handle'[o] = handle[o],
           type = "connected" => handle'[d], type = "disconnected" => ~handle'[d],
           type \notin {"connected", "disconnected"} => handle'[d] = handle[d]
    PROVE  /\ \A x \in Device : QueueInv(x)'
           /\ type = "connected" <=> ~handle[d]
           /\ type = "disconnected" => ~linkUp /\ events'[d] = <<>>
  <1>1. /\ QueueInv(d) /\ linkUp \in BOOLEAN /\ handle[d] \in BOOLEAN
        /\ events[d] \in Seq(Event) /\ events[d] # <<>> /\ events'[d] = Tail(events[d])
        /\ Head(events[d]).type = type
    BY Handled DEF IInv, Types
  <1>2. /\ QueueInv(d)'
        /\ Head(events[d]).type = "connected" <=> ~handle[d]
        /\ Head(events[d]).type = "disconnected" => ~linkUp /\ events'[d] = <<>>
    BY <1>1, QueueTaken DEF Plain
  <1>3. ASSUME NEW x \in Device, x # d
        PROVE  QueueInv(x)'
    <2>1. QueueInv(x) /\ events'[x] = events[x] /\ handle'[x] = handle[x]
      BY <1>3, Handled DEF IInv
    <2>2. QED
      BY <2>1 DEF QueueInv
  <1>4. QED
    BY <1>1, <1>2, <1>3

\* The server learns of the link.
LEMMA ServerConnectedStep ==
    ASSUME IInv, ServerConnected, UNCHANGED history
    PROVE  IInv'
  <1> DEFINE e == Head(events[Server])
  <1>1. /\ Handles(Server, "connected") /\ Server \in Device
        /\ handle' = [handle EXCEPT ![Server] = TRUE]
    BY BaseHolds DEF ServerConnected, Base
  <1>2. /\ handle'[Server] = TRUE /\ handle'[Client] = handle[Client]
        /\ handle' \in [Device -> BOOLEAN]
        /\ UNCHANGED <<serverState, clientState, serverScore, clientScore, serverScoreView,
                       params, sending, fault, linkUp, sysAttrSet, cccd, hvxBusy, requestBusy,
                       toServer, toClient, call, told, written, readHere>>
    BY <1>1, BaseHolds DEF Base, IInv, Types, ServerConnected, Handles, stackVars, history
  <1>3. /\ Base /\ events' \in [Device -> Seq(Event)]
        /\ events'[Client] = events[Client]
    BY <1>1, BaseHolds, Handled DEF Base
  <1>4. /\ e \in Event /\ e.type = "connected" /\ events'[Client] = events[Client]
        /\ HasMore(events[Server], events'[Server], e)
    BY <1>1, BaseHolds, Handled DEF Base
  <1> HIDE DEF e
  <1>5. Types'
    BY <1>2, <1>3 DEF IInv, Types
  <1>6. RouteInv'
    BY <1>2, <1>4, Kinds DEF IInv, HasMore, RouteInv
  <1>7. \A x \in Device : QueueInv(x)'
    <2>1. \A o \in Device : o # Server => handle'[o] = handle[o]
      BY <1>2, <1>3 DEF Base
    <2>2. QED
      BY <1>1, <1>2, <2>1, QueuesAfter
  <1>8. StateInv'
    BY <1>2 DEF IInv, StateInv, IsServer, IsClient
  <1>9. AirInv'
    <2>1. Requests' = Requests /\ Indications' = Indications
      BY <1>2, <1>4, BaseHolds DEF HasMore, Requests, Indications, Shown
    <2>2. QED
      BY <1>2, <2>1 DEF IInv, AirInv
  <1>10. EnabledInv'
    BY <1>2, <1>4, Kinds DEF IInv, HasMore, EnabledInv
  <1>11. ToldInv'
    BY <1>2, <1>4, Kinds DEF IInv, HasMore, ToldInv, Publishing, IsScore
  <1>12. WrittenInv'
    BY <1>2, <1>4, Kinds DEF IInv, HasMore, WrittenInv
  <1>13. ChainInv'
    BY <1>2, <1>4, Kinds DEF IInv, HasMore, ChainInv, Answers
  <1>14. QED
    BY <1>5, <1>6, <1>7, <1>8, <1>9, <1>10, <1>11, <1>12, <1>13 DEF IInv

\* While the client does not know of a link nothing is asked, and no score was written.
LEMMA BeforeClientConnects ==
    ASSUME IInv, ~handle[Client]
    PROVE  /\ clientState = "READY" /\ cccd \in SUBSET Indicated
           /\ linkUp => ~requestBusy /\ Requests = 0 /\ written = Nothing /\ cccd = {}
                        /\ sending[Client] = {}
  <1>1. clientState = "READY" /\ cccd \in SUBSET Indicated
    BY DEF IInv, StateInv, Types
  <1>2. linkUp => ~requestBusy /\ Requests = 0 /\ written = Nothing /\ cccd = {}
    BY <1>1 DEF IInv, AirInv, WrittenInv, EnabledInv
  <1>3. linkUp => \A c \in sending[Client] : FALSE
    BY <1>1, BaseHolds DEF Base, IInv, StateInv, IsServer, IsClient
  <1>4. QED
    BY <1>1, <1>2, <1>3

\* The client learns of the link and starts the discovery, if the link still is.
LEMMA ClientConnectedStep ==
    ASSUME IInv, ClientConnected, UNCHANGED history
    PROVE  IInv'
  <1> DEFINE e == Head(events[Client])
             pdu == [type |-> "discover", pass |-> 1]
  <1>1. /\ Handles(Client, "connected") /\ Client \in Device
        /\ handle' = [handle EXCEPT ![Client] = TRUE]
    BY BaseHolds DEF ClientConnected, Base
  <1>2. /\ handle'[Client] = TRUE /\ handle'[Server] = handle[Server]
        /\ handle' \in [Device -> BOOLEAN]
        /\ UNCHANGED <<serverState, serverScore, clientScore, serverScoreView, params, sending,
                       linkUp, sysAttrSet, cccd, hvxBusy, toClient, call, told, written,
                       readHere>>
    BY <1>1, BaseHolds DEF Base, IInv, Types, ClientConnected, Handles, history
  <1>3. /\ Base /\ events' \in [Device -> Seq(Event)]
        /\ events'[Server] = events[Server]
    BY <1>1, BaseHolds, Handled DEF Base
  <1>4. /\ e \in Event /\ e.type = "connected" /\ events'[Server] = events[Server]
        /\ HasMore(events[Client], events'[Client], e)
    BY <1>1, BaseHolds, Handled DEF Base
  <1> HIDE DEF e
  <1>5. /\ \A x \in Device : QueueInv(x)'
        /\ ~handle[Client]
    <2>1. \A o \in Device : o # Client => handle'[o] = handle[o]
      BY <1>2, <1>3 DEF Base
    <2>2. QED
      BY <1>1, <1>2, <2>1, QueuesAfter
  <1>6. CASE linkUp
    <2>1. /\ toServer' = Append(toServer, pdu) /\ requestBusy' = TRUE
          /\ clientState' = "CONNECTING" /\ UNCHANGED fault
      BY <1>6 DEF ClientConnected, Request
    <2>2. pdu \in Event /\ pdu.type = "discover"
      BY Messages
    <2> HIDE DEF pdu
    <2>3. toServer' \in Seq(Event)
      BY <1>3, <2>1, <2>2, Added DEF Base
    <2>4. HasMore(toServer', toServer, pdu)
      BY <1>3, <2>1, <2>2, Added DEF Base
    <2>5. requestBusy' = TRUE /\ clientState' = "CONNECTING" /\ UNCHANGED fault
      BY <2>1
    <2>6. /\ clientState = "READY" /\ ~requestBusy /\ Requests = 0 /\ written = Nothing
          /\ cccd = {} /\ sending[Client] = {}
      BY <1>5, <1>6, BeforeClientConnects
    <2>7. Types' /\ RouteInv'
      <3>1. Types'
        BY <1>2, <1>3, <2>3, <2>5 DEF IInv, Types
      <3>2. RouteInv'
        BY <1>2, <1>4, <2>2, <2>4, Kinds DEF IInv, HasMore, RouteInv
      <3>3. QED
        BY <3>1, <3>2
    <2>8. StateInv'
      BY <1>2, <1>3, <2>5, <2>6 DEF Base, IInv, StateInv, IsServer, IsClient
    <2>9. AirInv'
      <3>1. Requests' = Requests + 1 /\ Indications' = Indications
        BY <1>2, <1>4, <2>2, <2>4, BaseHolds DEF HasMore, Requests, Indications, Asked
      <3>2. QED
        BY <1>2, <1>6, <2>5, <2>6, <3>1 DEF IInv, AirInv
    <2>10. EnabledInv'
      BY <1>2, <1>4, <2>2, <2>4, <2>5, <2>6, Kinds DEF IInv, HasMore, EnabledInv
    <2>11. ToldInv'
      BY <1>2, <1>4, Kinds DEF IInv, HasMore, ToldInv, Publishing, IsScore
    <2>12. WrittenInv'
      BY <1>2, <1>4, <1>6, <2>2, <2>4, <2>6, Kinds DEF IInv, HasMore, WrittenInv
    <2>13. ChainInv'
      BY <1>2, <1>4, <1>5, <1>6, <2>2, <2>4, <2>5, <2>6, Kinds
         DEF IInv, HasMore, ChainInv, Answers
    <2>14. QED
      BY <1>5, <2>7, <2>8, <2>9, <2>10, <2>11, <2>12, <2>13 DEF IInv
  <1>7. CASE ~linkUp
    <2>1. Fault(Client) /\ UNCHANGED <<toServer, requestBusy, clientState>>
      BY <1>7 DEF ClientConnected
    <2>2. Types' /\ RouteInv'
      <3>1. Types'
        BY <1>2, <1>3, <2>1 DEF IInv, Types, Fault
      <3>2. RouteInv'
        BY <1>2, <1>4, <2>1, Kinds DEF IInv, HasMore, RouteInv
      <3>3. QED
        BY <3>1, <3>2
    <2>3. StateInv'
      BY <1>2, <1>5, <2>1 DEF IInv, StateInv, IsServer, IsClient
    <2>4. AirInv' /\ ToldInv' /\ WrittenInv' /\ ChainInv'
      BY <1>2, <1>7, <2>1 DEF IInv, AirInv, ToldInv, WrittenInv, ChainInv
    <2>5. EnabledInv'
      BY <1>2, <1>4, <2>1, Kinds DEF IInv, HasMore, EnabledInv
    <2>6. QED
      BY <1>5, <2>2, <2>3, <2>4, <2>5 DEF IInv
  <1>8. QED
    BY <1>6, <1>7

\* A device learns of the end of the link.
LEMMA DisconnectedStep ==
    ASSUME NEW d \in Device, IInv, Disconnected(d), UNCHANGED history
    PROVE  IInv'
  <1> DEFINE e == Head(events[d])
  <1>1. /\ Handles(d, "disconnected")
        /\ handle' = [handle EXCEPT ![d] = FALSE]
    BY DEF Disconnected
  <1>2. /\ handle'[d] = FALSE /\ \A o \in Device : o # d => handle'[o] = handle[o]
        /\ handle' \in [Device -> BOOLEAN]
        /\ serverState' = IF d = Server THEN "READY" ELSE serverState
        /\ clientState' = IF d = Client THEN "READY" ELSE clientState
        /\ UNCHANGED <<serverScore, clientScore, serverScoreView, params, sending, fault, linkUp,
                       sysAttrSet, cccd, hvxBusy, requestBusy, toServer, toClient, call, told,
                       written, readHere>>
    BY <1>1 DEF IInv, Types, Disconnected, Handles, stackVars, history
  <1>3. Base /\ events' \in [Device -> Seq(Event)]
    BY <1>1, BaseHolds, Handled DEF Base
  <1>4. /\ e \in Event /\ e.type = "disconnected"
        /\ \A o \in Device : o # d => events'[o] = events[o]
    BY <1>1, Handled
  <1> HIDE DEF e
  <1>5. ~linkUp /\ events'[d] = <<>> /\ \A x \in Device : QueueInv(x)'
    BY <1>1, <1>2, QueuesAfter
  <1>6. toServer = <<>> /\ toClient = <<>>
    BY <1>5 DEF IInv, AirInv
  <1>7. /\ Server \in Device /\ Client \in Device /\ Server # Client
        /\ \A x \in Device : x = Server \/ x = Client
    BY <1>3 DEF Base
  <1>8. Types'
    BY <1>2, <1>3 DEF IInv, Types
  <1>9. RouteInv'
    BY <1>2, <1>4, <1>5, <1>7, OnlyEmpty DEF IInv, RouteInv
  <1>10. \A x \in Device : QueueInv(x)'
    BY <1>5
  <1>11. StateInv'
    <2>1. /\ ~handle'[Server] => serverState' = "READY"
          /\ ~handle'[Client] => clientState' = "READY"
      BY <1>2, <1>7 DEF IInv, StateInv
    <2>2. QED
      BY <1>2, <1>5, <2>1 DEF IInv, StateInv
  <1>12. AirInv'
    BY <1>2, <1>5, <1>6 DEF IInv, AirInv
  <1>13. EnabledInv'
    BY <1>2, <1>4, <1>5, <1>6, <1>7, OnlyEmpty DEF IInv, EnabledInv
  <1>14. ToldInv'
    BY <1>2, <1>5 DEF ToldInv
  <1>15. WrittenInv'
    BY <1>2, <1>5 DEF WrittenInv
  <1>16. ChainInv'
    BY <1>2, <1>5 DEF ChainInv
  <1>17. QED
    BY <1>8, <1>9, <1>10, <1>11, <1>12, <1>13, <1>14, <1>15, <1>16 DEF IInv

\* Without a link most of the invariant says nothing.
LEMMA StillNoLink ==
    ASSUME IInv, ~linkUp, UNCHANGED <<linkUp, toServer, toClient>>
    PROVE  AirInv' /\ ToldInv' /\ WrittenInv' /\ ChainInv'
  BY DEF IInv, AirInv, ToldInv, WrittenInv, ChainInv

\* The server answers a read or a write, if the link still is.
LEMMA RepliesStep ==
    ASSUME IInv, NEW type \in {"read", "write"}, Handles(Server, type),
           NEW reply \in Event, Reply(reply), serverState' \in {serverState, "CONNECTED"},
           reply.type = IF type = "read" THEN "read_rsp" ELSE "write_rsp",
           type = "read" => reply.attr = Head(events[Server]).attr /\ UNCHANGED clientScore,
           type = "write" => clientScore' = Head(events[Server]).score,
           UNCHANGED <<handle, clientState, serverScore, serverScoreView, params, sending,
                       linkUp, sysAttrSet, cccd, hvxBusy, requestBusy, toServer, history>>
    PROVE  IInv'
  <1> DEFINE e == Head(events[Server])
  <1>1. /\ Server \in Device /\ Base /\ events' \in [Device -> Seq(Event)]
        /\ events'[Client] = events[Client]
    BY BaseHolds, Handled DEF Base
  <1>2. /\ serverState' \in {serverState, "CONNECTED"}
        /\ UNCHANGED <<handle, clientState, serverScore, serverScoreView, params, sending,
                       linkUp, sysAttrSet, cccd, hvxBusy, requestBusy, toServer, call, told,
                       written, readHere>>
    BY DEF Handles, history
  <1>3. /\ e \in Event /\ e.type = type /\ events'[Client] = events[Client]
        /\ HasMore(events[Server], events'[Server], e)
    BY <1>1, Handled DEF Base
  <1>4. /\ reply \in Event /\ reply.type = IF type = "read" THEN "read_rsp" ELSE "write_rsp"
        /\ type = "read" => reply.attr = e.attr /\ UNCHANGED clientScore
        /\ type = "write" => clientScore' = e.score
    OBVIOUS
  <1> HIDE DEF e
  <1>5. (\A x \in Device : QueueInv(x)') /\ handle[Server]
    BY <1>1, <1>2, QueuesAfter DEF IInv, Types
  <1>6. clientScore' \in Score
    BY <1>3, <1>4, Fields DEF IInv, Types
  <1>7. StateInv'
    BY <1>1, <1>2, <1>5 DEF Base, IInv, StateInv, IsServer, IsClient
  <1>8. EnabledInv'
    <2>1. linkUp => toClient' = Append(toClient, reply)
      BY DEF Reply
    <2>2. linkUp => HasMore(toClient', toClient, reply)
      BY <1>1, <1>4, <2>1, Added DEF Base
    <2>3. ~linkUp => UNCHANGED toClient
      BY DEF Reply
    <2>4. QED
      BY <1>2, <1>3, <1>4, <2>2, <2>3, Kinds DEF IInv, HasMore, EnabledInv
  <1>9. CASE linkUp
    <2>1. toClient' = Append(toClient, reply) /\ UNCHANGED fault
      BY <1>9 DEF Reply
    <2>2. toClient' \in Seq(Event)
      BY <1>1, <2>1, Added DEF Base
    <2>3. HasMore(toClient', toClient, reply)
      BY <1>1, <2>1, Added DEF Base
    <2>4. Types'
      BY <1>1, <1>2, <1>6, <2>1, <2>2 DEF IInv, Types
    <2>5. RouteInv'
      BY <1>2, <1>3, <1>4, <2>3, Kinds DEF IInv, HasMore, RouteInv
    <2>6. AirInv'
      <3>1. Requests' = Requests /\ Indications' = Indications
        BY <1>2, <1>3, <1>4, <2>3, BaseHolds
           DEF HasMore, Requests, Indications, Shown, Answered
      <3>2. QED
        BY <1>2, <1>9, <3>1 DEF IInv, AirInv
    <2>7. ToldInv'
      BY <1>2, <1>3, <1>4, <2>3, Kinds DEF IInv, HasMore, ToldInv, Publishing, IsScore
    <2>8. WrittenInv'
      BY <1>2, <1>3, <1>4, <1>9, <2>3, Kinds DEF IInv, HasMore, WrittenInv
    <2>9. ChainInv'
      BY <1>2, <1>3, <1>4, <2>3, Kinds DEF IInv, HasMore, ChainInv, Answers
    <2>10. QED
      BY <1>5, <1>7, <1>8, <2>4, <2>5, <2>6, <2>7, <2>8, <2>9 DEF IInv
  <1>10. CASE ~linkUp
    <2>1. Fault(Server) /\ UNCHANGED toClient
      BY <1>10 DEF Reply
    <2>2. Types'
      BY <1>1, <1>2, <1>6, <2>1 DEF IInv, Types, Fault
    <2>3. RouteInv'
      BY <1>2, <1>3, <2>1, Kinds DEF IInv, HasMore, RouteInv
    <2>4. QED
      BY <1>2, <1>5, <1>7, <1>8, <1>10, <2>1, <2>2, <2>3, StillNoLink DEF IInv
  <1>11. QED
    BY <1>9, <1>10

\* The server answers a read.
LEMMA ServerReadStep ==
    ASSUME IInv, ServerRead, UNCHANGED history
    PROVE  IInv'
  <1> DEFINE reply == [type |-> "read_rsp", attr |-> Head(events[Server]).attr]
  <1>1. /\ Handles(Server, "read") /\ Reply(reply) /\ serverState' \in {serverState, "CONNECTED"}
        /\ UNCHANGED <<handle, clientState, serverScore, clientScore, serverScoreView, params,
                       sending, linkUp, sysAttrSet, cccd, hvxBusy, requestBusy, toServer>>
    BY DEF ServerRead
  <1>2. Head(events[Server]) \in Event /\ Head(events[Server]).type = "read"
    BY <1>1, BaseHolds, Handled DEF Base
  <1>3. reply \in Event /\ reply.type = "read_rsp" /\ reply.attr = Head(events[Server]).attr
    BY <1>2, Fields, Messages
  <1> HIDE DEF reply
  <1>4. QED
    BY <1>1, <1>3, RepliesStep

\* The server keeps the score that is written, and answers.
LEMMA ServerWriteStep ==
    ASSUME IInv, ServerWrite, UNCHANGED history
    PROVE  IInv'
  <1> DEFINE reply == [type |-> "write_rsp"]
  <1>1. /\ Handles(Server, "write") /\ Reply(reply)
        /\ clientScore' = Head(events[Server]).score
        /\ UNCHANGED <<handle, serverState, clientState, serverScore, serverScoreView, params,
                       sending, linkUp, sysAttrSet, cccd, hvxBusy, requestBusy, toServer>>
    BY DEF ServerWrite
  <1>2. reply \in Event /\ reply.type = "write_rsp"
    BY Messages
  <1> HIDE DEF reply
  <1>3. QED
    BY <1>1, <1>2, RepliesStep

\* The server sets the system attributes, if the link still is.
LEMMA ServerSysAttrMissingStep ==
    ASSUME IInv, ServerSysAttrMissing, UNCHANGED history
    PROVE  IInv'
  <1> DEFINE e == Head(events[Server])
  <1>1. Handles(Server, "sys_attr_missing") /\ Server \in Device
    BY BaseHolds DEF ServerSysAttrMissing, Base
  <1>2. /\ sysAttrSet' \in BOOLEAN /\ fault' \in [Device -> BOOLEAN]
        /\ UNCHANGED <<handle, serverState, clientState, serverScore, clientScore,
                       serverScoreView, params, sending, linkUp, cccd, hvxBusy, requestBusy,
                       toServer, toClient, call, told, written, readHere>>
    BY DEF IInv, Types, ServerSysAttrMissing, Fault, Handles, history
  <1>3. /\ Base /\ events' \in [Device -> Seq(Event)]
        /\ events'[Client] = events[Client]
    BY <1>1, BaseHolds, Handled DEF Base
  <1>4. /\ e \in Event /\ e.type = "sys_attr_missing" /\ events'[Client] = events[Client]
        /\ HasMore(events[Server], events'[Server], e)
    BY <1>1, BaseHolds, Handled DEF Base
  <1> HIDE DEF e
  <1>5. Types'
    BY <1>2, <1>3 DEF IInv, Types
  <1>6. RouteInv'
    BY <1>2, <1>4, Kinds DEF IInv, HasMore, RouteInv
  <1>7. \A x \in Device : QueueInv(x)'
    BY <1>1, <1>2, QueuesAfter DEF IInv, Types
  <1>8. StateInv'
    BY <1>2 DEF IInv, StateInv, IsServer, IsClient
  <1>9. AirInv'
    <2>1. Requests' = Requests /\ Indications' = Indications
      BY <1>2, <1>4, BaseHolds DEF HasMore, Requests, Indications, Shown
    <2>2. QED
      BY <1>2, <2>1 DEF IInv, AirInv
  <1>10. EnabledInv'
    BY <1>2, <1>4, Kinds DEF IInv, HasMore, EnabledInv
  <1>11. ToldInv'
    BY <1>2, <1>4, Kinds DEF IInv, HasMore, ToldInv, Publishing, IsScore
  <1>12. WrittenInv'
    BY <1>2, <1>4, Kinds DEF IInv, HasMore, WrittenInv
  <1>13. ChainInv'
    BY <1>2, <1>4, Kinds DEF IInv, HasMore, ChainInv, Answers
  <1>14. QED
    BY <1>5, <1>6, <1>7, <1>8, <1>9, <1>10, <1>11, <1>12, <1>13 DEF IInv

\* Two restrictions of a queue make a third.
LEMMA OnlyBoth ==
    ASSUME NEW queue, NEW one, NEW other, NEW both, Only(queue, one), Only(queue, other),
           one \intersect other \subseteq both
    PROVE  Only(queue, both)
  BY DEF Only

\* The client handles an indication and confirms it.
LEMMA IndicationStep ==
    ASSUME IInv, Handles(Client, "hvx"), Confirm,
           serverScoreView' = IF Head(events[Client]).char = "score"
                              THEN Head(events[Client]).value ELSE serverScoreView,
           UNCHANGED <<handle, serverState, clientState, serverScore, clientScore, params,
                       sending, fault, linkUp, sysAttrSet, cccd, hvxBusy, requestBusy,
                       toClient, history>>
    PROVE  IInv'
  <1> DEFINE e == Head(events[Client])
             pdu == [type |-> "confirm"]
  <1>1. Handles(Client, "hvx") /\ Client \in Device /\ Server \in Device
    BY BaseHolds DEF Base
  <1>2. /\ serverScoreView' = IF e.char = "score" THEN e.value ELSE serverScoreView
        /\ UNCHANGED <<handle, serverState, clientState, serverScore, clientScore, params,
                       sending, fault, linkUp, sysAttrSet, cccd, hvxBusy, requestBusy, toClient,
                       call, told, written, readHere>>
    BY DEF Handles, history
  <1>3. /\ Base /\ events' \in [Device -> Seq(Event)]
        /\ events'[Server] = events[Server]
    BY <1>1, BaseHolds, Handled DEF Base
  <1>4. /\ e \in Event /\ e.type = "hvx" /\ events'[Server] = events[Server]
        /\ HasMore(events[Client], events'[Client], e)
    BY <1>1, BaseHolds, Handled DEF Base
  <1> HIDE DEF e
  <1>5. serverScoreView' \in Score
    BY <1>2, <1>4, Fields DEF IsScore, IInv, Types
  <1>6. pdu \in Event /\ pdu.type = "confirm"
        /\ toServer' = IF linkUp THEN Append(toServer, pdu) ELSE toServer
    BY Messages DEF Confirm
  <1> HIDE DEF pdu
  <1>7. toServer' \in Seq(Event)
    BY <1>3, <1>6, Added DEF Base
  <1>8. /\ pdu \in Event /\ pdu.type = "confirm"
        /\ linkUp => HasMore(toServer', toServer, pdu)
        /\ ~linkUp => UNCHANGED toServer
    BY <1>3, <1>6, Added DEF Base
  <1>9. Types'
    BY <1>2, <1>3, <1>5, <1>7 DEF IInv, Types
  <1>10. RouteInv'
    BY <1>2, <1>4, <1>8, Kinds DEF IInv, HasMore, RouteInv
  <1>11. \A x \in Device : QueueInv(x)'
    BY <1>1, <1>2, QueuesAfter DEF IInv, Types
  <1>12. StateInv'
    BY <1>2 DEF IInv, StateInv, IsServer, IsClient
  <1>13. AirInv'
    <2>1. CASE linkUp
      <3>1. Requests' = Requests /\ Indications' = Indications
        BY <1>2, <1>4, <1>8, <2>1, BaseHolds DEF HasMore, Requests, Indications, Asked
      <3>2. QED
        BY <1>2, <2>1, <3>1 DEF IInv, AirInv
    <2>2. CASE ~linkUp
      BY <1>2, <1>8, <2>2, StillNoLink
    <2>3. QED
      BY <2>1, <2>2
  <1>14. EnabledInv'
    BY <1>2, <1>4, <1>8, Kinds DEF IInv, HasMore, EnabledInv
  <1>15. ToldInv'
    BY <1>2, <1>4, <1>8, Kinds DEF IInv, HasMore, ToldInv, Publishing, IsScore
  <1>16. WrittenInv'
    BY <1>2, <1>4, <1>8, Kinds DEF IInv, HasMore, WrittenInv
  <1>17. ChainInv'
    BY <1>2, <1>4, <1>8, Kinds DEF IInv, HasMore, ChainInv, Answers
  <1>18. QED
    BY <1>9, <1>10, <1>11, <1>12, <1>13, <1>14, <1>15, <1>16, <1>17 DEF IInv

\* The client keeps an indicated score, and confirms.
LEMMA ClientScoreStep ==
    ASSUME IInv, ClientScore, UNCHANGED history
    PROVE  IInv'
  BY IndicationStep DEF ClientScore

\* The client hands an indicated state on, and confirms.
LEMMA ClientGameStateStep ==
    ASSUME IInv, NEW s \in IndicatedState, ClientGameState(s), UNCHANGED history
    PROVE  IInv'
  BY IndicationStep DEF ClientGameState, appVars

\* While the client handles the message of the chain, it is the only one.
LEMMA OneAtATime ==
    ASSUME IInv, linkUp, written = Nothing,
           NEW type \in {"discovered", "read_rsp"}, Handles(Client, type)
    PROVE  /\ ~requestBusy /\ handle[Client] /\ Requests = 0
           /\ Tokens(events'[Client], {"discovered", "read_rsp"}) = 0
           /\ \A read : /\ Only(toServer, InChain(read)) /\ Only(events[Server], InChain(read))
                        /\ Only(toClient, InChain(read)) /\ Only(events'[Client], InChain(read))
  <1> DEFINE e == Head(events[Client])
             rest == events'[Client]
  <1>1. /\ Base /\ rest \in Seq(Event) /\ e \in Event /\ e.type = type
        /\ HasMore(events[Client], rest, e)
    BY BaseHolds, Handled, OnlyTail DEF Base
  <1>2. /\ Answers = Tokens(rest, {"discovered", "read_rsp"}) + 1
        /\ Tokens(rest, {"discovered", "read_rsp"}) \in Nat
    BY <1>1 DEF HasMore, Answers
  <1>3. Only(rest, None({"discover", "read"}))
    BY <1>1 DEF HasMore, IInv, RouteInv
  <1> HIDE DEF rest, e
  <1>4. /\ ~requestBusy /\ handle[Client] /\ Requests = 0
        /\ Tokens(rest, {"discovered", "read_rsp"}) = 0
    BY <1>2 DEF IInv, Types, ChainInv, AirInv
  <1>5. /\ Tokens(toServer, Asked) = 0 /\ Tokens(events[Server], Shown) = 0
        /\ Tokens(toClient, Answered) = 0
    BY <1>4, BaseHolds DEF Requests
  <1>6. /\ Only(toServer, None(Asked)) /\ Only(events[Server], None(Shown))
        /\ Only(toClient, None(Answered)) /\ Only(rest, None({"discovered", "read_rsp"}))
    BY <1>1, <1>4, <1>5, NoTokens DEF Base
  <1>7. ASSUME NEW read
        PROVE  /\ ClientPdu \intersect None(Asked) \subseteq InChain(read)
               /\ ServerPdu \intersect None(Answered) \subseteq InChain(read)
               /\ None({"discover", "discovered", "read_rsp"}) \intersect None(Shown)
                      \subseteq InChain(read)
               /\ None({"discover", "read"}) \intersect None({"discovered", "read_rsp"})
                      \subseteq InChain(read)
    BY Messages, Kinds DEF Asked, Shown, Answered, None, InChain
  <1>8. ASSUME NEW read
        PROVE  /\ Only(toServer, InChain(read)) /\ Only(events[Server], InChain(read))
               /\ Only(toClient, InChain(read)) /\ Only(rest, InChain(read))
    BY <1>3, <1>6, <1>7, OnlyBoth DEF IInv, RouteInv
  <1>9. QED
    BY <1>4, <1>8 DEF rest

\* An answer is handled after which nothing is asked.
LEMMA NotAskedStep ==
    ASSUME IInv, NEW type \in {"discovered", "read_rsp"}, Handles(Client, type),
           clientState' \in {clientState, "CONNECTED"},
           params' \in SUBSET Attribute, readHere' \in SUBSET Attribute,
           UNCHANGED <<handle, serverState, serverScore, clientScore, serverScoreView, sending,
                       fault, linkUp, sysAttrSet, cccd, hvxBusy, toClient, told, written>>,
           UNCHANGED <<toServer, requestBusy>>,
           linkUp /\ written = Nothing /\ ~requestBusy => readHere' = Attribute
    PROVE  IInv'
  <1> DEFINE e == Head(events[Client])
  <1>1. Handles(Client, type) /\ Client \in Device /\ Server \in Device
    BY BaseHolds DEF Base
  <1>2. /\ clientState' \in {clientState, "CONNECTED"}
        /\ UNCHANGED <<handle, serverState, serverScore, clientScore, serverScoreView, sending,
                       fault, linkUp, sysAttrSet, cccd, hvxBusy, toClient, call, told, written>>
    BY DEF Handles
  <1>3. /\ Base /\ events' \in [Device -> Seq(Event)]
        /\ events'[Server] = events[Server]
    BY <1>1, BaseHolds, Handled DEF Base
  <1>4. /\ e \in Event /\ e.type = type /\ events'[Server] = events[Server]
        /\ HasMore(events[Client], events'[Client], e)
    BY <1>1, BaseHolds, Handled DEF Base
  <1> HIDE DEF e
  <1>5. (\A x \in Device : QueueInv(x)') /\ handle[Client]
    BY <1>1, <1>2, QueuesAfter DEF IInv, Types
  <1>6. UNCHANGED <<toServer, requestBusy>>
    OBVIOUS
  <1>7. Types'
    BY <1>2, <1>3, <1>6 DEF IInv, Types
  <1>8. RouteInv'
    BY <1>2, <1>4, <1>6, Kinds DEF IInv, HasMore, RouteInv
  <1>9. \A x \in Device : QueueInv(x)'
    BY <1>5
  <1>10. StateInv'
    BY <1>1, <1>2, <1>5 DEF IInv, StateInv, IsServer, IsClient
  <1>11. AirInv'
    <2>1. Requests' = Requests /\ Indications' = Indications
      BY <1>2, <1>4, <1>6, BaseHolds DEF HasMore, Requests, Indications, Shown
    <2>2. QED
      BY <1>2, <2>1 DEF IInv, AirInv
  <1>12. EnabledInv'
    BY <1>2, <1>4, <1>6, Kinds DEF IInv, HasMore, EnabledInv
  <1>13. ToldInv'
    BY <1>2, <1>4, <1>6, Kinds DEF IInv, HasMore, ToldInv, Publishing, IsScore
  <1>14. WrittenInv'
    BY <1>2, <1>4, <1>6, Kinds DEF IInv, HasMore, WrittenInv
  <1>15. ChainInv'
    <2>1. CASE linkUp /\ written = Nothing
      BY <1>1, <1>2, <1>4, <1>6, <2>1, OneAtATime DEF ChainInv, Answers
    <2>2. CASE ~linkUp \/ written # Nothing
      BY <1>2, <2>2 DEF ChainInv
    <2>3. QED
      BY <2>1, <2>2
  <1>16. QED
    BY <1>7, <1>8, <1>9, <1>10, <1>11, <1>12, <1>13, <1>14, <1>15 DEF IInv

\* An answer is handled after which the next question is asked, unless the stack is
\* busy.
LEMMA AskedStep ==
    ASSUME IInv, NEW type \in {"discovered", "read_rsp"}, Handles(Client, type),
           clientState' \in {clientState, "CONNECTED"},
           params' \in SUBSET Attribute, readHere' \in SUBSET Attribute,
           UNCHANGED <<handle, serverState, serverScore, clientScore, serverScoreView, sending,
                       fault, linkUp, sysAttrSet, cccd, hvxBusy, toClient, told, written>>,
           NEW pdu \in Event, pdu.type \in {"discover", "read"}, RequestUnlessBusy(pdu),
           linkUp /\ written = Nothing => pdu \in InChain(readHere')
    PROVE  IInv'
  <1>1. CASE ~linkUp \/ requestBusy
    <2>1. UNCHANGED <<toServer, requestBusy>>
      BY <1>1 DEF RequestUnlessBusy
    <2>2. linkUp => requestBusy
      BY <1>1
    <2>3. QED
      BY <2>1, <2>2, NotAskedStep
  <1> SUFFICES ASSUME linkUp, ~requestBusy PROVE IInv'
    BY <1>1 DEF IInv, Types
  <1> DEFINE e == Head(events[Client])
  <1>2. Handles(Client, type) /\ Client \in Device /\ Server \in Device
    BY BaseHolds DEF Base
  <1>3. /\ clientState' \in {clientState, "CONNECTED"}
        /\ UNCHANGED <<handle, serverState, serverScore, clientScore, serverScoreView, sending,
                       fault, linkUp, sysAttrSet, cccd, hvxBusy, toClient, call, told, written>>
    BY DEF Handles
  <1>4. /\ Base /\ events' \in [Device -> Seq(Event)]
        /\ events'[Server] = events[Server]
    BY <1>2, BaseHolds, Handled DEF Base
  <1>5. /\ e \in Event /\ e.type = type /\ events'[Server] = events[Server]
        /\ HasMore(events[Client], events'[Client], e)
    BY <1>2, BaseHolds, Handled DEF Base
  <1> HIDE DEF e
  <1>6. (\A x \in Device : QueueInv(x)') /\ handle[Client]
    BY <1>2, <1>3, QueuesAfter DEF IInv, Types
  <1>7. toServer' = Append(toServer, pdu) /\ requestBusy' = TRUE
    BY DEF RequestUnlessBusy, Request
  <1>8. toServer' \in Seq(Event)
    BY <1>4, <1>7, Added DEF Base
  <1>9. /\ pdu \in Event /\ pdu.type \in {"discover", "read"} /\ requestBusy' = TRUE /\ linkUp
        /\ HasMore(toServer', toServer, pdu)
    BY <1>4, <1>7, Added DEF Base
  <1>10. Types'
    BY <1>3, <1>4, <1>8, <1>9 DEF IInv, Types
  <1>11. RouteInv'
    BY <1>3, <1>5, <1>9, Kinds DEF IInv, HasMore, RouteInv
  <1>12. \A x \in Device : QueueInv(x)'
    BY <1>6
  <1>13. StateInv'
    BY <1>2, <1>3, <1>6 DEF IInv, StateInv, IsServer, IsClient
  <1>14. AirInv'
    <2>1. Requests' = Requests + 1 /\ Indications' = Indications
      BY <1>3, <1>5, <1>9, BaseHolds DEF HasMore, Requests, Indications, Asked
    <2>2. QED
      BY <1>3, <1>6, <1>9, <2>1 DEF IInv, AirInv
  <1>15. EnabledInv'
    BY <1>3, <1>5, <1>9, Kinds DEF IInv, HasMore, EnabledInv
  <1>16. ToldInv'
    BY <1>3, <1>5, <1>9, Kinds DEF IInv, HasMore, ToldInv, Publishing, IsScore
  <1>17. WrittenInv'
    BY <1>3, <1>5, <1>9, Kinds DEF IInv, HasMore, WrittenInv
  <1>18. ChainInv'
    <2>1. CASE written = Nothing
      BY <1>2, <1>3, <1>5, <1>6, <1>9, <2>1, OneAtATime DEF HasMore, ChainInv, Answers
    <2>2. CASE written # Nothing
      BY <1>3, <2>2 DEF ChainInv
    <2>3. QED
      BY <2>1, <2>2
  <1>19. QED
    BY <1>10, <1>11, <1>12, <1>13, <1>14, <1>15, <1>16, <1>17, <1>18 DEF IInv

\* What the client handles next of the chain fits what it has read.
LEMMA AnswerFits ==
    ASSUME IInv, linkUp, written = Nothing, NEW type, Handles(Client, type)
    PROVE  Head(events[Client]) \in InChain(readHere)
  <1>1. HasMore(events[Client], events'[Client], Head(events[Client]))
    BY BaseHolds, Handled DEF Base
  <1>2. QED
    BY <1>1 DEF HasMore, IInv, ChainInv

\* After a discovery the client searches again, or reads the info.
LEMMA ClientDiscoveredStep ==
    ASSUME IInv, ClientDiscovered, UNCHANGED history
    PROVE  IInv'
  <1> DEFINE e == Head(events[Client])
             pdu == IF e.pass = 1 THEN [type |-> "discover", pass |-> 2]
                                  ELSE [type |-> "read", attr |-> "info"]
  <1>1. /\ Handles(Client, "discovered") /\ RequestUnlessBusy(pdu)
        /\ UNCHANGED <<handle, serverState, clientState, serverScore, clientScore,
                       serverScoreView, params, sending, fault, linkUp, sysAttrSet, cccd,
                       hvxBusy, toClient, told, written, readHere>>
    BY DEF ClientDiscovered, appVars, history
  <1>2. e \in Event /\ e.type = "discovered"
    BY <1>1, BaseHolds, Handled DEF Base
  <1>3. /\ pdu \in Event /\ pdu.type \in {"discover", "read"}
        /\ pdu.type = "read" => pdu.attr = "info"
    BY Messages, ChainFacts
  <1>4. linkUp /\ written = Nothing => e \in InChain(readHere)
    BY <1>1, AnswerFits
  <1> HIDE DEF e, pdu
  <1>5. linkUp /\ written = Nothing => readHere = {}
    BY <1>2, <1>4, Kinds
  <1>6. linkUp /\ written = Nothing => pdu \in InChain(readHere')
    <2>1. Before("info") = {} /\ UNCHANGED readHere
      BY <1>1, ChainFacts
    <2>2. QED
      BY <1>3, <1>5, <2>1 DEF InChain
  <1>7. params' \in SUBSET Attribute /\ readHere' \in SUBSET Attribute
    BY <1>1 DEF IInv, Types
  <1>8. QED
    BY <1>1, <1>3, <1>6, <1>7, AskedStep

\* After an attribute the client reads the next one, if there is one.
LEMMA ClientReadStep ==
    ASSUME IInv, ClientRead, UNCHANGED <<told, written>>,
           readHere' = readHere \union {Head(events[Client]).attr}
    PROVE  IInv'
  <1> DEFINE e == Head(events[Client])
             a == e.attr
             pdu == [type |-> "read", attr |-> Chain[Position(a) + 1]]
  <1>1. /\ Handles(Client, "read_rsp") /\ params' = params \union {a}
        /\ readHere' = readHere \union {a} /\ clientState' = "CONNECTED"
        /\ IF Position(a) < Len(Chain) THEN RequestUnlessBusy(pdu)
                                       ELSE UNCHANGED <<toServer, requestBusy>>
        /\ UNCHANGED <<handle, serverState, serverScore, clientScore, serverScoreView, sending,
                       fault, linkUp, sysAttrSet, cccd, hvxBusy, toClient, told, written>>
    BY DEF ClientRead
  <1>2. e \in Event /\ e.type = "read_rsp" /\ a \in Attribute
    BY <1>1, BaseHolds, Handled, Fields DEF Base
  <1>3. linkUp /\ written = Nothing => e \in InChain(readHere)
    BY <1>1, AnswerFits
  <1>4. linkUp /\ written = Nothing => readHere' = Before(a) \union {a}
    BY <1>1, <1>2, <1>3, Kinds
  <1>5. /\ params' \in SUBSET Attribute /\ readHere' \in SUBSET Attribute
        /\ clientState' \in {clientState, "CONNECTED"}
    BY <1>1, <1>2 DEF IInv, Types
  <1> HIDE DEF e, a
  <1>6. CASE Position(a) < 5
    <2>1. /\ Chain[Position(a) + 1] \in Attribute
          /\ Before(Chain[Position(a) + 1]) = Before(a) \union {a}
      BY <1>2, <1>6, ChainFacts
    <2>2. RequestUnlessBusy(pdu)
      BY <1>1, <1>6, ChainFacts
    <2>3. pdu \in Event /\ pdu.type = "read" /\ pdu.attr = Chain[Position(a) + 1]
      BY <2>1, Messages
    <2> HIDE DEF pdu
    <2>4. linkUp /\ written = Nothing => pdu \in InChain(readHere')
      BY <1>4, <2>1, <2>3 DEF InChain
    <2>5. QED
      BY <1>1, <1>5, <2>2, <2>3, <2>4, AskedStep
  <1>7. CASE ~(Position(a) < 5)
    <2>1. Before(a) \union {a} = Attribute
      BY <1>2, <1>7, ChainFacts
    <2>2. UNCHANGED <<toServer, requestBusy>>
      BY <1>1, <1>7, ChainFacts
    <2>3. QED
      BY <1>1, <1>4, <1>5, <2>1, <2>2, NotAskedStep
  <1>8. QED
    BY <1>6, <1>7

\* The info arrives when the link has gone: the device stops.
LEMMA ReadInfoFails ==
    ASSUME IInv, ClientReadInfo, ~linkUp, UNCHANGED <<told, written>>,
           readHere' \in SUBSET Attribute
    PROVE  IInv'
  <1> DEFINE e == Head(events[Client])
  <1>1. Handles(Client, "read_rsp") /\ Fault(Client)
    BY DEF ClientReadInfo
  <1>2. /\ ~linkUp
        /\ UNCHANGED <<handle, serverState, clientState, serverScore, clientScore,
                       serverScoreView, sending, linkUp, sysAttrSet, cccd, hvxBusy, requestBusy,
                       toServer, toClient, call, told, written>>
    BY DEF ClientReadInfo, Handles
  <1>3. /\ Base /\ events' \in [Device -> Seq(Event)]
        /\ events'[Server] = events[Server]
    BY <1>1, BaseHolds, Handled DEF Base
  <1>4. /\ e \in Event /\ e.type = "read_rsp" /\ events'[Server] = events[Server]
        /\ HasMore(events[Client], events'[Client], e)
    BY <1>1, BaseHolds, Handled DEF Base
  <1> HIDE DEF e
  <1>5. params' \in SUBSET Attribute /\ readHere' \in SUBSET Attribute
    BY ChainFacts DEF ClientReadInfo, IInv, Types
  <1>6. Types'
    BY <1>1, <1>2, <1>3, <1>5 DEF IInv, Types, Fault
  <1>7. RouteInv'
    BY <1>2, <1>4, Kinds DEF IInv, HasMore, RouteInv
  <1>8. \A x \in Device : QueueInv(x)'
    BY <1>1, <1>2, <1>3, QueuesAfter DEF Base, IInv, Types
  <1>9. StateInv'
    BY <1>2 DEF IInv, StateInv, IsServer, IsClient
  <1>10. AirInv'
    BY <1>2, StillNoLink
  <1>11. EnabledInv'
    BY <1>2, <1>4, Kinds DEF IInv, HasMore, EnabledInv
  <1>12. ToldInv'
    BY <1>2, StillNoLink
  <1>13. WrittenInv'
    BY <1>2, StillNoLink
  <1>14. ChainInv'
    BY <1>2, StillNoLink
  <1>15. QED
    BY <1>6, <1>7, <1>8, <1>9, <1>10, <1>11, <1>12, <1>13, <1>14 DEF IInv

\* The info arrives: the indications are enabled and the chain of reads starts.
LEMMA ReadInfoEnables ==
    ASSUME IInv, ClientReadInfo, linkUp, UNCHANGED <<told, written>>,
           readHere' = readHere \union {"info"}
    PROVE  IInv'
  <1> DEFINE e == Head(events[Client])
             c1 == [type |-> "cccd", char |-> "score"]
             c2 == [type |-> "cccd", char |-> "state"]
             pdu == [type |-> "read", attr |-> "game_time"]
             some == Append(toServer, c1)
             more == Append(some, c2)
  <1>1. /\ Handles(Client, "read_rsp") /\ Client \in Device /\ e.attr = "info"
        /\ params' = params \union {"info"}
    BY BaseHolds DEF ClientReadInfo, Base
  <1>2. toServer' = toServer \o <<c1, c2>> \o (IF requestBusy THEN <<>> ELSE <<pdu>>)
    BY DEF ClientReadInfo
  <1>3. /\ linkUp /\ clientState' = "CONNECTED" /\ requestBusy' = TRUE
        /\ readHere' = readHere \union {"info"}
        /\ UNCHANGED <<handle, serverState, serverScore, clientScore, serverScoreView, sending,
                       fault, linkUp, sysAttrSet, cccd, hvxBusy, toClient, call, told, written>>
    BY DEF ClientReadInfo, Handles
  <1>4. /\ Base /\ events' \in [Device -> Seq(Event)]
        /\ events'[Server] = events[Server] /\ toServer \in Seq(Event)
    BY <1>1, BaseHolds, Handled DEF Base
  <1>5. /\ e \in Event /\ e.type = "read_rsp" /\ events'[Server] = events[Server]
        /\ HasMore(events[Client], events'[Client], e) /\ e.attr = "info"
    BY <1>1, BaseHolds, Handled DEF Base
  <1>6. (\A x \in Device : QueueInv(x)') /\ handle[Client]
    BY <1>1, <1>3, QueuesAfter DEF IInv, Types
  <1>7. /\ c1 \in Event /\ c1.type = "cccd" /\ c2 \in Event /\ c2.type = "cccd"
        /\ pdu \in Event /\ pdu.type = "read" /\ pdu.attr = "game_time"
    BY Messages, ChainFacts DEF Indicated
  <1>8. linkUp /\ written = Nothing => e \in InChain(readHere)
    BY <1>1, AnswerFits
  <1> HIDE DEF c1, c2, pdu, e
  <1>9. toServer' = IF requestBusy THEN more ELSE Append(more, pdu)
    BY <1>2, <1>4, <1>7
  <1>10. some \in Seq(Event) /\ more \in Seq(Event)
    BY <1>4, <1>7, Added
  <1>11. HasMore(some, toServer, c1) /\ HasMore(more, some, c2)
    BY <1>4, <1>7, <1>10, Added
  <1>12. toServer' \in Seq(Event)
    BY <1>7, <1>9, <1>10, Added
  <1>13. /\ requestBusy => toServer' = more
         /\ ~requestBusy => HasMore(toServer', more, pdu)
    BY <1>7, <1>9, <1>10, Added
  <1> HIDE DEF some, more
  <1>14. params' \in SUBSET Attribute /\ readHere' \in SUBSET Attribute
    BY <1>1, <1>3, ChainFacts DEF IInv, Types
  <1>15. Types'
    BY <1>1, <1>3, <1>4, <1>12, <1>14 DEF IInv, Types
  <1>16. RouteInv'
    BY <1>3, <1>5, <1>7, <1>11, <1>13, Kinds DEF IInv, HasMore, RouteInv
  <1>17. \A x \in Device : QueueInv(x)'
    BY <1>6
  <1>18. StateInv'
    BY <1>1, <1>3, <1>6, BaseHolds DEF Base, IInv, StateInv, IsServer, IsClient
  <1>19. AirInv'
    <2>1. /\ Requests' = IF requestBusy THEN Requests ELSE Requests + 1
          /\ Indications' = Indications
      BY <1>3, <1>5, <1>7, <1>11, <1>13, BaseHolds
         DEF HasMore, Requests, Indications, Asked
    <2>2. QED
      BY <1>3, <1>6, <2>1 DEF IInv, AirInv
  <1>20. EnabledInv'
    BY <1>3 DEF EnabledInv
  <1>21. ToldInv'
    BY <1>3, <1>5, <1>7, <1>11, <1>13, Kinds DEF IInv, HasMore, ToldInv, Publishing, IsScore
  <1>22. WrittenInv'
    BY <1>3, <1>5, <1>7, <1>11, <1>13, Kinds DEF IInv, HasMore, WrittenInv
  <1>23. ChainInv'
    <2>1. CASE written = Nothing
      <3>1. readHere' = Before("game_time")
        BY <1>3, <1>5, <1>8, <2>1, ChainFacts, Kinds
      <3>2. /\ ~requestBusy /\ Tokens(events'[Client], {"discovered", "read_rsp"}) = 0
            /\ \A read : /\ Only(toServer, InChain(read)) /\ Only(events[Server], InChain(read))
                         /\ Only(toClient, InChain(read)) /\ Only(events'[Client], InChain(read))
        BY <1>1, <1>3, <2>1, OneAtATime
      <3>3. Only(toServer', InChain(readHere'))
        <4>1. /\ c1 \in InChain(readHere') /\ c2 \in InChain(readHere')
              /\ pdu \in InChain(readHere')
          BY <1>7, <3>1 DEF InChain
        <4>2. QED
          BY <1>11, <1>13, <3>2, <4>1 DEF HasMore
      <3>4. QED
        BY <1>3, <1>5, <1>6, <3>2, <3>3 DEF ChainInv, Answers
    <2>2. CASE written # Nothing
      BY <1>3, <2>2 DEF ChainInv
    <2>3. QED
      BY <2>1, <2>2
  <1>24. QED
    BY <1>15, <1>16, <1>17, <1>18, <1>19, <1>20, <1>21, <1>22, <1>23 DEF IInv

\* The info starts the chain of reads, or stops the device.
LEMMA ClientReadInfoStep ==
    ASSUME IInv, ClientReadInfo, UNCHANGED <<told, written>>,
           readHere' = readHere \union {Head(events[Client]).attr}
    PROVE  IInv'
  <1>1. readHere' = readHere \union {"info"} /\ readHere' \in SUBSET Attribute
    BY ChainFacts DEF ClientReadInfo, IInv, Types
  <1>2. QED
    BY <1>1, ReadInfoFails, ReadInfoEnables

\* Every handler of an event keeps the invariant.
LEMMA InterruptStep ==
    ASSUME IInv, NEW d \in Device, Interrupt(d)
    PROVE  IInv'
  <1>1. CASE d = Server
    <2>1. ServerInterrupt /\ UNCHANGED history
      BY <1>1, RolesAssumption DEF Interrupt, history
    <2>2. QED
      BY <2>1, BaseHolds, ServerConnectedStep, DisconnectedStep, ServerReadStep,
         ServerWriteStep, ServerSysAttrMissingStep DEF ServerInterrupt, Base
  <1>2. CASE d = Client
    <2>1. /\ ClientInterrupt \/ \E s \in IndicatedState : ClientGameState(s)
          /\ UNCHANGED <<told, written>>
          /\ readHere' = IF Head(events[Client]).type = "read_rsp"
                         THEN readHere \union {Head(events[Client]).attr} ELSE readHere
      BY <1>2, RolesAssumption DEF Interrupt
    <2>2. ASSUME ClientReadInfo \/ ClientRead
          PROVE  IInv'
      <3>1. Head(events[Client]).type = "read_rsp"
        BY <2>2 DEF ClientReadInfo, ClientRead, Handles
      <3>2. QED
        BY <2>1, <2>2, <3>1, ClientReadInfoStep, ClientReadStep
    <2>3. ASSUME \/ ClientConnected \/ Disconnected(Client) \/ ClientDiscovered \/ ClientScore
                 \/ \E s \in IndicatedState : ClientGameState(s)
          PROVE  IInv'
      <3>1. Head(events[Client]).type # "read_rsp"
        BY <2>3 DEF ClientConnected, Disconnected, ClientDiscovered, ClientScore,
                    ClientGameState, Handles
      <3>2. UNCHANGED history
        BY <2>1, <3>1 DEF history
      <3>3. QED
        BY <2>3, <3>2, BaseHolds, ClientConnectedStep, DisconnectedStep, ClientDiscoveredStep,
           ClientScoreStep, ClientGameStateStep DEF Base
    <2>4. QED
      BY <2>1, <2>2, <2>3 DEF ClientInterrupt
  <1>3. QED
    BY <1>1, <1>2, RolesAssumption

-----------------------------------------------------------------------------
(***************************************************************************)
(* The calls of the game.                                                  *)
(***************************************************************************)
\* What calls there are.
LEMMA Calls ==
    /\ NoCall \in Call /\ NoCall.op = "none"
    /\ \A s \in Score : ScoreCall(s) \in Call /\ ScoreCall(s).op = "set_score"
                        /\ ScoreCall(s).score = s
    /\ \A s \in IndicatedState : StateCall(s) \in Call /\ StateCall(s).op = "indicate_game_state"
    /\ \A op \in Call : /\ op # NoCall <=> op.op \in {"set_score", "indicate_game_state"}
                        /\ op.op = "set_score" => op.score \in Score
                        /\ op.op = "indicate_game_state" => op.state \in IndicatedState
  <1>1. /\ NoCall \in Call /\ NoCall.op = "none"
        /\ \A s \in Score : ScoreCall(s) \in Call /\ ScoreCall(s).op = "set_score"
                            /\ ScoreCall(s).score = s
        /\ \A s \in IndicatedState :
               StateCall(s) \in Call /\ StateCall(s).op = "indicate_game_state"
    BY DEF NoCall, ScoreCall, StateCall, Call
  <1>2. ASSUME NEW op \in Call
        PROVE  /\ op # NoCall <=> op.op \in {"set_score", "indicate_game_state"}
               /\ op.op = "set_score" => op.score \in Score
               /\ op.op = "indicate_game_state" => op.state \in IndicatedState
    <2>1. CASE op = NoCall
      BY <1>1, <2>1
    <2>2. CASE \E s \in Score : op = ScoreCall(s)
      BY <1>1, <2>2
    <2>3. CASE \E s \in IndicatedState : op = StateCall(s)
      BY <1>1, <2>3 DEF StateCall
    <2>4. QED
      BY <2>1, <2>2, <2>3 DEF Call
  <1>3. QED
    BY <1>1, <1>2

\* A call is made, or returns; the others stay.
LEMMA CallMade ==
    ASSUME IInv, NEW d \in Device, NEW c \in Context, NEW op \in Call, MakeCall(d, c, op)
    PROVE  /\ call' \in [Device -> [Context -> Call]]
           /\ call'[d][c] = op
           /\ \A o \in Device, x \in Context : o # d \/ x # c => call'[o][x] = call[o][x]
  <1>1. call \in [Device -> [Context -> Call]]
    BY DEF IInv, Types
  <1>2. QED
    BY <1>1 DEF MakeCall

\* The game makes a call: the link does not change, nor a call that is being sent.
LEMMA GameCallsStep ==
    ASSUME IInv, NEW d \in Device, GameCalls(d)
    PROVE  IInv'
  <1>1. PICK c \in Context, op \in Call :
            MakeCall(d, c, op) /\ call[d][c] = NoCall /\ op # NoCall
    <2>1. call[d]["isr"] = NoCall
      BY DEF GameCalls, InterruptIdle
    <2>2. CASE \E s \in IndicatedState :
                   call[d]["main"] = NoCall /\ MakeCall(d, "main", StateCall(s))
      BY <2>2, Calls DEF Context
    <2>3. CASE \E c \in Context, s \in Score :
                  /\ call[d]["main"] = NoCall \/ (c = "isr" /\ call[d]["main"].op # "set_score")
                  /\ MakeCall(d, c, ScoreCall(s))
      BY <2>1, <2>3, Calls DEF Context
    <2>4. QED
      BY <2>2, <2>3 DEF GameCalls
  <1>2. /\ call' \in [Device -> [Context -> Call]] /\ call'[d][c] = op
        /\ \A o \in Device, x \in Context : o # d \/ x # c => call'[o][x] = call[o][x]
    BY <1>1, CallMade
  <1>3. c \notin sending[d]
    BY <1>1 DEF IInv, StateInv
  <1>4. /\ UNCHANGED <<handle, serverState, clientState, serverScore, clientScore,
                       serverScoreView, params, sending, fault, linkUp, sysAttrSet, cccd,
                       hvxBusy, requestBusy, toServer, toClient, events, told, written,
                       readHere>>
    BY DEF GameCalls, linkVars, appVars, stackVars, history
  <1>5. Types'
    BY <1>2, <1>4 DEF IInv, Types
  <1>6. RouteInv' /\ \A x \in Device : QueueInv(x)'
    BY <1>4 DEF IInv, RouteInv, QueueInv
  <1>7. StateInv'
    <2>1. \A o \in Device : \A x \in sending[o] : call'[o][x] = call[o][x]
      BY <1>2, <1>3 DEF IInv, Types
    <2>2. QED
      BY <1>4, <2>1 DEF IInv, StateInv, IsServer, IsClient
  <1>8. AirInv' /\ EnabledInv'
    BY <1>4 DEF IInv, AirInv, Requests, Indications, EnabledInv
  <1>9. ToldInv'
    <2>1. ASSUME NEW x \in Context, call[Server][x].op = "set_score"
          PROVE  call'[Server][x].op = "set_score"
      <3>1. Server # d \/ x # c
        BY <1>1, <2>1, Calls
      <3>2. QED
        BY <1>2, <2>1, <3>1, RolesAssumption
    <2>2. Publishing(Server) => Publishing(Server)'
      BY <2>1 DEF Publishing
    <2>3. QED
      BY <1>4, <2>2 DEF IInv, ToldInv
  <1>10. WrittenInv' /\ ChainInv'
    BY <1>4 DEF IInv, WrittenInv, ChainInv, Answers
  <1>11. QED
    BY <1>5, <1>6, <1>7, <1>8, <1>9, <1>10 DEF IInv

\* A call passes the tests before its send, or returns at once.
LEMMA CallChecksStep ==
    ASSUME IInv, NEW d \in Device, NEW c \in Context, CallChecks(d, c), UNCHANGED history
    PROVE  IInv'
  <1> DEFINE op == call[d][c]
             goes == (IsServer(d) /\ handle[d]) \/ (IsClient(d) /\ op.op = "set_score")
  <1>1. /\ op # NoCall /\ op \in Call
        /\ UNCHANGED <<handle, serverState, clientState, clientScore, serverScoreView, params,
                       fault, linkUp, sysAttrSet, cccd, hvxBusy, requestBusy, toServer,
                       toClient, events, told, written, readHere>>
    BY DEF CallChecks, stackVars, history, IInv, Types
  <1>2. serverScore' = IF op.op = "set_score" /\ IsServer(d) THEN op.score ELSE serverScore
    BY DEF CallChecks
  <1>3. serverScore' \in Score
    BY <1>1, <1>2, Calls DEF IInv, Types
  <1>4. RouteInv' /\ \A x \in Device : QueueInv(x)'
    BY <1>1 DEF IInv, RouteInv, QueueInv
  <1>5. AirInv' /\ EnabledInv'
    BY <1>1 DEF IInv, AirInv, Requests, Indications, EnabledInv
  <1>6. WrittenInv' /\ ChainInv'
    BY <1>1 DEF IInv, WrittenInv, ChainInv, Answers
  <1>7. Base
    BY BaseHolds
  <1>8. CASE goes
    <2>1. sending' = [sending EXCEPT ![d] = @ \union {c}] /\ UNCHANGED call
      BY <1>8 DEF CallChecks
    <2>2. Types'
      BY <1>1, <1>3, <2>1 DEF IInv, Types
    <2>3. StateInv'
      <3>1. \A o \in Device : \A x \in sending'[o] : x \in sending[o] \/ (o = d /\ x = c)
        BY <2>1 DEF IInv, Types
      <3>2. /\ d = Client => op.op = "set_score"
            /\ IsServer(d) \/ IsClient(d)
        BY <1>7, <1>8 DEF Base, IsServer
      <3>3. UNCHANGED <<handle, serverState, clientState, linkUp, call>>
        BY <1>1, <2>1
      <3>4. QED
        BY <1>1, <3>1, <3>2, <3>3 DEF IInv, StateInv, IsServer, IsClient
    <2>4. ToldInv'
      <3>1. CASE serverScore' = serverScore
        BY <1>1, <2>1, <3>1 DEF IInv, ToldInv, Publishing
      <3>2. CASE serverScore' # serverScore
        <4>1. d = Server /\ op.op = "set_score"
          BY <1>2, <3>2 DEF IsServer
        <4>2. Publishing(Server)'
          BY <2>1, <4>1 DEF Publishing
        <4>3. QED
          BY <1>1, <4>2 DEF IInv, ToldInv
      <3>3. QED
        BY <3>1, <3>2
    <2>5. QED
      BY <1>4, <1>5, <1>6, <2>2, <2>3, <2>4 DEF IInv
  <1>9. CASE ~goes
    <2>1. UNCHANGED sending /\ MakeCall(d, c, NoCall) /\ c \notin sending[d]
      BY <1>9 DEF CallChecks, Return
    <2>2. /\ call' \in [Device -> [Context -> Call]] /\ call'[d][c] = NoCall
          /\ \A o \in Device, x \in Context : o # d \/ x # c => call'[o][x] = call[o][x]
      BY <2>1, Calls, CallMade
    <2>3. Types'
      BY <1>1, <1>3, <2>1, <2>2 DEF IInv, Types
    <2>4. StateInv'
      <3>1. \A o \in Device : \A x \in sending[o] : call'[o][x] = call[o][x]
        BY <2>1, <2>2 DEF IInv, Types
      <3>2. QED
        BY <1>1, <2>1, <3>1 DEF IInv, StateInv, IsServer, IsClient
    <2>5. ~IsServer(d)
      BY <1>9 DEF IInv, StateInv, IsServer
    <2>6. ToldInv'
      <3>1. UNCHANGED serverScore
        BY <1>2, <2>5
      <3>2. CASE serverState = "CONNECTED"
        <4>1. d # Server
          BY <2>5, <3>2 DEF IsServer
        <4>2. Publishing(Server)' <=> Publishing(Server)
          BY <1>7, <2>2, <4>1 DEF Base, Publishing
        <4>3. QED
          BY <1>1, <3>1, <4>2 DEF IInv, ToldInv
      <3>3. CASE serverState # "CONNECTED"
        BY <1>1, <3>3 DEF IInv, ToldInv
      <3>4. QED
        BY <3>2, <3>3
    <2>7. QED
      BY <1>4, <1>5, <1>6, <2>3, <2>4, <2>6 DEF IInv
  <1>10. QED
    BY <1>8, <1>9

\* A send ends and its call returns.
LEMMA SendEnded ==
    ASSUME IInv, NEW d \in Device, NEW c \in Context, SendEnds(d, c)
    PROVE  /\ call' \in [Device -> [Context -> Call]] /\ sending' \in [Device -> SUBSET Context]
           /\ StateInv' /\ \A x \in Device : QueueInv(x)'
           /\ \A o \in Device : o # d \/ call[d][c].op # "set_score"
                                    => (Publishing(o)' <=> Publishing(o))
           /\ UNCHANGED <<handle, serverState, clientState, serverScore, clientScore,
                          serverScoreView, params, fault, events, linkUp, sysAttrSet, cccd>>
  <1>1. /\ MakeCall(d, c, NoCall) /\ sending' = [sending EXCEPT ![d] = @ \ {c}]
        /\ UNCHANGED <<handle, serverState, clientState, serverScore, clientScore,
                       serverScoreView, params, fault, events, linkUp, sysAttrSet, cccd>>
    BY DEF SendEnds, Return
  <1>2. /\ call' \in [Device -> [Context -> Call]] /\ call'[d][c] = NoCall
        /\ \A o \in Device, x \in Context : o # d \/ x # c => call'[o][x] = call[o][x]
    BY <1>1, Calls, CallMade
  <1>3. /\ sending' \in [Device -> SUBSET Context]
        /\ \A o \in Device : \A x \in sending'[o] :
               x \in sending[o] /\ x \in Context /\ (o # d \/ x # c)
    BY <1>1 DEF IInv, Types
  <1>4. StateInv'
    <2>1. \A o \in Device : \A x \in sending'[o] : x \in sending[o] /\ call'[o][x] = call[o][x]
      BY <1>2, <1>3
    <2>2. QED
      BY <1>1, <2>1 DEF IInv, StateInv, IsServer, IsClient
  <1>5. \A x \in Device : QueueInv(x)'
    BY <1>1 DEF IInv, QueueInv
  <1>6. ASSUME NEW o \in Device, o # d \/ call[d][c].op # "set_score"
        PROVE  Publishing(o)' <=> Publishing(o)
    <2>1. CASE o # d
      BY <1>2, <2>1 DEF Publishing
    <2>2. CASE o = d
      BY <1>2, <1>6, <2>2, Calls DEF Publishing
    <2>3. QED
      BY <2>1, <2>2
  <1>7. QED
    BY <1>1, <1>2, <1>3, <1>4, <1>5, <1>6

\* The stack takes an indication.
LEMMA SendIndicationStep ==
    ASSUME IInv, NEW c \in Context, Publishes(Server, c), SendIndication(c)
    PROVE  IInv'
  <1> DEFINE op == call[Server][c]
             pdu == CallIndication(c)
  <1>1. /\ c \in sending[Server] /\ SendEnds(Server, c)
        /\ toClient' = Append(toClient, pdu)
        /\ linkUp /\ ~hvxBusy /\ pdu.char \in cccd
        /\ told' = (told \/ (op.op = "set_score" /\ HvxGoes(c)))
    BY RolesAssumption DEF Publishes, SendIndication, Sends, HvxGoes, Usable
  <1>2. /\ Base /\ call' \in [Device -> [Context -> Call]]
        /\ sending' \in [Device -> SUBSET Context]
    BY <1>1, BaseHolds, SendEnded DEF Base
  <1>3. /\ linkUp /\ ~hvxBusy /\ hvxBusy' = TRUE
        /\ UNCHANGED <<handle, serverState, clientState, serverScore, clientScore,
                       serverScoreView, params, fault, linkUp, sysAttrSet, cccd, requestBusy,
                       toServer, events, written, readHere>>
    BY RolesAssumption DEF SendIndication, Publishes, Sends, HvxGoes, Usable, SendEnds
  <1>4. op \in Call /\ op.op \in {"set_score", "indicate_game_state"} /\ serverState = "CONNECTED"
    BY <1>1, <1>2, <1>3, Calls DEF Base, IInv, Types, StateInv, IsServer, IsClient
  <1>5. /\ pdu \in Event /\ pdu.type = "hvx" /\ pdu.char \in cccd /\ clientState = "CONNECTED"
        /\ op.op = "set_score" =>
               pdu.char = "score" /\ pdu.value = serverScore /\ told' = TRUE
        /\ op.op # "set_score" => /\ pdu.char = "state" /\ told' = told
                                  /\ Publishing(Server)' <=> Publishing(Server)
        /\ told' \in BOOLEAN
    <2>1. CASE op.op = "set_score"
      <3>1. pdu = [type |-> "hvx", char |-> "score", value |-> serverScore]
        BY <2>1 DEF CallIndication
      <3>2. serverScore \in Score
        BY DEF IInv, Types
      <3>3. told' = TRUE
        BY <1>1, <2>1, RolesAssumption DEF SendIndication
      <3>4. QED
        BY <1>1, <2>1, <3>1, <3>2, <3>3, Messages DEF IInv, EnabledInv
    <2>2. CASE op.op # "set_score"
      <3>1. pdu = [type |-> "hvx", char |-> "state", value |-> op.state]
        BY <2>2 DEF CallIndication
      <3>2. op.state \in IndicatedState
        BY <1>4, <2>2, Calls
      <3>3. told' = told /\ told \in BOOLEAN
        BY <1>1, <2>2 DEF IInv, Types
      <3>4. Publishing(Server)' <=> Publishing(Server)
        BY <1>1, <1>2, <2>2, SendEnded DEF Base
      <3>5. QED
        BY <1>1, <2>2, <3>1, <3>2, <3>3, <3>4, Messages DEF IInv, EnabledInv
    <2>3. QED
      BY <2>1, <2>2
  <1> HIDE DEF pdu, op
  <1>6. toClient' \in Seq(Event)
    BY <1>1, <1>2, <1>5, Added DEF Base
  <1>7. HasMore(toClient', toClient, pdu)
    BY <1>1, <1>2, <1>5, Added DEF Base
  <1>8. /\ Tokens(toClient, {"hvx"}) = 0 /\ Tokens(events[Client], {"hvx"}) = 0
        /\ Indications = 0
    BY <1>3, BaseHolds DEF IInv, AirInv, Indications
  <1>9. Only(toClient, None({"hvx"})) /\ Only(events[Client], None({"hvx"}))
    BY <1>2, <1>8, NoTokens DEF Base
  <1>10. \A s : Only(toClient, Scores(s)) /\ Only(events[Client], Scores(s))
    <2>1. \A s : None({"hvx"}) \subseteq Scores(s)
      BY DEF None, Scores, IsScore
    <2>2. QED
      BY <1>9, <2>1, OnlyMore
  <1>11. Types'
    BY <1>2, <1>3, <1>5, <1>6 DEF IInv, Types
  <1>12. RouteInv'
    BY <1>3, <1>5, <1>7, Kinds DEF IInv, HasMore, RouteInv
  <1>13. \A x \in Device : QueueInv(x)'
    BY <1>1, <1>2, SendEnded DEF Base
  <1>14. StateInv'
    BY <1>1, <1>2, SendEnded DEF Base
  <1>15. AirInv'
    <2>1. Requests' = Requests /\ Indications' = Indications + 1
      BY <1>3, <1>5, <1>7, BaseHolds DEF HasMore, Requests, Indications, Answered
    <2>2. QED
      BY <1>3, <1>8, <2>1 DEF IInv, AirInv
  <1>16. EnabledInv'
    BY <1>3, <1>5, <1>7, Kinds DEF IInv, HasMore, EnabledInv
  <1>17. ToldInv'
    <2>1. CASE op.op = "set_score"
      BY <1>3, <1>4, <1>5, <1>7, <1>10, <2>1, Kinds DEF HasMore, ToldInv, IsScore
    <2>2. CASE op.op # "set_score"
      <3>1. /\ told' = told /\ pdu.type = "hvx" /\ pdu.char = "state"
            /\ Publishing(Server)' <=> Publishing(Server)
        BY <1>5, <2>2
      <3>2. pdu \in NoScore /\ \A s : pdu \in Scores(s)
        BY <1>5, <3>1, Kinds DEF IsScore
      <3>3. /\ Only(toClient', NoScore) <=> Only(toClient, NoScore)
            /\ \A s : Only(toClient', Scores(s)) <=> Only(toClient, Scores(s))
        BY <1>7, <3>2 DEF HasMore
      <3>4. QED
        BY <1>3, <3>1, <3>3 DEF IInv, ToldInv
    <2>3. QED
      BY <2>1, <2>2
  <1>18. WrittenInv'
    BY <1>3, <1>5, <1>7, Kinds DEF IInv, HasMore, WrittenInv
  <1>19. ChainInv'
    BY <1>3, <1>5, <1>7, Kinds DEF IInv, HasMore, ChainInv, Answers
  <1>20. QED
    BY <1>11, <1>12, <1>13, <1>14, <1>15, <1>16, <1>17, <1>18, <1>19 DEF IInv

\* The stack refuses an indication that is not enabled.
LEMMA DropIndicationStep ==
    ASSUME IInv, NEW c \in Context, Publishes(Server, c), DropIndication(c)
    PROVE  IInv'
  <1>1. /\ SendEnds(Server, c) /\ linkUp /\ ~HvxGoes(c)
    BY DEF DropIndication, Usable
  <1>2. /\ Base /\ call' \in [Device -> [Context -> Call]]
        /\ sending' \in [Device -> SUBSET Context]
    BY <1>1, BaseHolds, SendEnded DEF Base
  <1>3. /\ linkUp
        /\ UNCHANGED <<handle, serverState, clientState, serverScore, clientScore,
                       serverScoreView, params, fault, linkUp, sysAttrSet, cccd, hvxBusy,
                       requestBusy, toServer, toClient, events, written, readHere>>
    BY RolesAssumption DEF DropIndication, Usable, Publishes, SendEnds
  <1>4. UNCHANGED told
    BY <1>1 DEF Publishes, IInv, Types
  <1>5. told => call[Server][c].op # "set_score"
    BY <1>3, RolesAssumption DEF DropIndication, HvxGoes, CallIndication, IInv, ToldInv
  <1>6. Types'
    BY <1>2, <1>3, <1>4 DEF IInv, Types
  <1>7. RouteInv'
    BY <1>3 DEF IInv, RouteInv
  <1>8. \A x \in Device : QueueInv(x)'
    BY <1>1, <1>2, SendEnded DEF Base
  <1>9. StateInv'
    BY <1>1, <1>2, SendEnded DEF Base
  <1>10. AirInv'
    BY <1>3 DEF IInv, AirInv, Requests, Indications
  <1>11. EnabledInv'
    BY <1>3 DEF IInv, EnabledInv
  <1>12. ToldInv'
    <2>1. told => (Publishing(Server)' <=> Publishing(Server))
      BY <1>1, <1>2, <1>5, SendEnded DEF Base
    <2>2. QED
      BY <1>3, <1>4, <2>1 DEF IInv, ToldInv
  <1>13. WrittenInv'
    BY <1>3 DEF IInv, WrittenInv
  <1>14. ChainInv'
    BY <1>3 DEF IInv, ChainInv, Answers
  <1>15. QED
    BY <1>6, <1>7, <1>8, <1>9, <1>10, <1>11, <1>12, <1>13, <1>14 DEF IInv

\* The stack takes a write.
LEMMA SendWriteStep ==
    ASSUME IInv, NEW c \in Context, Publishes(Client, c), SendWrite(c)
    PROVE  IInv'
  <1> DEFINE op == call[Client][c]
             pdu == [type |-> "write", score |-> op.score]
  <1>1. /\ c \in sending[Client] /\ SendEnds(Client, c)
        /\ toServer' = Append(toServer, pdu)
    BY DEF SendWrite, Sends, Request
  <1>2. /\ Base /\ call' \in [Device -> [Context -> Call]]
        /\ sending' \in [Device -> SUBSET Context]
    BY <1>1, BaseHolds, SendEnded DEF Base
  <1>3. /\ linkUp /\ handle[Client] /\ ~requestBusy /\ requestBusy' = TRUE /\ written' = op.score
        /\ UNCHANGED <<handle, serverState, clientState, serverScore, clientScore,
                       serverScoreView, params, fault, linkUp, sysAttrSet, cccd, hvxBusy,
                       toClient, events, readHere>>
    BY DEF SendWrite, Usable, Publishes, SendEnds, Request
  <1>4. UNCHANGED told
    BY <1>2 DEF Base, Publishes, IInv, Types
  <1>5. op.score \in Score /\ clientState = "CONNECTED"
    BY <1>1, <1>2, <1>3, Calls DEF Base, IInv, Types, StateInv, IsServer, IsClient
  <1>6. pdu \in Event /\ pdu.type = "write" /\ pdu.score = op.score
    BY <1>5, Messages
  <1>7. written' \in 0 .. Nothing /\ written' # Nothing
    BY <1>3, <1>5, MaxScoreAssumption DEF Nothing, Score
  <1> HIDE DEF pdu, op
  <1>8. toServer' \in Seq(Event)
    BY <1>1, <1>2, <1>6, Added DEF Base
  <1>9. HasMore(toServer', toServer, pdu)
    BY <1>1, <1>2, <1>6, Added DEF Base
  <1>10. /\ Tokens(toServer, Asked) = 0 /\ Tokens(events[Server], Shown) = 0 /\ Requests = 0
    BY <1>3, BaseHolds DEF IInv, AirInv, Requests
  <1>11. \A s : Only(toServer, Writes(s)) /\ Only(events[Server], Writes(s))
    <2>1. Only(toServer, None(Asked)) /\ Only(events[Server], None(Shown))
      BY <1>2, <1>10, NoTokens DEF Base
    <2>2. \A s : None(Asked) \subseteq Writes(s) /\ None(Shown) \subseteq Writes(s)
      BY DEF None, Writes, Asked, Shown
    <2>3. QED
      BY <2>1, <2>2, OnlyMore
  <1>12. Types'
    BY <1>2, <1>3, <1>4, <1>7, <1>8 DEF IInv, Types
  <1>13. RouteInv'
    BY <1>3, <1>4, <1>6, <1>9, Kinds DEF IInv, HasMore, RouteInv
  <1>14. \A x \in Device : QueueInv(x)'
    BY <1>1, <1>2, SendEnded DEF Base
  <1>15. StateInv'
    BY <1>1, <1>2, SendEnded DEF Base
  <1>16. AirInv'
    <2>1. Requests' = Requests + 1 /\ Indications' = Indications
      BY <1>3, <1>6, <1>9, BaseHolds DEF HasMore, Requests, Indications, Asked
    <2>2. QED
      BY <1>3, <1>10, <2>1 DEF IInv, AirInv
  <1>17. EnabledInv'
    BY <1>3, <1>4, <1>6, <1>9, Kinds DEF IInv, HasMore, EnabledInv
  <1>18. ToldInv'
    <2>1. Publishing(Server)' <=> Publishing(Server)
      BY <1>1, <1>2, SendEnded DEF Base
    <2>2. QED
      BY <1>3, <1>4, <2>1 DEF IInv, ToldInv
  <1>19. WrittenInv'
    BY <1>3, <1>5, <1>6, <1>7, <1>9, <1>11, Kinds DEF HasMore, WrittenInv
  <1>20. ChainInv'
    BY <1>7 DEF ChainInv
  <1>21. QED
    BY <1>12, <1>13, <1>14, <1>15, <1>16, <1>17, <1>18, <1>19, <1>20 DEF IInv

\* A send that the stack refuses for another reason stops the device.
LEMMA SendFaultsStep ==
    ASSUME IInv, NEW d \in Device, NEW c \in Context, Publishes(d, c), SendFaults(d, c)
    PROVE  IInv'
  <1>1. /\ UNCHANGED <<handle, serverState, clientState, serverScore, clientScore,
                       serverScoreView, params, sending, linkUp, sysAttrSet, cccd, hvxBusy,
                       requestBusy, toServer, toClient, events, call, readHere>>
    BY DEF SendFaults, Publishes, stackVars
  <1>2. UNCHANGED <<told, written>>
    <2>1. d = Server => ~HvxGoes(c)
      BY DEF SendFaults, HvxGoes
    <2>2. d = Client => ~Usable(d)
      BY RolesAssumption DEF SendFaults
    <2>3. told \in BOOLEAN
      BY DEF IInv, Types
    <2>4. QED
      BY <2>1, <2>2, <2>3 DEF Publishes
  <1>3. Types'
    BY <1>1, <1>2 DEF IInv, Types, SendFaults, Fault
  <1>4. RouteInv' /\ (\A x \in Device : QueueInv(x)') /\ StateInv'
    BY <1>1 DEF IInv, RouteInv, QueueInv, StateInv, IsServer, IsClient
  <1>5. AirInv' /\ EnabledInv' /\ ToldInv'
    BY <1>1, <1>2 DEF IInv, AirInv, Requests, Indications, EnabledInv, ToldInv, Publishing
  <1>6. WrittenInv' /\ ChainInv'
    BY <1>1, <1>2 DEF IInv, WrittenInv, ChainInv, Answers
  <1>7. QED
    BY <1>3, <1>4, <1>5, <1>6 DEF IInv

\* The send of a call keeps the invariant, whatever the stack returns.
LEMMA PublishesStep ==
    ASSUME IInv, NEW d \in Device, NEW c \in Context, Publishes(d, c)
    PROVE  IInv'
  BY SendIndicationStep, DropIndicationStep, SendWriteStep, SendFaultsStep
     DEF Publishes, Send

-----------------------------------------------------------------------------
(***************************************************************************)
(* The invariant, and what it says of the session.                         *)
(***************************************************************************)
\* After power on there is no link, and no queue holds anything.
LEMMA InvInit == SessionInit => IInv
  <1> SUFFICES ASSUME SessionInit PROVE IInv
    OBVIOUS
  <1> USE DEF SessionInit, LinkInit
  <1>1. Types
    <2>1. 0 \in Score /\ Nothing \in 0 .. Nothing /\ NoCalls \in [Context -> Call]
      BY MaxScoreAssumption, Calls DEF Score, Nothing, NoCalls
    <2>2. <<>> \in Seq(Event)
      BY EmptySeq
    <2>3. QED
      BY <2>1, <2>2 DEF Types
  <1>2. \A x \in Device : QueueInv(x)
    BY EmptySeq DEF QueueInv
  <1>3. events[Server] = <<>> /\ events[Client] = <<>>
    BY RolesAssumption
  <1>4. RouteInv /\ EnabledInv
    BY <1>3, OnlyEmpty DEF RouteInv, EnabledInv
  <1>5. StateInv
    BY DEF StateInv
  <1>6. AirInv /\ ToldInv /\ WrittenInv /\ ChainInv
    BY DEF AirInv, ToldInv, WrittenInv, ChainInv
  <1>7. QED
    BY <1>1, <1>2, <1>4, <1>5, <1>6 DEF IInv

\* Every step keeps the invariant.
LEMMA InvStep ==
    ASSUME IInv, [SessionNext]_sessionVars
    PROVE  IInv'
  <1>1. CASE NewLink
    BY <1>1, NewLinkStep
  <1>2. CASE LinkLoss /\ UNCHANGED history
    BY <1>2, LinkLossStep
  <1>3. CASE Stack /\ UNCHANGED history
    BY <1>3, ServerReceivesStep, AsksForSysAttrStep, ClientReceivesStep DEF Stack
  <1>4. ASSUME NEW d \in Device,
               \/ GameCalls(d) \/ Interrupt(d) \/ (LinkReset(d) /\ UNCHANGED history)
               \/ \E c \in Context : (CallChecks(d, c) /\ UNCHANGED history) \/ Publishes(d, c)
        PROVE  IInv'
    BY <1>4, GameCallsStep, InterruptStep, LinkResetStep, CallChecksStep, PublishesStep
  <1>5. CASE UNCHANGED sessionVars
    <2>1. UNCHANGED <<handle, serverState, clientState, serverScore, clientScore,
                      serverScoreView, params, sending, fault, linkUp, sysAttrSet, cccd,
                      hvxBusy, requestBusy, toServer, toClient, events, call, told, written,
                      readHere>>
      BY <1>5 DEF sessionVars, linkVars, appVars, stackVars, history
    <2>2. Types' /\ RouteInv' /\ (\A x \in Device : QueueInv(x)') /\ StateInv'
      BY <2>1 DEF IInv, Types, RouteInv, QueueInv, StateInv, IsServer, IsClient
    <2>3. AirInv' /\ EnabledInv' /\ ToldInv'
      BY <2>1 DEF IInv, AirInv, Requests, Indications, EnabledInv, ToldInv, Publishing
    <2>4. WrittenInv' /\ ChainInv'
      BY <2>1 DEF IInv, WrittenInv, ChainInv, Answers
    <2>5. QED
      BY <2>2, <2>3, <2>4 DEF IInv
  <1>6. QED
    BY <1>1, <1>2, <1>3, <1>4, <1>5 DEF SessionNext

\* Whatever is called, lost or reset, every reachable state satisfies the invariant.
THEOREM SessionInvariant == SessionSpec => []IInv
  <1>1. SessionInit => IInv
    BY InvInit
  <1>2. IInv /\ [SessionNext]_sessionVars => IInv'
    BY InvStep
  <1>3. QED
    BY <1>1, <1>2, PTL DEF SessionSpec

\* The variables of both service layers, the stacks and the PDUs on the air keep
\* their types.
THEOREM SessionTypes == SessionSpec => []SessionTypeOK
  <1>1. ASSUME IInv PROVE SessionTypeOK
    <2>1. /\ \A d \in Device : \A i \in 1 .. Len(events[d]) : events[d][i] \in Event
      BY <1>1, LenProperties, ElementOfSeq DEF IInv, Types
    <2>2. /\ \A i \in 1 .. Len(toServer) : toServer[i] \in ClientPdu
          /\ \A i \in 1 .. Len(toClient) : toClient[i] \in ServerPdu
      BY <1>1 DEF IInv, RouteInv, Only
    <2>3. QED
      BY <1>1, <2>1, <2>2 DEF IInv, Types, SessionTypeOK, LinkTypeOK
  <1>2. QED
    BY <1>1, SessionInvariant, PTL

\* A busy flag of either stack is backed by exactly one message on its way: no
\* handler of service_client.c or service_server.c forgets to confirm or to reply.
THEOREM BusyBacked == SessionSpec => []BusyIsBacked
  <1>1. IInv => BusyIsBacked
    BY DEF IInv, AirInv, Requests, Indications, Asked, Shown, Answered, BusyIsBacked
  <1>2. QED
    BY <1>1, SessionInvariant, PTL

\* In a quiet moment all four queues are free of indications and requests.
LEMMA QuietIsEmpty ==
    ASSUME IInv, Quiet
    PROVE  /\ Only(toClient, None({"hvx"})) /\ Only(events[Client], None({"hvx"}))
           /\ Only(toServer, None(Asked)) /\ Only(events[Server], None(Shown))
           /\ events[Client] = <<>>
  <1>1. Base /\ linkUp /\ ~hvxBusy /\ ~requestBusy
    BY BaseHolds DEF Quiet
  <1>2. Indications = 0 /\ Requests = 0
    BY <1>1 DEF IInv, AirInv
  <1>3. Tokens(toClient, {"hvx"}) = 0 /\ Tokens(events[Client], {"hvx"}) = 0
    <2>1. /\ Tokens(toClient, {"hvx"}) \in Nat /\ Tokens(events[Client], {"hvx"}) \in Nat
          /\ Tokens(toServer, {"confirm"}) \in Nat
      BY BaseHolds
    <2>2. QED
      BY <1>2, <2>1 DEF Indications
  <1>4. Tokens(toServer, Asked) = 0 /\ Tokens(events[Server], Shown) = 0
    BY <1>2, BaseHolds DEF Requests
  <1>5. /\ Only(toClient, None({"hvx"})) /\ Only(events[Client], None({"hvx"}))
        /\ Only(toServer, None(Asked)) /\ Only(events[Server], None(Shown))
    <2>1. Only(toClient, None({"hvx"})) /\ Only(events[Client], None({"hvx"}))
      BY <1>1, <1>3, NoTokens DEF Base
    <2>2. Only(toServer, None(Asked)) /\ Only(events[Server], None(Shown))
      BY <1>1, <1>4, NoTokens DEF Base
    <2>3. QED
      BY <2>1, <2>2
  <1>6. QED
    BY <1>1, <1>5 DEF Base, Quiet

\* When nothing is under way, no score that was sent has not arrived.
LEMMA QuietAgreed == IInv => QuietMeansAgreed
  <1>1. ASSUME IInv, Quiet
        PROVE  /\ told /\ ~Publishing(Server) => serverScoreView = serverScore
               /\ written # Nothing /\ ~Publishing(Client) => clientScore = written
    <2>1. \A kinds : None({"hvx"}) \subseteq kinds
              => Only(toClient, kinds) /\ Only(events[Client], kinds)
      BY <1>1, QuietIsEmpty, OnlyMore
    <2>2. Only(toClient, NoScore) /\ Only(events[Client], NoScore)
      BY <2>1 DEF None, NoScore, IsScore
    <2>3. Only(toServer, None({"write"})) /\ Only(events[Server], None({"write"}))
      <3>1. None(Asked) \subseteq None({"write"}) /\ None(Shown) \subseteq None({"write"})
        BY DEF None, Asked, Shown
      <3>2. QED
        BY <1>1, <3>1, QuietIsEmpty, OnlyMore
    <2>4. QED
      BY <1>1, <2>2, <2>3 DEF IInv, ToldInv, WrittenInv, Quiet
  <1>2. QED
    BY <1>1 DEF QuietMeansAgreed

\* When nothing is under way both devices agree on both scores, however the sends
\* of their main loops and interrupts were interleaved.
THEOREM QuietAgreement == SessionSpec => []QuietMeansAgreed
  BY QuietAgreed, SessionInvariant, PTL

\* Unless the client has written a score meanwhile, a quiet session has read every
\* attribute: no link of the chain of reads is dropped on a busy stack.
THEOREM ChainRead == SessionSpec => []ChainIsRead
  <1>1. ASSUME IInv, Quiet, clientState = "CONNECTED", written = Nothing
        PROVE  readHere = Attribute
    <2>1. handle[Client]
      BY <1>1 DEF IInv, StateInv
    <2>2. Answers = 0
      BY <1>1, QuietIsEmpty, TokensEmpty DEF Answers
    <2>3. QED
      BY <1>1, <2>1, <2>2 DEF IInv, ChainInv, Quiet
  <1>2. IInv => ChainIsRead
    BY <1>1 DEF ChainIsRead
  <1>3. QED
    BY <1>2, SessionInvariant, PTL

=============================================================================
