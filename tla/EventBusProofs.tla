--------------------------- MODULE EventBusProofs ---------------------------
(***************************************************************************)
(* Theorems about EventBus, for any channels, patterns, handlers, calls,   *)
(* events and lost connections.                                            *)
(***************************************************************************)
EXTENDS EventBus, SequenceTheorems, FiniteSetTheorems, TLAPS

(* What a call asked for: a topic of its kind, and a handler to register.  *)
AskedWith(rec) ==
  \/ rec.op = "subscribe" /\ rec.topic \in Channels /\ rec.handler \in Listeners
  \/ rec.op = "subscribePattern" /\ rec.topic \in Patterns /\ rec.handler \in Listeners
  \/ rec.op = "unsubscribe" /\ rec.topic \in Channels

Asked(c) ==
  \/ bus[c] = NoRequest
  \/ bus[c].pc # "idle" /\ AskedWith(bus[c])

CallsOK == BusTypeOK /\ \A c \in Requests : Asked(c)

(* Each command stands for its call, which waits for the answer as long as *)
(* the service is up.                                                      *)
Stands(i) ==
  LET cmd == commands[i]
  IN  /\ cmd.kind # "quit" =>
           /\ bus[cmd.by].topic = cmd.topic
           /\ bus[cmd.by].pc # "idle"
           /\ cmd.kind = "unsubscribe" <=> bus[cmd.by].op = "unsubscribe"
      /\ isInitialized = "up" => cmd.kind # "quit" /\ bus[cmd.by].pc = "sent"

CommandsStand ==
  /\ \A i \in DOMAIN commands : Stands(i)
  /\ isInitialized = "up" =>
       \A i, j \in DOMAIN commands : commands[i].by = commands[j].by => i = j

Sent(kind, t, i) ==
  i \in DOMAIN commands /\ commands[i].kind = kind /\ commands[i].topic = t

(* There are handlers of t, or there is one to register.                   *)
Wanted(t) ==
  \/ subscribers[t] # {}
  \/ \E c \in Requests :
       bus[c].pc = "answered" /\ bus[c].op # "unsubscribe" /\ bus[c].topic = t

(* What is wanted is subscribed, and stays so: no command to give it up is *)
(* on its way, and those that were go before every later subscription.     *)
Kept(t) ==
  /\ Wanted(t) =>
       /\ t \in known /\ t \in channels
       /\ \A i \in DOMAIN commands : ~Sent("unsubscribe", t, i)
  /\ \A i, j \in DOMAIN commands :
       Sent("unsubscribe", t, i) /\ Sent("subscribe", t, j) => i < j
  /\ \A i \in DOMAIN commands :
       Sent("subscribe", t, i) /\ i <= executed => t \in channels

Subscriptions == isInitialized = "up" => \A t \in Topics \ crossed : Kept(t)

(* No handler has been given an event that comes after one still to come.  *)
Forward ==
  /\ \A i \in DOMAIN pushed : pushed[i].event <= Len(published)
  /\ \A i, j \in DOMAIN pushed : i < j => pushed[i].event <= pushed[j].event
  /\ \A h \in Listeners : \A k \in DOMAIN received[h] :
       /\ received[h][k] \in 1..Len(published)
       /\ \A i \in DOMAIN pushed : received[h][k] <= pushed[i].event

NoPatternCalls == \A c \in Requests : bus[c].op # "subscribePattern"

(* Without patterns there is no second copy of an event.                   *)
Once ==
  NoPatternCalls =>
    /\ \A p \in Patterns : subscribers[p] = {} /\ p \notin channels /\ p \notin known
    /\ \A i, j \in DOMAIN pushed : i < j => pushed[i].event < pushed[j].event
    /\ \A h \in Listeners : \A k \in DOMAIN received[h] :
         /\ \A j \in DOMAIN received[h] : k < j => received[h][k] < received[h][j]
         /\ \A i \in DOMAIN pushed : received[h][k] < pushed[i].event

BusInv == CallsOK /\ CommandsStand /\ Subscriptions /\ Forward /\ Once

-----------------------------------------------------------------------------
(* Sequences.                                                              *)

LEMMA FunctionSeq ==
  ASSUME NEW S, NEW n \in Nat, NEW f \in [1..n -> S]
  PROVE  f \in Seq(S) /\ Len(f) = n /\ DOMAIN f = 1..n
<1>1. f \in Seq(S)
  BY SeqDef
<1>2. QED
  BY <1>1, LenProperties

LEMMA Repeated ==
  ASSUME NEW S, NEW s \in Seq(S), NEW n \in Nat, NEW x \in S
  PROVE  LET r == s \o [i \in 1..n |-> x]
         IN  /\ r \in Seq(S) /\ Len(r) = Len(s) + n /\ DOMAIN r = 1..(Len(s) + n)
             /\ \A i \in DOMAIN r : r[i] = IF i <= Len(s) THEN s[i] ELSE x
<1> DEFINE f == [i \in 1..n |-> x]
<1>1. f \in [1..n -> S]
  OBVIOUS
<1>2. f \in Seq(S) /\ Len(f) = n
  BY <1>1, FunctionSeq
<1> HIDE DEF f
<1>3. /\ s \o f \in Seq(S) /\ Len(s \o f) = Len(s) + n
      /\ \A i \in 1..(Len(s) + n) : (s \o f)[i] = IF i <= Len(s) THEN s[i] ELSE f[i - Len(s)]
  BY <1>2, ConcatProperties
<1>4. DOMAIN (s \o f) = 1..(Len(s) + n)
  BY <1>3, LenProperties
<1>5. ASSUME NEW i \in 1..(Len(s) + n), ~(i <= Len(s)) PROVE f[i - Len(s)] = x
  BY <1>5, LenProperties DEF f
<1>6. QED
  BY <1>3, <1>4, <1>5 DEF f

LEMMA TailSeq ==
  ASSUME NEW S, NEW s \in Seq(S), s # <<>>
  PROVE  /\ Head(s) \in S /\ Head(s) = s[1] /\ 1 \in DOMAIN s
         /\ Tail(s) \in Seq(S) /\ Len(s) \in Nat /\ Len(s) > 0
         /\ Len(Tail(s)) = Len(s) - 1
         /\ \A i \in DOMAIN Tail(s) : i + 1 \in DOMAIN s /\ Tail(s)[i] = s[i + 1]
<1>1. /\ Len(s) \in Nat /\ Len(s) > 0 /\ DOMAIN s = 1..Len(s)
      /\ DOMAIN Tail(s) = 1..Len(Tail(s)) /\ Tail(s) \in Seq(S)
      /\ Len(Tail(s)) = Len(s) - 1
      /\ \A i \in 1..Len(Tail(s)) : Tail(s)[i] = s[i + 1]
  BY HeadTailProperties, LenProperties, EmptySeq
<1>2. QED
  BY <1>1, HeadTailProperties

LEMMA AppendSeq ==
  ASSUME NEW S, NEW s \in Seq(S), NEW x \in S
  PROVE  /\ Append(s, x) \in Seq(S) /\ Len(s) \in Nat
         /\ Len(Append(s, x)) = Len(s) + 1 /\ DOMAIN s = 1..Len(s)
         /\ DOMAIN Append(s, x) = 1..(Len(s) + 1)
         /\ \A i \in DOMAIN Append(s, x) :
              Append(s, x)[i] = IF i \in DOMAIN s THEN s[i] ELSE x
<1>1. /\ Append(s, x) \in Seq(S) /\ Len(s) \in Nat /\ DOMAIN s = 1..Len(s)
      /\ Len(Append(s, x)) = Len(s) + 1
      /\ \A i \in 1..Len(s) : Append(s, x)[i] = s[i]
      /\ Append(s, x)[Len(s) + 1] = x
  BY AppendProperties, LenProperties
<1>2. DOMAIN Append(s, x) = 1..(Len(s) + 1)
  BY <1>1, LenProperties
<1>3. QED
  BY <1>1, <1>2

-----------------------------------------------------------------------------
(* The state that a step finds and leaves has the types.                   *)

LEMMA CommandTypes ==
  /\ \A cmd \in Command :
       /\ cmd.kind \in {"subscribe", "unsubscribe", "quit"}
       /\ cmd.kind # "quit" => cmd.topic \in Topics /\ cmd.by \in Requests
       /\ cmd.kind = "quit" => cmd.topic \notin Topics
  /\ \A t \in Topics, c \in Requests :
       /\ [kind |-> "subscribe", topic |-> t, by |-> c] \in Command
       /\ [kind |-> "unsubscribe", topic |-> t, by |-> c] \in Command
  /\ [kind |-> "quit", topic |-> Nobody, by |-> Nobody] \in Command
BY BusAssumption DEF Command

LEMMA DoneType ==
  ASSUME NEW rec \in BusRequest, NEW ok \in BOOLEAN
  PROVE  /\ Done(rec, ok) \in BusRequest
         /\ Done(rec, ok).op = rec.op /\ Done(rec, ok).topic = rec.topic
         /\ Done(rec, ok).handler = rec.handler /\ Done(rec, ok).pc = "done"
BY DEF Done, BusRequest

LEMMA AskedIsTyped ==
  ASSUME CallsOK, NEW c \in Requests
  PROVE  /\ bus[c] \in BusRequest /\ Asked(c)
         /\ bus[c].pc = "idle" => bus[c] = NoRequest
         /\ bus[c].pc # "idle" => bus[c].topic \in Topics
BY DEF CallsOK, BusTypeOK, Asked, AskedWith, Topics, NoRequest

LEMMA CopiesNat ==
  ASSUME NEW ch PROVE Copies(ch) \in Nat
<1>1. IsFiniteSet(Hearing(ch))
  BY FS_Subset, BusAssumption DEF Hearing
<1>2. QED
  BY <1>1, FS_CardinalityType DEF Copies

LEMMA CalledNat ==
  ASSUME NEW h, NEW ch
  PROVE  /\ Called(h, ch) \in Nat
         /\ Called(h, ch) > 0 <=> \E t \in Patterns \cup {ch} : h \in subscribers[t]
<1> DEFINE T == {t \in Patterns \cup {ch} : h \in subscribers[t]}
<1>1. IsFiniteSet(Patterns \cup {ch})
  BY FS_AddElement, BusAssumption
<1>2. IsFiniteSet(T)
  BY <1>1, FS_Subset
<1>3. Cardinality(T) \in Nat /\ (Cardinality(T) = 0 <=> T = {})
  BY <1>2, FS_CardinalityType, FS_EmptySet
<1>4. QED
  BY <1>3 DEF Called

LEMMA TakeAnswer_Type ==
  ASSUME BusTypeOK, TakeAnswer
  PROVE  /\ commands # <<>> /\ Head(commands) \in Command /\ executed > 0
         /\ commands' \in Seq(Command) /\ executed' \in 0..Len(commands')
         /\ pushed' \in Seq(Event)
         /\ Len(pushed') = Len(pushed) /\ DOMAIN pushed' = DOMAIN pushed
         /\ \A i \in DOMAIN pushed : pushed'[i].event = pushed[i].event
<1>1. /\ commands # <<>> /\ executed > 0 /\ executed \in Nat
  BY LenProperties, EmptySeq DEF BusTypeOK, TakeAnswer, AnswerNext
<1>2. Head(commands) \in Command /\ commands' \in Seq(Command) /\ Len(commands') = Len(commands) - 1
  BY <1>1, TailSeq DEF BusTypeOK, TakeAnswer
<1>3. executed' \in 0..Len(commands')
  BY <1>1, <1>2, LenProperties DEF BusTypeOK, TakeAnswer
<1>4. /\ pushed \in Seq(Event) /\ Len(pushed) \in Nat /\ DOMAIN pushed = 1..Len(pushed)
      /\ \A i \in DOMAIN pushed : pushed[i] \in Event /\ pushed[i].behind > 0
  BY LenProperties, ElementOfSeq DEF BusTypeOK, TakeAnswer, AnswerNext
<1>5. \A i \in DOMAIN pushed :
        /\ [pushed[i] EXCEPT !.behind = @ - 1] \in Event
        /\ [pushed[i] EXCEPT !.behind = @ - 1].event = pushed[i].event
  BY <1>4 DEF Event
<1>6. pushed' \in [1..Len(pushed) -> Event]
  BY <1>4, <1>5 DEF TakeAnswer
<1>7. pushed' \in Seq(Event) /\ Len(pushed') = Len(pushed) /\ DOMAIN pushed' = DOMAIN pushed
  BY <1>4, <1>6, FunctionSeq
<1>8. QED
  BY <1>1, <1>2, <1>3, <1>5, <1>7 DEF TakeAnswer

LEMMA AskedFor ==
  /\ \A ch \in Channels, h \in Listeners :
       [NoRequest EXCEPT !.op = "subscribe", !.topic = ch, !.handler = h] \in BusRequest
  /\ \A p \in Patterns, h \in Listeners :
       [NoRequest EXCEPT !.op = "subscribePattern", !.topic = p, !.handler = h] \in BusRequest
  /\ \A ch \in Channels, h \in Listeners \cup {Nobody} :
       [NoRequest EXCEPT !.op = "unsubscribe", !.topic = ch, !.handler = h] \in BusRequest
  /\ NoRequest \in BusRequest
BY DEF NoRequest, BusRequest, RequestOp, Topics

(* A call that is made and goes as far as its await, or returns.           *)
Made(c, rec) ==
  /\ bus[c].pc = "idle" /\ bus' = [bus EXCEPT ![c] = rec]
  /\ AskedWith(rec)
  /\ \/ rec.pc = "done" /\ UNCHANGED <<commands, crossed>>
     \/ /\ rec.pc = "sent" /\ isInitialized = "up" /\ rec.op # "unsubscribe"
        /\ Send("subscribe", rec.topic, c) /\ UNCHANGED crossed
     \/ /\ rec.pc = "sent" /\ isInitialized = "up" /\ rec.op = "unsubscribe"
        /\ Send("unsubscribe", rec.topic, c)
        /\ subscribers'[rec.topic] = {}
        /\ crossed \subseteq crossed' /\ crossed' \subseteq Channels
        /\ \A s \in Requests :
             bus[s].op = "subscribe" /\ bus[s].topic = rec.topic /\ Underway(s) =>
               rec.topic \in crossed'
  /\ subscribers' \in [Topics -> SUBSET Listeners]
  /\ \A t \in Topics : subscribers'[t] \subseteq subscribers[t]
  /\ UNCHANGED <<isInitialized, executed, pushed, channels, known, published,
                 received, drops>>

LEMMA SubscribeMade ==
  ASSUME CallsOK, NEW c \in Requests, NEW rec \in BusRequest, Ask(c, rec),
         AskedWith(rec), rec.op # "unsubscribe"
  PROVE  \E new \in BusRequest : Made(c, new)
<1>1. bus[c].pc = "idle" /\ subscribers' = subscribers /\ crossed' = crossed
  BY DEF Ask, IsNext
<1>2. UNCHANGED <<isInitialized, executed, pushed, channels, known, published,
                  received, drops>>
  BY DEF Ask
<1>3. subscribers' \in [Topics -> SUBSET Listeners]
  BY <1>1 DEF CallsOK, BusTypeOK
<1>4. CASE isInitialized = "up"
  <2> DEFINE new == [rec EXCEPT !.pc = "sent"]
  <2>1. /\ new \in BusRequest /\ new.pc = "sent" /\ new.op = rec.op
        /\ new.topic = rec.topic /\ new.handler = rec.handler
    BY DEF BusRequest
  <2>2. bus' = [bus EXCEPT ![c] = new] /\ Send("subscribe", new.topic, c)
    BY <1>4, <2>1 DEF Ask
  <2> HIDE DEF new
  <2>3. Made(c, new)
    BY <1>1, <1>2, <1>3, <1>4, <2>1, <2>2 DEF Made, AskedWith
  <2>4. QED
    BY <2>1, <2>3
<1>5. CASE isInitialized # "up"
  <2> DEFINE new == Done(rec, isInitialized = "down")
  <2>1. /\ new \in BusRequest /\ new.pc = "done" /\ new.op = rec.op
        /\ new.topic = rec.topic /\ new.handler = rec.handler
    BY DoneType
  <2>2. bus' = [bus EXCEPT ![c] = new] /\ UNCHANGED commands
    BY <1>5 DEF Ask
  <2> HIDE DEF new
  <2>3. Made(c, new)
    BY <1>1, <1>2, <1>3, <2>1, <2>2 DEF Made, AskedWith
  <2>4. QED
    BY <2>1, <2>3
<1>6. QED
  BY <1>4, <1>5

LEMMA UnsubscribeMade ==
  ASSUME CallsOK, NEW c \in Requests, Unsubscribe(c)
  PROVE  \E new \in BusRequest : Made(c, new)
<1> DEFINE asked(ch, h) == [NoRequest EXCEPT !.op = "unsubscribe", !.topic = ch, !.handler = h]
<1>1. PICK ch \in Channels, h \in Listeners \cup {Nobody} :
        /\ IsNext(c)
        /\ subscribers' =
             IF isInitialized = "down" THEN subscribers
             ELSE [subscribers EXCEPT ![ch] = IF h = Nobody THEN {} ELSE @ \ {h}]
        /\ IF isInitialized = "up" /\ GivesUp(ch, h)
             THEN /\ bus' = [bus EXCEPT ![c] = [asked(ch, h) EXCEPT !.pc = "sent"]]
                  /\ Send("unsubscribe", ch, c)
                  /\ crossed' = crossed \cup
                       {x \in {ch} : \E s \in Requests :
                          /\ bus[s].op = "subscribe" /\ bus[s].topic = x
                          /\ Underway(s)}
             ELSE /\ bus' = [bus EXCEPT ![c] = Done(asked(ch, h), TRUE)]
                  /\ UNCHANGED <<commands, crossed>>
        /\ UNCHANGED <<isInitialized, executed, pushed, channels, known,
                       published, received, drops>>
  BY DEF Unsubscribe
<1> DEFINE rec == asked(ch, h)
<1>2. rec \in BusRequest /\ rec.op = "unsubscribe" /\ rec.topic = ch
  BY AskedFor DEF NoRequest
<1>3. /\ subscribers' \in [Topics -> SUBSET Listeners]
      /\ \A t \in Topics : subscribers'[t] \subseteq subscribers[t]
  BY <1>1 DEF CallsOK, BusTypeOK
<1>4. bus[c].pc = "idle" /\ crossed \subseteq Channels /\ ch \in Topics
  BY <1>1 DEF IsNext, CallsOK, BusTypeOK, Topics
<1>5. UNCHANGED <<isInitialized, executed, pushed, channels, known, published,
                  received, drops>>
  BY <1>1
<1>6. CASE isInitialized = "up" /\ GivesUp(ch, h)
  <2> DEFINE new == [rec EXCEPT !.pc = "sent"]
  <2>1. new \in BusRequest /\ new.pc = "sent" /\ new.op = "unsubscribe" /\ new.topic = ch
    BY <1>2 DEF BusRequest
  <2>2. /\ bus' = [bus EXCEPT ![c] = new] /\ Send("unsubscribe", ch, c)
        /\ crossed \subseteq crossed' /\ crossed' \subseteq Channels
        /\ \A s \in Requests :
             bus[s].op = "subscribe" /\ bus[s].topic = ch /\ Underway(s) => ch \in crossed'
    BY <1>1, <1>4, <1>6
  <2>3. subscribers'[ch] = {}
    BY <1>1, <1>4, <1>6 DEF GivesUp, CallsOK, BusTypeOK
  <2> HIDE DEF new
  <2>4. Made(c, new)
    BY <1>3, <1>4, <1>5, <1>6, <2>1, <2>2, <2>3 DEF Made, AskedWith
  <2>5. QED
    BY <2>1, <2>4
<1>7. CASE ~(isInitialized = "up" /\ GivesUp(ch, h))
  <2> DEFINE new == Done(rec, TRUE)
  <2>1. new \in BusRequest /\ new.pc = "done" /\ new.op = "unsubscribe" /\ new.topic = ch
    BY <1>2, DoneType
  <2>2. bus' = [bus EXCEPT ![c] = new] /\ UNCHANGED <<commands, crossed>>
    BY <1>1, <1>7
  <2> HIDE DEF new
  <2>3. Made(c, new)
    BY <1>3, <1>4, <1>5, <2>1, <2>2 DEF Made, AskedWith
  <2>4. QED
    BY <2>1, <2>3
<1>8. QED
  BY <1>6, <1>7

LEMMA CallsMade ==
  ASSUME CallsOK, NEW c \in Requests, Subscribe(c) \/ SubscribePattern(c) \/ Unsubscribe(c)
  PROVE  \E new \in BusRequest : Made(c, new)
<1>1. CASE Subscribe(c)
  <2>1. PICK ch \in Channels, h \in Listeners :
          Ask(c, [NoRequest EXCEPT !.op = "subscribe", !.topic = ch, !.handler = h])
    BY <1>1 DEF Subscribe
  <2> DEFINE rec == [NoRequest EXCEPT !.op = "subscribe", !.topic = ch, !.handler = h]
  <2>2. rec \in BusRequest /\ AskedWith(rec) /\ rec.op # "unsubscribe" /\ Ask(c, rec)
    BY <2>1, AskedFor DEF NoRequest, AskedWith
  <2> HIDE DEF rec
  <2>3. QED
    BY <2>2, SubscribeMade
<1>2. CASE SubscribePattern(c)
  <2>1. PICK p \in Patterns, h \in Listeners :
          Ask(c, [NoRequest EXCEPT !.op = "subscribePattern", !.topic = p, !.handler = h])
    BY <1>2 DEF SubscribePattern
  <2> DEFINE rec == [NoRequest EXCEPT !.op = "subscribePattern", !.topic = p, !.handler = h]
  <2>2. rec \in BusRequest /\ AskedWith(rec) /\ rec.op # "unsubscribe" /\ Ask(c, rec)
    BY <2>1, AskedFor DEF NoRequest, AskedWith
  <2> HIDE DEF rec
  <2>3. QED
    BY <2>2, SubscribeMade
<1>3. QED
  BY <1>1, <1>2, UnsubscribeMade

LEMMA Made_Calls ==
  ASSUME CallsOK, NEW c \in Requests, NEW rec \in BusRequest, Made(c, rec)
  PROVE  CallsOK'
<1>1. /\ bus' \in [Requests -> BusRequest]
      /\ crossed' \subseteq Channels /\ subscribers' \in [Topics -> SUBSET Listeners]
  BY DEF Made, CallsOK, BusTypeOK
<1>2. commands' \in Seq(Command) /\ executed' \in 0..Len(commands')
  <2>1. CASE UNCHANGED commands
    BY <2>1 DEF Made, CallsOK, BusTypeOK
  <2>2. ASSUME NEW k \in {"subscribe", "unsubscribe"}, Send(k, rec.topic, c)
        PROVE  commands' \in Seq(Command) /\ executed' \in 0..Len(commands')
    <3>1. [kind |-> k, topic |-> rec.topic, by |-> c] \in Command
      BY CommandTypes DEF Made, AskedWith, Topics
    <3>2. QED
      BY <2>2, <3>1, AppendSeq DEF Send, Made, CallsOK, BusTypeOK
  <2>3. QED
    BY <2>1, <2>2 DEF Made
<1>3. BusTypeOK'
  BY <1>1, <1>2 DEF Made, CallsOK, BusTypeOK
<1>4. ASSUME NEW b \in Requests PROVE Asked(b)'
  BY DEF Made, AskedWith, CallsOK, BusTypeOK, Asked
<1>5. QED
  BY <1>3, <1>4 DEF CallsOK

LEMMA Resume_Calls ==
  ASSUME CallsOK, NEW c \in Requests, Resume(c)
  PROVE  CallsOK'
<1> DEFINE new == Done(bus[c], TRUE)
<1>1. bus[c] \in BusRequest /\ AskedWith(bus[c])
  BY AskedIsTyped DEF Resume, Asked, AskedWith, NoRequest
<1>2. /\ new \in BusRequest /\ new.pc # "idle" /\ new.op = bus[c].op
      /\ new.topic = bus[c].topic /\ new.handler = bus[c].handler
  BY <1>1, DoneType
<1>3. subscribers' \in [Topics -> SUBSET Listeners]
  BY <1>1 DEF Resume, AskedWith, Topics, CallsOK, BusTypeOK
<1>4. bus' = [bus EXCEPT ![c] = new]
  BY DEF Resume
<1> HIDE DEF new
<1>5. BusTypeOK'
  BY <1>2, <1>3, <1>4 DEF Resume, CallsOK, BusTypeOK
<1>6. ASSUME NEW b \in Requests PROVE Asked(b)'
  BY <1>1, <1>2, <1>4 DEF AskedWith, CallsOK, BusTypeOK, Asked
<1>7. QED
  BY <1>5, <1>6 DEF CallsOK

LEMMA Redis_Calls ==
  ASSUME CallsOK, CommandsStand, Execute \/ Publish \/ ReadAnswer \/ HandleMessage
  PROVE  CallsOK'
<1>1. CASE Execute
  <2>1. /\ Len(commands) \in Nat /\ executed \in Nat /\ executed < Len(commands)
        /\ commands[executed + 1] \in Command
    BY <1>1, LenProperties, ElementOfSeq DEF Execute, CallsOK, BusTypeOK
  <2>2. executed' \in 0..Len(commands') /\ channels' \subseteq Topics
    BY <1>1, <2>1, CommandTypes DEF Execute, After, CallsOK, BusTypeOK
  <2>3. QED
    BY <1>1, <2>2 DEF Execute, CallsOK, BusTypeOK, Asked, AskedWith
<1>2. CASE Publish
  <2>1. PICK ch \in Channels :
          /\ published' = Append(published, ch)
          /\ pushed' = pushed \o [i \in 1..Copies(ch) |->
               [event |-> Len(published) + 1, behind |-> executed]]
    BY <1>2 DEF Publish
  <2>2. published' \in Seq(Channels) /\ Len(published) \in Nat
    BY <2>1, AppendSeq DEF CallsOK, BusTypeOK
  <2>3. [event |-> Len(published) + 1, behind |-> executed] \in Event
    BY <2>2 DEF Event, CallsOK, BusTypeOK
  <2>4. pushed' \in Seq(Event)
    <3> DEFINE new == [event |-> Len(published) + 1, behind |-> executed]
    <3>1. pushed \in Seq(Event) /\ Copies(ch) \in Nat /\ new \in Event
      BY <2>3, CopiesNat DEF CallsOK, BusTypeOK
    <3>2. pushed' = pushed \o [i \in 1..Copies(ch) |-> new]
      BY <2>1
    <3> HIDE DEF new
    <3>3. QED
      BY <3>1, <3>2, Repeated
  <2>5. QED
    BY <1>2, <2>2, <2>4 DEF Publish, CallsOK, BusTypeOK, Asked, AskedWith
<1>3. CASE ReadAnswer
  <2>1. /\ commands' \in Seq(Command) /\ executed' \in 0..Len(commands')
        /\ pushed' \in Seq(Event) /\ Head(commands) \in Command
    BY <1>3, TakeAnswer_Type DEF ReadAnswer, CallsOK
  <2> DEFINE by == Head(commands).by
  <2>2. /\ by \in Requests /\ Head(commands).topic \in Topics
        /\ bus' = [bus EXCEPT ![by].pc = "answered"]
        /\ known' = After(known, Head(commands))
    BY <1>3, <2>1, CommandTypes DEF ReadAnswer
  <2>3. known' \subseteq Topics
    BY <2>1, <2>2, CommandTypes DEF After, CallsOK, BusTypeOK
  <2>4. bus' \in [Requests -> BusRequest]
    BY <2>2 DEF CallsOK, BusTypeOK, BusRequest
  <2>5. bus[by].pc # "idle" /\ bus[by] # NoRequest
    <3>1. Head(commands) = commands[1] /\ 1 \in DOMAIN commands
      BY <1>3, TakeAnswer_Type, TailSeq DEF ReadAnswer, CallsOK, BusTypeOK
    <3>2. QED
      BY <1>3, <3>1 DEF ReadAnswer, CommandsStand, Stands, NoRequest
  <2>6. ASSUME NEW c \in Requests PROVE Asked(c)'
    <3>1. Asked(c)
      BY DEF CallsOK
    <3>2. CASE c # by
      BY <2>2, <3>1, <3>2 DEF Asked, AskedWith, CallsOK, BusTypeOK
    <3>3. CASE c = by
      <4>1. /\ bus'[c].op = bus[c].op /\ bus'[c].topic = bus[c].topic
            /\ bus'[c].handler = bus[c].handler /\ bus'[c].pc = "answered"
        BY <2>2, <3>3 DEF CallsOK, BusTypeOK, BusRequest
      <4>2. QED
        BY <2>5, <3>1, <3>3, <4>1 DEF Asked, AskedWith
    <3>4. QED
      BY <3>2, <3>3
  <2>7. BusTypeOK'
    BY <1>3, <2>1, <2>3, <2>4 DEF ReadAnswer, CallsOK, BusTypeOK
  <2>8. QED
    BY <2>6, <2>7 DEF CallsOK
<1>4. CASE HandleMessage
  <2> DEFINE n == Head(pushed).event
  <2>1. /\ pushed' \in Seq(Event) /\ Head(pushed) \in Event
    BY <1>4, TailSeq DEF HandleMessage, CallsOK, BusTypeOK
  <2>2. n \in Nat
    BY <2>1 DEF Event
  <2>3. ASSUME NEW h \in Listeners
        PROVE  received[h] \o [i \in 1..Called(h, published[n]) |-> n] \in Seq(Nat)
    <3>1. received[h] \in Seq(Nat) /\ Called(h, published[n]) \in Nat
      BY CalledNat DEF CallsOK, BusTypeOK
    <3> HIDE DEF n
    <3>2. QED
      BY <2>2, <3>1, Repeated
  <2>4. received' \in [Listeners -> Seq(Nat)]
    BY <1>4, <2>3 DEF HandleMessage
  <2>5. QED
    BY <1>4, <2>1, <2>4 DEF HandleMessage, CallsOK, BusTypeOK, Asked, AskedWith
<1>5. QED
  BY <1>1, <1>2, <1>3, <1>4

LEMMA Connection_Calls ==
  ASSUME CallsOK, BeginCleanup \/ EndCleanup \/ Reconnect
  PROVE  CallsOK'
<1>1. CASE BeginCleanup
  <2>1. commands' \in Seq(Command) /\ executed' \in 0..Len(commands')
    BY <1>1, CommandTypes, AppendSeq DEF BeginCleanup, Send, CallsOK, BusTypeOK
  <2>2. QED
    BY <1>1, <2>1 DEF BeginCleanup, CallsOK, BusTypeOK, Asked, AskedWith
<1>2. CASE EndCleanup
  <2>1. /\ commands' \in Seq(Command) /\ executed' \in 0..Len(commands')
        /\ pushed' \in Seq(Event)
    BY <1>2, TakeAnswer_Type DEF EndCleanup, CallsOK
  <2>2. QED
    BY <1>2, <2>1 DEF EndCleanup, CallsOK, BusTypeOK, Asked, AskedWith
<1>3. CASE Reconnect
  <2>1. /\ commands' \in Seq(Command) /\ executed' \in 0..Len(commands')
        /\ pushed' \in Seq(Event)
    <3>1. pushed' \in Seq(Event)
      BY <1>3, EmptySeq DEF Reconnect
    <3>2. commands' \in Seq(Command)
      BY <1>3, EmptySeq DEF Reconnect, Unanswered, CallsOK, BusTypeOK
    <3>3. executed' = 0 /\ Len(commands') \in Nat
      BY <1>3, <3>2, LenProperties DEF Reconnect
    <3>4. QED
      BY <3>1, <3>2, <3>3
  <2>2. drops' \in 0..MaxDrops
    BY <1>3, BusAssumption DEF Reconnect, CallsOK, BusTypeOK
  <2>3. ASSUME NEW c \in Requests
        PROVE  /\ bus'[c] \in BusRequest /\ Asked(c)'
               /\ bus' = [b \in Requests |-> bus'[b]]
    <3>1. bus' = bus \/ bus' = [b \in Requests |->
                IF bus[b].pc = "sent" THEN Done(bus[b], bus[b].op = "unsubscribe") ELSE bus[b]]
      BY <1>3 DEF Reconnect
    <3>2. /\ bus[c] \in BusRequest /\ Asked(c)
          /\ Done(bus[c], bus[c].op = "unsubscribe") \in BusRequest
      BY AskedIsTyped, DoneType
    <3>3. CASE bus' = bus
      BY <3>2, <3>3 DEF Asked, AskedWith, CallsOK, BusTypeOK
    <3>4. CASE bus' # bus
      <4>1. CASE bus[c].pc = "sent"
        <5>1. bus'[c] = Done(bus[c], bus[c].op = "unsubscribe")
          BY <3>1, <3>4, <4>1
        <5>2. /\ bus'[c].op = bus[c].op /\ bus'[c].topic = bus[c].topic
              /\ bus'[c].handler = bus[c].handler /\ bus'[c].pc = "done"
          BY <3>2, <5>1 DEF Done, BusRequest
        <5>3. bus[c] # NoRequest
          BY <4>1 DEF NoRequest
        <5>4. Asked(c)'
          BY <3>2, <5>2, <5>3 DEF Asked, AskedWith
        <5>5. QED
          BY <3>1, <3>2, <3>4, <5>1, <5>4
      <4>2. CASE bus[c].pc # "sent"
        BY <3>1, <3>2, <3>4, <4>2 DEF Asked, AskedWith
      <4>3. QED
        BY <4>1, <4>2
    <3>5. QED
      BY <3>3, <3>4
  <2>4. bus' \in [Requests -> BusRequest]
    <3>1. bus' = [b \in Requests |-> bus'[b]]
      BY <1>3 DEF Reconnect, CallsOK, BusTypeOK
    <3>2. QED
      BY <2>3, <3>1
  <2>5. BusTypeOK'
    BY <1>3, <2>1, <2>2, <2>4 DEF Reconnect, CallsOK, BusTypeOK
  <2>6. QED
    BY <2>3, <2>5 DEF CallsOK
<1>4. QED
  BY <1>1, <1>2, <1>3

LEMMA Next_Calls == ASSUME CallsOK, CommandsStand, [BusNext]_busVars PROVE CallsOK'
<1>1. CASE UNCHANGED busVars
  BY <1>1 DEF busVars, CallsOK, BusTypeOK, Asked, AskedWith
<1>2. QED
  BY <1>1, CallsMade, Made_Calls, Resume_Calls, Redis_Calls, Connection_Calls DEF BusNext
-----------------------------------------------------------------------------
(* Commands and their calls.                                               *)

LEMMA CommandAt ==
  ASSUME CallsOK, NEW i \in DOMAIN commands
  PROVE  /\ commands[i] \in Command
         /\ commands[i].kind \in {"subscribe", "unsubscribe", "quit"}
         /\ commands[i].kind # "quit" => commands[i].topic \in Topics /\ commands[i].by \in Requests
         /\ i \in 1..Len(commands) /\ Len(commands) \in Nat
BY CommandTypes, LenProperties, ElementOfSeq DEF CallsOK, BusTypeOK

LEMMA Made_Commands ==
  ASSUME CallsOK, CommandsStand, NEW c \in Requests, NEW rec \in BusRequest, Made(c, rec)
  PROVE  CommandsStand'
<1>1. /\ bus' = [bus EXCEPT ![c] = rec] /\ bus[c].pc = "idle" /\ isInitialized' = isInitialized
      /\ bus \in [Requests -> BusRequest] /\ rec.pc # "idle"
  BY DEF Made, CallsOK, BusTypeOK
<1>2. ASSUME NEW i \in DOMAIN commands
      PROVE  /\ Stands(i) /\ commands[i].by # c
             /\ isInitialized' = "up" => bus'[commands[i].by].pc = "sent"
             /\ commands[i].kind # "quit" => bus'[commands[i].by] = bus[commands[i].by]
  <2>1. /\ Stands(i) /\ commands[i] \in Command
        /\ commands[i].kind # "quit" => commands[i].by \in Requests
        /\ commands[i].kind = "quit" => commands[i].by = Nobody
    BY CommandAt DEF CommandsStand, Command
  <2>2. commands[i].by # c
    BY <1>1, <2>1, BusAssumption DEF Stands
  <2>3. QED
    BY <1>1, <2>1, <2>2 DEF Stands
<1>3. ASSUME NEW i \in DOMAIN commands
      PROVE  /\ commands[i].kind # "quit" =>
                  /\ bus'[commands[i].by].topic = commands[i].topic
                  /\ bus'[commands[i].by].pc # "idle"
                  /\ commands[i].kind = "unsubscribe" <=> bus'[commands[i].by].op = "unsubscribe"
             /\ isInitialized' = "up" =>
                  commands[i].kind # "quit" /\ bus'[commands[i].by].pc = "sent"
  BY <1>1, <1>2 DEF Stands
<1>4. CASE UNCHANGED commands
  BY <1>1, <1>3, <1>4 DEF CommandsStand, Stands
<1>5. ASSUME NEW k \in {"subscribe", "unsubscribe"}, Send(k, rec.topic, c), rec.pc = "sent",
             k = "unsubscribe" <=> rec.op = "unsubscribe"
      PROVE  CommandsStand'
  <2> DEFINE cmd == [kind |-> k, topic |-> rec.topic, by |-> c]
  <2>1. cmd \in Command
    BY CommandTypes DEF Made, AskedWith, Topics
  <2>2. /\ DOMAIN commands' = 1..(Len(commands) + 1) /\ DOMAIN commands = 1..Len(commands)
        /\ \A i \in DOMAIN commands' :
             commands'[i] = IF i \in DOMAIN commands THEN commands[i] ELSE cmd
    BY <1>5, <2>1, AppendSeq DEF Send, CallsOK, BusTypeOK
  <2>3. Len(commands) \in Nat
    BY LenProperties DEF CallsOK, BusTypeOK
  <2>4. \A i \in DOMAIN commands' : Stands(i)'
    <3>1. /\ bus'[c] = rec /\ cmd.by = c /\ cmd.topic = rec.topic /\ cmd.kind = k
      BY <1>1
    <3> HIDE DEF cmd
    <3>2. ASSUME NEW i \in DOMAIN commands' PROVE Stands(i)'
      BY <1>1, <1>3, <1>5, <2>2, <3>1 DEF Stands
    <3>3. QED
      BY <3>2
  <2>5. isInitialized' = "up" =>
          \A i, j \in DOMAIN commands' : commands'[i].by = commands'[j].by => i = j
    BY <1>1, <1>2, <2>2, <2>3 DEF CommandsStand
  <2>6. QED
    BY <2>4, <2>5 DEF CommandsStand
<1>6. QED
  BY <1>4, <1>5 DEF Made

LEMMA Answered_Commands ==
  ASSUME CallsOK, CommandsStand, TakeAnswer,
         \A c \in Requests : bus'[c].op = bus[c].op /\ bus'[c].topic = bus[c].topic,
         \A c \in Requests : bus[c].pc # "idle" => bus'[c].pc # "idle",
         isInitialized' = "up" =>
           /\ isInitialized = "up"
           /\ \A c \in Requests : c # Head(commands).by => bus'[c].pc = bus[c].pc
  PROVE  CommandsStand'
<1>1. /\ Head(commands) = commands[1] /\ 1 \in DOMAIN commands /\ commands' = Tail(commands)
      /\ \A i \in DOMAIN commands' : i + 1 \in DOMAIN commands /\ commands'[i] = commands[i + 1]
  BY TakeAnswer_Type, TailSeq DEF TakeAnswer, CallsOK, BusTypeOK
<1>2. \A i \in DOMAIN commands' : i \in Nat /\ i > 0
  BY TakeAnswer_Type, LenProperties DEF CallsOK
<1>3. ASSUME NEW i \in DOMAIN commands' PROVE Stands(i)'
  <2>1. /\ i + 1 \in DOMAIN commands /\ commands'[i] = commands[i + 1] /\ Stands(i + 1)
        /\ commands[i + 1].kind # "quit" => commands[i + 1].by \in Requests
    BY <1>1, <1>3, CommandAt DEF CommandsStand
  <2>2. isInitialized = "up" => commands[i + 1].by # commands[1].by
    BY <1>1, <1>2, <2>1 DEF CommandsStand
  <2>3. QED
    BY <1>1, <2>1, <2>2 DEF Stands
<1>4. isInitialized' = "up" =>
        \A i, j \in DOMAIN commands' : commands'[i].by = commands'[j].by => i = j
  BY <1>1, <1>2 DEF CommandsStand
<1>5. QED
  BY <1>3, <1>4 DEF CommandsStand

LEMMA Next_Commands ==
  ASSUME CallsOK, CommandsStand, [BusNext]_busVars PROVE CommandsStand'
<1>1. ASSUME NEW c \in Requests, Resume(c) PROVE CommandsStand'
  <2>1. /\ commands' = commands /\ isInitialized' = isInitialized /\ bus[c].pc = "answered"
        /\ bus' = [bus EXCEPT ![c] = Done(bus[c], TRUE)]
    BY <1>1 DEF Resume
  <2>2. /\ bus[c] \in BusRequest
        /\ \A b \in Requests : bus'[b].op = bus[b].op /\ bus'[b].topic = bus[b].topic
        /\ \A b \in Requests : bus[b].pc # "idle" => bus'[b].pc # "idle"
        /\ \A b \in Requests : bus[b].pc = "sent" => bus'[b].pc = "sent"
    BY <2>1 DEF Done, CallsOK, BusTypeOK, BusRequest
  <2>3. ASSUME NEW i \in DOMAIN commands PROVE Stands(i)'
    <3>1. /\ Stands(i) /\ commands'[i] = commands[i]
          /\ commands[i].kind # "quit" => commands[i].by \in Requests
      BY <2>1, CommandAt DEF CommandsStand
    <3>2. QED
      BY <2>1, <2>2, <3>1 DEF Stands
  <2>4. QED
    BY <2>1, <2>3 DEF CommandsStand
<1>2. CASE \/ Execute \/ Publish \/ HandleMessage \/ UNCHANGED busVars
  <2>1. UNCHANGED <<commands, bus, isInitialized>>
    BY <1>2 DEF Execute, Publish, HandleMessage, busVars
  <2>2. QED
    BY <2>1 DEF CommandsStand, Stands
<1>3. CASE ReadAnswer
  <2> DEFINE by == Head(commands).by
  <2>1. /\ TakeAnswer /\ bus' = [bus EXCEPT ![by].pc = "answered"]
        /\ isInitialized' = isInitialized
    BY <1>3 DEF ReadAnswer
  <2>2. \A b \in Requests :
          /\ bus'[b].op = bus[b].op /\ bus'[b].topic = bus[b].topic
          /\ bus[b].pc # "idle" => bus'[b].pc # "idle"
          /\ b # by => bus'[b].pc = bus[b].pc
    BY <2>1 DEF CallsOK, BusTypeOK, BusRequest
  <2>3. QED
    BY <2>1, <2>2, Answered_Commands
<1>4. CASE BeginCleanup
  <2> DEFINE quit == [kind |-> "quit", topic |-> Nobody, by |-> Nobody]
  <2>1. /\ DOMAIN commands' = 1..(Len(commands) + 1) /\ DOMAIN commands = 1..Len(commands)
        /\ \A i \in DOMAIN commands' :
             commands'[i] = IF i \in DOMAIN commands THEN commands[i] ELSE quit
    BY <1>4, AppendSeq, CommandTypes DEF BeginCleanup, Send, CallsOK, BusTypeOK
  <2>2. isInitialized' # "up" /\ bus' = bus
    BY <1>4 DEF BeginCleanup
  <2>3. QED
    BY <2>1, <2>2 DEF CommandsStand, Stands
<1>5. CASE EndCleanup
  BY <1>5, Answered_Commands DEF EndCleanup
<1>6. CASE Reconnect
  <2>1. CASE commands' = commands /\ bus' = bus
    BY <1>6, <2>1 DEF Reconnect, CommandsStand, Stands
  <2>2. CASE commands' = <<>>
    BY <2>2 DEF CommandsStand
  <2>3. QED
    BY <1>6, <2>1, <2>2 DEF Reconnect, Unanswered
<1>7. QED
  BY <1>1, <1>2, <1>3, <1>4, <1>5, <1>6, CallsMade, Made_Commands DEF BusNext

-----------------------------------------------------------------------------
(* Subscriptions.                                                          *)

(* A subscribe of a channel that is under way crosses an unsubscribe.      *)
LEMMA Crosses ==
  ASSUME CallsOK, NEW c \in Requests, NEW t \in Channels,
         bus[c].op # "unsubscribe", bus[c].topic = t, Underway(c)
  PROVE  bus[c].op = "subscribe"
BY AskedIsTyped, BusAssumption DEF Asked, AskedWith, Underway, NoRequest

LEMMA Made_Subscriptions ==
  ASSUME CallsOK, CommandsStand, Subscriptions, isInitialized' = "up",
         NEW c \in Requests, NEW rec \in BusRequest, Made(c, rec),
         NEW t \in Topics, t \notin crossed'
  PROVE  Kept(t)'
<1>1. /\ t \notin crossed /\ isInitialized = "up"
      /\ UNCHANGED <<executed, channels, known>>
      /\ bus' = [bus EXCEPT ![c] = rec] /\ rec.pc # "answered"
      /\ bus \in [Requests -> BusRequest] /\ subscribers'[t] \subseteq subscribers[t]
  BY DEF Made, CallsOK, BusTypeOK
<1>2. Kept(t)
  BY <1>1 DEF Subscriptions
<1>3. Wanted(t)' => Wanted(t)
  BY <1>1 DEF Wanted
<1>4. CASE UNCHANGED commands
  BY <1>1, <1>2, <1>3, <1>4 DEF Kept, Sent
<1>5. ASSUME NEW k \in {"subscribe", "unsubscribe"}, Send(k, rec.topic, c),
             k = "unsubscribe" <=> rec.op = "unsubscribe"
      PROVE  Kept(t)'
  <2> DEFINE cmd == [kind |-> k, topic |-> rec.topic, by |-> c]
  <2>1. cmd \in Command
    BY CommandTypes DEF Made, AskedWith, Topics
  <2>2. /\ DOMAIN commands' = 1..(Len(commands) + 1) /\ DOMAIN commands = 1..Len(commands)
        /\ \A i \in DOMAIN commands' :
             commands'[i] = IF i \in DOMAIN commands THEN commands[i] ELSE cmd
        /\ Len(commands) \in Nat /\ executed \in 0..Len(commands)
    BY <1>5, <2>1, AppendSeq DEF Send, CallsOK, BusTypeOK
  <2>3. \A q \in {"subscribe", "unsubscribe"} : \A i \in DOMAIN commands' :
          Sent(q, t, i)' <=> IF i \in DOMAIN commands THEN Sent(q, t, i)
                             ELSE q = k /\ rec.topic = t
    BY <2>2 DEF Sent
  <2>4. CASE k = "subscribe" \/ rec.topic # t
    <3>1. ASSUME Wanted(t)', NEW i \in DOMAIN commands' PROVE ~Sent("unsubscribe", t, i)'
      BY <1>2, <1>3, <2>2, <2>3, <2>4, <3>1 DEF Kept
    <3>2. ASSUME NEW i \in DOMAIN commands', NEW j \in DOMAIN commands',
                 Sent("unsubscribe", t, i)', Sent("subscribe", t, j)'
          PROVE  i < j
      BY <1>2, <2>2, <2>3, <2>4, <3>2 DEF Kept
    <3>3. ASSUME NEW i \in DOMAIN commands', Sent("subscribe", t, i)', i <= executed'
          PROVE  t \in channels'
      BY <1>1, <1>2, <2>2, <2>3, <3>3 DEF Kept
    <3>4. QED
      BY <1>1, <1>2, <1>3, <3>1, <3>2, <3>3 DEF Kept
  <2>5. CASE k = "unsubscribe" /\ rec.topic = t
    <3>1. /\ rec.op = "unsubscribe" /\ rec.pc = "sent" /\ t \in Channels
          /\ subscribers'[t] = {}
          /\ \A s \in Requests :
               bus[s].op = "subscribe" /\ bus[s].topic = t => ~Underway(s)
      <4>1. commands' # commands
        BY <2>2
      <4>2. rec.op = "unsubscribe"
        BY <1>5, <2>5
      <4>3. QED
        BY <2>5, <4>1, <4>2 DEF Made, AskedWith
    <3>2. \A s \in Requests :
            bus[s].op # "unsubscribe" /\ bus[s].topic = t => ~Underway(s)
      BY <3>1, Crosses
    <3>3. ~Wanted(t)'
      BY <1>1, <3>1, <3>2 DEF Wanted, Underway
    <3>4. ASSUME NEW j \in DOMAIN commands PROVE ~Sent("subscribe", t, j)
      <4>1. Stands(j)
        BY DEF CommandsStand
      <4>2. QED
        BY <1>1, <3>2, <4>1, CommandAt DEF Stands, Sent, Underway
    <3>5. \A j \in DOMAIN commands' : ~Sent("subscribe", t, j)'
      BY <2>3, <2>5, <3>4
    <3>6. QED
      BY <3>3, <3>5 DEF Kept
  <2>6. QED
    BY <2>4, <2>5
<1>6. QED
  BY <1>4, <1>5 DEF Made

LEMMA Resume_Subscriptions ==
  ASSUME CallsOK, Subscriptions, isInitialized' = "up",
         NEW c \in Requests, Resume(c), NEW t \in Topics, t \notin crossed'
  PROVE  Kept(t)'
<1>1. /\ UNCHANGED <<isInitialized, commands, executed, channels, known, crossed>>
      /\ bus' = [bus EXCEPT ![c] = Done(bus[c], TRUE)] /\ bus[c].pc = "answered"
      /\ subscribers' =
           IF bus[c].op = "unsubscribe" THEN subscribers
           ELSE [subscribers EXCEPT ![bus[c].topic] = @ \cup {bus[c].handler}]
      /\ bus \in [Requests -> BusRequest] /\ subscribers \in [Topics -> SUBSET Listeners]
  BY DEF Resume, CallsOK, BusTypeOK
<1>2. Kept(t)
  BY <1>1 DEF Subscriptions
<1>3. Done(bus[c], TRUE).pc = "done"
  BY <1>1, DoneType
<1>4. Wanted(t)' => Wanted(t)
  BY <1>1, <1>3 DEF Wanted
<1>5. QED
  BY <1>1, <1>2, <1>4 DEF Kept, Sent

LEMMA Execute_Subscriptions ==
  ASSUME CallsOK, CommandsStand, Subscriptions, isInitialized' = "up",
         Execute, NEW t \in Topics, t \notin crossed'
  PROVE  Kept(t)'
<1> DEFINE cmd == commands[executed + 1]
<1>1. /\ executed + 1 \in DOMAIN commands /\ executed \in Nat
      /\ channels' = After(channels, cmd) /\ executed' = executed + 1
      /\ UNCHANGED <<isInitialized, subscribers, bus, commands, known, crossed>>
  BY LenProperties DEF Execute, CallsOK, BusTypeOK
<1>2. Kept(t)
  BY <1>1 DEF Subscriptions
<1>3. cmd.kind \in {"subscribe", "unsubscribe"}
  BY <1>1, CommandAt DEF CommandsStand, Stands
<1>4. /\ Wanted(t)' <=> Wanted(t)
      /\ \A q, i : Sent(q, t, i)' <=> Sent(q, t, i)
  BY <1>1 DEF Wanted, Sent
<1>5. \/ Sent("subscribe", t, executed + 1) /\ t \in channels'
      \/ Sent("unsubscribe", t, executed + 1) /\ t \notin channels'
      \/ t \in channels' <=> t \in channels
  BY <1>1, <1>3 DEF Sent, After
<1>6. ASSUME Wanted(t)' PROVE t \in channels'
  BY <1>1, <1>2, <1>4, <1>5, <1>6 DEF Kept
<1>7. ASSUME NEW i \in DOMAIN commands, Sent("subscribe", t, i), i <= executed + 1
      PROVE  t \in channels'
  <2>1. i \in Nat
    BY CommandAt
  <2>2. CASE i = executed + 1
    BY <1>1, <1>7, <2>2 DEF Sent, After
  <2>3. CASE i <= executed
    BY <1>1, <1>2, <1>5, <1>7, <2>1, <2>3 DEF Kept
  <2>4. QED
    BY <1>1, <1>7, <2>1, <2>2, <2>3
<1>8. QED
  BY <1>1, <1>2, <1>4, <1>6, <1>7 DEF Kept

LEMMA ReadAnswer_Subscriptions ==
  ASSUME CallsOK, CommandsStand, Subscriptions, isInitialized' = "up",
         ReadAnswer, NEW t \in Topics, t \notin crossed'
  PROVE  Kept(t)'
<1> DEFINE answer == Head(commands)
<1>1. /\ UNCHANGED <<isInitialized, subscribers, channels, crossed>>
      /\ bus' = [bus EXCEPT ![answer.by].pc = "answered"]
      /\ known' = After(known, answer) /\ answer.kind \in {"subscribe", "unsubscribe"}
      /\ executed' = executed - 1 /\ executed \in Nat /\ executed > 0
      /\ bus \in [Requests -> BusRequest]
  BY TakeAnswer_Type DEF ReadAnswer, TakeAnswer, CallsOK, BusTypeOK
<1>2. /\ answer = commands[1] /\ 1 \in DOMAIN commands
      /\ \A i \in DOMAIN commands' : i + 1 \in DOMAIN commands /\ commands'[i] = commands[i + 1]
  BY TakeAnswer_Type, TailSeq DEF ReadAnswer, TakeAnswer, CallsOK, BusTypeOK
<1>3. \A i \in DOMAIN commands' : i \in Nat /\ i > 0
  BY TakeAnswer_Type, LenProperties DEF ReadAnswer, CallsOK
<1>4. Kept(t)
  BY <1>1 DEF Subscriptions
<1>5. \A q, i : Sent(q, t, i)' => Sent(q, t, i + 1) /\ i \in Nat /\ i > 0
  BY <1>2, <1>3 DEF Sent
<1>6. answer.by \in Requests /\ bus[answer.by].topic = answer.topic
      /\ (answer.kind = "unsubscribe" <=> bus[answer.by].op = "unsubscribe")
  BY <1>1, <1>2, CommandAt DEF CommandsStand, Stands
<1>7. Wanted(t)' => Wanted(t) \/ (answer.kind = "subscribe" /\ answer.topic = t)
  <2>1. \A c \in Requests :
          /\ bus'[c].op = bus[c].op /\ bus'[c].topic = bus[c].topic
          /\ c # answer.by => bus'[c].pc = bus[c].pc
    BY <1>1 DEF BusRequest
  <2>2. ASSUME NEW c \in Requests, bus'[c].pc = "answered", bus'[c].op # "unsubscribe",
               bus'[c].topic = t
        PROVE  Wanted(t) \/ (answer.kind = "subscribe" /\ answer.topic = t)
    <3>1. CASE c = answer.by
      BY <1>1, <1>6, <2>1, <2>2, <3>1
    <3>2. CASE c # answer.by
      BY <2>1, <2>2, <3>2 DEF Wanted
    <3>3. QED
      BY <3>1, <3>2
  <2>3. subscribers' = subscribers
    BY <1>1
  <2> HIDE DEF answer
  <2>4. ASSUME Wanted(t)' PROVE Wanted(t) \/ (answer.kind = "subscribe" /\ answer.topic = t)
    <3>1. CASE subscribers[t] # {}
      BY <3>1 DEF Wanted
    <3>2. CASE subscribers[t] = {}
      <4>1. \E c \in Requests :
              bus'[c].pc = "answered" /\ bus'[c].op # "unsubscribe" /\ bus'[c].topic = t
        BY <2>3, <2>4, <3>2 DEF Wanted
      <4>2. QED
        BY <2>2, <4>1
    <3>3. QED
      BY <3>1, <3>2
  <2>5. QED
    BY <2>4
<1>8. ASSUME Wanted(t)'
      PROVE  /\ t \in known' /\ t \in channels'
             /\ \A i \in DOMAIN commands' : ~Sent("unsubscribe", t, i)'
  <2>1. CASE answer.kind = "subscribe" /\ answer.topic = t
    <3>1. Sent("subscribe", t, 1)
      BY <1>2, <2>1 DEF Sent
    <3>2. t \in known' /\ t \in channels'
      BY <1>1, <1>2, <1>4, <2>1, <3>1 DEF After, Kept
    <3>3. ASSUME NEW i \in DOMAIN commands', Sent("unsubscribe", t, i)' PROVE FALSE
      <4>1. Sent("unsubscribe", t, i + 1) /\ i \in Nat /\ i > 0
        BY <1>5, <3>3
      <4>2. i + 1 < 1
        BY <1>2, <1>4, <3>1, <4>1 DEF Kept, Sent
      <4>3. QED
        BY <4>1, <4>2
    <3>4. QED
      BY <3>2, <3>3
  <2>2. CASE ~(answer.kind = "subscribe" /\ answer.topic = t)
    <3>1. Wanted(t)
      BY <1>7, <1>8, <2>2
    <3>2. ~Sent("unsubscribe", t, 1)
      BY <1>2, <1>4, <3>1 DEF Kept
    <3>3. t \in known' /\ t \in channels'
      BY <1>1, <1>2, <1>4, <3>1, <3>2 DEF After, Kept, Sent
    <3>4. ASSUME NEW i \in DOMAIN commands', Sent("unsubscribe", t, i)' PROVE FALSE
      BY <1>4, <1>5, <3>1, <3>4 DEF Kept, Sent
    <3>5. QED
      BY <3>3, <3>4
  <2>3. QED
    BY <2>1, <2>2
<1>9. ASSUME NEW i \in DOMAIN commands', NEW j \in DOMAIN commands',
             Sent("unsubscribe", t, i)', Sent("subscribe", t, j)'
      PROVE  i < j
  <2>1. /\ Sent("unsubscribe", t, i + 1) /\ Sent("subscribe", t, j + 1)
        /\ i \in Nat /\ j \in Nat
    BY <1>5, <1>9
  <2>2. i + 1 < j + 1
    BY <1>4, <2>1 DEF Kept, Sent
  <2>3. QED
    BY <2>1, <2>2
<1>10. ASSUME NEW i \in DOMAIN commands', Sent("subscribe", t, i)', i <= executed'
       PROVE  t \in channels'
  <2>1. Sent("subscribe", t, i + 1) /\ i \in Nat /\ i + 1 <= executed
    BY <1>1, <1>5, <1>10
  <2>2. QED
    BY <1>1, <1>4, <2>1 DEF Kept, Sent
<1>11. QED
  BY <1>8, <1>9, <1>10 DEF Kept

LEMMA Reconnect_Subscriptions ==
  ASSUME CallsOK, Subscriptions, isInitialized' = "up",
         Reconnect, NEW t \in Topics, t \notin crossed'
  PROVE  Kept(t)'
<1>1. /\ UNCHANGED <<isInitialized, subscribers, known, crossed>>
      /\ channels' = known /\ executed' = 0
  BY DEF Reconnect
<1>2. Kept(t)
  BY <1>1 DEF Subscriptions
<1>3. ASSUME NEW c \in Requests PROVE bus'[c].pc = "answered" => bus'[c] = bus[c]
  <2>1. CASE bus' = bus
    BY <2>1
  <2>2. CASE bus' = [b \in Requests |->
               IF bus[b].pc = "sent" THEN Done(bus[b], bus[b].op = "unsubscribe")
               ELSE bus[b]]
    BY <2>2 DEF Done, CallsOK, BusTypeOK, BusRequest
  <2>3. QED
    BY <2>1, <2>2 DEF Reconnect
<1>4. Wanted(t)' => Wanted(t)
  BY <1>1, <1>3 DEF Wanted
<1>5. commands' = commands \/ commands' = <<>>
  BY DEF Reconnect, Unanswered
<1>6. \A q, i : Sent(q, t, i)' => Sent(q, t, i) /\ commands' = commands
  BY <1>5 DEF Sent
<1>7. \A i : Sent("subscribe", t, i)' => i \in Nat /\ i > 0
  BY <1>6, CommandAt DEF Sent
<1>8. QED
  BY <1>1, <1>2, <1>4, <1>6, <1>7 DEF Kept, Sent

LEMMA Next_Subscriptions ==
  ASSUME CallsOK, CommandsStand, Subscriptions, [BusNext]_busVars
  PROVE  Subscriptions'
<1> SUFFICES ASSUME isInitialized' = "up", NEW t \in Topics, t \notin crossed'
             PROVE  Kept(t)'
  BY DEF Subscriptions
<1>1. CASE Publish \/ HandleMessage \/ UNCHANGED busVars
  <2>1. UNCHANGED <<isInitialized, subscribers, bus, commands, executed, channels,
                    known, crossed>>
    BY <1>1 DEF Publish, HandleMessage, busVars
  <2>2. Kept(t)
    BY <2>1 DEF Subscriptions
  <2>3. QED
    BY <2>1, <2>2 DEF Kept, Wanted, Sent
<1>2. CASE BeginCleanup \/ EndCleanup
  BY <1>2 DEF BeginCleanup, EndCleanup
<1>3. QED
  BY <1>1, <1>2, CallsMade, Made_Subscriptions, Resume_Subscriptions,
     Execute_Subscriptions, ReadAnswer_Subscriptions, Reconnect_Subscriptions
  DEF BusNext

-----------------------------------------------------------------------------
(* Events.                                                                 *)

LEMMA PushedAt ==
  ASSUME CallsOK
  PROVE  /\ pushed \in Seq(Event) /\ DOMAIN pushed = 1..Len(pushed) /\ Len(pushed) \in Nat
         /\ \A i \in DOMAIN pushed : pushed[i].event \in Nat /\ pushed[i].event > 0
         /\ Len(published) \in Nat /\ DOMAIN published = 1..Len(published)
         /\ \A h \in Listeners : /\ received[h] \in Seq(Nat) /\ Len(received[h]) \in Nat
                                 /\ DOMAIN received[h] = 1..Len(received[h])
<1>1. pushed \in Seq(Event) /\ published \in Seq(Channels) /\ received \in [Listeners -> Seq(Nat)]
  BY DEF CallsOK, BusTypeOK
<1>2. \A i \in DOMAIN pushed : pushed[i] \in Event
  BY <1>1, LenProperties, ElementOfSeq
<1>3. \A i \in DOMAIN pushed : pushed[i].event \in Nat /\ pushed[i].event > 0
  BY <1>2 DEF Event
<1>4. QED
  BY <1>1, <1>3, LenProperties

(* What an event of ch adds to the wire.                                   *)
LEMMA Publish_Pushed ==
  ASSUME CallsOK, Publish
  PROVE  /\ Len(published') = Len(published) + 1 /\ Len(published) \in Nat
         /\ \A i \in DOMAIN published : published'[i] = published[i]
         /\ received' = received
         /\ \E ch \in Channels :
              /\ DOMAIN pushed' = 1..(Len(pushed) + Copies(ch)) /\ Copies(ch) \in Nat
              /\ \A i \in DOMAIN pushed' :
                   pushed'[i].event = IF i <= Len(pushed) THEN pushed[i].event
                                      ELSE Len(published) + 1
<1> DEFINE new == [event |-> Len(published) + 1, behind |-> executed]
<1>1. PICK ch \in Channels :
        /\ published' = Append(published, ch)
        /\ pushed' = pushed \o [i \in 1..Copies(ch) |-> new]
  BY DEF Publish
<1>2. /\ Len(published') = Len(published) + 1 /\ Len(published) \in Nat
      /\ \A i \in DOMAIN published : published'[i] = published[i]
  BY <1>1, AppendSeq DEF CallsOK, BusTypeOK
<1>3. new \in Event /\ new.event = Len(published) + 1
  BY <1>2 DEF Event, CallsOK, BusTypeOK
<1>4. Copies(ch) \in Nat /\ pushed \in Seq(Event)
  BY CopiesNat DEF CallsOK, BusTypeOK
<1> HIDE DEF new
<1>5. /\ DOMAIN pushed' = 1..(Len(pushed) + Copies(ch))
      /\ \A i \in DOMAIN pushed' : pushed'[i] = IF i <= Len(pushed) THEN pushed[i] ELSE new
  BY <1>1, <1>3, <1>4, Repeated
<1>6. QED
  BY <1>2, <1>3, <1>4, <1>5 DEF Publish

(* What handleMessage does to the sequences.                               *)
LEMMA Handle_Received ==
  ASSUME CallsOK, HandleMessage
  PROVE  /\ 1 \in DOMAIN pushed /\ published' = published
         /\ \A i \in DOMAIN pushed' :
              i \in Nat /\ i + 1 \in DOMAIN pushed /\ pushed'[i] = pushed[i + 1]
         /\ \A h \in Listeners :
              LET calls == Called(h, published[pushed[1].event])
              IN  /\ calls \in Nat
                  /\ Len(received'[h]) = Len(received[h]) + calls
                  /\ DOMAIN received'[h] = 1..(Len(received[h]) + calls)
                  /\ \A k \in DOMAIN received'[h] :
                       received'[h][k] = IF k <= Len(received[h]) THEN received[h][k]
                                         ELSE pushed[1].event
<1>1. /\ Head(pushed) = pushed[1] /\ 1 \in DOMAIN pushed /\ pushed' = Tail(pushed)
      /\ Tail(pushed) \in Seq(Event)
      /\ \A i \in DOMAIN pushed' : i + 1 \in DOMAIN pushed /\ pushed'[i] = pushed[i + 1]
  BY TailSeq DEF HandleMessage, CallsOK, BusTypeOK
<1>2. \A i \in DOMAIN pushed' : i \in Nat
  BY <1>1, LenProperties
<1> DEFINE n == pushed[1].event
<1>3. n \in Nat
  BY <1>1, PushedAt
<1>4. received' = [h \in Listeners |-> received[h] \o [i \in 1..Called(h, published[n]) |-> n]]
  BY <1>1 DEF HandleMessage
<1> HIDE DEF n
<1>5. ASSUME NEW h \in Listeners
      PROVE  LET calls == Called(h, published[n])
             IN  /\ calls \in Nat
                 /\ Len(received'[h]) = Len(received[h]) + calls
                 /\ DOMAIN received'[h] = 1..(Len(received[h]) + calls)
                 /\ \A k \in DOMAIN received'[h] :
                      received'[h][k] = IF k <= Len(received[h]) THEN received[h][k] ELSE n
  <2>1. received[h] \in Seq(Nat) /\ Called(h, published[n]) \in Nat
    BY CalledNat, PushedAt
  <2>2. received'[h] = received[h] \o [i \in 1..Called(h, published[n]) |-> n]
    BY <1>4
  <2>3. QED
    BY <1>3, <2>1, <2>2, Repeated
<1>6. QED
  BY <1>1, <1>2, <1>5 DEF n, HandleMessage

LEMMA Next_Forward ==
  ASSUME CallsOK, Forward, [BusNext]_busVars PROVE Forward'
<1>1. CASE UNCHANGED <<pushed, published, received>>
  BY <1>1 DEF Forward
<1>2. CASE Publish
  <2>1. PICK ch \in Channels :
          /\ DOMAIN pushed' = 1..(Len(pushed) + Copies(ch)) /\ Copies(ch) \in Nat
          /\ \A i \in DOMAIN pushed' :
               pushed'[i].event = IF i <= Len(pushed) THEN pushed[i].event
                                  ELSE Len(published) + 1
    BY <1>2, Publish_Pushed
  <2>2. /\ Len(published') = Len(published) + 1 /\ Len(published) \in Nat
        /\ received' = received
        /\ \A h \in Listeners : \A k \in DOMAIN received[h] :
             received[h][k] \in 1..Len(published)
    BY <1>2, Publish_Pushed DEF Forward
  <2>3. /\ \A i \in DOMAIN pushed' :
             /\ i \in Nat /\ pushed'[i].event \in Nat
             /\ \/ i \in DOMAIN pushed /\ pushed'[i].event = pushed[i].event
                \/ i > Len(pushed) /\ pushed'[i].event = Len(published) + 1
        /\ \A i \in DOMAIN pushed : pushed[i].event <= Len(published) /\ i <= Len(pushed)
        /\ DOMAIN pushed = 1..Len(pushed) /\ Len(pushed) \in Nat
    BY <2>1, <2>2, PushedAt DEF Forward
  <2>4. \A i, j \in DOMAIN pushed' : i < j => pushed'[i].event <= pushed'[j].event
    BY <2>2, <2>3 DEF Forward
  <2>5. ASSUME NEW h \in Listeners, NEW k \in DOMAIN received[h]
        PROVE  /\ received[h][k] \in 1..Len(published')
               /\ \A i \in DOMAIN pushed' : received[h][k] <= pushed'[i].event
    BY <2>2, <2>3 DEF Forward
  <2>6. QED
    BY <2>2, <2>3, <2>4, <2>5 DEF Forward
<1>3. CASE HandleMessage
  <2>1. \A i \in DOMAIN pushed' : pushed'[i].event <= Len(published')
    BY <1>3, Handle_Received DEF Forward
  <2>2. \A i, j \in DOMAIN pushed' : i < j => pushed'[i].event <= pushed'[j].event
    BY <1>3, Handle_Received DEF Forward
  <2>3. \A i \in DOMAIN pushed' : pushed[1].event <= pushed'[i].event
    <3>1. ASSUME NEW i \in DOMAIN pushed' PROVE i + 1 \in DOMAIN pushed /\ 1 \in DOMAIN pushed
                                                /\ 1 <= i + 1 /\ pushed'[i] = pushed[i + 1]
                                                /\ (1 < i + 1 \/ 1 = i + 1)
      BY <1>3, Handle_Received
    <3>2. QED
      BY <3>1, PushedAt DEF Forward
  <2>4. pushed[1].event \in 1..Len(published)
    BY <1>3, Handle_Received, PushedAt DEF Forward
  <2>5. ASSUME NEW h \in Listeners, NEW k \in DOMAIN received'[h]
        PROVE  /\ received'[h][k] \in 1..Len(published')
               /\ \A i \in DOMAIN pushed' : received'[h][k] <= pushed'[i].event
    <3>1. \/ k \in DOMAIN received[h] /\ received'[h][k] = received[h][k]
          \/ received'[h][k] = pushed[1].event
      BY <1>3, Handle_Received, PushedAt
    <3>2. CASE received'[h][k] = pushed[1].event
      BY <1>3, <2>3, <2>4, <3>2, Handle_Received
    <3>3. CASE k \in DOMAIN received[h] /\ received'[h][k] = received[h][k]
      BY <1>3, <3>3, Handle_Received DEF Forward
    <3>4. QED
      BY <3>1, <3>2, <3>3
  <2>6. QED
    BY <2>1, <2>2, <2>5 DEF Forward
<1>4. CASE TakeAnswer /\ UNCHANGED <<published, received>>
  <2>1. DOMAIN pushed' = DOMAIN pushed /\ \A i \in DOMAIN pushed : pushed'[i].event = pushed[i].event
    BY <1>4, TakeAnswer_Type DEF CallsOK
  <2>2. QED
    BY <1>4, <2>1 DEF Forward
<1>5. CASE pushed' = <<>> /\ UNCHANGED <<published, received>>
  BY <1>5 DEF Forward
<1>6. \/ UNCHANGED <<pushed, published, received>>
      \/ Publish \/ HandleMessage
      \/ TakeAnswer /\ UNCHANGED <<published, received>>
      \/ pushed' = <<>> /\ UNCHANGED <<published, received>>
  <2>1. ASSUME NEW c \in Requests,
               Subscribe(c) \/ SubscribePattern(c) \/ Unsubscribe(c) \/ Resume(c)
        PROVE  UNCHANGED <<pushed, published, received>>
    BY <2>1 DEF Subscribe, SubscribePattern, Ask, Unsubscribe, Resume
  <2>2. QED
    BY <2>1 DEF BusNext, Execute, ReadAnswer, BeginCleanup, EndCleanup, Reconnect, busVars
<1>7. QED
  BY <1>1, <1>2, <1>3, <1>4, <1>5, <1>6

-----------------------------------------------------------------------------
(* Without patterns.                                                       *)

LEMMA NoPatternBefore ==
  ASSUME CallsOK, [BusNext]_busVars, NoPatternCalls' PROVE NoPatternCalls
<1> SUFFICES ASSUME NEW b \in Requests PROVE bus[b].op # "subscribePattern"
  BY DEF NoPatternCalls
<1>1. bus'[b].op = bus[b].op \/ bus[b].pc = "idle"
  <2>1. ASSUME NEW c \in Requests, Subscribe(c) \/ SubscribePattern(c) \/ Unsubscribe(c)
        PROVE  bus'[b].op = bus[b].op \/ bus[b].pc = "idle"
    BY <2>1, CallsMade DEF Made, CallsOK, BusTypeOK
  <2>2. ASSUME NEW c \in Requests, Resume(c) PROVE bus'[b].op = bus[b].op
    BY <2>2 DEF Resume, Done, CallsOK, BusTypeOK, BusRequest
  <2>3. CASE ReadAnswer
    BY <2>3 DEF ReadAnswer, CallsOK, BusTypeOK, BusRequest
  <2>4. CASE Reconnect
    BY <2>4 DEF Reconnect, Done, CallsOK, BusTypeOK, BusRequest
  <2>5. CASE \/ Execute \/ Publish \/ HandleMessage \/ BeginCleanup \/ EndCleanup
             \/ UNCHANGED busVars
    BY <2>5 DEF Execute, Publish, HandleMessage, BeginCleanup, EndCleanup, busVars
  <2>6. QED
    BY <2>1, <2>2, <2>3, <2>4, <2>5 DEF BusNext
<1>2. CASE bus[b].pc = "idle"
  BY <1>2, AskedIsTyped, BusAssumption DEF NoRequest, RequestOp
<1>3. QED
  BY <1>1, <1>2 DEF NoPatternCalls

NoPatterns ==
  \A p \in Patterns : subscribers[p] = {} /\ p \notin channels /\ p \notin known

PushedOnce == \A i, j \in DOMAIN pushed : i < j => pushed[i].event < pushed[j].event

ReceivedOnce ==
  \A h \in Listeners : \A k \in DOMAIN received[h] :
    /\ \A j \in DOMAIN received[h] : k < j => received[h][k] < received[h][j]
    /\ \A i \in DOMAIN pushed : received[h][k] < pushed[i].event

LEMMA OnceParts == Once <=> (NoPatternCalls => NoPatterns /\ PushedOnce /\ ReceivedOnce)
BY DEF Once, NoPatterns, PushedOnce, ReceivedOnce

(* A command that is about a pattern, and a call that was.                 *)
LEMMA NoPatternCommands ==
  ASSUME CallsOK, CommandsStand, NoPatternCalls, NEW i \in DOMAIN commands
  PROVE  commands[i].kind = "subscribe" => commands[i].topic \in Channels
BY CommandAt, AskedIsTyped DEF CommandsStand, Stands, Asked, AskedWith, NoPatternCalls, NoRequest

LEMMA Next_NoPatterns ==
  ASSUME CallsOK, CommandsStand, NoPatternCalls, NoPatterns, [BusNext]_busVars
  PROVE  NoPatterns'
<1> SUFFICES ASSUME NEW p \in Patterns
             PROVE  subscribers'[p] = {} /\ p \notin channels' /\ p \notin known'
  BY DEF NoPatterns
<1>1. /\ subscribers[p] = {} /\ p \notin channels /\ p \notin known /\ p \notin Channels
      /\ p \in Topics
  BY BusAssumption DEF NoPatterns, Topics
<1>2. ASSUME NEW c \in Requests, Subscribe(c) \/ SubscribePattern(c) \/ Unsubscribe(c)
      PROVE  subscribers'[p] = {} /\ UNCHANGED <<channels, known>>
  <2>1. PICK rec \in BusRequest : Made(c, rec)
    BY <1>2, CallsMade
  <2>2. QED
    BY <1>1, <2>1 DEF Made
<1>3. ASSUME NEW c \in Requests, Resume(c)
      PROVE  subscribers'[p] = {} /\ UNCHANGED <<channels, known>>
  <2>1. bus[c].op = "unsubscribe" \/ bus[c].topic # p
    BY <1>1, <1>3, AskedIsTyped DEF Resume, Asked, AskedWith, NoPatternCalls, NoRequest
  <2>2. QED
    BY <1>1, <1>3, <2>1 DEF Resume, CallsOK, BusTypeOK
<1>4. CASE Execute
  <2> DEFINE cmd == commands[executed + 1]
  <2>1. executed + 1 \in DOMAIN commands
    BY <1>4, LenProperties DEF Execute, CallsOK, BusTypeOK
  <2>2. /\ cmd.kind \in {"subscribe", "unsubscribe", "quit"}
        /\ cmd.kind = "subscribe" => cmd.topic # p
    BY <1>1, <2>1, CommandAt, NoPatternCommands
  <2>3. p \notin channels'
    BY <1>1, <1>4, <2>2 DEF Execute, After
  <2>4. QED
    BY <1>1, <1>4, <2>3 DEF Execute
<1>5. CASE ReadAnswer
  <2> DEFINE cmd == Head(commands)
  <2>1. 1 \in DOMAIN commands /\ cmd = commands[1]
    BY <1>5, TakeAnswer_Type, TailSeq DEF ReadAnswer, CallsOK, BusTypeOK
  <2>2. /\ cmd.kind \in {"subscribe", "unsubscribe", "quit"}
        /\ cmd.kind = "subscribe" => cmd.topic # p
    BY <1>1, <2>1, CommandAt, NoPatternCommands
  <2>3. p \notin known'
    BY <1>1, <1>5, <2>2 DEF ReadAnswer, After
  <2>4. QED
    BY <1>1, <1>5, <2>3 DEF ReadAnswer
<1>6. CASE EndCleanup
  BY <1>1, <1>6 DEF EndCleanup
<1>7. CASE Reconnect
  BY <1>1, <1>7 DEF Reconnect
<1>8. CASE Publish \/ HandleMessage \/ BeginCleanup \/ UNCHANGED busVars
  BY <1>1, <1>8 DEF Publish, HandleMessage, BeginCleanup, busVars
<1>9. QED
  BY <1>1, <1>2, <1>3, <1>4, <1>5, <1>6, <1>7, <1>8 DEF BusNext

LEMMA OneCopy ==
  ASSUME NoPatterns, NEW ch PROVE Copies(ch) <= 1
<1>1. Hearing(ch) = {}
  BY DEF Hearing, NoPatterns
<1>2. QED
  BY <1>1, FS_EmptySet DEF Copies

LEMMA OneCall ==
  ASSUME NoPatterns, NEW h, NEW ch PROVE Called(h, ch) <= 1
<1> DEFINE T == {t \in Patterns \cup {ch} : h \in subscribers[t]}
<1>1. T \subseteq {ch}
  BY DEF NoPatterns
<1>2. T = {} \/ T = {ch}
  BY <1>1
<1>3. Called(h, ch) = Cardinality(T)
  BY DEF Called
<1> HIDE DEF T
<1>4. Cardinality(T) = 0 \/ Cardinality(T) = 1
  BY <1>2, FS_EmptySet, FS_Singleton
<1>5. QED
  BY <1>3, <1>4

LEMMA Next_Once ==
  ASSUME CallsOK, Forward, NoPatterns, PushedOnce, ReceivedOnce, [BusNext]_busVars
  PROVE  PushedOnce' /\ ReceivedOnce'
<1>1. CASE UNCHANGED <<pushed, received>>
  BY <1>1 DEF PushedOnce, ReceivedOnce
<1>2. CASE Publish
  <2>1. PICK ch \in Channels :
          /\ DOMAIN pushed' = 1..(Len(pushed) + Copies(ch)) /\ Copies(ch) \in Nat
          /\ \A i \in DOMAIN pushed' :
               pushed'[i].event = IF i <= Len(pushed) THEN pushed[i].event
                                  ELSE Len(published) + 1
    BY <1>2, Publish_Pushed
  <2>2. Copies(ch) <= 1
    BY OneCopy
  <2>3. /\ \A i \in DOMAIN pushed' :
             /\ i \in Nat /\ pushed'[i].event \in Nat
             /\ \/ i \in DOMAIN pushed /\ pushed'[i].event = pushed[i].event
                \/ i = Len(pushed) + 1 /\ pushed'[i].event = Len(published) + 1
        /\ \A i \in DOMAIN pushed : pushed[i].event <= Len(published) /\ i <= Len(pushed)
        /\ DOMAIN pushed = 1..Len(pushed) /\ Len(pushed) \in Nat /\ Len(published) \in Nat
    <3>1. Copies(ch) = 0 \/ Copies(ch) = 1
      BY <2>1, <2>2
    <3>2. /\ DOMAIN pushed = 1..Len(pushed) /\ Len(pushed) \in Nat /\ Len(published) \in Nat
          /\ \A i \in DOMAIN pushed : /\ pushed[i].event <= Len(published) /\ i <= Len(pushed)
                                     /\ pushed[i].event \in Nat
      BY PushedAt DEF Forward
    <3>3. QED
      BY <2>1, <3>1, <3>2
  <2>4. PushedOnce'
    BY <2>3 DEF PushedOnce
  <2>5. received' = received
    BY <1>2 DEF Publish
  <2>6. \A h \in Listeners : \A k \in DOMAIN received[h] : received[h][k] \in 1..Len(published)
    BY DEF Forward
  <2>7. ReceivedOnce'
    BY <2>3, <2>5, <2>6 DEF ReceivedOnce
  <2>8. QED
    BY <2>4, <2>7
<1>3. CASE HandleMessage
  <2>1. PushedOnce'
    BY <1>3, Handle_Received DEF PushedOnce
  <2>2. \A i \in DOMAIN pushed' : pushed[1].event < pushed'[i].event
    <3>1. ASSUME NEW i \in DOMAIN pushed'
          PROVE  /\ i + 1 \in DOMAIN pushed /\ 1 \in DOMAIN pushed /\ 1 < i + 1
                 /\ pushed'[i] = pushed[i + 1]
      <4>1. 1 \in DOMAIN pushed /\ i \in Nat /\ i + 1 \in DOMAIN pushed /\ pushed'[i] = pushed[i + 1]
        BY <1>3, Handle_Received
      <4>2. i # 0
        <5>1. pushed' \in Seq(Event)
          BY <1>3, TailSeq DEF HandleMessage, CallsOK, BusTypeOK
        <5>2. QED
          BY <5>1, LenProperties
      <4>3. QED
        BY <4>1, <4>2
    <3>2. QED
      BY <3>1 DEF PushedOnce
  <2>3. ASSUME NEW h \in Listeners, NEW k \in DOMAIN received'[h]
        PROVE  /\ \A j \in DOMAIN received'[h] : k < j => received'[h][k] < received'[h][j]
               /\ \A i \in DOMAIN pushed' : received'[h][k] < pushed'[i].event
    <3> DEFINE calls == Called(h, published[pushed[1].event])
               old == Len(received[h])
    <3>1. calls \in Nat /\ calls <= 1
      BY OneCall, CalledNat
    <3>2. /\ DOMAIN received'[h] = 1..(old + calls) /\ old \in Nat
          /\ DOMAIN received[h] = 1..old
          /\ \A j \in DOMAIN received'[h] :
               received'[h][j] = IF j <= old THEN received[h][j] ELSE pushed[1].event
      BY <1>3, Handle_Received, PushedAt
    <3> HIDE DEF calls, old
    <3>3. \A j \in DOMAIN received'[h] :
            /\ j \in Nat
            /\ \/ j \in DOMAIN received[h] /\ j <= old /\ received'[h][j] = received[h][j]
               \/ j = old + 1 /\ received'[h][j] = pushed[1].event
      BY <3>1, <3>2
    <3>4. \A j \in DOMAIN received[h] : received[h][j] < pushed[1].event
      BY <1>3, Handle_Received DEF ReceivedOnce
    <3>5. ASSUME NEW j \in DOMAIN received'[h], k < j PROVE received'[h][k] < received'[h][j]
      BY <3>2, <3>3, <3>4, <3>5 DEF ReceivedOnce
    <3>6. ASSUME NEW i \in DOMAIN pushed' PROVE received'[h][k] < pushed'[i].event
      <4>1. CASE k = old + 1
        BY <2>2, <3>2, <3>3, <4>1
      <4>2. CASE k \in DOMAIN received[h] /\ received'[h][k] = received[h][k]
        BY <1>3, <4>2, Handle_Received DEF ReceivedOnce
      <4>3. QED
        BY <3>3, <4>1, <4>2
    <3>7. QED
      BY <3>5, <3>6
  <2>4. QED
    BY <2>1, <2>3 DEF ReceivedOnce
<1>4. CASE TakeAnswer /\ UNCHANGED received
  <2>1. DOMAIN pushed' = DOMAIN pushed /\ \A i \in DOMAIN pushed : pushed'[i].event = pushed[i].event
    BY <1>4, TakeAnswer_Type DEF CallsOK
  <2>2. QED
    BY <1>4, <2>1 DEF PushedOnce, ReceivedOnce
<1>5. CASE pushed' = <<>> /\ UNCHANGED received
  BY <1>5 DEF PushedOnce, ReceivedOnce
<1>6. \/ UNCHANGED <<pushed, received>>
      \/ Publish \/ HandleMessage
      \/ TakeAnswer /\ UNCHANGED received
      \/ pushed' = <<>> /\ UNCHANGED received
  <2>1. ASSUME NEW c \in Requests,
               Subscribe(c) \/ SubscribePattern(c) \/ Unsubscribe(c) \/ Resume(c)
        PROVE  UNCHANGED <<pushed, received>>
    BY <2>1 DEF Subscribe, SubscribePattern, Ask, Unsubscribe, Resume
  <2>2. QED
    BY <2>1 DEF BusNext, Execute, ReadAnswer, BeginCleanup, EndCleanup, Reconnect, busVars
<1>7. QED
  BY <1>1, <1>2, <1>3, <1>4, <1>5, <1>6
-----------------------------------------------------------------------------
(* The invariant, and what follows from it.                                *)

LEMMA Init_BusInv == ASSUME BusInit PROVE BusInv
<1>1. BusTypeOK
  <2>1. NoRequest \in BusRequest
    BY AskedFor
  <2>2. /\ commands \in Seq(Command) /\ Len(commands) = 0
        /\ pushed \in Seq(Event) /\ published \in Seq(Channels)
        /\ \A h \in Listeners : received[h] \in Seq(Nat)
    BY EmptySeq DEF BusInit
  <2>3. QED
    BY <2>1, <2>2, BusAssumption DEF BusInit, BusTypeOK
<1>2. CallsOK
  BY <1>1 DEF BusInit, CallsOK, Asked
<1>3. CommandsStand
  BY DEF BusInit, CommandsStand
<1>4. Subscriptions
  BY DEF BusInit, Subscriptions, Kept, Wanted, Sent, NoRequest
<1>5. Forward
  BY DEF BusInit, Forward
<1>6. Once
  BY DEF BusInit, Once, Topics
<1>7. QED
  BY <1>2, <1>3, <1>4, <1>5, <1>6 DEF BusInv

LEMMA Next_BusInv == BusInv /\ [BusNext]_busVars => BusInv'
<1> SUFFICES ASSUME BusInv, [BusNext]_busVars PROVE BusInv'
  OBVIOUS
<1>1. CallsOK /\ CommandsStand /\ Subscriptions /\ Forward /\ Once
  BY DEF BusInv
<1>2. CallsOK' /\ CommandsStand'
  BY <1>1, Next_Calls, Next_Commands
<1>3. Subscriptions' /\ Forward'
  BY <1>1, Next_Subscriptions, Next_Forward
<1>4. Once'
  <2>1. ASSUME NoPatternCalls' PROVE NoPatterns' /\ PushedOnce' /\ ReceivedOnce'
    <3>1. NoPatternCalls
      BY <1>1, <2>1, NoPatternBefore
    <3>2. NoPatterns /\ PushedOnce /\ ReceivedOnce
      BY <1>1, <3>1, OnceParts
    <3>3. QED
      BY <1>1, <3>1, <3>2, Next_NoPatterns, Next_Once
  <2>2. QED
    BY <2>1 DEF Once, NoPatterns, PushedOnce, ReceivedOnce
<1>5. QED
  BY <1>2, <1>3, <1>4 DEF BusInv

(* The invariant holds in every reachable state of the service and Redis.   *)
THEOREM BusInvariant == BusSpec => []BusInv
<1>1. BusInit => BusInv
  BY Init_BusInv
<1>2. QED
  BY <1>1, Next_BusInv, PTL DEF BusSpec

(* Requests, commands, subscriptions and events stay within their types,   *)
(* whoever calls and however often the connection is lost.                 *)
THEOREM BusTypeCorrect == BusSpec => []BusTypeOK
<1>1. BusInv => BusTypeOK
  BY DEF BusInv, CallsOK
<1>2. QED
  BY <1>1, BusInvariant, PTL

(* What has handlers is subscribed at Redis as long as the service is up,  *)
(* for any number of channels, patterns, handlers, overlapping calls and   *)
(* reconnections, but for a channel whose subscribe and unsubscribe cross. *)
THEOREM RegisteredHear == BusSpec => []RegisteredIsSubscribed
<1>1. BusInv => RegisteredIsSubscribed
  BY DEF BusInv, Subscriptions, Kept, Wanted, RegisteredIsSubscribed
<1>2. QED
  BY <1>1, BusInvariant, PTL

(* Without pattern subscriptions no handler is given an event twice, for   *)
(* any number of calls, events and reconnections.                          *)
THEOREM NothingTwice == BusSpec => []AtMostOnce
<1>1. ASSUME BusInv PROVE AtMostOnce
  <2> SUFFICES ASSUME NoPatternCalls, NEW h \in Listeners,
                      NEW i \in DOMAIN received[h], NEW j \in DOMAIN received[h],
                      received[h][i] = received[h][j]
               PROVE  i = j
    BY DEF AtMostOnce, NoPatternCalls
  <2>1. CallsOK /\ ReceivedOnce
    BY <1>1, OnceParts DEF BusInv
  <2>2. /\ i \in Nat /\ j \in Nat /\ received[h][i] \in Nat /\ received[h][j] \in Nat
    BY <2>1, PushedAt, ElementOfSeq
  <2>3. ~(i < j) /\ ~(j < i)
    BY <2>1, <2>2 DEF ReceivedOnce
  <2>4. QED
    BY <2>2, <2>3
<1>2. BusInv => AtMostOnce
  BY <1>1
<1>3. QED
  BY <1>2, BusInvariant, PTL

-----------------------------------------------------------------------------
(* The refinement.                                                         *)

Given(h) == IF received[h] = <<>> THEN 0 ELSE Last(received[h])

LEMMA LastIs ==
  ASSUME NEW s \in Seq(Nat)
  PROVE  (IF s = <<>> THEN 0 ELSE Last(s)) = IF Len(s) = 0 THEN 0 ELSE s[Len(s)]
<1>1. s = <<>> <=> Len(s) = 0
  BY EmptySeq
<1>2. QED
  BY <1>1 DEF Last

LEMMA Handle_Given ==
  ASSUME CallsOK, CallsOK', HandleMessage, NEW h \in Listeners
  PROVE  Given(h)' = IF Called(h, published[pushed[1].event]) > 0
                       THEN pushed[1].event ELSE Given(h)
<1> DEFINE calls == Called(h, published[pushed[1].event])
<1>1. /\ Given(h) = IF Len(received[h]) = 0 THEN 0 ELSE received[h][Len(received[h])]
      /\ Given(h)' = IF Len(received'[h]) = 0 THEN 0 ELSE received'[h][Len(received'[h])]
  <2>1. received[h] \in Seq(Nat) /\ received'[h] \in Seq(Nat)
    BY DEF CallsOK, BusTypeOK
  <2>2. QED
    BY <2>1, LastIs DEF Given
<1>2. /\ calls \in Nat /\ Len(received'[h]) = Len(received[h]) + calls
      /\ DOMAIN received'[h] = 1..(Len(received[h]) + calls)
      /\ \A k \in DOMAIN received'[h] :
           received'[h][k] = IF k <= Len(received[h]) THEN received[h][k] ELSE pushed[1].event
      /\ Len(received[h]) \in Nat
  BY Handle_Received, PushedAt
<1> HIDE DEF calls
<1>3. CASE calls = 0
  BY <1>1, <1>2, <1>3 DEF calls
<1>4. CASE calls > 0
  <2>1. received'[h][Len(received'[h])] = pushed[1].event /\ Len(received'[h]) > 0
    <3> DEFINE last == Len(received[h]) + calls
    <3>1. last \in DOMAIN received'[h] /\ ~(last <= Len(received[h])) /\ last > 0
      BY <1>2, <1>4
    <3>2. Len(received'[h]) = last
      BY <1>2
    <3> HIDE DEF last
    <3>3. QED
      BY <1>2, <3>1, <3>2
  <2>2. QED
    BY <1>1, <1>4, <2>1 DEF calls
<1>5. QED
  BY <1>2, <1>3, <1>4

LEMMA Handle_Hears ==
  ASSUME CallsOK, CallsOK', Forward, HandleMessage
  PROVE  Promise!Hear
<1> DEFINE n == pushed[1].event
<1>1. /\ 1 \in DOMAIN pushed /\ published' = published /\ subscribers' = subscribers
      /\ n \in DOMAIN published
  BY Handle_Received, PushedAt DEF HandleMessage, Forward
<1>2. \A h \in Listeners : h \in MayHear(subscribers, published[n]) <=> Called(h, published[n]) > 0
  BY CalledNat DEF MayHear
<1>3. ASSUME NEW h \in Listeners PROVE Given(h) <= n
  <2>1. /\ Len(received[h]) \in Nat /\ DOMAIN received[h] = 1..Len(received[h]) /\ n \in Nat
        /\ Given(h) = IF Len(received[h]) = 0 THEN 0 ELSE received[h][Len(received[h])]
    BY <1>1, LastIs, PushedAt DEF Given
  <2>2. \A k \in DOMAIN received[h] : received[h][k] <= n
    BY <1>1 DEF Forward
  <2>3. QED
    BY <2>1, <2>2
<1>4. \A h \in Listeners : Given(h)' = IF h \in MayHear(subscribers, published[n])
                                       THEN n ELSE Given(h)
  BY <1>2, Handle_Given
<1>5. MayHear(subscribers, published[n]) \subseteq Listeners
  BY DEF MayHear
<1> HIDE DEF n
<1>6. QED
  BY <1>1, <1>3, <1>4, <1>5 DEF Promise!Hear, Given

(* EventBus implements EventLog: whatever is lost or sent again, a handler *)
(* moves forward in the log of events and hears only what it may.          *)
THEOREM LogIsKept == BusSpec => ForwardOnly
<1>1. BusInit => Promise!Init
  BY DEF BusInit, Promise!Init
<1>2. ASSUME BusInv, BusInv', [BusNext]_busVars
      PROVE  [Promise!Next]_Promise!logVars
  <2>1. CASE UNCHANGED <<published, received>>
    BY <2>1 DEF Promise!Next, Promise!Register
  <2>2. CASE Publish
    <3>1. \E ch \in Channels : published' = Append(published, ch)
      BY <2>2 DEF Publish
    <3>2. received' = received /\ subscribers' = subscribers
      BY <2>2 DEF Publish
    <3>3. QED
      BY <3>1, <3>2 DEF Promise!Next, Promise!Publish
  <2>3. CASE HandleMessage
    BY <2>3, <1>2, Handle_Hears DEF BusInv, Promise!Next
  <2>4. UNCHANGED <<published, received>> \/ Publish \/ HandleMessage
    <3>1. ASSUME NEW c \in Requests,
                 Subscribe(c) \/ SubscribePattern(c) \/ Unsubscribe(c) \/ Resume(c)
          PROVE  UNCHANGED <<published, received>>
      BY <3>1 DEF Subscribe, SubscribePattern, Ask, Unsubscribe, Resume
    <3>2. QED
      BY <1>2, <3>1
      DEF BusNext, Execute, ReadAnswer, BeginCleanup, EndCleanup, Reconnect, busVars
  <2>5. QED
    BY <2>1, <2>2, <2>3, <2>4
<1>3. QED
  BY <1>1, <1>2, BusInvariant, PTL DEF BusSpec, ForwardOnly, Promise!Spec
=============================================================================
