------------------------------ MODULE EventBus ------------------------------
(***************************************************************************)
(* EventBusService: publish and subscribe over Redis.  The service keeps   *)
(* a map from channels and patterns to handlers, and one connection on     *)
(* which Redis answers SUBSCRIBE and UNSUBSCRIBE and pushes events, all in *)
(* one order.  subscribe registers its handler when the answer has been    *)
(* read; unsubscribe drops it before it sends anything.                    *)
(*                                                                         *)
(* Redis and its client (ioredis with its default options) are modelled    *)
(* from how the service uses them: commands and answers are FIFO; after a  *)
(* lost connection the client subscribes again to what it knows of, and    *)
(* either sends the unanswered commands again or rejects them.             *)
(*                                                                         *)
(* An event is its position in the order in which Redis published it;      *)
(* contents and metadata are left out.  A publish that fails before Redis  *)
(* has it changes nothing here.                                            *)
(***************************************************************************)
EXTENDS Naturals, Sequences, SequencesExt, FiniteSets

CONSTANTS
  Channels,   \* EVENT_CHANNELS
  Patterns,   \* patterns that are subscribed
  Matches,    \* the pairs of a pattern and a channel that it matches
  Listeners,  \* handler functions
  MaxRequests,\* bound: calls of subscribe, subscribePattern and unsubscribe
  MaxEvents,  \* bound: events published
  MaxWork,    \* bound: calls and events together
  MaxDrops,   \* bound: lost connections
  Nobody      \* no handler, no request, no topic

Topics == Channels \cup Patterns

\* Calls are numbered in the order in which they are made.
Requests == 1..MaxRequests

RequestOp == {"subscribe", "subscribePattern", "unsubscribe"}

ASSUME BusAssumption ==
  /\ Matches \subseteq Patterns \X Channels
  /\ Channels \cap Patterns = {}
  /\ Nobody \notin Listeners \cup Requests \cup Topics
  /\ Nobody \notin RequestOp
  /\ \A n \in {MaxRequests, MaxEvents, MaxWork, MaxDrops} : n \in Nat
  /\ IsFiniteSet(Patterns)

BusRequest ==
  [op : RequestOp \cup {Nobody}, topic : Topics \cup {Nobody},
   handler : Listeners \cup {Nobody},
   pc : {"idle", "sent", "answered", "done"}, ok : BOOLEAN]

NoRequest == [op |-> Nobody, topic |-> Nobody, handler |-> Nobody,
              pc |-> "idle", ok |-> FALSE]

\* A command to Redis, and an event that Redis pushes, with the number of
\* answers that the service reads before it.
Command == [kind : {"subscribe", "unsubscribe"}, topic : Topics, by : Requests]
             \cup [kind : {"quit"}, topic : {Nobody}, by : {Nobody}]
Event == [event : Nat \ {0}, behind : Nat]

VARIABLES
  isInitialized,  \* "up", "quitting" after cleanup began, "down" after it
  subscribers,    \* [Topics -> SUBSET Listeners]; no entry is the empty set
  bus,            \* the locals of each request
  commands,       \* sent on the subscriber's connection and not answered yet
  executed,       \* Redis: how many of them it has executed
  pushed,         \* events that the service has not read yet
  channels,       \* Redis: what the connection is subscribed to
  known,          \* the client: subscriptions it saw confirmed
  published,      \* the channels of the events published, in order
  received,       \* what each handler was given: sequences of events
  crossed,        \* channels unsubscribed while a subscribe was under way;
                  \* only the properties look at it
  drops           \* how many connections were lost

busVars == <<isInitialized, subscribers, bus, commands, executed, pushed,
             channels, known, published, received, crossed, drops>>

BusTypeOK ==
  /\ isInitialized \in {"up", "quitting", "down"}
  /\ subscribers \in [Topics -> SUBSET Listeners]
  /\ bus \in [Requests -> BusRequest]
  /\ commands \in Seq(Command)
  /\ executed \in 0..Len(commands)
  /\ pushed \in Seq(Event)
  /\ channels \subseteq Topics /\ known \subseteq Topics
  /\ published \in Seq(Channels)
  /\ received \in [Listeners -> Seq(Nat)]
  /\ crossed \subseteq Channels
  /\ drops \in 0..MaxDrops

-----------------------------------------------------------------------------
(* The calls.                                                              *)

IsNext(c) ==
  /\ bus[c].pc = "idle" /\ \A b \in Requests : b < c => bus[b].pc # "idle"
  /\ c + Len(published) <= MaxWork

Underway(c) == bus[c].pc \in {"sent", "answered"}

Send(kind, topic, c) ==
  commands' = Append(commands, [kind |-> kind, topic |-> topic, by |-> c])

Done(rec, ok) == [rec EXCEPT !.pc = "done", !.ok = ok]

\* subscribe and subscribePattern up to their await.  Without a connection
\* the command is rejected, or skipped once cleanup is over.
Ask(c, rec) ==
  /\ IsNext(c)
  /\ IF isInitialized = "up"
       THEN /\ bus' = [bus EXCEPT ![c] = [rec EXCEPT !.pc = "sent"]]
            /\ Send("subscribe", rec.topic, c)
       ELSE /\ bus' = [bus EXCEPT ![c] = Done(rec, isInitialized = "down")]
            /\ UNCHANGED commands
  /\ UNCHANGED <<isInitialized, subscribers, executed, pushed, channels, known,
                 published, received, crossed, drops>>

Subscribe(c) ==
  \E ch \in Channels, h \in Listeners :
    Ask(c, [NoRequest EXCEPT !.op = "subscribe", !.topic = ch, !.handler = h])

SubscribePattern(c) ==
  \E p \in Patterns, h \in Listeners :
    Ask(c, [NoRequest EXCEPT !.op = "subscribePattern", !.topic = p,
                             !.handler = h])

\* Faulty variant: the channel is given up although handlers are left.
GivesUpAny(ch, h) == h = Nobody \/ h \in subscribers[ch]

\* unsubscribe has to tell Redis: nobody is left, or everybody has to go.
GivesUp(ch, h) ==
  h = Nobody \/ subscribers[ch] = {h}

\* unsubscribe up to its await, if it gets there.
Unsubscribe(c) ==
  \E ch \in Channels, h \in Listeners \cup {Nobody} :
    LET rec == [NoRequest EXCEPT !.op = "unsubscribe", !.topic = ch,
                                 !.handler = h]
    IN  /\ IsNext(c)
        /\ subscribers' =
             IF isInitialized = "down" THEN subscribers
             ELSE [subscribers EXCEPT ![ch] = IF h = Nobody THEN {} ELSE @ \ {h}]
        /\ IF isInitialized = "up" /\ GivesUp(ch, h)
             THEN /\ bus' = [bus EXCEPT ![c] = [rec EXCEPT !.pc = "sent"]]
                  /\ Send("unsubscribe", ch, c)
                  /\ crossed' = crossed \cup
                       {x \in {ch} : \E s \in Requests :
                          /\ bus[s].op = "subscribe" /\ bus[s].topic = x
                          /\ Underway(s)}
             ELSE /\ bus' = [bus EXCEPT ![c] = Done(rec, TRUE)]
                  /\ UNCHANGED <<commands, crossed>>
        /\ UNCHANGED <<isInitialized, executed, pushed, channels, known, published,
                       received, drops>>

\* What follows the await: the handler of a subscribe is registered.
Resume(c) ==
  /\ bus[c].pc = "answered"
  /\ bus' = [bus EXCEPT ![c] = Done(bus[c], TRUE)]
  /\ subscribers' =
       IF bus[c].op = "unsubscribe" THEN subscribers
       ELSE [subscribers EXCEPT ![bus[c].topic] = @ \cup {bus[c].handler}]
  /\ UNCHANGED <<isInitialized, commands, executed, pushed, channels, known,
                 published, received, crossed, drops>>

-----------------------------------------------------------------------------
(* Redis.                                                                  *)

\* The set of subscriptions after a command.
After(set, cmd) ==
  CASE cmd.kind = "subscribe" -> set \cup {cmd.topic}
    [] cmd.kind = "unsubscribe" -> set \ {cmd.topic}
    [] cmd.kind = "quit" -> {}

Execute ==
  /\ executed < Len(commands)
  /\ channels' = After(channels, commands[executed + 1])
  /\ executed' = executed + 1
  /\ UNCHANGED <<isInitialized, subscribers, bus, commands, pushed, known,
                 published, received, crossed, drops>>

\* The patterns of the connection that match ch.
Hearing(ch) == {p \in channels \cap Patterns : <<p, ch>> \in Matches}

\* How often Redis pushes an event of ch: for the channel and for each pattern.
Copies(ch) ==
  Cardinality(Hearing(ch)) + IF ch \in channels THEN 1 ELSE 0

\* publish, when Redis executes it.
Publish ==
  /\ Len(published) < MaxEvents
  /\ \A c \in Requests : c + Len(published) >= MaxWork => bus[c].pc = "idle"
  /\ isInitialized # "down"
  /\ \E ch \in Channels :
       /\ published' = Append(published, ch)
       /\ pushed' = pushed \o [i \in 1..Copies(ch) |->
            [event |-> Len(published) + 1, behind |-> executed]]
  /\ UNCHANGED <<isInitialized, subscribers, bus, commands, executed, channels,
                 known, received, crossed, drops>>

-----------------------------------------------------------------------------
(* Reading from the connection.                                            *)

\* An answer is next: Redis has sent one, and every event came after it.
AnswerNext == executed > 0 /\ \A i \in DOMAIN pushed : pushed[i].behind > 0

\* An answer is read: it is the one to the oldest command.
TakeAnswer ==
  /\ AnswerNext
  /\ commands' = Tail(commands)
  /\ executed' = executed - 1
  /\ pushed' = [i \in DOMAIN pushed |-> [pushed[i] EXCEPT !.behind = @ - 1]]

\* It settles the promise of its call.
ReadAnswer ==
  LET answer == Head(commands)
  IN  /\ TakeAnswer /\ answer.kind \in {"subscribe", "unsubscribe"}
      /\ bus' = [bus EXCEPT ![answer.by].pc = "answered"]
      /\ known' = After(known, answer)
      /\ UNCHANGED <<isInitialized, subscribers, channels, published, received,
                     crossed, drops>>

\* Faulty variant: the entries of channels are taken for patterns.
CalledTwice(h, ch) ==
  Cardinality({t \in {ch} : h \in subscribers[t]})
    + Cardinality({t \in Topics : h \in subscribers[t]})

\* Faulty variant: handlers of other topics are called as well.
CalledForOthers(h, ch) ==
  Cardinality({t \in {ch} : subscribers[t] # {}})

\* Faulty variant: the handlers of the channel are forgotten.
CalledForPatterns(h, ch) ==
  Cardinality({t \in Patterns : h \in subscribers[t]})

\* How often handleMessage calls h: once for the channel, and once for each
\* pattern it is registered for, whether that pattern matches or not.
Called(h, ch) ==
  Cardinality({t \in Patterns \cup {ch} : h \in subscribers[t]})

\* handleMessage, for a message of a channel as for one of a pattern.
HandleMessage ==
  LET n == Head(pushed).event
  IN  /\ pushed # <<>> /\ Head(pushed).behind = 0
      /\ received' = [h \in Listeners |->
           received[h] \o [i \in 1..Called(h, published[n]) |-> n]]
      /\ pushed' = Tail(pushed)
      /\ UNCHANGED <<isInitialized, subscribers, bus, commands, executed, channels,
                     known, published, crossed, drops>>

-----------------------------------------------------------------------------
(* The end of the process, and lost connections.                           *)

\* cleanup sends QUIT ...
BeginCleanup ==
  /\ isInitialized = "up"
  /\ isInitialized' = "quitting"
  /\ Send("quit", Nobody, Nobody)
  /\ UNCHANGED <<subscribers, bus, executed, pushed, channels, known, published,
                 received, crossed, drops>>

\* ... and forgets the handlers when it is answered; calls that were answered
\* before have gone on by then.
EndCleanup ==
  /\ TakeAnswer /\ Head(commands).kind = "quit"
  /\ \A c \in Requests : bus[c].pc # "answered"
  /\ isInitialized' = "down"
  /\ subscribers' = [t \in Topics |-> {}]
  /\ known' = {}
  /\ UNCHANGED <<bus, channels, published, received, crossed, drops>>

\* Faulty variant: commands that Redis has not executed are forgotten.
UnansweredExecuted == SubSeq(commands, 1, executed)

\* What the client sends again: commands whose answers it has not read.
Unanswered == commands

\* The connection is lost, with what was under way to the service, and there
\* is a new one: the unanswered commands are sent again, or their calls fail,
\* which unsubscribe does not report.
Reconnect ==
  /\ isInitialized = "up"
  /\ drops < MaxDrops
  /\ drops' = drops + 1
  /\ channels' = known
  /\ executed' = 0 /\ pushed' = <<>>
  /\ \/ commands' = Unanswered /\ UNCHANGED bus
     \/ /\ commands' = <<>>
        /\ bus' = [c \in Requests |->
             IF bus[c].pc = "sent" THEN Done(bus[c], bus[c].op = "unsubscribe")
             ELSE bus[c]]
  /\ UNCHANGED <<isInitialized, subscribers, known, published, received, crossed>>

-----------------------------------------------------------------------------

BusInit ==
  /\ isInitialized = "up"
  /\ subscribers = [t \in Topics |-> {}]
  /\ bus = [c \in Requests |-> NoRequest]
  /\ commands = <<>> /\ executed = 0 /\ pushed = <<>>
  /\ channels = {} /\ known = {}
  /\ published = <<>>
  /\ received = [h \in Listeners |-> <<>>]
  /\ crossed = {}
  /\ drops = 0

BusNext ==
  \/ \E c \in Requests :
       Subscribe(c) \/ SubscribePattern(c) \/ Unsubscribe(c) \/ Resume(c)
  \/ Execute \/ Publish \/ ReadAnswer \/ HandleMessage
  \/ BeginCleanup \/ EndCleanup \/ Reconnect

BusSpec == BusInit /\ [][BusNext]_busVars

\* Redis and the event loop go on; who publishes, subscribes or ends the
\* process, and the connection, owe nothing.
BusFairness ==
  /\ WF_busVars(Execute)
  /\ WF_busVars(ReadAnswer) /\ WF_busVars(HandleMessage)
  /\ WF_busVars(EndCleanup)
  /\ \A c \in Requests : WF_busVars(Resume(c))

BusFairSpec == BusSpec /\ BusFairness

-----------------------------------------------------------------------------
(* Properties.                                                             *)

(* A handler that is registered will hear: as long as the service is up,   *)
(* what has handlers is subscribed at Redis, through reconnections and     *)
(* overlapping calls, unless a channel was unsubscribed while a subscribe  *)
(* of it was under way (subscribe registers after its await, unsubscribe   *)
(* gives up before).                                                       *)
RegisteredIsSubscribed ==
  isInitialized = "up" =>
    \A t \in Topics \ crossed : subscribers[t] # {} => t \in channels

(* A handler is given an event once at most, although subscriptions are    *)
(* repeated and commands sent again, as long as nobody subscribes to a     *)
(* pattern: with one, handleMessage runs once per message and pattern.     *)
AtMostOnce ==
  (\A c \in Requests : bus[c].op # "subscribePattern") =>
    \A h \in Listeners : \A i, j \in DOMAIN received[h] :
      received[h][i] = received[h][j] => i = j

MayHear(reg, ch) == {h \in Listeners : \E t \in Patterns \cup {ch} : h \in reg[t]}

Promise == INSTANCE EventLog WITH
  Handlers <- Listeners, Audible <- MayHear, log <- published,
  registered <- subscribers,
  cursor <- [h \in Listeners |->
               IF received[h] = <<>> THEN 0 ELSE Last(received[h])]

(* Events reach the handlers in the order in which Redis published them,   *)
(* and only those registered for their channel or for a pattern, whatever  *)
(* is lost or repeated in between.                                         *)
ForwardOnly == Promise!Spec

InFlight(n) == \E i \in DOMAIN pushed : pushed[i].event = n

(* An event that Redis has pushed reaches every handler that stays         *)
(* registered for its channel, unless a connection is lost.                *)
EventsArrive ==
  \A h \in Listeners, n \in 1..MaxEvents :
    (InFlight(n) /\ h \in subscribers[published[n]])
      ~> \/ n \in Range(received[h])
         \/ n <= Len(published) /\ h \notin subscribers[published[n]]
         \/ drops > 0

(* Every call returns: none waits for an answer that a lost connection     *)
(* swallowed, or that cleanup has overtaken.                               *)
CallsReturn == \A c \in Requests : bus[c].pc # "idle" ~> bus[c].pc = "done"
=============================================================================
