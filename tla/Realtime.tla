------------------------------ MODULE Realtime ------------------------------
(***************************************************************************)
(* The event streams of markets.  A request that changed a market appends  *)
(* an event to the outbox (protocol_events) and then hands it to the bus   *)
(* of its own process and to Redis.  A stream (an SSE connection) first    *)
(* sends the recent events of the outbox, then what Redis or the bus bring *)
(* it; on the bus it also asks the outbox when its queue stays empty.      *)
(***************************************************************************)
EXTENDS Integers, Sequences, FiniteSets, SequencesExt, Selections

CONSTANTS
  Key,                   \* markets
  Publication, KeyOf,    \* the requests that publish, each about one market
  Stream, TopicOf,       \* the connections, each to one market or to All
  All,
  Process, Home,         \* the API process of each request and of each stream
  QueueLimit,            \* maxsize of a subscriber's queue
  RecentLimit, PollLimit,\* rows of one list_recent and of one list_since
  MaxFlips               \* bound: how often Redis goes down or comes back

ASSUME RealtimeAssumption ==
  /\ KeyOf \in [Publication -> Key] /\ TopicOf \in [Stream -> Key \cup {All}] /\ All \notin Key
  /\ Home \in [Publication \cup Stream -> Process]
  /\ {QueueLimit, RecentLimit, PollLimit} \subseteq Nat \ {0} /\ MaxFlips \in Nat
  \* More rows than requests can publish at once: see Poll.
  /\ IsFiniteSet(Publication) /\ PollLimit >= Cardinality(Publication) - 1

VARIABLES
  stamped,   \* the requests that have built their row, in the order of created_at
  outbox,    \* protocol_events: the requests whose row is committed
  todo,      \* per request: the channels it has still to publish to
  done,      \* the requests whose publishing is over
  phase,     \* per stream: where its generator stands
  sent,      \* per stream: what it has sent, in order
  known,     \* per stream: seen_ids
  last,      \* per stream: last_seen_at, 0 for None
  queue,     \* per stream: its queue on the bus
  socket,    \* per stream: what Redis has pushed to it
  redis,     \* whether Redis is configured, and reachable
  flips

publisher == <<stamped, outbox, todo, done>>
stream    == <<phase, sent, known, last, queue, socket>>
realtimeVars == <<publisher, stream, redis, flips>>

\* An event is named after the request that publishes it; created_at is its
\* place in stamped: no two rows have the same microsecond.
At(e) == CHOOSE i \in DOMAIN stamped : stamped[i] = e
Wants(s, e) == TopicOf[s] \in {All, KeyOf[e]}
InOrder(E)  == Keep(stamped, E)

-----------------------------------------------------------------------------
(* publish_protocol_event                                                  *)

Channel == [bus : {TRUE}, topic : Key \cup {All}] \cup [bus : {FALSE}, topic : Key \cup {All}]
Channels(e) ==
  <<[bus |-> TRUE, topic |-> All], [bus |-> TRUE, topic |-> KeyOf[e]]>>
  \o (IF redis = "unset" THEN <<>>
      ELSE <<[bus |-> FALSE, topic |-> All], [bus |-> FALSE, topic |-> KeyOf[e]]>>)

\* append: the row takes its created_at before the transaction commits.
Stamp(r) ==
  /\ r \notin Range(stamped) \cup done
  /\ stamped' = Append(stamped, r)
  /\ UNCHANGED <<outbox, todo, done, stream, redis, flips>>

Store(r) ==
  /\ r \in Range(stamped) \ (outbox \cup done)
  /\ outbox' = outbox \cup {r}
  /\ todo' = [todo EXCEPT ![r] = Channels(r)]
  /\ UNCHANGED <<stamped, done, stream, redis, flips>>

\* A full queue loses its oldest event.
Put(q, e) == Append(IF Len(q) < QueueLimit THEN q ELSE Tail(q), e)

\* bus.publish, or one publish of the Redis client; the first that fails is the last.
Publish(r) ==
  /\ todo[r] # <<>> /\ r \notin done
  /\ LET to == Head(todo[r])
         listening(s) == TopicOf[s] = to.topic
         lost == ~to.bus /\ redis = "down"
     IN /\ todo' = [todo EXCEPT ![r] = IF lost THEN <<>> ELSE Tail(@)]
        /\ queue' = [s \in Stream |->
             IF to.bus /\ phase[s] = "bus" /\ listening(s) /\ Home[s] = Home[r]
             THEN Put(queue[s], r) ELSE queue[s]]
        /\ socket' = [s \in Stream |->
             IF ~to.bus /\ ~lost /\ phase[s] = "redis" /\ listening(s)
             THEN Append(socket[s], r) ELSE socket[s]]
  /\ done' = IF todo'[r] = <<>> THEN done \cup {r} ELSE done
  /\ UNCHANGED <<stamped, outbox, phase, sent, known, last, redis, flips>>

\* The database refuses the row, or the process dies: nobody tries again.
Abandon(r) ==
  /\ r \notin done
  /\ done' = done \cup {r}
  /\ todo' = [todo EXCEPT ![r] = <<>>]
  /\ UNCHANGED <<stamped, outbox, stream, redis, flips>>

-----------------------------------------------------------------------------
(* _stream                                                                 *)

\* Error: the time of the query is taken for last_seen_at.
ForwardNow(s, events) ==
  LET new == InOrder(events \ known[s]) IN
    /\ sent' = [sent EXCEPT ![s] = @ \o new]
    /\ known' = [known EXCEPT ![s] = @ \cup Range(new)]
    /\ last' = [last EXCEPT ![s] = Len(stamped)]

\* Sends the events that have not been sent, in order.
Forward(s, events) ==
  LET new == InOrder(events \ known[s]) IN
    /\ sent' = [sent EXCEPT ![s] = @ \o new]
    /\ known' = [known EXCEPT ![s] = @ \cup Range(new)]
    /\ last' = [last EXCEPT ![s] = IF new = <<>> THEN @ ELSE At(new[Len(new)])]

Latest(E, n) == {e \in E : Cardinality({d \in E : At(d) > At(e)}) < n}

\* list_recent: the latest rows of every market, then those of this one.
Recent(s) == {e \in Latest(outbox, RecentLimit) : Wants(s, e)}

Connect(s) ==
  /\ phase[s] = "new"
  /\ Forward(s, Recent(s))
  /\ phase' = [phase EXCEPT ![s] = "listed"]
  /\ UNCHANGED <<publisher, queue, socket, redis, flips>>

\* Redis when it is configured and answers, else the bus.
Subscribe(s) ==
  /\ phase[s] = "listed"
  /\ phase' = [phase EXCEPT ![s] = IF redis = "up" THEN "redis" ELSE "bus"]
  /\ UNCHANGED <<publisher, sent, known, last, queue, socket, redis, flips>>

\* What Redis brings is sent as it is: it is not remembered.
TakeRedis(s) ==
  /\ phase[s] = "redis" /\ redis = "up" /\ socket[s] # <<>>
  /\ sent' = [sent EXCEPT ![s] = Append(@, Head(socket[s]))]
  /\ socket' = [socket EXCEPT ![s] = Tail(@)]
  /\ UNCHANGED <<publisher, phase, known, last, queue, redis, flips>>

\* get_message raises: the stream goes on with the bus.
FallBack(s) ==
  /\ phase[s] = "redis" /\ redis = "down"
  /\ phase' = [phase EXCEPT ![s] = "bus"]
  /\ socket' = [socket EXCEPT ![s] = <<>>]
  /\ UNCHANGED <<publisher, sent, known, last, queue, redis, flips>>

\* Error: what the bus brings is not compared with what has been sent.
TakeUnseen(s) ==
  /\ phase[s] = "bus" /\ queue[s] # <<>>
  /\ sent' = [sent EXCEPT ![s] = Append(@, Head(queue[s]))]
  /\ queue' = [queue EXCEPT ![s] = Tail(@)]
  /\ UNCHANGED <<publisher, phase, known, last, socket, redis, flips>>

Take(s) ==
  /\ phase[s] = "bus" /\ queue[s] # <<>>
  /\ Forward(s, {Head(queue[s])})
  /\ queue' = [queue EXCEPT ![s] = Tail(@)]
  /\ UNCHANGED <<publisher, phase, socket, redis, flips>>

Earliest(E, n) == {e \in E : Cardinality({d \in E : At(d) < At(e)}) < n}

\* list_since
Since(s) == Earliest({e \in outbox : Wants(s, e) /\ At(e) > last[s]}, PollLimit)

\* The queue stayed empty for 15 s.  If every row the query returns has been
\* sent, last_seen_at does not move and the next poll reads the same rows.
Poll(s) ==
  /\ phase[s] = "bus" /\ queue[s] = <<>>
  /\ Forward(s, Since(s))
  /\ UNCHANGED <<publisher, phase, queue, socket, redis, flips>>

\* The client goes away; a new connection is a stream of its own.
Disconnect(s) ==
  /\ phase[s] # "closed"
  /\ phase' = [phase EXCEPT ![s] = "closed"]
  /\ queue' = [queue EXCEPT ![s] = <<>>]
  /\ socket' = [socket EXCEPT ![s] = <<>>]
  /\ UNCHANGED <<publisher, sent, known, last, redis, flips>>

-----------------------------------------------------------------------------
\* External: Redis goes down with what it had not pushed, and comes back.
Flip ==
  /\ redis # "unset" /\ flips < MaxFlips
  /\ flips' = flips + 1
  /\ redis' = IF redis = "up" THEN "down" ELSE "up"
  /\ UNCHANGED <<publisher, stream>>

RealtimeInit ==
  /\ stamped = <<>> /\ outbox = {} /\ todo = [r \in Publication |-> <<>>] /\ done = {}
  /\ phase = [s \in Stream |-> "new"] /\ sent = [s \in Stream |-> <<>>]
  /\ known = [s \in Stream |-> {}] /\ last = [s \in Stream |-> 0]
  /\ queue = [s \in Stream |-> <<>>] /\ socket = [s \in Stream |-> <<>>]
  /\ redis \in {"unset", "up"} /\ flips = 0

Streaming(s) == Connect(s) \/ Subscribe(s) \/ TakeRedis(s) \/ FallBack(s) \/ Take(s) \/ Poll(s)

RealtimeNext ==
  \/ \E r \in Publication : Stamp(r) \/ Store(r) \/ Publish(r) \/ Abandon(r)
  \/ \E s \in Stream : Streaming(s) \/ Disconnect(s)
  \/ Flip

\* The event loop keeps running the generator of a connection.
RealtimeSpec ==
  RealtimeInit /\ [][RealtimeNext]_realtimeVars /\ \A s \in Stream : WF_realtimeVars(Streaming(s))

-----------------------------------------------------------------------------
RealtimeTypeOK ==
  /\ stamped \in Seq(Publication) /\ IsInjective(stamped)
  /\ outbox \subseteq Range(stamped)
  /\ todo \in [Publication -> Seq(Channel)] /\ done \subseteq Publication
  /\ phase \in [Stream -> {"new", "listed", "redis", "bus", "closed"}]
  /\ \A s \in Stream :
       /\ sent[s] \in Seq(Publication) /\ known[s] \subseteq Publication /\ last[s] \in 0 .. Len(stamped)
       /\ queue[s] \in Seq(Publication) /\ Len(queue[s]) <= QueueLimit
       /\ socket[s] \in Seq(Publication)
  /\ redis \in {"unset", "up", "down"} /\ flips \in 0 .. MaxFlips

\* A client is never shown an event that the outbox does not hold, so what it
\* was shown can be replayed (append before fan-out in publish_protocol_event).
SentIsStored == \A s \in Stream : Range(sent[s]) \subseteq outbox

\* A stream that has only known the bus never sends an event twice, although
\* the listing, the bus and the polls all bring it the same events (seen_ids).
NoRepeats == redis = "unset" => \A s \in Stream : IsInjective(sent[s])

\* What a stream sends can be replayed from the outbox and is sent once.
StreamIsSound == RealtimeTypeOK /\ SentIsStored /\ NoRepeats

\* A row that is stored reaches an open stream off Redis, or a newer one does:
\* however fan-out failed, ran in another process or was dropped by the queue.
NewestArrives ==
  \A s \in Stream, e \in Publication :
    (e \in outbox /\ Wants(s, e) /\ phase[s] = "bus")
      ~> (phase[s] = "closed" \/ \E n \in Range(sent[s]) : e \in outbox /\ At(n) >= At(e))
=============================================================================
