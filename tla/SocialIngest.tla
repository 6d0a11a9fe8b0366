----------------------------- MODULE SocialIngest -----------------------------
(***************************************************************************)
(* How news items become social events.  The ingest worker and the         *)
(* scheduled job run the same script: they fetch each feed and post every  *)
(* item they find to /social/ingest, again and again.  The rate limiter    *)
(* counts the request, the service looks whether it has the event, has it  *)
(* scored and inserts it.  The client's timeout does not stop the server,  *)
(* and nothing is locked while the scorer is asked.                        *)
(***************************************************************************)
EXTENDS Integers, Sequences, FiniteSets, SequencesExt, FiniteSetsExt

CONSTANTS
  Worker, HostOf,      \* the processes that run the script, and their addresses
  FeedList,            \* SOCIAL_FEED_URLS
  Item, FeedOf,        \* items with a title; the feed that publishes each
  ItemsPerFeed,
  Text,                \* what the heuristic sees in an item
  Answers, NoAnswer,   \* what the AI may say of an item
  Handler,             \* the requests the server may serve at once
  MaxRequests,         \* RATE_LIMIT_MAX_REQUESTS
  FailOpen,            \* RATE_LIMIT_FAIL_OPEN
  MaxFailures          \* bound: failures of feeds, network, processes and Redis

Feed == Range(FeedList)
Host == {HostOf[w] : w \in Worker}

ASSUME SocialAssumption ==
  /\ FeedOf \in [Item -> Feed] /\ FeedList \in Seq(Feed) /\ IsInjective(FeedList)
  /\ ItemsPerFeed \in Nat \ {0} /\ MaxRequests \in Nat /\ FailOpen \in BOOLEAN
  /\ \A i \in Item : Text[i] \in [blank : BOOLEAN, predictive : BOOLEAN, markers : Nat, digits : Nat,
                                  velocity : Int, volume : Int, sentiment : Int]
  /\ NoAnswer \in Answers /\ MaxFailures \in Nat
  /\ \A answer \in Answers : answer = NoAnswer \/ answer \in [bps : Int, eligible : BOOLEAN]
  \* One round of a worker fits in a window: see ListedIsStored.
  /\ \A h \in Host : Cardinality({w \in Worker : HostOf[w] = h}) * Cardinality(Range(FeedOf)) * ItemsPerFeed <= MaxRequests

VARIABLES
  listing,   \* per feed: its items, newest first
  worker,    \* per worker: the feeds and items it has still to do, the request it waits for
  rested,    \* the workers that have slept through the end of a window since their last round
  handler,   \* per request: the item, its step, who waits for the answer
  rows,      \* social_events
  told,      \* per item: how often a request was answered with "ingested"
  count,     \* per host: the counter of this window in Redis
  passed,    \* per host: the requests let through in this window
  failures

socialVars == <<listing, worker, rested, handler, rows, told, count, passed, failures>>

Absent == [none |-> TRUE]
Free   == [step |-> "free", by |-> {}]
Nobody == [todo |-> <<>>, items |-> <<>>]

Fails == failures < MaxFailures /\ failures' = failures + 1

-----------------------------------------------------------------------------
(* Scores.                                                                 *)

Least(a, b) == Min({a, b})
Most(a, b)  == Max({a, b})
ClampBps(bps) == Most(0, Least(10000, bps))
BpsSet        == 0 .. 10000

\* heuristic_signal_score; "\div" rounds down as "//" does.
Heuristic(i) ==
  LET t   == Text[i]
      bps == 2500 + (IF t.predictive THEN 1800 ELSE 0) + Least(2200, t.markers * 400)
               + (IF t.digits >= 3 THEN 900 ELSE 0)
               + Least(1200, Most(0, t.velocity \div 10) + Most(0, t.volume \div 20))
  IN  IF t.blank THEN [bps |-> 0, eligible |-> FALSE]
      ELSE [bps |-> ClampBps(bps), eligible |-> ClampBps(bps) >= 5500]

\* score_event_signal
Score(i, answer) ==
  IF answer = NoAnswer \/ Text[i].blank THEN Heuristic(i)
  ELSE [bps |-> ClampBps(answer.bps), eligible |-> answer.eligible]

\* What /feeds shows of an event: a score of 0 is taken for none.
Shown(i) == IF rows[i].bps > 0 THEN rows[i] ELSE Heuristic(i)

-----------------------------------------------------------------------------
(* The script.                                                             *)

SocialInit ==
  /\ listing = [f \in Feed |-> <<>>]
  /\ worker = [w \in Worker |-> Nobody] /\ rested = Worker
  /\ handler = [h \in Handler |-> Free]
  /\ rows = [i \in Item |-> Absent] /\ told = [i \in Item |-> 0]
  /\ count = [a \in Host |-> 0] /\ passed = [a \in Host |-> 0]
  /\ failures = 0

Listed == UNION {Range(listing[f]) : f \in Feed}

\* External: a feed gets an item.
Publish(i) ==
  /\ i \notin Listed
  /\ listing' = [listing EXCEPT ![FeedOf[i]] = <<i>> \o @]
  /\ UNCHANGED <<worker, rested, handler, rows, told, count, passed, failures>>

\* _parse_rss_items, _parse_atom_items
FeedPage(f) == SubSeq(listing[f], 1, Least(ItemsPerFeed, Len(listing[f])))

Waiting(w) == \E h \in Handler : w \in handler[h].by

\* interval_seconds is longer than a window of the limiter.
Begin(w) ==
  /\ worker[w] = Nobody /\ w \in rested
  /\ worker' = [worker EXCEPT ![w].todo = FeedList]
  /\ rested' = rested \ {w}
  /\ UNCHANGED <<listing, handler, rows, told, count, passed, failures>>

\* A feed that cannot be fetched or parsed is passed over.
Fetch(w) ==
  /\ worker[w].todo # <<>> /\ worker[w].items = <<>>
  /\ \/ /\ worker' = [worker EXCEPT ![w] = [todo |-> Tail(@.todo), items |-> FeedPage(Head(@.todo))]]
        /\ UNCHANGED failures
     \/ /\ Fails
        /\ worker' = [worker EXCEPT ![w].todo = Tail(@)]
  /\ UNCHANGED <<listing, rested, handler, rows, told, count, passed>>

\* Any free handler will do: they are alike.
Post(w) ==
  LET free == {h \in Handler : handler[h] = Free}
  IN /\ worker[w].items # <<>> /\ ~Waiting(w) /\ free # {}
     /\ handler' = [handler EXCEPT ![CHOOSE h \in free : TRUE] =
          [item |-> Head(worker[w].items), from |-> HostOf[w], by |-> {w}, step |-> "arrived"]]
     /\ UNCHANGED <<listing, worker, rested, rows, told, count, passed, failures>>

Advance(ws) == [w \in Worker |-> IF w \in ws THEN [worker[w] EXCEPT !.items = Tail(@)] ELSE worker[w]]

\* The client gives up; the server does not know.
Timeout(w) ==
  /\ Fails
  /\ \E h \in Handler :
       /\ w \in handler[h].by
       /\ handler' = [handler EXCEPT ![h].by = {}]
  /\ worker' = Advance({w})
  /\ UNCHANGED <<listing, rested, rows, told, count, passed>>

\* The process is replaced, or the job is cut after ten minutes.
Restart(w) ==
  /\ worker[w] # Nobody /\ Fails
  /\ worker' = [worker EXCEPT ![w] = Nobody]
  /\ handler' = [h \in Handler |-> IF w \in handler[h].by THEN [handler[h] EXCEPT !.by = {}] ELSE handler[h]]
  /\ UNCHANGED <<listing, rested, rows, told, count, passed>>

-----------------------------------------------------------------------------
(* The server.                                                             *)

\* The answer ends the request; a worker that waits goes on, whatever it says.
Answer(h) ==
  /\ handler' = [handler EXCEPT ![h] = Free]
  /\ worker' = Advance(handler[h].by)
  /\ UNCHANGED <<listing, rested>>

Continue(h, step) ==
  /\ handler' = [handler EXCEPT ![h].step = step]
  /\ UNCHANGED <<listing, worker, rested>>

\* Error: the first request over the limit passes.
WithinOne(n) == n <= MaxRequests + 1

Within(n) == n <= MaxRequests

Allow(h) ==
  Continue(h, "limited") /\ passed' = [passed EXCEPT ![handler[h].from] = @ + 1]

\* check_rate_limit: INCR is atomic and counts refused requests too.
CheckLimit(h) ==
  /\ handler[h].step = "arrived"
  /\ count' = [count EXCEPT ![handler[h].from] = @ + 1]
  /\ IF Within(count'[handler[h].from]) THEN Allow(h) ELSE Answer(h) /\ UNCHANGED passed
  /\ UNCHANGED <<rows, told, failures>>

\* Redis fails, at INCR or at the EXPIRE that follows the first one.
LimiterFails(h) ==
  /\ handler[h].step = "arrived" /\ Fails
  /\ \/ UNCHANGED count
     \/ count[handler[h].from] = 0 /\ count' = [count EXCEPT ![handler[h].from] = 1]
  /\ IF FailOpen THEN Allow(h) ELSE Answer(h) /\ UNCHANGED passed
  /\ UNCHANGED <<rows, told>>

Exists(i) == rows[i] # Absent

\* ingest_event: an event it has is a duplicate.
LookUp(h) ==
  /\ handler[h].step = "limited"
  /\ LET i == handler[h].item IN
       IF Exists(i) THEN Answer(h) ELSE Continue(h, "new")
  /\ UNCHANGED <<rows, told, count, passed, failures>>

\* Error: session.merge.
Merge(i) == TRUE

\* create_event: uq_social_source_external_id refuses a second row.
Insertable(i) == rows[i] = Absent

\* The scorer has answered, or failed; the row is inserted, or the insert is refused.
Create(h) ==
  /\ handler[h].step = "new"
  /\ LET i == handler[h].item IN
       IF Insertable(i)
       THEN /\ \E answer \in Answers : rows' = [rows EXCEPT ![i] = Score(i, answer)]
            /\ told' = [told EXCEPT ![i] = @ + 1]
       ELSE UNCHANGED <<rows, told>>
  /\ Answer(h)
  /\ UNCHANGED <<count, passed, failures>>

\* The server dies or cannot reach its database; or the item is dated ahead of
\* the server's clock, which will not be so for ever.
Break(h) ==
  /\ handler[h] # Free /\ Fails
  /\ Answer(h)
  /\ UNCHANGED <<rows, told, count, passed>>

\* Error: the key does not name the window, and its EXPIRE was lost.
Carried(a) == Least(count[a], MaxRequests)

\* The counter a host finds in a new window: its key names the window.
Fresh(a) == 0

NextWindow ==
  /\ count' = [a \in Host |-> Fresh(a)] /\ passed' = [a \in Host |-> 0]
  /\ rested' = rested \cup {w \in Worker : worker[w] = Nobody}
  /\ UNCHANGED <<listing, worker, handler, rows, told, failures>>

Serve(h) == CheckLimit(h) \/ LookUp(h) \/ Create(h)
RunOnce(w) == Begin(w) \/ Fetch(w) \/ Post(w)

SocialNext ==
  \/ \E i \in Item : Publish(i)
  \/ \E w \in Worker : RunOnce(w) \/ Timeout(w) \/ Restart(w)
  \/ \E h \in Handler : Serve(h) \/ LimiterFails(h) \/ Break(h)
  \/ NextWindow

\* The script loops, the server answers, time passes.
SocialSpec ==
  /\ SocialInit /\ [][SocialNext]_socialVars /\ WF_socialVars(NextWindow)
  /\ \A w \in Worker : WF_socialVars(RunOnce(w))
  /\ \A h \in Handler : WF_socialVars(Serve(h))

-----------------------------------------------------------------------------
SocialTypeOK ==
  /\ \A f \in Feed : IsInjective(listing[f]) /\ \A i \in Range(listing[f]) : FeedOf[i] = f
  /\ rested \subseteq Worker
  /\ \A w \in Worker :
       /\ worker[w].todo \in Seq(Feed) /\ worker[w].items \in Seq(Item)
       /\ Cardinality({h \in Handler : w \in handler[h].by}) <= 1
  /\ \A h \in Handler : handler[h] = Free \/
       handler[h] \in [item : Item, from : Host, by : SUBSET Worker, step : {"arrived", "limited", "new"}]
  /\ \A i \in Item : rows[i] = Absent \/ rows[i] \in [bps : BpsSet, eligible : BOOLEAN]
  /\ told \in [Item -> Nat] /\ count \in [Host -> Nat] /\ passed \in [Host -> Nat]
  /\ failures \in 0 .. MaxFailures

\* However many requests bring the same item at once, it becomes one event: one
\* of them is told so, and nobody unless it is stored (the check before the
\* scorer is asked is not enough, uq_social_source_external_id is); what the feed
\* shows of it is what the AI or the heuristic said, score and eligibility together.
IngestedOnce ==
  /\ SocialTypeOK
  /\ \A i \in Item : told[i] = (IF rows[i] = Absent THEN 0 ELSE 1)
  /\ \A i \in Item : rows[i] # Absent => Shown(i) \in {Score(i, answer) : answer \in Answers}

\* A limiter that fails closed lets no host through more often than the limit
\* in a window, whatever fails between its two commands (check_rate_limit).
LimitHolds == ~FailOpen => \A a \in Host : passed[a] <= MaxRequests

FrontOf(f) == {listing[f][n] : n \in {k \in DOMAIN listing[f] : k <= ItemsPerFeed}}

\* An item that stays among the first of its feed is stored in the end: a
\* failed fetch, a timeout, a refusal by the limiter or by the clock is made
\* good in a later round (run_once counts the error and goes on).
ListedIsStored ==
  \A i \in Item :
    <>[](i \in FrontOf(FeedOf[i])) => <>(rows[i] # Absent)
=============================================================================
