--------------------------- MODULE EventGenerator ---------------------------
(***************************************************************************)
(* The event generator's command line: one process after another reads its  *)
(* options, draws a catalog, and then generates, emits and sleeps until it   *)
(* reached its number of events, a signal asked it to stop, the sink failed  *)
(* or it was killed.  What the processes published stays in the stream.      *)
(***************************************************************************)
EXTENDS Integers, Sequences, FiniteSets, Functions

CONSTANTS
  Configs,       \* the options a process may be started with
  Clock,         \* the times a process may be started at
  Draws,         \* seed -> what Faker returns for it
  PrefixOf,      \* seed -> the 32 bits every event id of a run begins with
  Phases, Rate,  \* the traffic phases and their events per second
  LastHour,      \* 23
  LastMs,        \* 3_599_999, the last millisecond of an hour
  Modulus,       \* _EVENT_ID_COUNTER_MASK + 1
  Multiplier,    \* _EVENT_ID_COUNTER_MULTIPLIER
  Resends,       \* how often a Redis Cluster client sends a command again
  LandingPages,  \* _LANDING_PAGE_PATHS
  Null,          \* None: no field, event, window, process, limit, category
  MaxRuns,       \* bound: processes in a behaviour
  MaxSequence    \* bound: events of a run that nothing else ends

\* A moment: its day, its hour, its millisecond of the hour and the rest.
Moments == [day : Int, hour : 0 .. LastHour, ms : 0 .. LastMs, micro : Nat]

ASSUME ConstantsAssumption ==
  /\ Null \notin Moments /\ Clock \subseteq Moments
  /\ DOMAIN PrefixOf = DOMAIN Draws
  /\ \A c \in Configs : /\ c.seed \in DOMAIN Draws
                        /\ c.start \in Moments \cup {Null}
                        /\ c.limit \in (Nat \ {0}) \cup {Null}
                        /\ c.minSeconds \in Nat \ {0} /\ c.maxSeconds \in Nat \ {0}
  /\ Rate \in [Phases -> Nat \ {0}]
  /\ LastHour \in Nat /\ LastMs \in Nat /\ Null \notin Nat
  /\ Modulus \in Nat \ {0} /\ Multiplier \in Nat
  /\ Resends \in Nat /\ MaxRuns \in Nat /\ MaxSequence \in Nat

\* One is its only odd divisor.
PowerOfTwo(n) == \A d, q \in 1 .. n : d * q = n => d = 1 \/ d % 2 = 0

ASSUME CounterAssumption == PowerOfTwo(Modulus) /\ Multiplier % 2 = 1

Faker == INSTANCE FakerCatalog WITH NoCategory <- Null

NoText == ""

\* What Faker returns for a seed; its names are not empty, and the numbered forms
\* of a name neither, and differ.
ASSUME DrawsAssumption ==
  \A draw \in Range(Draws) :
    /\ draw.users \in Seq([slug : STRING \ {NoText}, category : STRING])
    /\ draw.products \in Seq([slug : STRING \ {NoText}, category : STRING, cents : Nat])
    /\ draw.pages \in Seq([path : STRING, category : STRING])
    /\ \A items \in {draw.users, draw.products} : \A i \in DOMAIN items :
         \A m, n \in 2 .. Len(items) + 2 :
           /\ Faker!Numbered(items[i].slug, n) # NoText
           /\ Faker!Numbered(items[i].slug, m) = Faker!Numbered(items[i].slug, n) => m = n

VARIABLES
  pc,         \* where main is, "off" without a process
  config,     \* the options of the process
  start,      \* _start_time
  reference,  \* _reference_time
  catalog,    \* _faker_catalog
  window,     \* _current_window
  remaining,  \* _remaining_events_in_window
  sequence,   \* _event_sequence
  event,      \* the event main holds
  emitted,    \* main's count of the events it emitted
  resent,     \* how often the event was sent again
  shutdown,   \* shutdown_flag.requested
  sink,       \* "none", "open", "closed"
  exit,       \* how the last process ended
  published,  \* every entry the sink's target received
  runs,       \* history: processes started
  spent,      \* history: events of the current window
  late        \* history: events emitted since shutdown was requested

traffic == <<window, remaining, spent>>
process == <<config, start, reference, catalog, sequence>>
vars == <<pc, process, traffic, event, emitted, resent, shutdown, sink, exit,
          published, runs, late>>

Running == pc # "off"

Init == /\ pc = "off" /\ config = Null /\ start = Null /\ reference = Null
        /\ catalog = Null /\ window = Null /\ remaining = 0 /\ sequence = 0
        /\ event = Null /\ emitted = 0 /\ resent = 0 /\ shutdown = FALSE
        /\ sink = "none" /\ exit = Null /\ published = <<>>
        /\ runs = 0 /\ spent = 0 /\ late = 0
-----------------------------------------------------------------------------
(* Event times                                                              *)

\* t is not later than u.
NotAfter(t, u) ==
  \/ t.day < u.day
  \/ t.day = u.day /\ t.hour < u.hour
  \/ t.day = u.day /\ t.hour = u.hour /\ t.ms < u.ms
  \/ t.day = u.day /\ t.hour = u.hour /\ t.ms = u.ms /\ t.micro <= u.micro

Floor(t) == [t EXCEPT !.micro = 0]

Midnight(day) == [day |-> day, hour |-> 0, ms |-> 0, micro |-> 0]

\* Without --start-time, yesterday's midnight of a clock read a moment earlier.
StartTimes(c, now) == IF c.start # Null THEN {c.start}
                      ELSE {Midnight(now.day - 1), Midnight(now.day - 2)}

\* The event date is the start's: the hours between start and reference on it.
AllowedHours ==
  {h \in 0 .. LastHour : ~(h < start.hour) /\ ~(start.day = reference.day /\ h > reference.hour)}

LowerBound(h) == IF h = start.hour THEN start.ms ELSE 0
MutUpperBound(h) == LastMs
MutInclusive(h) == IF start.day = reference.day /\ h = reference.hour
                   THEN reference.ms ELSE LastMs + 1
UpperBound(h) == IF start.day = reference.day /\ h = reference.hour
                 THEN reference.ms ELSE LastMs

\* Every hour has a weight of at least one in every phase.
OccurredAt ==
  UNION {{[day |-> start.day, hour |-> h, ms |-> m, micro |-> 0] :
            m \in LowerBound(h) .. UpperBound(h)} : h \in AllowedHours}
-----------------------------------------------------------------------------
(* Event ids and fields                                                     *)

MutPermuted(n) == ((n * Multiplier) % Modulus) \div 2
Permuted(n) == (n * Multiplier) % Modulus

EventId(n) == <<PrefixOf[config.seed], Permuted(n)>>

\* A purchase is discounted by at most a fifth.
MutAmounts(product) == 0 .. product.cents
Amounts(product) == {product.cents - d : d \in 0 .. product.cents \div 5}

ErrorCodes == {"PAYMENT_DECLINED", "TIMEOUT", "INVALID_COUPON", "PG_UNAVAILABLE"}

ASSUME ErrorsAssumption == Null \notin ErrorCodes

Fields(type, page, category, product, amount, error) ==
  [type |-> type, page |-> page, category |-> category, product |-> product,
   amount |-> amount, error |-> error]

PageViews == {Fields("page_view", t.path, t.category, Null, Null, Null) :
                t \in catalog.pageTargets}
Clicks == {Fields("product_click", "/products/" \o p.id, p.category, p.id, Null, Null) :
             p \in catalog.products}
Carts == {Fields("add_to_cart", Null, p.category, p.id, Null, Null) : p \in catalog.products}
Purchases == UNION {{Fields("purchase", Null, p.category, p.id, a, Null) : a \in Amounts(p)} :
                      p \in catalog.products}
CheckoutErrors == {Fields("checkout_error", Null, p.category, p.id, Null, e) :
                     p \in catalog.products, e \in ErrorCodes}

\* The preferred category of the user only makes its items likelier.
Choices == PageViews \cup Clicks \cup Carts \cup Purchases \cup CheckoutErrors
-----------------------------------------------------------------------------
(* A process                                                                *)

\* Options the parser, the traffic profile or the generator refuses.
Refused(c, from, now) == c.minSeconds > c.maxSeconds \/ ~NotAfter(from, now)

UsageError(c, now) ==
  /\ pc = "off" /\ runs < MaxRuns
  /\ \E from \in StartTimes(c, now) : Refused(c, from, now)
  /\ runs' = runs + 1 /\ exit' = 2 /\ sink' = "none"
  /\ UNCHANGED <<pc, process, traffic, event, emitted, resent, shutdown, published, late>>

\* The catalog is drawn, the window and the counters are fresh, and the sink
\* is built.
Launch(c, now) ==
  /\ pc = "off" /\ runs < MaxRuns
  /\ \E from \in StartTimes(c, now) : ~Refused(c, from, now) /\ start' = from
  /\ config' = c /\ reference' = now /\ catalog' = Faker!Catalog(Draws[c.seed])
  /\ window' = Null /\ remaining' = 0 /\ spent' = 0 /\ sequence' = 0
  /\ event' = Null /\ emitted' = 0 /\ resent' = 0 /\ shutdown' = FALSE /\ late' = 0
  /\ pc' = "next" /\ sink' = "open" /\ exit' = Null
  /\ runs' = runs + 1
  /\ UNCHANGED published

\* The clients are built before the try block: nothing is closed.
SinkFails(c, now) ==
  /\ pc = "off" /\ runs < MaxRuns
  /\ \E from \in StartTimes(c, now) : ~Refused(c, from, now)
  /\ runs' = runs + 1 /\ exit' = 1 /\ sink' = "none"
  /\ UNCHANGED <<pc, process, traffic, event, emitted, resent, shutdown, published, late>>

\* next_phase rotates the window when it is used up.
MutUsedUp == remaining <= 1
UsedUp == remaining <= 0
Windows == [phase : Phases, seconds : config.minSeconds .. config.maxSeconds]
Capacity(w) == w.seconds * Rate[w.phase]

NextPhase ==
  \/ /\ UsedUp
     /\ \E w \in Windows : window' = w /\ remaining' = Capacity(w) - 1
     /\ spent' = 1
  \/ /\ ~UsedUp
     /\ remaining' = remaining - 1 /\ spent' = spent + 1
     /\ UNCHANGED window

\* The loop asks iter_events for the next event, whose own count ends the loop where
\* main's does: the events generated are those emitted.
NextEvent == IF config.limit # Null /\ sequence >= config.limit THEN "close" ELSE "next"

\* generate_one, for an event that iter_events yields.
Generate ==
  /\ pc = "next"
  /\ sequence < MaxSequence + (IF shutdown THEN 1 ELSE 0)
  /\ pc' = "check"
  /\ NextPhase
  /\ sequence' = sequence + 1
  /\ \E fields \in Choices, at \in OccurredAt, u \in catalog.users :
       event' = [id |-> EventId(sequence'), at |-> at, user |-> u.id,
                 phase |-> window'.phase, fields |-> fields]
  /\ UNCHANGED <<config, start, reference, catalog, emitted, resent, shutdown, sink, exit,
                 published, runs, late>>

\* A requested shutdown drops the event at hand.
MutDropAndGoOn ==
  /\ pc = "check"
  /\ pc' = IF shutdown THEN NextEvent ELSE "emit"
  /\ UNCHANGED <<process, traffic, event, emitted, resent, shutdown, sink, exit,
                 published, runs, late>>
MutCheckShutdown ==
  /\ pc = "check"
  /\ pc' = "emit"
  /\ UNCHANGED <<process, traffic, event, emitted, resent, shutdown, sink, exit,
                 published, runs, late>>
CheckShutdown ==
  /\ pc = "check"
  /\ pc' = IF shutdown THEN "close" ELSE "emit"
  /\ UNCHANGED <<process, traffic, event, emitted, resent, shutdown, sink, exit,
                 published, runs, late>>

Entry == [id |-> event.id, run |-> runs, seed |-> config.seed, number |-> sequence]

Emit ==
  /\ pc = "emit"
  /\ pc' = "emitted"
  /\ published' = Append(published, Entry)
  /\ emitted' = emitted + 1
  /\ event' = Null /\ resent' = 0
  /\ late' = IF shutdown THEN late + 1 ELSE late
  /\ UNCHANGED <<process, traffic, shutdown, sink, exit, runs>>

\* The entry is added but the reply is lost: the client sends the command again
\* or raises.
ReplyLost ==
  /\ pc = "emit"
  /\ published' = Append(published, Entry)
  /\ IF config.sink = "cluster" /\ resent < Resends
       THEN resent' = resent + 1 /\ UNCHANGED pc
       ELSE pc' = "failing" /\ UNCHANGED resent
  /\ UNCHANGED <<process, traffic, event, emitted, shutdown, sink, exit, runs, late>>

EmitRaises ==
  /\ pc = "emit"
  /\ pc' = "failing"
  /\ UNCHANGED <<process, traffic, event, emitted, resent, shutdown, sink, exit,
                 published, runs, late>>

\* Enough events, another one at once, or a rate's delay later.
MutReachedLimit == config.limit # Null /\ emitted + 1 >= config.limit
ReachedLimit == config.limit # Null /\ emitted >= config.limit

Continue ==
  /\ pc = "emitted"
  /\ pc' = IF ReachedLimit THEN "close" ELSE IF config.noSleep THEN NextEvent ELSE "sleep"
  /\ UNCHANGED <<process, traffic, event, emitted, resent, shutdown, sink, exit,
                 published, runs, late>>

\* A signal does not cut the sleep short.
Wake ==
  /\ pc = "sleep"
  /\ pc' = NextEvent
  /\ UNCHANGED <<process, traffic, event, emitted, resent, shutdown, sink, exit,
                 published, runs, late>>

\* The finally clause; after it an exception ends the process.
Close ==
  /\ pc \in {"close", "failing"}
  /\ sink' = "closed"
  /\ IF pc = "close" THEN pc' = "summary" /\ UNCHANGED exit
                     ELSE pc' = "off" /\ exit' = 1
  /\ UNCHANGED <<process, traffic, event, emitted, resent, shutdown, published, runs, late>>

PrintSummary ==
  /\ pc = "summary"
  /\ pc' = "off" /\ exit' = 0
  /\ UNCHANGED <<process, traffic, event, emitted, resent, shutdown, sink,
                 published, runs, late>>

\* SIGINT or SIGTERM, at any time.
RequestShutdown ==
  /\ Running /\ ~shutdown
  /\ shutdown' = TRUE
  /\ UNCHANGED <<pc, process, traffic, event, emitted, resent, sink, exit, published, runs, late>>

Killed == 137

Kill ==
  /\ Running
  /\ pc' = "off" /\ exit' = Killed
  /\ UNCHANGED <<process, traffic, event, emitted, resent, shutdown, sink,
                 published, runs, late>>

Work == \/ Generate \/ CheckShutdown \/ Emit \/ EmitRaises \/ Continue \/ Wake
        \/ Close \/ PrintSummary

Next == \/ \E c \in Configs, now \in Clock :
             UsageError(c, now) \/ Launch(c, now) \/ SinkFails(c, now)
        \/ Work \/ ReplyLost \/ RequestShutdown \/ Kill

Spec == Init /\ [][Next]_vars

\* A running process goes on: every call of the sink returns or raises, and
\* every sleep ends.
FairSpec == Spec /\ WF_vars(Work)
-----------------------------------------------------------------------------
(* Properties                                                               *)

Labels == {"off", "next", "check", "emit", "emitted", "sleep", "close", "failing",
           "summary"}

TypeOK ==
  /\ pc \in Labels
  /\ config \in Configs \cup {Null}
  /\ {start, reference} \subseteq Moments \cup {Null}
  /\ Running => config \in Configs /\ {start, reference} \subseteq Moments
  /\ window = Null \/ window \in [phase : Phases, seconds : Nat \ {0}]
  /\ {remaining, sequence, emitted, spent, late} \subseteq Nat
  /\ resent \in 0 .. Resends
  /\ event # Null => event.at \in Moments /\ event.phase \in Phases
  /\ shutdown \in BOOLEAN
  /\ sink \in {"none", "open", "closed"}
  /\ exit \in {Null, 0, 1, 2, Killed}
  /\ published \in Seq([id : Range(PrefixOf) \X (0 .. Modulus - 1), run : 1 .. MaxRuns,
                        seed : DOMAIN Draws, number : Nat])
  /\ runs \in 0 .. MaxRuns

\* Until the counter wraps, an event id names one event of all the entries ever
\* published, sent once or again: two runs repeat each other's ids only if their
\* seeds have the same prefix, in which case the events table keeps the first.
IdNamesOneEvent ==
  \A i, j \in DOMAIN published :
    /\ published[i].id = published[j].id
    /\ published[i].number <= Modulus /\ published[j].number <= Modulus
    => /\ published[i].number = published[j].number
       /\ PrefixOf[published[i].seed] = PrefixOf[published[j].seed]

\* Every event happened on the start's date, not before the start, its fraction of
\* a millisecond apart, and not after the time the process was started.
OccursInWindow ==
  event # Null => /\ event.at.day = start.day
                  /\ NotAfter(Floor(start), event.at)
                  /\ NotAfter(event.at, reference)

\* A traffic window is left only after exactly seconds x rate events of its phase,
\* so that the delays after them add up to its duration.
WindowKeepsRate ==
  [][pc = "next" /\ pc' = "check" =>
       /\ event'.phase = window'.phase
       /\ IF spent' = 1 THEN window # Null => spent = Capacity(window)
                        ELSE window' = window /\ spent' <= Capacity(window)]_vars

\* At most one event is emitted after a shutdown was requested.
ShutdownIsPrompt == late <= 1

\* What a summary reports is what the sink received, no more, no less, however
\* often an entry was sent again, and the process stopped because it was told to
\* or reached its limit; a sink that failed received one more event at most.
SummaryIsTrue ==
  LET numbers == {published[i].number : i \in {j \in DOMAIN published : published[j].run = runs}}
  IN  /\ exit = 0 => /\ numbers = 1 .. emitted /\ sink = "closed"
                     /\ shutdown \/ emitted = config.limit
      /\ exit = 1 /\ sink = "closed" => /\ 1 .. emitted \subseteq numbers
                                        /\ numbers \subseteq 1 .. emitted + 1

\* WebEventPayload: the texts every event needs are not empty.
PassesSchema(e) == /\ NoText \notin {e.user, config.producer}
                   /\ e.fields.type \in {"page_view", "product_click", "add_to_cart",
                                         "purchase", "checkout_error"}

\* Every event passes the consumer's schema unless its producer id is empty, and
\* agrees with the catalog: its category is that of the one product with its id, or
\* of every page with its path, landing pages apart, and a purchase, and only a
\* purchase, costs what its product does less at most a fifth.
EventIsWhole ==
  event # Null =>
    LET f == event.fields
        products == {p \in catalog.products : p.id = f.product}
        pages == {t \in catalog.pageTargets : t.path = f.page}
    IN  /\ config.producer # NoText => PassesSchema(event)
        /\ f.type = "page_view" =>
             /\ f.product = Null /\ pages # {}
             /\ f.page \in LandingPages \/ \A t \in pages : t.category = f.category
        /\ f.type # "page_view" => /\ Cardinality(products) = 1
                                   /\ \A p \in products : p.category = f.category
        /\ (f.type = "purchase") <=> (f.amount # Null)
        /\ f.type = "purchase" => \A p \in products : /\ f.amount <= p.cents
                                                      /\ 5 * f.amount >= 4 * p.cents
        /\ (f.type = "checkout_error") <=> (f.error # Null)

\* A process that was told to stop, or has a limit, ends.
ProcessEnds == Running /\ (shutdown \/ config.limit # Null) ~> ~Running
=============================================================================
