------------------------ MODULE EventGeneratorProofs ------------------------
(***************************************************************************)
(* Theorems about EventGenerator, for any options, clock, draws, rates,     *)
(* width of the counter and odd multiplier: ids name one event, events      *)
(* occur in their window and are whole, traffic windows keep their rate, a  *)
(* shutdown is prompt and a summary is true.                                *)
(***************************************************************************)
EXTENDS EventGenerator, NaturalSets, FiniteSetTheorems, TLAPS

Entries == [id : Range(PrefixOf) \X (0 .. Modulus - 1), run : 1 .. MaxRuns,
            seed : DOMAIN Draws, number : Nat]

LEMMA IdType == ASSUME NEW n \in Nat, config \in Configs
                PROVE  EventId(n) \in Range(PrefixOf) \X (0 .. Modulus - 1)
<1>1. (n * Multiplier) % Modulus \in 0 .. Modulus - 1
  BY ConstantsAssumption, SMT DEF ConstantsAssumption
<1>2. PrefixOf[config.seed] \in Range(PrefixOf)
  BY ConstantsAssumption DEF ConstantsAssumption, Range
<1> QED BY <1>1, <1>2 DEF EventId, Permuted

\* The events of the current window: those there were and those it has left.
Windowed ==
  \/ window = Null /\ remaining = 0 /\ spent = 0
  \/ /\ window \in [phase : Phases, seconds : Nat \ {0}]
     /\ spent \in Nat \ {0} /\ remaining \in Nat
     /\ spent + remaining = Capacity(window)

LEMMA CapacityType ==
  ASSUME NEW w \in [phase : Phases, seconds : Nat \ {0}]
  PROVE  Capacity(w) \in Nat \ {0}
<1>1. w.seconds \in Nat \ {0} /\ Rate[w.phase] \in Nat \ {0}
  BY ConstantsAssumption DEF ConstantsAssumption
<1>2. \A a, b \in Nat \ {0} : a * b \in Nat \ {0}
  BY SMT
<1> QED BY <1>1, <1>2 DEF Capacity
-----------------------------------------------------------------------------
(* Types *)

LEMMA TypeInit == Init => TypeOK
<1> SUFFICES ASSUME Init PROVE TypeOK
  OBVIOUS
<1>1. published = <<>>
  BY DEF Init
<1>2. published \in Seq(Entries)
  BY <1>1
<1>3. 0 \in 0 .. MaxRuns /\ 0 \in 0 .. Resends /\ {0} \subseteq Nat
  BY ConstantsAssumption DEF ConstantsAssumption
<1> QED BY <1>2, <1>3 DEF Init, TypeOK, Labels, Running, Entries

\* The clock a start time comes from, or the option given, is a moment.
LEMMA StartType ==
  ASSUME NEW c \in Configs, NEW now \in Clock, NEW from \in StartTimes(c, now)
  PROVE  from \in Moments /\ now \in Moments
<1>1. now \in Moments /\ c.start \in Moments \cup {Null}
  BY ConstantsAssumption DEF ConstantsAssumption
<1>2. \A day \in Int : Midnight(day) \in Moments
  BY ConstantsAssumption DEF ConstantsAssumption, Midnight, Moments
<1>3. now.day - 1 \in Int /\ now.day - 2 \in Int
  BY <1>1 DEF Moments
<1> QED BY <1>1, <1>2, <1>3 DEF StartTimes

LEMMA OccurredType ==
  ASSUME TypeOK, Running, NEW at \in OccurredAt
  PROVE  /\ at \in Moments
         /\ \E h \in AllowedHours : \E m \in LowerBound(h) .. UpperBound(h) :
              at = [day |-> start.day, hour |-> h, ms |-> m, micro |-> 0]
<1>0. PICK h \in AllowedHours :
        at \in {[day |-> start.day, hour |-> h, ms |-> m, micro |-> 0] :
                 m \in LowerBound(h) .. UpperBound(h)}
  BY DEF OccurredAt
<1>1. PICK m \in LowerBound(h) .. UpperBound(h) :
        at = [day |-> start.day, hour |-> h, ms |-> m, micro |-> 0]
  BY <1>0
<1>2. start \in Moments /\ reference \in Moments
  BY DEF TypeOK
<1>3. h \in 0 .. LastHour
  BY DEF AllowedHours
<1>4. m \in 0 .. LastMs
  BY <1>2, ConstantsAssumption DEF LowerBound, UpperBound, Moments, ConstantsAssumption
<1>5. at \in Moments
  BY <1>1, <1>2, <1>3, <1>4 DEF Moments
<1> QED BY <1>1, <1>5

LEMMA WindowType ==
  ASSUME TypeOK, Running, NEW w \in Windows
  PROVE  w \in [phase : Phases, seconds : Nat \ {0}]
BY ConstantsAssumption DEF Windows, TypeOK, ConstantsAssumption

\* Rotating opens a window of its full capacity, going on uses up one event.
LEMMA NextPhaseWindowed ==
  ASSUME TypeOK, Running, Windowed, NextPhase
  PROVE  /\ window' \in [phase : Phases, seconds : Nat \ {0}]
         /\ spent' \in Nat \ {0} /\ remaining' \in Nat
         /\ spent' + remaining' = Capacity(window')
         /\ IF spent' = 1 THEN window # Null => spent = Capacity(window)
                          ELSE window' = window /\ spent' <= Capacity(window)
<1>1. CASE UsedUp
  <2>1. PICK w \in Windows : window' = w /\ remaining' = Capacity(w) - 1
    BY <1>1 DEF NextPhase, UsedUp, Windowed
  <2>2. Capacity(w) \in Nat \ {0} /\ w \in [phase : Phases, seconds : Nat \ {0}]
    BY WindowType, CapacityType
  <2>3. spent' = 1
    BY <1>1 DEF NextPhase, UsedUp, Windowed
  <2>4. Capacity(window') = Capacity(w)
    BY <2>1
  <2>5. window # Null => spent = Capacity(window)
    <3>1. window # Null => /\ spent \in Nat /\ remaining \in Nat
                           /\ spent + remaining = Capacity(window)
      BY DEF Windowed
    <3>2. remaining <= 0
      BY <1>1 DEF UsedUp
    <3> QED BY <3>1, <3>2
  <2> QED BY <2>1, <2>2, <2>3, <2>4, <2>5
<1>2. CASE ~UsedUp
  <2>1. /\ window' = window /\ spent' = spent + 1 /\ remaining' = remaining - 1
        /\ remaining > 0
    BY <1>2 DEF NextPhase, UsedUp, TypeOK
  <2>2. /\ window \in [phase : Phases, seconds : Nat \ {0}]
        /\ spent \in Nat \ {0} /\ remaining \in Nat
        /\ spent + remaining = Capacity(window)
    BY <2>1 DEF Windowed
  <2>3. Capacity(window') = Capacity(window)
    BY <2>1
  <2>4. Capacity(window) \in Nat
    BY <2>2, CapacityType
  <2> QED BY <2>1, <2>2, <2>3, <2>4
<1> QED BY <1>1, <1>2

\* A step that starts or refuses a process.
Begins == \E c \in Configs, now \in Clock :
            UsageError(c, now) \/ Launch(c, now) \/ SinkFails(c, now)

LEMMA BeginType == TypeOK /\ Begins => TypeOK'
<1> SUFFICES ASSUME TypeOK, NEW c \in Configs, NEW now \in Clock,
                    UsageError(c, now) \/ Launch(c, now) \/ SinkFails(c, now)
             PROVE  TypeOK'
  BY DEF Begins
<1>1. runs' \in 0 .. MaxRuns
  BY ConstantsAssumption DEF UsageError, Launch, SinkFails, TypeOK, ConstantsAssumption
<1>2. CASE UsageError(c, now) \/ SinkFails(c, now)
  BY <1>1, <1>2 DEF UsageError, SinkFails, TypeOK, process, traffic, Running
<1>3. CASE Launch(c, now)
  <2>1. start' \in Moments /\ reference' \in Moments
    BY <1>3, StartType DEF Launch
  <2>2. /\ pc' \in Labels /\ config' \in Configs /\ shutdown' \in BOOLEAN
        /\ sink' \in {"none", "open", "closed"} /\ exit' \in {Null, 0, 1, 2, Killed}
    BY <1>3 DEF Launch, Labels
  <2>3. /\ window' = Null /\ event' = Null /\ resent' = 0
        /\ remaining' = 0 /\ sequence' = 0 /\ emitted' = 0 /\ spent' = 0 /\ late' = 0
    BY <1>3 DEF Launch
  <2>4. published' = published
    BY <1>3 DEF Launch
  <2> QED BY <1>1, <2>1, <2>2, <2>3, <2>4, ConstantsAssumption DEF TypeOK, ConstantsAssumption
<1> QED BY <1>2, <1>3

LEMMA GenerateType == TypeOK /\ Windowed /\ Generate => TypeOK'
<1> SUFFICES ASSUME TypeOK, Windowed, Generate PROVE TypeOK'
  OBVIOUS
<1>1. Running
  BY DEF Generate, Running
<1>2. NextPhase
  BY DEF Generate
<1>3. /\ window' \in [phase : Phases, seconds : Nat \ {0}]
      /\ remaining' \in Nat /\ spent' \in Nat
  BY <1>1, <1>2, NextPhaseWindowed
<1>4. window'.phase \in Phases
  BY <1>3
<1>5. event'.at \in Moments /\ event'.phase \in Phases
  <2>1. PICK fields \in Choices, at \in OccurredAt, u \in catalog.users :
          event' = [id |-> EventId(sequence'), at |-> at, user |-> u.id,
                    phase |-> window'.phase, fields |-> fields]
    BY DEF Generate
  <2> QED BY <2>1, <1>1, <1>4, OccurredType
<1>6. pc' = "check" /\ sequence' \in Nat
  BY DEF Generate, TypeOK
<1>7. UNCHANGED <<config, start, reference, emitted, resent, shutdown, sink, exit,
                  published, runs, late>>
  BY DEF Generate
<1> QED BY <1>1, <1>3, <1>5, <1>6, <1>7 DEF TypeOK, Labels, Running

\* The event at hand and the entries published bear the id of their number.
Named ==
  /\ Running => runs >= 1
  /\ pc \in {"check", "emit"} => event.id = EventId(sequence) /\ sequence >= 1
  /\ \A i \in DOMAIN published :
       /\ published[i].id = <<PrefixOf[published[i].seed], Permuted(published[i].number)>>
       /\ published[i].number >= 1 /\ published[i].run <= runs

LEMMA EntryType ==
  ASSUME TypeOK, Named, pc = "emit"
  PROVE  /\ Entry \in Entries /\ published \in Seq(Entries)
         /\ Append(published, Entry) \in Seq(Entries)
<1>1. config \in Configs /\ runs \in 1 .. MaxRuns /\ sequence \in Nat
  BY ConstantsAssumption DEF TypeOK, Named, Running, ConstantsAssumption
<1>2. event.id \in Range(PrefixOf) \X (0 .. Modulus - 1)
  BY <1>1, IdType DEF Named
<1>3. config.seed \in DOMAIN Draws
  BY <1>1, ConstantsAssumption DEF ConstantsAssumption
<1>4. Entry \in Entries
  BY <1>1, <1>2, <1>3 DEF Entry, Entries
<1>5. published \in Seq(Entries)
  BY DEF TypeOK, Entries
<1> QED BY <1>4, <1>5

LEMMA OtherType ==
  TypeOK /\ Named /\ (\/ CheckShutdown \/ Emit \/ EmitRaises \/ Continue \/ Wake \/ Close
                      \/ PrintSummary \/ ReplyLost \/ RequestShutdown \/ Kill) => TypeOK'
<1> SUFFICES ASSUME TypeOK, Named PROVE
      (\/ CheckShutdown \/ Emit \/ EmitRaises \/ Continue \/ Wake \/ Close
       \/ PrintSummary \/ ReplyLost \/ RequestShutdown \/ Kill) => TypeOK'
  OBVIOUS
<1> USE DEF process, traffic, Labels, Running
<1>1. CheckShutdown \/ EmitRaises \/ Continue \/ Wake => TypeOK'
  BY DEF CheckShutdown, EmitRaises, Continue, NextEvent, Wake, TypeOK
<1>2. Close \/ PrintSummary \/ RequestShutdown \/ Kill => TypeOK'
  BY DEF Close, PrintSummary, RequestShutdown, Kill, TypeOK
<1>3. ASSUME Emit PROVE TypeOK'
  <2>1. published' \in Seq(Entries)
    BY <1>3, EntryType DEF Emit
  <2>2. emitted' \in Nat /\ late' \in Nat /\ resent' \in 0 .. Resends
    BY <1>3, ConstantsAssumption DEF Emit, TypeOK, ConstantsAssumption
  <2>3. pc' = "emitted" /\ pc = "emit" /\ event' = Null
    BY <1>3 DEF Emit
  <2>4. UNCHANGED <<process, traffic, shutdown, sink, exit, runs>>
    BY <1>3 DEF Emit
  <2> QED BY <2>1, <2>2, <2>3, <2>4 DEF TypeOK, Entries
<1>4. ASSUME ReplyLost PROVE TypeOK'
  <2>1. published' \in Seq(Entries)
    BY <1>4, EntryType DEF ReplyLost
  <2>2. resent' \in 0 .. Resends /\ pc' \in {"emit", "failing"} /\ pc = "emit"
    BY <1>4, ConstantsAssumption DEF ReplyLost, TypeOK, ConstantsAssumption
  <2>3. UNCHANGED <<process, traffic, event, emitted, shutdown, sink, exit, runs, late>>
    BY <1>4 DEF ReplyLost
  <2> QED BY <2>1, <2>2, <2>3 DEF TypeOK, Entries
<1> QED BY <1>1, <1>2, <1>3, <1>4
-----------------------------------------------------------------------------
(* The inductive invariant *)

Numbers == {published[i].number : i \in {j \in DOMAIN published : published[j].run = runs}}

\* How many events the process generated and emitted at each of its steps.
Counted ==
  /\ pc \in {"next", "emitted", "sleep"} => sequence = emitted
  /\ pc \in {"check", "emit", "failing"} => sequence = emitted + 1
  /\ pc \in {"next", "check", "emit", "sleep"} /\ config.limit # Null => emitted < config.limit
  /\ pc = "emitted" /\ config.limit # Null => emitted <= config.limit
  /\ pc \in {"close", "summary"} => shutdown \/ emitted = config.limit
  /\ pc = "summary" => sink = "closed"

\* What the sink has received of it.
Delivered ==
  /\ pc \in {"next", "check", "emitted", "sleep", "close", "summary"} => Numbers = 1 .. emitted
  /\ pc \in {"emit", "failing"} =>
       1 .. emitted \subseteq Numbers /\ Numbers \subseteq 1 .. emitted + 1
  /\ Running => exit = Null

\* The event to emit was checked before a shutdown was requested, or none was.
Prompt == /\ ~shutdown => late = 0
          /\ late <= 1
          /\ pc = "emit" => late = 0

Clocked == /\ Running => NotAfter(start, reference)
           /\ OccursInWindow

Inv == TypeOK /\ Windowed /\ Named /\ Counted /\ Delivered /\ SummaryIsTrue
         /\ Prompt /\ Clocked

\* The steps of a running process.
Steps == Generate \/ CheckShutdown \/ Emit \/ EmitRaises \/ Continue \/ Wake \/ Close
           \/ PrintSummary \/ ReplyLost \/ RequestShutdown \/ Kill

LEMMA NextSteps == Next <=> Begins \/ Steps
BY DEF Next, Begins, Steps, Work

LEMMA WindowedStep == TypeOK /\ Windowed /\ (Begins \/ Steps) => Windowed'
<1> SUFFICES ASSUME TypeOK, Windowed PROVE (Begins \/ Steps) => Windowed'
  OBVIOUS
<1>1. ASSUME UNCHANGED traffic PROVE Windowed'
  <2>1. window' = window /\ spent' = spent /\ remaining' = remaining
    BY <1>1 DEF traffic
  <2>2. Capacity(window') = Capacity(window)
    BY <2>1
  <2> QED BY <2>1, <2>2 DEF Windowed
<1>2. Generate => Windowed'
  <2> SUFFICES ASSUME Generate PROVE Windowed'
    OBVIOUS
  <2>1. Running /\ NextPhase
    BY DEF Generate, Running
  <2> QED BY <2>1, NextPhaseWindowed DEF Windowed
<1>3. ASSUME NEW c \in Configs, NEW now \in Clock, Launch(c, now) PROVE Windowed'
  BY <1>3 DEF Launch, Windowed
<1>4. ASSUME NEW c \in Configs, NEW now \in Clock, UsageError(c, now) \/ SinkFails(c, now)
      PROVE Windowed'
  BY <1>4, <1>1 DEF UsageError, SinkFails
<1>5. Steps => Generate \/ UNCHANGED traffic
  BY DEF Steps, CheckShutdown, Emit, EmitRaises, Continue, Wake, Close, PrintSummary,
         ReplyLost, RequestShutdown, Kill
<1> QED BY <1>1, <1>2, <1>3, <1>4, <1>5 DEF Begins

LEMMA PromptStep == TypeOK /\ Prompt /\ (Begins \/ Steps) => Prompt'
<1> SUFFICES ASSUME TypeOK, Prompt PROVE (Begins \/ Steps) => Prompt'
  OBVIOUS
<1>1. Steps => Prompt'
  BY DEF Prompt, TypeOK, Steps, Generate, CheckShutdown, Emit, EmitRaises, Continue, Wake,
         NextEvent, Close, PrintSummary, ReplyLost, RequestShutdown, Kill, Running
<1>2. Begins => Prompt'
  BY DEF Prompt, TypeOK, Begins, UsageError, Launch, SinkFails, Running
<1> QED BY <1>1, <1>2

LEMMA CountedStep == TypeOK /\ Counted /\ (Begins \/ Steps) => Counted'
<1> SUFFICES ASSUME TypeOK, Counted PROVE (Begins \/ Steps) => Counted'
  OBVIOUS
<1> USE DEF process, Running
<1>1. Generate => Counted'
  BY DEF Counted, TypeOK, Generate
<1>2. CheckShutdown \/ EmitRaises \/ Close \/ PrintSummary => Counted'
  BY DEF Counted, TypeOK, CheckShutdown, EmitRaises, Close, PrintSummary
<1>3. ReplyLost \/ RequestShutdown \/ Kill => Counted'
  BY DEF Counted, TypeOK, ReplyLost, RequestShutdown, Kill
<1>4. ASSUME Emit \/ Continue \/ Wake PROVE Counted'
  <2>1. config \in Configs /\ config' = config
    BY <1>4 DEF Emit, Continue, Wake, TypeOK, Counted
  <2>2. config.limit # Null => config.limit \in Nat
    BY <2>1, ConstantsAssumption DEF ConstantsAssumption
  <2> QED BY <1>4, <2>1, <2>2 DEF Counted, TypeOK, Emit, Continue, Wake, NextEvent, ReachedLimit
<1>5. ASSUME NEW c \in Configs, NEW now \in Clock,
             UsageError(c, now) \/ Launch(c, now) \/ SinkFails(c, now)
      PROVE  Counted'
  <2>1. c.limit # Null => c.limit \in Nat \ {0}
    BY ConstantsAssumption DEF ConstantsAssumption
  <2> QED BY <1>5, <2>1 DEF Counted, TypeOK, UsageError, Launch, SinkFails
<1> QED BY <1>1, <1>2, <1>3, <1>4, <1>5 DEF Begins, Steps

\* What an event's bounds leave is between the start, floored, and the reference.
LEMMA InTheWindow ==
  ASSUME TypeOK, Running, NotAfter(start, reference), NEW at \in OccurredAt
  PROVE  /\ at.day = start.day /\ NotAfter(Floor(start), at) /\ NotAfter(at, reference)
<1>1. PICK h \in AllowedHours : \E m \in LowerBound(h) .. UpperBound(h) :
        at = [day |-> start.day, hour |-> h, ms |-> m, micro |-> 0]
  BY OccurredType
<1>2. PICK m \in LowerBound(h) .. UpperBound(h) :
        at = [day |-> start.day, hour |-> h, ms |-> m, micro |-> 0]
  BY <1>1
<1>3. start \in Moments /\ reference \in Moments
  BY DEF TypeOK
<1>4. /\ h \in Nat /\ ~(h < start.hour) /\ ~(start.day = reference.day /\ h > reference.hour)
  BY ConstantsAssumption DEF AllowedHours, ConstantsAssumption
<1>5. /\ LowerBound(h) \in Nat /\ UpperBound(h) \in Nat
      /\ h = start.hour => LowerBound(h) = start.ms
      /\ start.day = reference.day /\ h = reference.hour => UpperBound(h) = reference.ms
  BY <1>3, ConstantsAssumption DEF LowerBound, UpperBound, Moments, ConstantsAssumption
<1>6. m \in Nat /\ LowerBound(h) <= m /\ m <= UpperBound(h)
  BY <1>5
<1>7. Floor(start) = [day |-> start.day, hour |-> start.hour, ms |-> start.ms, micro |-> 0]
  BY <1>3 DEF Floor, Moments
<1>8. NotAfter(Floor(start), at)
  BY <1>2, <1>3, <1>4, <1>5, <1>6, <1>7 DEF NotAfter, Moments
<1>9. NotAfter(at, reference)
  BY <1>2, <1>3, <1>4, <1>5, <1>6 DEF NotAfter, Moments
<1> QED BY <1>2, <1>8, <1>9

LEMMA ClockedStep == TypeOK /\ Clocked /\ (Begins \/ Steps) => Clocked'
<1> SUFFICES ASSUME TypeOK, Clocked PROVE (Begins \/ Steps) => Clocked'
  OBVIOUS
<1>1. ASSUME UNCHANGED <<start, reference>>, event' \in {event, Null}, Running' => Running
      PROVE  Clocked'
  BY <1>1 DEF Clocked, OccursInWindow, NotAfter, Floor
<1>2. ASSUME Generate PROVE Clocked'
  <2>1. Running /\ NotAfter(start, reference)
    BY <1>2 DEF Generate, Running, Clocked
  <2>2. PICK at \in OccurredAt : event'.at = at
    <3>1. PICK fields \in Choices, at \in OccurredAt, u \in catalog.users :
            event' = [id |-> EventId(sequence'), at |-> at, user |-> u.id,
                      phase |-> window'.phase, fields |-> fields]
      BY <1>2 DEF Generate
    <3> QED BY <3>1
  <2>3. at.day = start.day /\ NotAfter(Floor(start), at) /\ NotAfter(at, reference)
    BY <2>1, InTheWindow
  <2>4. start' = start /\ reference' = reference
    BY <1>2 DEF Generate
  <2> QED BY <2>1, <2>2, <2>3, <2>4 DEF Clocked, OccursInWindow, NotAfter, Floor
<1>3. ASSUME NEW c \in Configs, NEW now \in Clock, Launch(c, now) PROVE Clocked'
  <2>1. NotAfter(start', reference') /\ event' = Null
    BY <1>3 DEF Launch, Refused
  <2> QED BY <2>1 DEF Clocked, OccursInWindow, NotAfter, Floor
<1>4. ASSUME NEW c \in Configs, NEW now \in Clock, UsageError(c, now) \/ SinkFails(c, now)
      PROVE Clocked'
  BY <1>4, <1>1 DEF UsageError, SinkFails, process, Running
<1>5. Steps => Generate \/ (/\ UNCHANGED <<start, reference>> /\ event' \in {event, Null}
                            /\ (Running' => Running))
  BY DEF Steps, CheckShutdown, Emit, EmitRaises, Continue, Wake, Close, PrintSummary,
         ReplyLost, RequestShutdown, Kill, process, Running
<1> QED BY <1>1, <1>2, <1>3, <1>4, <1>5 DEF Begins

\* Entries only ever grow by the one at hand.
LEMMA Received ==
  ASSUME TypeOK, Named, pc = "emit", published' = Append(published, Entry)
  PROVE  /\ DOMAIN published' = DOMAIN published \cup {Len(published) + 1}
         /\ \A i \in DOMAIN published : published'[i] = published[i]
         /\ published'[Len(published) + 1] = Entry
         /\ Len(published) + 1 \notin DOMAIN published
<1>1. published \in Seq(Entries) /\ Entry \in Entries
  BY EntryType
<1> QED BY <1>1

LEMMA NamedStep == TypeOK /\ Named /\ (Begins \/ Steps) => Named'
<1> SUFFICES ASSUME TypeOK, Named PROVE (Begins \/ Steps) => Named'
  OBVIOUS
<1> USE DEF process, Running
<1>1. ASSUME NEW c \in Configs, NEW now \in Clock,
             UsageError(c, now) \/ Launch(c, now) \/ SinkFails(c, now)
      PROVE  Named'
  <2>1. runs' = runs + 1 /\ published' = published /\ runs \in Nat
    BY <1>1, ConstantsAssumption DEF UsageError, Launch, SinkFails, TypeOK, ConstantsAssumption
  <2>2. \A i \in DOMAIN published : published[i].run \in Nat
    <3>1. published \in Seq(Entries)
      BY DEF TypeOK, Entries
    <3>2. \A e \in Entries : e.run \in Nat
      BY ConstantsAssumption DEF Entries, ConstantsAssumption
    <3> QED BY <3>1, <3>2
  <2>3. pc' \notin {"check", "emit"}
    BY <1>1 DEF UsageError, Launch, SinkFails
  <2> QED BY <2>1, <2>2, <2>3 DEF Named, Permuted
<1>2. ASSUME Generate PROVE Named'
  <2>1. event'.id = EventId(sequence')
    <3>1. PICK fields \in Choices, at \in OccurredAt, u \in catalog.users :
            event' = [id |-> EventId(sequence'), at |-> at, user |-> u.id,
                      phase |-> window'.phase, fields |-> fields]
      BY <1>2 DEF Generate
    <3> QED BY <3>1
  <2>2. /\ sequence' = sequence + 1 /\ sequence \in Nat /\ pc' = "check" /\ pc = "next"
        /\ config' = config /\ runs' = runs /\ published' = published
    BY <1>2 DEF Generate, TypeOK
  <2> QED BY <2>1, <2>2 DEF Named, EventId, Permuted
<1>3. ASSUME Emit \/ ReplyLost PROVE Named'
  <2>1. pc = "emit" /\ published' = Append(published, Entry) /\ runs' = runs
    BY <1>3 DEF Emit, ReplyLost
  <2>2. /\ Entry.id = <<PrefixOf[Entry.seed], Permuted(Entry.number)>>
        /\ Entry.number >= 1 /\ Entry.run <= runs
    BY <2>1, ConstantsAssumption DEF Entry, Named, EventId, TypeOK, ConstantsAssumption
  <2>3. \A i \in DOMAIN published' :
          /\ published'[i].id = <<PrefixOf[published'[i].seed], Permuted(published'[i].number)>>
          /\ published'[i].number >= 1 /\ published'[i].run <= runs
    BY <2>1, <2>2, Received DEF Named
  <2>4. pc' \in {"check", "emit"} => /\ event'.id = event.id /\ sequence' = sequence
                                     /\ config' = config
    BY <1>3 DEF Emit, ReplyLost
  <2>5. pc' \in {"check", "emit"} => event'.id = EventId(sequence)' /\ sequence' >= 1
    BY <2>1, <2>4 DEF Named, EventId, Permuted
  <2>6. Running' => runs' >= 1
    BY <2>1 DEF Named
  <2> QED BY <2>1, <2>3, <2>5, <2>6 DEF Named, Permuted
<1>4. Steps => Generate \/ Emit \/ ReplyLost
               \/ (/\ UNCHANGED <<process, runs, published>>
                   /\ pc' # "off" => pc # "off"
                   /\ pc' \in {"check", "emit"} => event' = event /\ pc \in {"check", "emit"})
  BY DEF Steps, CheckShutdown, EmitRaises, Continue, Wake, NextEvent, Close, PrintSummary,
         RequestShutdown, Kill
<1>5. ASSUME UNCHANGED <<process, runs, published>>, pc' # "off" => pc # "off",
             pc' \in {"check", "emit"} => event' = event /\ pc \in {"check", "emit"}
      PROVE Named'
  BY <1>5 DEF Named, EventId, Permuted
<1> QED BY <1>1, <1>2, <1>3, <1>4, <1>5 DEF Begins

\* What receiving an entry adds, and what a step without an entry leaves.
LEMMA NumbersGrow ==
  ASSUME TypeOK, Named, pc = "emit", published' = Append(published, Entry), runs' = runs
  PROVE  Numbers' = Numbers \cup {sequence}
<1>1. Entry.number = sequence /\ Entry.run = runs
  BY DEF Entry
<1>2. \A n : n \in Numbers' <=>
               \E i \in DOMAIN published' : published'[i].run = runs' /\ published'[i].number = n
  BY DEF Numbers
<1>3. \A n : n \in Numbers <=>
               \E i \in DOMAIN published : published[i].run = runs /\ published[i].number = n
  BY DEF Numbers
<1> QED BY <1>1, <1>2, <1>3, Received

LEMMA NumbersFresh ==
  ASSUME TypeOK, Named, published' = published, runs' = runs + 1
  PROVE  Numbers' = {}
<1>1. \A i \in DOMAIN published : published[i].run \in Nat
  <2>1. published \in Seq(Entries)
    BY DEF TypeOK, Entries
  <2>2. \A e \in Entries : e.run \in Nat
    BY ConstantsAssumption DEF Entries, ConstantsAssumption
  <2> QED BY <2>1, <2>2
<1>2. \A i \in DOMAIN published : published[i].run # runs + 1
  <2>1. runs \in Nat /\ \A i \in DOMAIN published : published[i].run <= runs
    BY ConstantsAssumption DEF Named, TypeOK, ConstantsAssumption
  <2> QED BY <1>1, <2>1
<1> QED BY <1>2 DEF Numbers

LEMMA DeliveredStep ==
  TypeOK /\ Named /\ Counted /\ Delivered /\ SummaryIsTrue /\ (Begins \/ Steps)
    => Delivered' /\ SummaryIsTrue'
<1> SUFFICES ASSUME TypeOK, Named, Counted, Delivered, SummaryIsTrue
             PROVE  (Begins \/ Steps) => Delivered' /\ SummaryIsTrue'
  OBVIOUS
<1> USE DEF process, Running
<1>1. Null \notin {0, 1, 2, Killed} /\ emitted \in Nat /\ sequence \in Nat
  BY ConstantsAssumption DEF ConstantsAssumption, Killed, TypeOK
<1>2. ASSUME NEW c \in Configs, NEW now \in Clock,
             UsageError(c, now) \/ Launch(c, now) \/ SinkFails(c, now)
      PROVE  Delivered' /\ SummaryIsTrue'
  <2>1. Numbers' = {}
    BY <1>2, NumbersFresh DEF UsageError, Launch, SinkFails
  <2>2. /\ pc' = "off" \/ (pc' = "next" /\ emitted' = 0 /\ exit' = Null)
        /\ exit' # 0 /\ (exit' = 1 => sink' # "closed")
    BY <1>1, <1>2 DEF UsageError, Launch, SinkFails, Delivered
  <2>3. 1 .. 0 = {}
    OBVIOUS
  <2>4. Delivered'
    BY <2>1, <2>2, <2>3 DEF Delivered
  <2>5. SummaryIsTrue'
    BY <2>2 DEF SummaryIsTrue
  <2> QED BY <2>4, <2>5
<1>3. ASSUME Emit \/ ReplyLost PROVE Delivered' /\ SummaryIsTrue'
  <2>1. Numbers' = Numbers \cup {sequence}
    BY <1>3, NumbersGrow DEF Emit, ReplyLost
  <2>2. /\ sequence = emitted + 1 /\ exit = Null /\ exit' = Null
        /\ 1 .. emitted \subseteq Numbers /\ Numbers \subseteq 1 .. emitted + 1
    BY <1>3 DEF Emit, ReplyLost, Counted, Delivered
  <2>3. Emit => pc' = "emitted" /\ emitted' = emitted + 1
    BY DEF Emit
  <2>4. ReplyLost => pc' \in {"emit", "failing"} /\ emitted' = emitted
    BY DEF ReplyLost
  <2>5. Numbers' = 1 .. emitted + 1
    <3>1. 1 .. emitted + 1 = 1 .. emitted \cup {emitted + 1}
      BY <1>1
    <3> QED BY <2>1, <2>2, <3>1
  <2>6. 1 .. emitted \subseteq 1 .. emitted + 1
    BY <1>1
  <2> QED BY <1>1, <1>3, <2>2, <2>3, <2>4, <2>5, <2>6 DEF Delivered, SummaryIsTrue
<1>4. ASSUME UNCHANGED <<published, runs, emitted>> PROVE Numbers' = Numbers
  BY <1>4 DEF Numbers
<1>5. ASSUME Generate \/ CheckShutdown \/ EmitRaises \/ Continue \/ Wake \/ RequestShutdown
      PROVE  Delivered' /\ SummaryIsTrue'
  <2>1. /\ UNCHANGED <<published, runs, emitted>> /\ exit' = exit /\ pc # "off"
    BY <1>5 DEF Generate, CheckShutdown, EmitRaises, Continue, Wake, RequestShutdown
  <2>2. Numbers' = Numbers /\ exit' = Null /\ emitted' = emitted
    BY <2>1, <1>4 DEF Delivered
  <2>3. SummaryIsTrue'
    BY <1>1, <2>2 DEF SummaryIsTrue
  <2>4. /\ pc' \in {"next", "check", "emitted", "sleep", "close", "summary"} =>
             pc \in {"next", "check", "emitted", "sleep", "close", "summary"}
        /\ pc' \in {"emit", "failing"} => pc \in {"check", "emit", "failing"}
    BY <1>5 DEF Generate, CheckShutdown, EmitRaises, Continue, NextEvent, Wake, RequestShutdown
  <2>5. pc = "check" => 1 .. emitted \subseteq Numbers /\ Numbers \subseteq 1 .. emitted + 1
    BY <1>1 DEF Delivered
  <2> QED BY <2>2, <2>3, <2>4, <2>5 DEF Delivered
<1>6. ASSUME Close \/ PrintSummary \/ Kill PROVE Delivered' /\ SummaryIsTrue'
  <2>1. UNCHANGED <<published, runs, emitted, shutdown, config>> /\ pc # "off"
    BY <1>6 DEF Close, PrintSummary, Kill
  <2>2. Numbers' = Numbers /\ exit = Null
    BY <2>1, <1>4 DEF Delivered
  <2>3. CASE Close
    BY <1>1, <2>1, <2>2, <2>3 DEF Close, Delivered, SummaryIsTrue, Numbers
  <2>4. CASE PrintSummary
    BY <1>1, <2>1, <2>2, <2>4 DEF PrintSummary, Delivered, SummaryIsTrue, Numbers, Counted
  <2>5. CASE Kill
    BY <1>1, <2>1, <2>2, <2>5 DEF Kill, Killed, Delivered, SummaryIsTrue, Numbers
  <2> QED BY <1>6, <2>3, <2>4, <2>5
<1> QED BY <1>2, <1>3, <1>5, <1>6 DEF Begins, Steps
-----------------------------------------------------------------------------
(* The theorems *)

LEMMA InitInv == Init => Inv
<1> SUFFICES ASSUME Init PROVE Inv
  OBVIOUS
<1>1. /\ pc = "off" /\ published = <<>> /\ window = Null /\ remaining = 0 /\ spent = 0
      /\ late = 0 /\ event = Null /\ exit = Null
  BY DEF Init
<1>2. Null \notin {0, 1}
  BY ConstantsAssumption DEF ConstantsAssumption
<1> QED BY <1>1, <1>2, TypeInit DEF Inv, Windowed, Named, Counted, Delivered, SummaryIsTrue,
           Prompt, Clocked, OccursInWindow, Running

LEMMA StepInv == Inv /\ [Next]_vars => Inv'
<1> SUFFICES ASSUME Inv, [Next]_vars PROVE Inv'
  OBVIOUS
<1>1. CASE Next
  <2>1. Begins \/ Steps
    BY <1>1, NextSteps
  <2>2. TypeOK'
    BY <2>1, BeginType, GenerateType, OtherType DEF Inv, Steps
  <2> QED BY <2>1, <2>2, WindowedStep, NamedStep, CountedStep, DeliveredStep, PromptStep,
             ClockedStep DEF Inv
<1>2. CASE UNCHANGED vars
  <2> USE <1>2 DEF vars, process, traffic
  <2>1. TypeOK' /\ Windowed'
    BY DEF Inv, TypeOK, Windowed, Running, Capacity
  <2>2. Named' /\ Counted' /\ Prompt'
    BY DEF Inv, Named, Counted, Prompt, Running, EventId, Permuted
  <2>3. Delivered' /\ SummaryIsTrue'
    BY DEF Inv, Delivered, SummaryIsTrue, Numbers, Running
  <2>4. Clocked'
    BY DEF Inv, Clocked, OccursInWindow, NotAfter, Floor, Running
  <2> QED BY <2>1, <2>2, <2>3, <2>4 DEF Inv
<1> QED BY <1>1, <1>2

\* Inv holds in every state of every behaviour.
THEOREM GeneratorCorrect == Spec => []Inv
<1> QED BY InitInv, StepInv, PTL DEF Spec

\* The types of the generator's state, among them that every id fits its 24 digits.
THEOREM TypeCorrect == Spec => []TypeOK
<1>1. Inv => TypeOK
  BY DEF Inv
<1> QED BY <1>1, GeneratorCorrect, PTL

-----------------------------------------------------------------------------
(* Multiplying by an odd number permutes the numbers modulo a power of two *)

Divides(n, x) == \E q \in Int : x = n * q

LEMMA OddFactor ==
  ASSUME NEW d \in Int, NEW m \in Int, m % 2 = 1, (d * m) % 2 = 0
  PROVE  \E e \in Int : d = 2 * e
<1>1. d % 2 = 0 \/ d % 2 = 1
  BY SMT
<1>2. \E e \in Int : m = 2 * e + 1
  BY SMT
<1>3. ASSUME d % 2 = 1 PROVE FALSE
  <2>1. PICK x \in Int : d = 2 * x + 1
    BY <1>3, SMT
  <2>2. PICK y \in Int : m = 2 * y + 1
    BY <1>2
  <2>3. d * m = 2 * (2 * (x * y) + x + y) + 1
    BY <2>1, <2>2, SMT
  <2>4. 2 * (x * y) + x + y \in Int
    BY SMT
  <2>5. \A z \in Int : (2 * z + 1) % 2 = 1
    BY SMT
  <2> QED BY <2>3, <2>4, <2>5
<1> QED BY <1>1, <1>3, SMT

\* A half of a power of two is one.
LEMMA HalfPower ==
  ASSUME NEW n \in Nat \ {0}, n # 1, PowerOfTwo(n)
  PROVE  \E h \in Nat \ {0} : n = 2 * h /\ h < n /\ PowerOfTwo(h)
<1>1. n % 2 = 0
  <2>1. n \in 1 .. n /\ 1 \in 1 .. n /\ n * 1 = n
    OBVIOUS
  <2> QED BY <2>1 DEF PowerOfTwo
<1>2. PICK h \in Nat \ {0} : n = 2 * h
  BY <1>1, SMT
<1>3. h < n
  BY <1>2
<1>4. ASSUME NEW d \in 1 .. h, NEW q \in 1 .. h, d * q = h PROVE d = 1 \/ d % 2 = 0
  <2>1. d \in 1 .. n /\ 2 * q \in 1 .. n
    BY <1>2, <1>3
  <2>2. d * (2 * q) = 2 * (d * q)
    BY SMT
  <2>3. d * (2 * q) = n
    BY <1>2, <1>4, <2>2
  <2> QED BY <2>1, <2>3 DEF PowerOfTwo
<1> QED BY <1>2, <1>3, <1>4 DEF PowerOfTwo

\* What a power of two divides after multiplying by an odd number it divides before:
\* there is no least power of two for which this fails.
LEMMA OddCancels ==
  ASSUME NEW m \in Int, m % 2 = 1
  PROVE  \A n \in Nat \ {0} : PowerOfTwo(n) =>
           \A d \in Int : Divides(n, d * m) => Divides(n, d)
<1> DEFINE Fails(n) == PowerOfTwo(n) /\ \E d \in Int : Divides(n, d * m) /\ ~Divides(n, d)
           bad == {n \in Nat \ {0} : Fails(n)}
<1> SUFFICES ASSUME bad # {} PROVE FALSE
  OBVIOUS
<1>1. bad \subseteq Nat
  OBVIOUS
<1>2. \E n \in bad : \A k \in bad : n <= k
  <2> HIDE DEF bad
  <2> QED BY <1>1, LeastNatural
<1>3. PICK n \in bad : \A k \in bad : n <= k
  BY <1>2
<1>4. PICK d \in Int : Divides(n, d * m) /\ ~Divides(n, d)
  BY <1>3
<1>5. n # 1
  <2>1. d = 1 * d
    OBVIOUS
  <2> QED BY <1>4, <2>1 DEF Divides
<1>6. PICK h \in Nat \ {0} : n = 2 * h /\ h < n /\ PowerOfTwo(h)
  BY <1>3, <1>5, HalfPower
<1>7. ~Fails(h)
  BY <1>3, <1>6
<1>8. PICK q \in Int : d * m = n * q
  BY <1>4 DEF Divides
<1>9. d * m = 2 * (h * q)
  BY <1>6, <1>8, SMT
<1>10. (d * m) % 2 = 0
  <2>1. h * q \in Int
    BY SMT
  <2>2. \A z \in Int : (2 * z) % 2 = 0
    BY SMT
  <2> QED BY <1>9, <2>1, <2>2
<1>11. PICK e \in Int : d = 2 * e
  BY <1>10, OddFactor
<1>12. e * m = h * q
  <2>1. d * m = 2 * (e * m)
    BY <1>11, SMT
  <2>2. e * m \in Int /\ h * q \in Int
    BY SMT
  <2> QED BY <1>9, <2>1, <2>2
<1>13. Divides(h, e)
  BY <1>6, <1>7, <1>12 DEF Divides
<1>14. PICK r \in Int : e = h * r
  BY <1>13 DEF Divides
<1>15. d = n * r
  BY <1>6, <1>11, <1>14, SMT
<1> QED BY <1>4, <1>15 DEF Divides

\* The permutation of the event counter never maps two numbers to one before the
\* counter wraps, whatever the width of the counter and the odd multiplier.
THEOREM MultiplierPermutes ==
  \A a, b \in 1 .. Modulus : Permuted(a) = Permuted(b) => a = b
<1> SUFFICES ASSUME NEW a \in 1 .. Modulus, NEW b \in 1 .. Modulus,
                    (a * Multiplier) % Modulus = (b * Multiplier) % Modulus
             PROVE  a = b
  BY DEF Permuted
<1>1. Modulus \in Nat \ {0} /\ Multiplier \in Nat
  BY ConstantsAssumption DEF ConstantsAssumption
<1>2. \A n \in Nat \ {0}, x, y \in Int : x % n = y % n => Divides(n, x - y)
  <2> SUFFICES ASSUME NEW n \in Nat \ {0}, NEW x \in Int, NEW y \in Int, x % n = y % n
               PROVE  Divides(n, x - y)
    OBVIOUS
  <2>1. x \div n \in Int /\ y \div n \in Int
    BY SMT
  <2>2. PICK u \in Int, v \in Int : u = x \div n /\ v = y \div n
    BY <2>1, Zenon
  <2>3. /\ x = n * u + (x % n) /\ y = n * v + (y % n)
        /\ x % n \in Int
    BY <2>2, SMT
  <2>4. x - y = n * u - n * v
    BY <2>3, SMT
  <2>5. n * (u - v) = n * u - n * v /\ u - v \in Int
    BY SMT
  <2> QED BY <2>4, <2>5 DEF Divides
<1>3. a * Multiplier \in Int /\ b * Multiplier \in Int /\ a - b \in Int
  BY <1>1, SMT
<1>4. (a - b) * Multiplier = a * Multiplier - b * Multiplier
  BY <1>1, SMT
<1>5. Divides(Modulus, a * Multiplier - b * Multiplier)
  BY <1>1, <1>2, <1>3
<1>6. Divides(Modulus, (a - b) * Multiplier)
  BY <1>4, <1>5
<1>7. Divides(Modulus, a - b)
  BY <1>1, <1>3, <1>6, CounterAssumption, OddCancels DEF CounterAssumption
<1>8. PICK q \in Int : a - b = Modulus * q
  BY <1>7 DEF Divides
<1>9. a - b < Modulus /\ -Modulus < a - b
  BY <1>1
<1>10. q = 0
  BY <1>1, <1>8, <1>9, SMT
<1> QED BY <1>1, <1>8, <1>10, SMT

\* Until the counter wraps an id names one event, over all runs of all seeds with
\* different prefixes.
THEOREM IdsNameOneEvent == Spec => []IdNamesOneEvent
<1>1. ASSUME Inv PROVE IdNamesOneEvent
  <2> SUFFICES ASSUME NEW i \in DOMAIN published, NEW j \in DOMAIN published,
                      published[i].id = published[j].id,
                      published[i].number <= Modulus, published[j].number <= Modulus
               PROVE  /\ published[i].number = published[j].number
                      /\ PrefixOf[published[i].seed] = PrefixOf[published[j].seed]
    BY DEF IdNamesOneEvent
  <2>1. published \in Seq(Entries)
    BY <1>1 DEF Inv, TypeOK, Entries
  <2>2. published[i].number \in Nat /\ published[j].number \in Nat
    <3>1. \A e \in Entries : e.number \in Nat
      BY DEF Entries
    <3> QED BY <2>1, <3>1
  <2>3. published[i].number \in 1 .. Modulus /\ published[j].number \in 1 .. Modulus
    BY <1>1, <2>2, ConstantsAssumption DEF Inv, Named, ConstantsAssumption
  <2>4. /\ PrefixOf[published[i].seed] = PrefixOf[published[j].seed]
        /\ Permuted(published[i].number) = Permuted(published[j].number)
    BY <1>1 DEF Inv, Named
  <2> QED BY <2>3, <2>4, MultiplierPermutes
<1> QED BY <1>1, GeneratorCorrect, PTL

\* Every event occurs between its start, floored to a millisecond, and the time the
\* process was started.
THEOREM EventsOccurInWindow == Spec => []OccursInWindow
<1>1. Inv => OccursInWindow
  BY DEF Inv, Clocked
<1> QED BY <1>1, GeneratorCorrect, PTL

\* At most one event is emitted after a shutdown was requested.
THEOREM PromptShutdown == Spec => []ShutdownIsPrompt
<1>1. Inv => ShutdownIsPrompt
  BY DEF Inv, Prompt, ShutdownIsPrompt
<1> QED BY <1>1, GeneratorCorrect, PTL

\* A printed summary says what the sink received.
THEOREM TrueSummaries == Spec => []SummaryIsTrue
<1>1. Inv => SummaryIsTrue
  BY DEF Inv
<1> QED BY <1>1, GeneratorCorrect, PTL

\* A traffic window has exactly the events of its duration at its rate.
THEOREM WindowsKeepRate == Spec => WindowKeepsRate
<1>1. ASSUME Inv, [Next]_vars, pc = "next", pc' = "check"
      PROVE  /\ event'.phase = window'.phase
             /\ IF spent' = 1 THEN window # Null => spent = Capacity(window)
                              ELSE window' = window /\ spent' <= Capacity(window)
  <2>1. Generate
    BY <1>1 DEF vars, Next, Work, UsageError, Launch, SinkFails, CheckShutdown, Emit, EmitRaises,
                Continue, Wake, Close, PrintSummary, ReplyLost, RequestShutdown, Kill
  <2>2. PICK fields \in Choices, at \in OccurredAt, u \in catalog.users :
          event' = [id |-> EventId(sequence'), at |-> at, user |-> u.id,
                    phase |-> window'.phase, fields |-> fields]
    BY <2>1 DEF Generate
  <2>3. Running /\ NextPhase
    BY <2>1 DEF Generate, Running
  <2> QED BY <1>1, <2>2, <2>3, NextPhaseWindowed DEF Inv
<1>2. Inv /\ [Next]_vars => [pc = "next" /\ pc' = "check" =>
       /\ event'.phase = window'.phase
       /\ IF spent' = 1 THEN window # Null => spent = Capacity(window)
                        ELSE window' = window /\ spent' <= Capacity(window)]_vars
  BY <1>1
<1> QED BY <1>2, GeneratorCorrect, PTL DEF Spec, WindowKeepsRate
-----------------------------------------------------------------------------
(* The ids of a catalog *)

\* The values of a function on the first n numbers are at most n.
LEMMA FirstValues ==
  ASSUME NEW f, NEW n \in Nat
  PROVE  /\ IsFiniteSet({f[j] : j \in 1 .. n})
         /\ Cardinality({f[j] : j \in 1 .. n}) \in Nat
         /\ Cardinality({f[j] : j \in 1 .. n}) <= n
<1> DEFINE T == {f[j] : j \in 1 .. n}
           g == [j \in 1 .. n |-> f[j]]
<1>1. g \in Surjection(1 .. n, T)
  BY DEF Surjection
<1>2. IsFiniteSet(1 .. n) /\ Cardinality(1 .. n) = n
  BY FS_Interval
<1>3. IsFiniteSet(T) /\ Cardinality(T) <= Cardinality(1 .. n)
  BY <1>1, <1>2, FS_Surjection
<1>4. Cardinality(T) \in Nat
  BY <1>3, FS_CardinalityType
<1> QED BY <1>2, <1>3, <1>4

\* An identifier is none of those given before: not all of a name's numbered forms
\* can be taken.
LEMMA UniqueIsFresh ==
  ASSUME NEW slug, NEW existing, IsFiniteSet(existing), Cardinality(existing) \in Nat,
         \A m, n \in 2 .. Cardinality(existing) + 2 :
           Faker!Numbered(slug, m) = Faker!Numbered(slug, n) => m = n
  PROVE  /\ Faker!UniqueIdentifier(slug, existing) \notin existing
         /\ \/ Faker!UniqueIdentifier(slug, existing) = slug
            \/ \E n \in 2 .. Cardinality(existing) + 2 :
                 Faker!UniqueIdentifier(slug, existing) = Faker!Numbered(slug, n)
<1> DEFINE tried == 2 .. Cardinality(existing) + 2
           free == {n \in tried : Faker!Numbered(slug, n) \notin existing}
<1>0. Faker!Cardinality(existing) = Cardinality(existing)
  BY DEF Faker!Cardinality, Faker!IsFiniteSet, Cardinality, IsFiniteSet
<1>1. CASE slug \notin existing
  BY <1>1 DEF Faker!UniqueIdentifier
<1>2. CASE slug \in existing
  <2>1. free # {}
    <3> SUFFICES ASSUME free = {} PROVE FALSE
      OBVIOUS
    <3> DEFINE name == [n \in tried |-> Faker!Numbered(slug, n)]
    <3>1. name \in [tried -> existing]
      OBVIOUS
    <3>2. IsFiniteSet(tried) /\ Cardinality(tried) = Cardinality(existing) + 1
      BY FS_Interval
    <3>3. Cardinality(existing) < Cardinality(tried)
      BY <3>2
    <3>4. \E m, n \in tried : m # n /\ name[m] = name[n]
      <4> HIDE DEF tried, name
      <4> QED BY <3>1, <3>2, <3>3, FS_PigeonHole
    <3> QED BY <3>4
  <2>2. free \subseteq Nat
    OBVIOUS
  <2>3. \E n \in free : \A m \in free : n <= m
    BY <2>1, <2>2, LeastNatural
  <2>4. Faker!Min(free) \in free
    BY <2>3 DEF Faker!Min
  <2>5. Faker!UniqueIdentifier(slug, existing) = Faker!Numbered(slug, Faker!Min(free))
    BY <1>0, <1>2 DEF Faker!UniqueIdentifier
  <2> QED BY <2>4, <2>5
<1> QED BY <1>1, <1>2

\* The ids of the first n draws.
IdsUpTo(draws, n, f) ==
  f = [i \in 1 .. n |-> Faker!UniqueIdentifier(draws[i].slug, {f[j] : j \in 1 .. i - 1})]

\* Ids are given one after the other: there is a function of them.
LEMMA IdsExist ==
  ASSUME NEW draws
  PROVE  \A n \in Nat : \E f : IdsUpTo(draws, n, f)
<1> DEFINE S == {n \in Nat : \E f : IdsUpTo(draws, n, f)}
<1>1. 0 \in S
  <2>1. IdsUpTo(draws, 0, [i \in 1 .. 0 |-> 0])
    BY DEF IdsUpTo
  <2> QED BY <2>1
<1>2. ASSUME NEW n \in Nat, n \in S PROVE n + 1 \in S
  <2>1. PICK f : IdsUpTo(draws, n, f)
    BY <1>2
  <2> DEFINE id(i) == Faker!UniqueIdentifier(draws[i].slug, {f[j] : j \in 1 .. i - 1})
             g == [i \in 1 .. n + 1 |-> id(i)]
  <2>2. \A i \in 1 .. n : f[i] = id(i)
    BY <2>1 DEF IdsUpTo
  <2>3. ASSUME NEW i \in 1 .. n + 1
        PROVE  {g[j] : j \in 1 .. i - 1} = {f[j] : j \in 1 .. i - 1}
    <3>1. \A j \in 1 .. i - 1 : j \in 1 .. n /\ j \in 1 .. n + 1
      OBVIOUS
    <3>2. \A j \in 1 .. i - 1 : g[j] = f[j]
      BY <2>2, <3>1
    <3> QED BY <3>2
  <2>4. \A i \in 1 .. n + 1 :
          id(i) = Faker!UniqueIdentifier(draws[i].slug, {g[j] : j \in 1 .. i - 1})
    BY <2>3
  <2>5. IdsUpTo(draws, n + 1, g)
    BY <2>4 DEF IdsUpTo
  <2> QED BY <2>5
<1>3. Nat \subseteq S
  BY <1>1, <1>2, InductionBySet
<1> QED BY <1>3

LEMMA IdsDefined ==
  ASSUME NEW S, NEW draws \in Seq(S)
  PROVE  \A i \in DOMAIN draws :
           Faker!Ids(draws)[i] = Faker!UniqueIdentifier(draws[i].slug,
                                   {Faker!Ids(draws)[j] : j \in 1 .. i - 1})
<1>1. PICK n \in Nat : DOMAIN draws = 1 .. n
  OBVIOUS
<1>2. \E f : IdsUpTo(draws, n, f)
  BY IdsExist
<1>3. Faker!Ids(draws) = CHOOSE f : IdsUpTo(draws, n, f)
  BY <1>1 DEF Faker!Ids, IdsUpTo
<1>4. IdsUpTo(draws, n, Faker!Ids(draws))
  BY <1>2, <1>3
<1> QED BY <1>1, <1>4 DEF IdsUpTo

\* What DrawsAssumption says of the names of users and products.
Nameable(draws) ==
  \A i \in DOMAIN draws :
    /\ draws[i].slug # NoText
    /\ \A m, n \in 2 .. Len(draws) + 2 :
         /\ Faker!Numbered(draws[i].slug, n) # NoText
         /\ Faker!Numbered(draws[i].slug, m) = Faker!Numbered(draws[i].slug, n) => m = n

\* The ids _unique_identifier gives one after the other are never empty, and no two
\* are the same, however many names Faker repeats.
THEOREM IdsDistinct ==
  ASSUME NEW S, NEW draws \in Seq(S), Nameable(draws)
  PROVE  /\ \A i \in DOMAIN draws : Faker!Ids(draws)[i] # NoText
         /\ \A i, j \in DOMAIN draws : Faker!Ids(draws)[i] = Faker!Ids(draws)[j] => i = j
<1> DEFINE id == Faker!Ids(draws)
           before(i) == {id[j] : j \in 1 .. i - 1}
<1>1. DOMAIN draws = 1 .. Len(draws) /\ Len(draws) \in Nat
  OBVIOUS
<1>2. ASSUME NEW i \in DOMAIN draws
      PROVE  id[i] \notin before(i) /\ id[i] # NoText
  <2>1. i - 1 \in Nat /\ i - 1 <= Len(draws)
    BY <1>1
  <2>2. /\ IsFiniteSet(before(i)) /\ Cardinality(before(i)) \in Nat
        /\ Cardinality(before(i)) <= i - 1
    BY <2>1, FirstValues
  <2>3. \A n \in 2 .. Cardinality(before(i)) + 2 : n \in 2 .. Len(draws) + 2
    BY <1>1, <2>1, <2>2
  <2>4. id[i] = Faker!UniqueIdentifier(draws[i].slug, before(i))
    BY IdsDefined
  <2>5. \A m, n \in 2 .. Cardinality(before(i)) + 2 :
          Faker!Numbered(draws[i].slug, m) = Faker!Numbered(draws[i].slug, n) => m = n
    BY <2>3 DEF Nameable
  <2>6. /\ id[i] \notin before(i)
        /\ \/ id[i] = draws[i].slug
           \/ \E n \in 2 .. Cardinality(before(i)) + 2 :
                id[i] = Faker!Numbered(draws[i].slug, n)
    <3> HIDE DEF before, id
    <3> QED BY <2>2, <2>4, <2>5, UniqueIsFresh
  <2> QED BY <2>3, <2>6 DEF Nameable
<1>3. ASSUME NEW i \in DOMAIN draws, NEW j \in DOMAIN draws, j < i PROVE id[i] # id[j]
  <2>1. j \in 1 .. i - 1
    BY <1>1, <1>3
  <2> QED BY <1>2, <2>1
<1>4. \A i, j \in DOMAIN draws : i = j \/ i < j \/ j < i
  BY <1>1
<1> QED BY <1>2, <1>3, <1>4

LEMMA Elements == ASSUME NEW R, NEW s \in Seq(R) PROVE \A i \in DOMAIN s : s[i] \in R
OBVIOUS

LEMMA DrawnFields ==
  ASSUME NEW T, NEW C, NEW N
  PROVE  /\ \A draws \in Seq([slug : T, category : C, cents : N]) :
              \A i \in DOMAIN draws : draws[i].slug \in T /\ draws[i].cents \in N
         /\ \A draws \in Seq([slug : T, category : C]) :
              \A i \in DOMAIN draws : draws[i].slug \in T
<1>1. ASSUME NEW draws \in Seq([slug : T, category : C, cents : N]), NEW i \in DOMAIN draws
      PROVE  draws[i].slug \in T /\ draws[i].cents \in N
  <2>1. draws[i] \in [slug : T, category : C, cents : N]
    BY Elements
  <2> QED BY <2>1
<1>2. ASSUME NEW draws \in Seq([slug : T, category : C]), NEW i \in DOMAIN draws
      PROVE  draws[i].slug \in T
  <2>1. draws[i] \in [slug : T, category : C]
    BY Elements
  <2> QED BY <2>1
<1> QED BY <1>1, <1>2

\* A user or product is one draw's, with its id.
LEMMA OneProduct ==
  ASSUME NEW draw, draw \in Range(Draws), NEW p \in Faker!Products(draw.products)
  PROVE  /\ {q \in Faker!Products(draw.products) : q.id = p.id} = {p}
         /\ p.id # NoText /\ p.cents \in Nat
<1> DEFINE draws == draw.products
           product(i) == [id |-> Faker!Ids(draws)[i], category |-> draws[i].category,
                          cents |-> draws[i].cents]
<1>1. draws \in Seq([slug : STRING \ {NoText}, category : STRING, cents : Nat])
  BY DrawsAssumption DEF DrawsAssumption
<1>2. \A i \in DOMAIN draws : draws[i].slug # NoText /\ draws[i].cents \in Nat
  <2>1. \A i \in DOMAIN draws : draws[i].slug \in STRING \ {NoText} /\ draws[i].cents \in Nat
    BY <1>1, DrawnFields
  <2> QED BY <2>1
<1>3. Nameable(draws)
  BY <1>2, DrawsAssumption DEF DrawsAssumption, Nameable
<1>4. Faker!Products(draws) = {product(i) : i \in DOMAIN draws}
  BY DEF Faker!Products
<1>5. PICK i \in DOMAIN draws : p = product(i)
  BY <1>4
<1>6. p.id = Faker!Ids(draws)[i] /\ p.cents = draws[i].cents
  BY <1>5
<1>7. ASSUME NEW q \in Faker!Products(draws), q.id = p.id PROVE q = p
  <2>1. PICK j \in DOMAIN draws : q = product(j)
    BY <1>4
  <2>2. Faker!Ids(draws)[j] = Faker!Ids(draws)[i]
    BY <1>6, <1>7, <2>1
  <2>3. i = j
    BY <1>1, <1>3, <2>2, IdsDistinct
  <2> QED BY <1>5, <2>1, <2>3
<1>8. p.id # NoText /\ p.cents \in Nat
  BY <1>1, <1>2, <1>3, <1>6, IdsDistinct
<1> QED BY <1>7, <1>8

LEMMA UserNamed ==
  ASSUME NEW draw, draw \in Range(Draws), NEW u \in Faker!Users(draw.users)
  PROVE  u.id # NoText
<1> DEFINE draws == draw.users
<1>1. draws \in Seq([slug : STRING \ {NoText}, category : STRING])
  BY DrawsAssumption DEF DrawsAssumption
<1>2. \A i \in DOMAIN draws : draws[i].slug # NoText
  <2>1. \A i \in DOMAIN draws : draws[i].slug \in STRING \ {NoText}
    BY <1>1, DrawnFields
  <2> QED BY <2>1
<1>3. Nameable(draws)
  BY <1>2, DrawsAssumption DEF DrawsAssumption, Nameable
<1>4. PICK i \in DOMAIN draws : u.id = Faker!Ids(draws)[i]
  BY DEF Faker!Users
<1> QED BY <1>1, <1>3, <1>4, IdsDistinct

\* Landing pages apart, a path is one page's.
LEMMA OnePage ==
  ASSUME NEW draw, draw \in Range(Draws),
         NEW s \in Faker!Landing \cup Faker!DedupePageTargets(draw.pages),
         NEW t \in Faker!Landing \cup Faker!DedupePageTargets(draw.pages),
         s.path = t.path, s.path \notin LandingPages
  PROVE  s = t
<1> DEFINE pages == draw.pages
<1>1. DOMAIN pages = 1 .. Len(pages) /\ Len(pages) \in Nat
  BY DrawsAssumption DEF DrawsAssumption
<1>2. \A x \in Faker!Landing : x.path \in LandingPages
  BY DEF Faker!Landing
<1>3. PICK i \in DOMAIN pages : s = pages[i] /\ Faker!Kept(pages, i)
  BY <1>2 DEF Faker!DedupePageTargets
<1>4. PICK j \in DOMAIN pages : t = pages[j] /\ Faker!Kept(pages, j)
  BY <1>2 DEF Faker!DedupePageTargets
<1>5. ~(i < j) /\ ~(j < i)
  BY <1>1, <1>3, <1>4 DEF Faker!Kept
<1> QED BY <1>1, <1>3, <1>4, <1>5
-----------------------------------------------------------------------------
(* Events and the catalog *)

\* The catalog a process draws is that of its seed, and the event it holds was made
\* from it; both stay after the process.
Drawn == config \in Configs /\ catalog = Faker!Catalog(Draws[config.seed])

Chosen ==
  /\ Running => Drawn
  /\ event # Null => /\ Drawn /\ event.fields \in Choices
                     /\ \E u \in catalog.users : event.user = u.id

LEMMA ChosenStep == TypeOK /\ Chosen /\ (Begins \/ Steps) => Chosen'
<1> SUFFICES ASSUME TypeOK, Chosen, Begins \/ Steps PROVE Chosen'
  OBVIOUS
<1>1. ASSUME UNCHANGED <<config, catalog, event>>, Running' => Running PROVE Chosen'
  <2>1. Choices' = Choices /\ Drawn' = Drawn
    BY <1>1 DEF Choices, PageViews, Clicks, Carts, Purchases, CheckoutErrors, Drawn
  <2> QED BY <1>1, <2>1 DEF Chosen
<1>2. ASSUME NEW c \in Configs, NEW now \in Clock, Launch(c, now) PROVE Chosen'
  <2>1. config' = c /\ catalog' = Faker!Catalog(Draws[c.seed]) /\ event' = Null
    BY <1>2 DEF Launch
  <2> QED BY <2>1 DEF Chosen, Drawn
<1>3. ASSUME NEW c \in Configs, NEW now \in Clock, UsageError(c, now) \/ SinkFails(c, now)
      PROVE  Chosen'
  BY <1>1, <1>3 DEF UsageError, SinkFails, process, Running
<1>4. CASE Generate
  <2>1. PICK fields \in Choices, u \in catalog.users :
          event'.fields = fields /\ event'.user = u.id
    <3>1. PICK fields \in Choices, at \in OccurredAt, u \in catalog.users :
            event' = [id |-> EventId(sequence'), at |-> at, user |-> u.id,
                      phase |-> window'.phase, fields |-> fields]
      BY <1>4 DEF Generate
    <3> QED BY <3>1
  <2>2. Drawn /\ UNCHANGED <<config, catalog>>
    BY <1>4 DEF Generate, Chosen, Running
  <2>3. Choices' = Choices /\ Drawn' = Drawn
    BY <2>2 DEF Choices, PageViews, Clicks, Carts, Purchases, CheckoutErrors, Drawn
  <2> QED BY <2>1, <2>2, <2>3 DEF Chosen
<1>5. CASE Emit
  <2>1. UNCHANGED <<config, catalog>> /\ event' = Null /\ Running
    BY <1>5 DEF Emit, process, Running
  <2> QED BY <2>1 DEF Chosen, Drawn
<1>6. CASE CheckShutdown \/ EmitRaises \/ Continue \/ Wake \/ Close \/ PrintSummary
             \/ ReplyLost \/ RequestShutdown \/ Kill
  BY <1>1, <1>6 DEF CheckShutdown, EmitRaises, Continue, Wake, Close, PrintSummary,
                    ReplyLost, RequestShutdown, Kill, process, Running
<1> QED BY <1>2, <1>3, <1>4, <1>5, <1>6 DEF Begins, Steps

\* What an event says of the page or the product it was made from.
LEMMA FieldsOf ==
  ASSUME NEW f \in Choices,
         \A p \in catalog.products : p.cents \in Nat
  PROVE  /\ f.type \in {"page_view", "product_click", "add_to_cart", "purchase",
                        "checkout_error"}
         /\ f.type = "page_view" =>
              f.product = Null /\ \E t \in catalog.pageTargets : 
                                     f.page = t.path /\ f.category = t.category
         /\ f.type # "page_view" =>
              \E p \in catalog.products :
                /\ f.product = p.id /\ f.category = p.category
                /\ f.type = "purchase" => f.amount \in Amounts(p)
         /\ f.type = "purchase" <=> f.amount # Null
         /\ f.type = "checkout_error" <=> f.error # Null
<1>1. Null \notin Nat /\ Null \notin ErrorCodes
  BY ConstantsAssumption, ErrorsAssumption DEF ConstantsAssumption, ErrorsAssumption
<1>2. CASE f \in PageViews
  BY <1>2 DEF PageViews, Fields
<1>3. CASE f \in Clicks
  <2>1. PICK p \in catalog.products :
          f = Fields("product_click", "/products/" \o p.id, p.category, p.id, Null, Null)
    BY <1>3 DEF Clicks
  <2>2. /\ f.type = "product_click" /\ f.product = p.id /\ f.category = p.category
        /\ f.amount = Null /\ f.error = Null
    BY <2>1 DEF Fields
  <2> QED BY <2>2
<1>4. CASE f \in Carts
  BY <1>4 DEF Carts, Fields
<1>5. CASE f \in Purchases
  <2>0. PICK p \in catalog.products :
          \E b \in Amounts(p) : f = Fields("purchase", Null, p.category, p.id, b, Null)
    BY <1>5 DEF Purchases
  <2>1. PICK a \in Amounts(p) : f = Fields("purchase", Null, p.category, p.id, a, Null)
    BY <2>0
  <2>2. a \in Nat
    <3>1. p.cents \in Nat
      OBVIOUS
    <3>2. PICK d \in 0 .. p.cents \div 5 : a = p.cents - d
      BY DEF Amounts
    <3> QED BY <3>1, <3>2, SMT
  <2>3. /\ f.type = "purchase" /\ f.product = p.id /\ f.category = p.category
        /\ f.amount = a /\ f.error = Null
    BY <2>1 DEF Fields
  <2> QED BY <1>1, <2>2, <2>3
<1>6. CASE f \in CheckoutErrors
  <2>1. PICK p \in catalog.products, e \in ErrorCodes :
          f = Fields("checkout_error", Null, p.category, p.id, Null, e)
    BY <1>6 DEF CheckoutErrors
  <2>2. /\ f.type = "checkout_error" /\ f.product = p.id /\ f.category = p.category
        /\ f.amount = Null /\ f.error = e
    BY <2>1 DEF Fields
  <2> QED BY <1>1, <2>2
<1> QED BY <1>2, <1>3, <1>4, <1>5, <1>6 DEF Choices

LEMMA Discount ==
  ASSUME NEW p, p.cents \in Nat, NEW a \in Amounts(p)
  PROVE  a <= p.cents /\ 5 * a >= 4 * p.cents
<1>1. PICK d \in 0 .. p.cents \div 5 : a = p.cents - d
  BY DEF Amounts
<1>2. \A c \in Nat, e \in Nat : e <= c \div 5 => 5 * e <= c
  BY SMT
<1>3. p.cents \div 5 \in Nat
  BY SMT
<1>4. 5 * d <= p.cents
  BY <1>2, <1>3
<1> QED BY <1>1, <1>3, <1>4

LEMMA ChosenIsWhole == Chosen => EventIsWhole
<1> SUFFICES ASSUME Chosen, event # Null PROVE EventIsWhole
  BY DEF EventIsWhole
<1> DEFINE draw == Draws[config.seed]
           f == event.fields
<1>1. config \in Configs /\ catalog = Faker!Catalog(draw) /\ draw \in Range(Draws)
  BY ConstantsAssumption DEF Chosen, Drawn, ConstantsAssumption, Range
<1>2. /\ catalog.products = Faker!Products(draw.products)
      /\ catalog.users = Faker!Users(draw.users)
      /\ catalog.pageTargets = Faker!Landing \cup Faker!DedupePageTargets(draw.pages)
  BY <1>1 DEF Faker!Catalog
<1>3. ASSUME NEW p \in catalog.products
      PROVE  /\ {q \in catalog.products : q.id = p.id} = {p}
             /\ p.cents \in Nat
  BY <1>1, <1>2, OneProduct
<1>4. f \in Choices /\ event.user # NoText
  BY <1>1, <1>2, UserNamed DEF Chosen
<1>5. /\ f.type \in {"page_view", "product_click", "add_to_cart", "purchase",
                     "checkout_error"}
      /\ f.type = "page_view" =>
           f.product = Null /\ \E t \in catalog.pageTargets :
                                  f.page = t.path /\ f.category = t.category
      /\ f.type # "page_view" =>
           \E p \in catalog.products :
             /\ f.product = p.id /\ f.category = p.category
             /\ f.type = "purchase" => f.amount \in Amounts(p)
      /\ f.type = "purchase" <=> f.amount # Null
      /\ f.type = "checkout_error" <=> f.error # Null
  BY <1>3, <1>4, FieldsOf
<1> DEFINE products == {p \in catalog.products : p.id = f.product}
           pages == {t \in catalog.pageTargets : t.path = f.page}
<1>6. config.producer # NoText => PassesSchema(event)
  BY <1>4, <1>5 DEF PassesSchema
<1>7. ASSUME f.type = "page_view"
      PROVE  /\ f.product = Null /\ pages # {}
             /\ f.page \in LandingPages \/ \A t \in pages : t.category = f.category
  <2>1. PICK s \in catalog.pageTargets : f.page = s.path /\ f.category = s.category
    BY <1>5, <1>7
  <2>2. ASSUME NEW t \in pages, f.page \notin LandingPages PROVE t = s
    BY <1>1, <1>2, <2>1, <2>2, OnePage
  <2> QED BY <1>5, <1>7, <2>1, <2>2
<1>8. ASSUME f.type # "page_view"
      PROVE  /\ Cardinality(products) = 1
             /\ \A p \in products : p.category = f.category
             /\ f.type = "purchase" => \A p \in products : /\ f.amount <= p.cents
                                                           /\ 5 * f.amount >= 4 * p.cents
  <2>1. PICK p \in catalog.products :
          /\ f.product = p.id /\ f.category = p.category
          /\ f.type = "purchase" => f.amount \in Amounts(p)
    BY <1>5, <1>8
  <2>2. products = {p}
    BY <1>3, <2>1
  <2>3. Cardinality(products) = 1
    BY <2>2, FS_Singleton
  <2>4. f.type = "purchase" => f.amount <= p.cents /\ 5 * f.amount >= 4 * p.cents
    BY <1>3, <2>1, Discount
  <2> QED BY <2>1, <2>2, <2>3, <2>4
<1>9. f.type = "purchase" => f.type # "page_view"
  OBVIOUS
<1> QED BY <1>5, <1>6, <1>7, <1>8, <1>9 DEF EventIsWhole

\* Every event passes the consumer's schema unless its producer id is empty, and
\* agrees with the one product, or the pages, of the catalog that it names.
THEOREM EventsAreWhole == Spec => []EventIsWhole
<1>1. Init => Chosen
  BY DEF Init, Chosen, Running
<1>2. Inv /\ Chosen /\ [Next]_vars => Chosen'
  <2> SUFFICES ASSUME TypeOK, Chosen, [Next]_vars PROVE Chosen'
    BY DEF Inv
  <2>1. CASE Begins \/ Steps
    BY <2>1, ChosenStep
  <2>2. CASE UNCHANGED vars
    BY <2>2 DEF vars, process, Chosen, Drawn, Running, Choices, PageViews, Clicks, Carts,
                Purchases, CheckoutErrors
  <2> QED BY <2>1, <2>2, NextSteps
<1>3. Chosen => EventIsWhole
  BY ChosenIsWhole
<1> QED BY <1>1, <1>2, <1>3, GeneratorCorrect, PTL DEF Spec
=============================================================================
