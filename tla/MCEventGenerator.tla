-------------------------- MODULE MCEventGenerator --------------------------
EXTENDS EventGenerator

At(d, h, m, u) == [day |-> d, hour |-> h, ms |-> m, micro |-> u]
MCClock == {At(3, 1, 0, 1)}

MCRate == [f \in Phases |-> CASE f = "slow" -> 1 [] f = "normal" -> 2 [] OTHER -> 3]

\* The same hour, to the microsecond; an hour before, from a Redis Cluster and
\* without a limit; yesterday, for a consumer that rejects the events; in the
\* future; phase bounds the wrong way round.
Default == [seed |-> "s1", start |-> At(3, 1, 0, 1), limit |-> 2, producer |-> "local",
            sink |-> "stdout", noSleep |-> TRUE, minSeconds |-> 1, maxSeconds |-> 1]
MCConfigs ==
  {Default,
   [Default EXCEPT !.start = At(3, 0, 1, 1), !.limit = Null, !.sink = "cluster",
                   !.noSleep = FALSE],
   [Default EXCEPT !.seed = "s2", !.start = Null, !.producer = "", !.limit = 1],
   [Default EXCEPT !.start = At(3, 1, 1, 0)],
   [Default EXCEPT !.minSeconds = 2]}

\* Faker repeats itself: two equal product names, a third that is what the second
\* would be numbered, one path drawn twice.
MCDraws ==
  [s \in {"s1", "s2"} |->
     [users |-> <<[slug |-> "user_ab", category |-> "audio"]>>,
      products |-> <<[slug |-> "prod_red", category |-> "audio", cents |-> 5]>>
                     \o IF s = "s1" THEN <<>>
                        ELSE <<[slug |-> "prod_red_2", category |-> "audio", cents |-> 4],
                               [slug |-> "prod_red", category |-> "laptop", cents |-> 4]>>,
      pages |-> <<[path |-> "/categories/audio", category |-> "audio"],
                  [path |-> "/collections/smith", category |-> "audio"],
                  [path |-> "/collections/smith", category |-> "laptop"]>>]]
MCPrefixOf == [s \in {"s1", "s2"} |-> IF s = "s1" THEN 1 ELSE 2]
=============================================================================
