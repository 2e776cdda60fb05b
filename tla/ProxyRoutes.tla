---------------------------- MODULE ProxyRoutes ----------------------------
(***************************************************************************)
(* The Next.js proxy in front of the analytics API: which requests of the  *)
(* page it forwards.  A path is the sequence of its segments behind        *)
(* /api/analytics.                                                         *)
(***************************************************************************)
EXTENDS Sequences

\* ANALYTICS_PROXY_ROUTES: the fixed routes and their methods.
FixedRoutes ==
  [datasets |-> {"GET"}, presets |-> {"GET"}, query |-> {"POST"},
   explore |-> {"POST"}, viewTables |-> {"GET", "POST"}, preview |-> {"POST"}]

FixedPath ==
  [datasets |-> <<"datasets">>, presets |-> <<"presets">>, query |-> <<"query">>,
   explore |-> <<"explore-query">>, viewTables |-> <<"view-tables">>,
   preview |-> <<"view-tables", "preview">>]

\* analyticsViewTableItemRoute: any two segments under view-tables.
IsItem(path) == Len(path) = 2 /\ path[1] = "view-tables"

\* analyticsRoute: the item route is tried first; unknown paths have no method.
Methods(path) ==
  IF IsItem(path) THEN {"DELETE"}
  ELSE UNION {FixedRoutes[n] : n \in {m \in DOMAIN FixedRoutes : FixedPath[m] = path}}

\* The proxy forwards the request, or answers 404, 405 or, for a body beyond
\* MAX_ANALYTICS_PROXY_BODY_BYTES, 413.
Forwards(request) == /\ request.method \in Methods(request.path)
                     /\ request.method = "POST" => ~request.large
=============================================================================
