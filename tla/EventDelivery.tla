---------------------------- MODULE EventDelivery ----------------------------
(***************************************************************************)
(* What the ingestion pipeline promises, without saying how: at-least-once *)
(* delivery from a lossy stream to a store that keeps the first payload of *)
(* every event_id.  An entry may be settled (given up by the group) only   *)
(* once it is useless, lost by the stream or stored.                       *)
(***************************************************************************)
EXTENDS Naturals, Sequences

CONSTANTS Payload, Valid, EventId, EventIdOf, NULL

VARIABLES
  published,  \* payloads in the order they entered the stream
  lost,       \* entries the stream dropped
  rows,       \* event_id -> payload or NULL
  settled     \* entries acknowledged

vars == <<published, lost, rows, settled>>

Entries == DOMAIN published

Init ==
  /\ published = <<>>
  /\ lost = {}
  /\ rows = [e \in EventId |-> NULL]
  /\ settled = {}

\* An entry is appended; the stream may drop any entries to make room.
Publish(pl) ==
  /\ published' = Append(published, pl)
  /\ lost \subseteq lost'
  /\ lost' \subseteq Entries'
  /\ UNCHANGED <<rows, settled>>

\* The stream loses entries.
Lose ==
  /\ lost \subseteq lost'
  /\ lost' \subseteq Entries
  /\ UNCHANGED <<published, rows, settled>>

\* Some valid entries are stored together: an event that has a row keeps it,
\* one without gets the payload of one of them.
Store(S) ==
  /\ \A i \in S : published[i] \in Valid
  /\ DOMAIN rows' = EventId
  /\ \A e \in EventId :
       LET offers == {published[i] : i \in {j \in S : EventIdOf[published[j]] = e}}
       IN IF rows[e] # NULL \/ offers = {} THEN rows'[e] = rows[e]
                                           ELSE rows'[e] \in offers
  /\ UNCHANGED <<published, lost, settled>>

MaySettle(i) ==
  i \in lost \/ published[i] \notin Valid \/ rows[EventIdOf[published[i]]] # NULL

Settle(S) ==
  /\ \A i \in S : MaySettle(i)
  /\ settled' = settled \cup S
  /\ UNCHANGED <<published, lost, rows>>

Next ==
  \/ \E pl \in Payload : Publish(pl)
  \/ Lose
  \/ \E S \in SUBSET Entries : Store(S) \/ Settle(S)

Spec == Init /\ [][Next]_vars
=============================================================================
