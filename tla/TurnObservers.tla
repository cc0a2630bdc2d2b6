--------------------------- MODULE TurnObservers ---------------------------
(***************************************************************************)
(* The TurnObserverRegistry (runtime/turn/observer.rs): which client hears *)
(* of which turn.  Every operation holds the registry's lock, so each is a *)
(* function of the registry r:                                             *)
(*   route   the sink a request key is assigned to, or Nobody              *)
(*   pending ObserverState.pending_turns of each sink                      *)
(*   life    new, live, done (completion sent) or gone (client left)       *)
(***************************************************************************)
EXTENDS Naturals, FiniteSets

CONSTANTS
    Keys,       \* request keys, which are also the ids of messages
    Sinks,      \* clients that may listen
    Nobody      \* no sink, key or turn

ASSUME ObserversAssumption ==
    IsFiniteSet(Keys) /\ IsFiniteSet(Sinks) /\ Nobody \notin Keys \cup Sinks

NoObservers ==
    [route |-> [k \in Keys |-> Nobody],
     pending |-> [s \in Sinks |-> 0],
     life |-> [s \in Sinks |-> "new"]]

Unused(r) == {s \in Sinks : r.life[s] = "new"}

RoutesTo(r, s) == {k \in Keys : r.route[k] = s}

(* remove_sink_routes *)
WithoutRoutes(r, s) ==
    [r EXCEPT !.route = [k \in Keys |-> IF r.route[k] = s THEN Nobody ELSE r.route[k]]]

(* has_live_observer; a sink nobody listens to loses its routes.            *)
HasLive(r, k) == r.route[k] # Nobody /\ r.life[r.route[k]] = "live"
Pruned(r, k) ==
    IF r.route[k] # Nobody /\ ~HasLive(r, k) THEN WithoutRoutes(r, r.route[k]) ELSE r

(* register_if_absent: a live observer of the key is never replaced.        *)
Registered(r, k, s) ==
    IF HasLive(r, k) THEN r
    ELSE LET q == Pruned(r, k) IN
         [q EXCEPT !.route[k] = s, !.pending[s] = 1, !.life[s] = "live"]

(* transfer_many: one client follows several turns instead of one, none of  *)
(* which has an observer yet.                                               *)
MayMove(r, to) == to # {} /\ \A k \in to : r.route[k] = Nobody
CanTransfer(r, from, to) == MayMove(r, to) /\ HasLive(r, from)
Transferred(r, from, to) ==
    IF ~MayMove(r, to) THEN r
    ELSE IF ~HasLive(r, from) THEN Pruned(r, from)
    ELSE [r EXCEPT !.pending[r.route[from]] = @ - 1 + Cardinality(to),
                   !.route = [k \in Keys |-> IF k = from THEN Nobody
                                             ELSE IF k \in to THEN r.route[from]
                                             ELSE r.route[k]]]

(* finish: the last assigned turn completes the client's interaction.       *)
Finished(r, k) == LET s == r.route[k] IN
    IF s = Nobody THEN r
    ELSE LET q == [r EXCEPT !.route[k] = Nobody, !.pending[s] = @ - 1] IN
         IF r.pending[s] # 1 THEN q
         ELSE [WithoutRoutes(q, s) EXCEPT !.life[s] = IF @ = "live" THEN "done" ELSE @]

(* The client goes away: its receivers are dropped. *)
Dropped(r, s) == [r EXCEPT !.life[s] = "gone"]

(* The process ends, and with it every connection. *)
Lost(r) ==
    [route |-> [k \in Keys |-> Nobody],
     pending |-> [s \in Sinks |-> 0],
     life |-> [s \in Sinks |-> IF r.life[s] = "live" THEN "gone" ELSE r.life[s]]]
=============================================================================
