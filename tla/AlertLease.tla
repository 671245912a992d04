------------------------------ MODULE AlertLease ------------------------------
(***************************************************************************)
(* Ownership of alert rules (internal/alert/lease.go and the LeaseStore    *)
(* part of pgstore_eval.go): evaluator pods share the enabled rules by     *)
(* leases in alert_rule_leases.  Each pod renews its leases, gives up what *)
(* exceeds its share and claims expired ones.                              *)
(*                                                                         *)
(* Time is abstracted: a lease is live (lease_until > now) until it        *)
(* expires, and a heartbeat counts until it is too old.  A pod's own copy  *)
(* of a lease never outlasts the row it was read from, so it becomes       *)
(* invalid with it at the latest.  A schedule (next) is the number of the  *)
(* window a rule is due at.                                                *)
(***************************************************************************)
EXTENDS Integers, FiniteSets

CONSTANTS
    Pod,        \* instances of openlog-alert
    Rule,       \* alert rules
    NoPod       \* owner of a free lease

ASSUME LeaseAssumption ==
    /\ IsFiniteSet(Pod)
    /\ IsFiniteSet(Rule)
    /\ NoPod \notin Pod

VARIABLES
    proc,       \* [Pod -> {"down", "up", "leaving"}]
    seen,       \* pods with a heartbeat within the TTL: alert_evaluators
    rules,      \* [Rule -> record with at least exists and enabled]: alert_rules
    lease,      \* [Rule -> row of alert_rule_leases]
    owned,      \* [Pod -> [Rule -> LeaseManager.owned]]
    tick        \* [Pod -> what a Tick in progress has read]

leaseVars == <<proc, seen, rules, lease, owned, tick>>

Row == [owner : Pod \cup {NoPod}, live : BOOLEAN, next : Nat, last : Nat]

Copy == [held : BOOLEAN, valid : BOOLEAN, next : Nat, last : Nat]

NotHeld == [held |-> FALSE, valid |-> FALSE, next |-> 0, last |-> 0]

NoTick == [on |-> FALSE, share |-> 0, held |-> [r \in Rule |-> NotHeld]]

LeaseTypeOK ==
    /\ proc \in [Pod -> {"down", "up", "leaving"}]
    /\ seen \subseteq Pod
    /\ lease \in [Rule -> Row]
    /\ owned \in [Pod -> [Rule -> Copy]]
    /\ tick \in [Pod -> [on : BOOLEAN, share : Nat, held : [Rule -> Copy]]]

LeaseInit ==
    /\ proc = [i \in Pod |-> "down"]
    /\ seen = {}
    /\ lease = [r \in Rule |-> [owner |-> NoPod, live |-> FALSE, next |-> 0, last |-> 0]]
    /\ owned = [i \in Pod |-> [r \in Rule |-> NotHeld]]
    /\ tick = [i \in Pod |-> NoTick]

Active(r) == rules[r].exists /\ rules[r].enabled

Freed(l) == [l EXCEPT !.owner = NoPod, !.live = FALSE]

(* Forget everything a pod keeps in memory. *)
Forget(i) ==
    /\ owned' = [owned EXCEPT ![i] = [r \in Rule |-> NotHeld]]
    /\ tick' = [tick EXCEPT ![i] = NoTick]

-----------------------------------------------------------------------------
Start(i) ==
    /\ proc[i] = "down"
    /\ proc' = [proc EXCEPT ![i] = "up"]
    /\ UNCHANGED <<seen, rules, lease, owned, tick>>

(* The process dies: its leases and its heartbeat stay until they are too old. *)
Crash(i) ==
    /\ proc[i] # "down"
    /\ proc' = [proc EXCEPT ![i] = "down"]
    /\ Forget(i)
    /\ UNCHANGED <<seen, rules, lease>>

(***************************************************************************)
(* Run, when its context is done: Leave frees the leases and removes the   *)
(* heartbeat, or fails and leaves both to expire.                          *)
(***************************************************************************)
Stop(i, ok) ==
    /\ proc[i] = "up"
    /\ proc' = [proc EXCEPT ![i] = "leaving"]
    /\ IF ok
       THEN /\ lease' = [r \in Rule |-> IF lease[r].owner = i THEN Freed(lease[r]) ELSE lease[r]]
            /\ seen' = seen \ {i}
       ELSE UNCHANGED <<lease, seen>>
    /\ Forget(i)
    /\ UNCHANGED rules

(* lease_until passes: of the row, and no later of the copies read from it. *)
Expire(r) ==
    /\ lease[r].live
    /\ lease' = [lease EXCEPT ![r].live = FALSE]
    /\ owned' = [i \in Pod |-> [owned[i] EXCEPT ![r].valid = FALSE]]
    /\ UNCHANGED <<proc, seen, rules, tick>>

(* The heartbeat of a pod is older than the TTL. *)
Silence(i) ==
    /\ i \in seen
    /\ seen' = seen \ {i}
    /\ UNCHANGED <<proc, rules, lease, owned, tick>>

-----------------------------------------------------------------------------
(* Mutant: the share is rounded down. *)
ShareFloor(total, live) == total \div live

(* The fair share of a pod, rounded up so that no rule is left over. *)
Share(total, live) == (total + live - 1) \div live

(***************************************************************************)
(* Tick, first part: Heartbeat, Renew (which frees the pod's leases on     *)
(* disabled rules) and CountEnabled.  Renew extends every lease that still *)
(* has the pod's name, expired or not.                                     *)
(***************************************************************************)
TickRenew(i) ==
    LET mine    == {r \in Rule : rules[r].exists /\ lease[r].owner = i}
        renewed == {r \in mine : rules[r].enabled}
        live    == Cardinality(seen \cup {i})
        total   == Cardinality({r \in Rule : Active(r)})
    IN  /\ proc[i] = "up"
        /\ ~tick[i].on
        /\ seen' = seen \cup {i}
        /\ lease' = [r \in Rule |-> IF r \in renewed THEN [lease[r] EXCEPT !.live = TRUE]
                                    ELSE IF r \in mine THEN Freed(lease[r]) ELSE lease[r]]
        /\ tick' = [tick EXCEPT ![i] =
               [on |-> TRUE,
                share |-> Share(total, live),
                held |-> [r \in Rule |-> IF r \in renewed
                                         THEN [held |-> TRUE, valid |-> TRUE,
                                               next |-> lease[r].next, last |-> lease[r].last]
                                         ELSE NotHeld]]]
        /\ UNCHANGED <<proc, rules, owned>>

(* C is what ORDER BY next_eval_at [DESC] LIMIT n takes of the rows S. *)
Oldest(C, S, n) ==
    /\ C \subseteq S
    /\ Cardinality(C) = IF n < Cardinality(S) THEN n ELSE Cardinality(S)
    /\ \A c \in C, d \in S \ C : lease[c].next <= lease[d].next

Latest(C, S, n) ==
    /\ C \subseteq S
    /\ Cardinality(C) = IF n < Cardinality(S) THEN n ELSE Cardinality(S)
    /\ \A c \in C, d \in S \ C : lease[c].next >= lease[d].next

Claimable == {r \in Rule : Active(r) /\ ~lease[r].live}

(***************************************************************************)
(* The copies after a round that holds `held': a schedule the pod knows    *)
(* to be later than the row's is kept.                                     *)
(***************************************************************************)
Adopt(i, held) ==
    [r \in Rule |->
        IF ~held[r].held THEN NotHeld
        ELSE IF owned[i][r].held /\ owned[i][r].next > held[r].next
             THEN [held[r] EXCEPT !.next = owned[i][r].next, !.last = owned[i][r].last]
             ELSE held[r]]

(* The leases the round ends with; those that expired meanwhile are invalid. *)
Held(i, released, claimed) ==
    [r \in Rule |->
        CASE r \in released -> NotHeld
          [] r \in claimed  -> [held |-> TRUE, valid |-> TRUE,
                                next |-> lease[r].next, last |-> lease[r].last]
          [] OTHER -> [tick[i].held[r] EXCEPT
                           !.valid = tick[i].held[r].held /\ lease[r].owner = i /\ lease[r].live]]

Rebalance(i, released, claimed) ==
    lease' = [r \in Rule |-> CASE r \in released -> Freed(lease[r])
                               [] r \in claimed  -> [lease[r] EXCEPT !.owner = i, !.live = TRUE]
                               [] OTHER          -> lease[r]]

(***************************************************************************)
(* Tick, second part: Release what exceeds the share, or Claim up to it,   *)
(* without the rows that are locked at that moment.  When the statement    *)
(* fails for the pod (~ok) the round ends there: it may have been applied  *)
(* nevertheless, and the pod keeps the copies it had.                      *)
(***************************************************************************)
TickBalance(i, locked, ok) ==
    LET share == tick[i].share
        n     == Cardinality({r \in Rule : tick[i].held[r].held})
        mine  == {r \in Rule : rules[r].exists /\ lease[r].owner = i} \ locked
    IN  /\ tick[i].on
        /\ \E released, claimed \in SUBSET Rule :
             /\ IF n > share THEN Latest(released, mine, n - share) ELSE released = {}
             /\ IF n < share THEN Oldest(claimed, Claimable \ locked, share - n) ELSE claimed = {}
             /\ Rebalance(i, released, claimed)
             /\ owned' = IF ok THEN [owned EXCEPT ![i] = Adopt(i, Held(i, released, claimed))]
                               ELSE owned
        /\ tick' = [tick EXCEPT ![i] = NoTick]
        /\ UNCHANGED <<proc, seen, rules>>

(* Tick returns an error before it released or claimed anything. *)
TickFails(i) ==
    /\ tick[i].on
    /\ tick' = [tick EXCEPT ![i] = NoTick]
    /\ UNCHANGED <<proc, seen, rules, lease, owned>>

-----------------------------------------------------------------------------
(* Scheduled and Drop, as the evaluator calls them. *)

Scheduled(i, r, next, last) ==
    IF owned[i][r].held
    THEN [owned EXCEPT ![i][r].next = next, ![i][r].last = IF last = 0 THEN @ ELSE last]
    ELSE owned

Drop(i, r) == [owned EXCEPT ![i][r] = NotHeld]
=============================================================================
