------------------------------- MODULE Scope -------------------------------
(***************************************************************************)
(* Deterministic scope matching of the v0 protocol core                    *)
(* (crates/core/src/scope.rs): `matches` decides one request against one   *)
(* scope, `narrows` decides whether a child scope is a valid               *)
(* sub-delegation of its parent.  The verifier calls `narrows` on every    *)
(* adjacent pair of a chain but `matches` on the leaf alone, so `narrows`  *)
(* is all that stands between a sub-delegated agent and its parent's       *)
(* limits.                                                                 *)
(*                                                                         *)
(* An Option<T> is a T or None; a Vec that is only searched is a set.      *)
(*   scope   [actions, resources, max_amount, allow, deny,                 *)
(*            data_categories, time_windows]                               *)
(*   request [action, resource, amount, counterparty, data_categories]     *)
(*   amount  [value, currency];  window [timezone, days, start, end]       *)
(* `counterparties: None` is allow = deny = None: both functions treat the *)
(* two alike (unwrap_or_default in narrows).                               *)
(***************************************************************************)
EXTENDS Integers, Sequences

CONSTANTS
    None,               \* the absent Option, and text that is not a number
    Zones,              \* the time zone names chrono_tz can parse
    U32,                \* 2^32: the range of the unsigned minute arithmetic
    Instants,           \* the evaluation times, bounded for model checking
    LocalMinute(_, _)   \* (zone, instant) -> minutes of local time (chrono_tz)

ASSUME U32Assumption == U32 \in Nat /\ U32 > 24 * 60

\* What chrono_tz promises: every instant has a local time in every zone.
ASSUME InstantsAssumption ==
    /\ Instants \subseteq Int
    /\ \A z \in Zones, t \in Instants : LocalMinute(z, t) \in Int

-----------------------------------------------------------------------------
(***************************************************************************)
(* Amounts.  JSON carries no NaN and no infinity, so every number that     *)
(* reaches the code is finite and only its sign is left to check.          *)
(***************************************************************************)
valid_amount(a) == a.value >= 0

\* The comparison matches (81-85) and narrows (153-157) both spell out.
amount_within(a, max) ==
    /\ a # None
    /\ valid_amount(a)
    /\ valid_amount(max)
    /\ a.currency = max.currency
    /\ a.value <= max.value

-----------------------------------------------------------------------------
(***************************************************************************)
(* Clock texts.  A text is the sequence of its ':'-separated fields, each  *)
(* a number or None; split_once leaves a second colon in the minute field, *)
(* which then fails to parse.  Nothing bounds the hour or the minute.      *)
(***************************************************************************)
parse_hm(s) ==
    IF Len(s) = 2 /\ s[1] # None /\ s[2] # None THEN <<s[1], s[2]>> ELSE None

\* h * 60 + m in u32 (release builds wrap).
minutes_of(hm) ==
    LET x == hm[1] * 60 + hm[2] IN IF x < U32 THEN x ELSE x % U32

\* Rust compares (u32, u32) tuples lexicographically.
hm_leq(a, b) == a[1] < b[1] \/ (a[1] = b[1] /\ a[2] <= b[2])

timestamp_in_window(ts, w) ==
    /\ w.timezone \in Zones
    /\ LET local == LocalMinute(w.timezone, ts) IN
        /\ (local \div 1440) % 7 \in w.days
        /\ parse_hm(w.start) # None
        /\ parse_hm(w.end) # None
        /\ local % 1440 >= minutes_of(parse_hm(w.start))
        /\ local % 1440 <= minutes_of(parse_hm(w.end))

-----------------------------------------------------------------------------
matches_counterparty(scope, cp) ==
    /\ scope.deny # None /\ cp # None => cp \notin scope.deny
    /\ scope.allow # None => cp # None /\ cp \in scope.allow

matches(scope, request, now) ==
    /\ request.action \in scope.actions
    /\ scope.resources # None =>
          request.resource # None /\ request.resource \in scope.resources
    /\ IF scope.max_amount # None
         THEN amount_within(request.amount, scope.max_amount)
         ELSE request.amount = None
    /\ matches_counterparty(scope, request.counterparty)
    /\ scope.data_categories # None /\ request.data_categories # None =>
          request.data_categories \subseteq scope.data_categories
    /\ scope.time_windows # None =>
          \E w \in scope.time_windows : timestamp_in_window(now, w)

-----------------------------------------------------------------------------
window_contained(child, parent) ==
    /\ parent.timezone = child.timezone
    /\ child.days \subseteq parent.days
    /\ parse_hm(child.start) # None /\ parse_hm(parent.start) # None
    /\ hm_leq(parse_hm(parent.start), parse_hm(child.start))
    /\ parse_hm(child.end) # None /\ parse_hm(parent.end) # None
    /\ hm_leq(parse_hm(child.end), parse_hm(parent.end))

\* Mutant: a child may go from bounded to unbounded.
restated_within_MayOmit(parent, child) ==
    parent # None /\ child # None => child \subseteq parent

\* A restriction of the parent must be restated by the child, within it.
restated_within(parent, child) ==
    parent # None => child # None /\ child \subseteq parent

narrows(parent, child) ==
    /\ child.actions \subseteq parent.actions
    /\ restated_within(parent.resources, child.resources)
    /\ parent.max_amount # None =>
          amount_within(child.max_amount, parent.max_amount)
    /\ restated_within(parent.allow, child.allow)
    /\ parent.deny # None =>
          parent.deny \subseteq (IF child.deny = None THEN {} ELSE child.deny)
    /\ restated_within(parent.data_categories, child.data_categories)
    /\ parent.time_windows # None =>
          /\ child.time_windows # None
          /\ \A cw \in child.time_windows :
                \E pw \in parent.time_windows : window_contained(cw, pw)

-----------------------------------------------------------------------------
(***************************************************************************)
(* The two hypotheses under which narrowing is sound; scope.rs checks      *)
(* neither of them.                                                        *)
(***************************************************************************)

\* A child never adds an amount ceiling to a parent that mentions no money.
money_kept(parent, child) == child.max_amount # None => parent.max_amount # None

\* The minute carries nothing into the hour, and the sum does not wrap; the
\* hour may lie beyond the day, as that of "24:00" does.
hm_carries_nothing(hm) == hm[1] \in Nat /\ hm[2] \in 0 .. 59 /\ hm[1] * 60 + hm[2] < U32

\* Every clock text that parses is ordered by its fields as by its minutes.
hm_ordered(s) == parse_hm(s) # None => hm_carries_nothing(parse_hm(s))

clock_texts_ordered(scope) ==
    scope.time_windows # None =>
        \A w \in scope.time_windows : hm_ordered(w.start) /\ hm_ordered(w.end)

\* Amounts are numbers (types.rs Amount); what the models assume of their inputs.
ScopeAmounts(s) == s.max_amount # None => s.max_amount.value \in Int
RequestAmounts(r) == r.amount # None => r.amount.value \in Int
=============================================================================
