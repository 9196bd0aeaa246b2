----------------------------- MODULE TimeWindow -----------------------------
(***************************************************************************)
(* aap.time_windows of the v1 protocol (crates/authority/src/              *)
(* time_window.rs): when an agent may act, judged on the verifier's clock, *)
(* and the sort-and-merge loop by which `narrows` decides that a child     *)
(* window lies inside the union of its parent's windows.                   *)
(*                                                                         *)
(* A window is [days, start, end, timezone] with days numbered from        *)
(* Monday = 0 and minutes counted from local midnight; a list of windows   *)
(* is the set of its members.                                              *)
(***************************************************************************)
EXTENDS Integers, Sequences, FiniteSets

CONSTANTS
    None,               \* the absent Option
    Zones,              \* the time zones chrono_tz knows
    DAY,                \* minutes in a day: 24 * 60, fewer for model checking
    local_minute(_, _)  \* (zone, now) -> local minute of the week, or None for
                        \* a time outside chrono's range

ASSUME DAYAssumption == DAY \in Nat \ {0}

WEEK == 7 * DAY

\* What `parse` lets through: at least one weekday, start on the clock, end
\* on it or at 24:00, and never start = end.
TimeWindow ==
    {w \in [days : SUBSET (0 .. 6) \ {{}}, start : 0 .. DAY - 1,
            end : 0 .. DAY, timezone : Zones] : w.start # w.end}

\* The half-open intervals of local minute-of-week a window covers.  One that
\* runs over midnight is two of them, the second on the day after.
intervals_of_day(w, d) ==
    LET base == d * DAY
        next == ((d + 1) % 7) * DAY
    IN  IF w.start < w.end THEN {<<base + w.start, base + w.end>>}
        ELSE {<<base + w.start, base + DAY>>}
             \cup (IF w.end > 0 THEN {<<next, next + w.end>>} ELSE {})

intervals(w) == UNION {intervals_of_day(w, d) : d \in w.days}

contains(w, now) ==
    LET m == local_minute(w.timezone, now) IN
    /\ m # None
    /\ \E iv \in intervals(w) : iv[1] <= m /\ m < iv[2]

-----------------------------------------------------------------------------
(***************************************************************************)
(* covered_by.  sort_unstable orders the intervals by (start, end); the    *)
(* loop takes them in that order and either extends the last interval of   *)
(* the union or opens a new one.  Equal intervals change nothing the       *)
(* second time, so the list is the set of its members.                     *)
(***************************************************************************)
interval_leq(p, q) == p[1] < q[1] \/ (p[1] = q[1] /\ p[2] <= q[2])

first_interval(rest) == CHOOSE p \in rest : \A q \in rest : interval_leq(p, q)

\* Mutant: the end of the last interval becomes that of the new one.
absorb_ShorterEnd(union, iv) ==
    LET n == Len(union) IN
    IF n > 0 /\ iv[1] <= union[n][2]
    THEN [union EXCEPT ![n] = <<union[n][1], iv[2]>>]
    ELSE Append(union, iv)

\* An interval that overlaps or touches the last one extends it.
absorb(union, iv) ==
    LET n == Len(union) IN
    IF n > 0 /\ iv[1] <= union[n][2]
    THEN [union EXCEPT ![n] =
            <<union[n][1], IF union[n][2] < iv[2] THEN iv[2] ELSE union[n][2]>>]
    ELSE Append(union, iv)

merge_step(st) ==
    IF st.rest = {} THEN st
    ELSE LET iv == first_interval(st.rest) IN
         [rest |-> st.rest \ {iv}, union |-> absorb(st.union, iv)]

\* The loop after each of its iterations.
merging(ivs, n) ==
    LET st[i \in 0 .. n] ==
            IF i = 0 THEN [rest |-> ivs, union |-> <<>>] ELSE merge_step(st[i - 1])
    IN  st

merged(ivs) == merging(ivs, Cardinality(ivs))[Cardinality(ivs)].union

\* Only parents in the child's own time zone count.
same_zone_intervals(w, parents) ==
    UNION {intervals(p) : p \in {q \in parents : q.timezone = w.timezone}}

covered_by(w, parents) ==
    LET union == merged(same_zone_intervals(w, parents)) IN
    \A iv \in intervals(w) :
        \E k \in 1 .. Len(union) : union[k][1] <= iv[1] /\ iv[2] <= union[k][2]

=============================================================================
