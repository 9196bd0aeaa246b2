------------------------------ MODULE Mandate -------------------------------
(***************************************************************************)
(* Open mandates, their constraints and the closed mandate of the v1       *)
(* protocol (crates/authority/src/evaluate.rs, mandate.rs, constraint/).   *)
(* `evaluate` judges a closed mandate by one constraint, `accepts` by one  *)
(* open mandate, `evaluate_chain` by a whole chain; `covers` and `narrows` *)
(* are the comparison an issuer makes before it signs a sub-delegation.    *)
(*                                                                         *)
(*   open     [family, constraints, presets, max_depth, ledger_key]        *)
(*   closed   [family, claims]                                             *)
(*   env      [now, ledger, checkout, open_checkout_hash]                  *)
(*   amount   [minor, currency];  usage [total_minor, uses, last_use]      *)
(*                                                                         *)
(* A constraint is a record with its `type` and the members of that type;  *)
(* claims and presets are functions from claim names.  A Vec that is only  *)
(* searched is a set, an id stands for a list entry compared by id alone.  *)
(* A check answers "ok", "violated" (Failure::Violated) or "unresolved".   *)
(***************************************************************************)
EXTENDS TimeWindow, LineItems

CONSTANTS
    U32Max,             \* u32::MAX, the largest delegation depth
    SecondsPerDay,      \* 86400, fewer for model checking
    instant_range(_),   \* date text -> <<first, last>> second, or None
    add_months(_, _)    \* (instant, n) -> instant, or None (chrono calendar)

ASSUME U32MaxAssumption == U32Max \in Nat /\ SecondsPerDay \in Nat

\* A member of a claims object, or None.
get(object, name) == IF name \in DOMAIN object THEN object[name] ELSE None

ok_if(test) == IF test THEN "ok" ELSE "violated"

-----------------------------------------------------------------------------
(***************************************************************************)
(* Evaluation, type by type.                                               *)
(***************************************************************************)
actions(c, a) == ok_if(a.action \in c.allowed)

resources(c, a) ==
    ok_if(get(a, "resource") # None /\ get(a, "resource") \in c.allowed)

data_categories(c, a) ==
    ok_if(get(a, "data_categories") # None => a.data_categories \subseteq c.allowed)

\* An action without an amount moves no value and passes.
amount(c, a) ==
    ok_if(get(a, "amount") # None =>
            a.amount.currency = c.currency /\ a.amount.minor <= c.max)

counterparties(c, a) ==
    LET cp == get(a, "counterparty") IN
    ok_if(/\ cp # None
          /\ c.deny # None => cp \notin c.deny
          /\ c.allow # None => cp \in c.allow)

time_windows(c, now) == ok_if(\E w \in c.windows : contains(w, now))

allowed_merchants(c, checkout) ==
    IF checkout = None THEN "unresolved"
    ELSE ok_if(checkout.merchant # None /\ checkout.merchant \in c.allowed)

checkout_line_items(c, checkout) ==
    IF checkout = None THEN "unresolved" ELSE line_items(c.items, checkout.line_items)

amount_range(c, p) ==
    ok_if(/\ p.payment_amount.currency = c.currency
          /\ p.payment_amount.minor <= c.max
          /\ c.min # None => p.payment_amount.minor >= c.min)

allowed_payees(c, p) == ok_if(p.payee.id \in c.allowed)

allowed_instruments(c, p) == ok_if(p.payment_instrument.id \in c.allowed)

\* PISPs are compared member by member, not by id.
allowed_pisps(c, p) == ok_if(get(p, "pisp") # None /\ get(p, "pisp") \in c.allowed)

\* An absent ledger and one that cannot be reached leave a stateful
\* constraint undecided, which is a rejection.
usage(ledger, key) == IF ledger = None THEN None ELSE ledger[key]

\* A sum beyond u64 is beyond every max as well.
budget(c, p, ledger, key) ==
    LET u == usage(ledger, key) IN
    IF p.payment_amount.currency # c.currency THEN "violated"
    ELSE IF u = None THEN "unresolved"
    ELSE ok_if(u.total_minor + p.payment_amount.minor <= c.max)

\* The clock stays far from the end of i64, where checked_add would fail.
next_after(frequency, last) ==
    CASE frequency = "ON_DEMAND" -> last
      [] frequency = "DAILY"     -> last + SecondsPerDay
      [] frequency = "WEEKLY"    -> last + 7 * SecondsPerDay
      [] frequency = "BIWEEKLY"  -> last + 14 * SecondsPerDay
      [] frequency = "MONTHLY"   -> add_months(last, 1)
      [] frequency = "QUARTERLY" -> add_months(last, 3)
      [] frequency = "ANNUALLY"  -> add_months(last, 12)

agent_recurrence(c, now, ledger, key) ==
    LET u == usage(ledger, key)
        next == next_after(c.frequency, u.last_use)
    IN  IF u = None THEN "unresolved"
        ELSE ok_if(/\ c.max_occurrences # None => u.uses < c.max_occurrences
                   /\ u.last_use # None => next # None /\ now >= next)

\* No execution date means now; a bare date is the whole day.
execution_date(c, p, now) ==
    LET range == IF get(p, "execution_date") = None THEN <<now, now>>
                 ELSE instant_range(p.execution_date)
    IN  ok_if(/\ range # None
              /\ c.not_before # None => range[1] >= c.not_before
              /\ c.not_after # None => range[2] <= c.not_after)

reference(c, open_checkout_hash) ==
    IF open_checkout_hash = None THEN "unresolved"
    ELSE ok_if(open_checkout_hash = c.conditional_transaction_id)

-----------------------------------------------------------------------------
ListTypes == {"aap.actions", "aap.resources", "aap.data_categories",
              "checkout.allowed_merchants", "payment.allowed_payees",
              "payment.allowed_payment_instruments", "payment.allowed_pisps"}

Frequencies == {"ON_DEMAND", "DAILY", "WEEKLY", "BIWEEKLY", "MONTHLY", "QUARTERLY",
                "ANNUALLY"}

\* What Constraint::parse lets through: a known type, no empty list, numbers
\* that are unsigned integers, bounds in order.
parses(c) ==
    CASE c.type \in ListTypes -> c.allowed # {}
      [] c.type \in {"aap.amount", "payment.budget"} -> c.max \in Nat
      [] c.type = "aap.counterparties" ->
            /\ c.allow # None \/ c.deny # None
            /\ c.allow # {} /\ c.deny # {}
      [] c.type = "aap.time_windows" -> c.windows \subseteq TimeWindow /\ c.windows # {}
      [] c.type = "aap.delegation" -> c.max_depth \in 0 .. U32Max
      [] c.type = "checkout.line_items" ->
            /\ c.items # <<>>
            /\ \A i \in DOMAIN c.items : c.items[i].quantity \in Nat \ {0}
                                        /\ c.items[i].acceptable # {}
      [] c.type = "payment.amount_range" ->
            /\ c.max \in Nat
            /\ c.min # None => c.min \in Nat /\ c.min <= c.max
      [] c.type = "payment.agent_recurrence" ->
            /\ c.frequency \in Frequencies
            /\ c.max_occurrences # None => c.max_occurrences \in Nat
      [] c.type = "payment.execution_date" ->
            /\ c.not_before # None \/ c.not_after # None
            /\ c.not_before # None => c.not_before \in Int
            /\ c.not_after # None => c.not_after \in Int
            /\ c.not_before # None /\ c.not_after # None => c.not_before <= c.not_after
      [] c.type = "payment.reference" -> TRUE
      [] OTHER -> FALSE

\* The family a constraint constrains; aap.delegation fits every one.
family(c) ==
    CASE c.type = "aap.delegation" -> None
      [] c.type \in {"aap.actions", "aap.resources", "aap.amount", "aap.counterparties",
                     "aap.data_categories", "aap.time_windows"} -> "authority"
      [] c.type \in {"checkout.allowed_merchants", "checkout.line_items"} -> "checkout"
      [] OTHER -> "payment"

evaluate(c, closed, env, key) ==
    LET a == closed.claims IN
    IF c.type = "aap.delegation" THEN "ok"
    ELSE IF family(c) # closed.family THEN "unresolved"
    ELSE CASE c.type = "aap.actions"                         -> actions(c, a)
           [] c.type = "aap.resources"                       -> resources(c, a)
           [] c.type = "aap.amount"                          -> amount(c, a)
           [] c.type = "aap.counterparties"                  -> counterparties(c, a)
           [] c.type = "aap.data_categories"                 -> data_categories(c, a)
           [] c.type = "aap.time_windows"                    -> time_windows(c, env.now)
           [] c.type = "checkout.allowed_merchants"          -> allowed_merchants(c, env.checkout)
           [] c.type = "checkout.line_items"                 -> checkout_line_items(c, env.checkout)
           [] c.type = "payment.amount_range"                -> amount_range(c, a)
           [] c.type = "payment.allowed_payees"              -> allowed_payees(c, a)
           [] c.type = "payment.allowed_payment_instruments" -> allowed_instruments(c, a)
           [] c.type = "payment.allowed_pisps"               -> allowed_pisps(c, a)
           [] c.type = "payment.budget"                      -> budget(c, a, env.ledger, key)
           [] c.type = "payment.agent_recurrence"            -> agent_recurrence(c, env.now, env.ledger, key)
           [] c.type = "payment.execution_date"              -> execution_date(c, a, env.now)
           [] c.type = "payment.reference"                   -> reference(c, env.open_checkout_hash)

-----------------------------------------------------------------------------
(***************************************************************************)
(* Open mandates.                                                          *)
(***************************************************************************)
has(constraints, type) == \E i \in DOMAIN constraints : constraints[i].type = type

\* The errors OpenMandate::parse returns.
parse_error(fam, constraints) ==
    \/ \E i \in DOMAIN constraints : ~ parses(constraints[i])
    \/ \E i \in DOMAIN constraints : family(constraints[i]) \notin {None, fam}
    \/ fam = "authority" /\ ~ has(constraints, "aap.actions")
    \/ /\ has(constraints, "payment.agent_recurrence")
       /\ ~ (has(constraints, "payment.amount_range") /\ has(constraints, "payment.budget"))

\* Several aap.delegation constraints all apply: the smallest wins.
max_depth(constraints) ==
    LET depths == {constraints[i].max_depth :
                    i \in {j \in DOMAIN constraints : constraints[j].type = "aap.delegation"}}
    IN  IF depths = {} THEN 0 ELSE CHOOSE d \in depths : \A e \in depths : d <= e

open_mandate(fam, constraints, presets, key) ==
    [family |-> fam, constraints |-> constraints, presets |-> presets,
     max_depth |-> max_depth(constraints), ledger_key |-> key]

\* The first constraint, in order, that does not answer "ok".
first_failure(open, closed, env) ==
    LET result(i) == evaluate(open.constraints[i], closed, env, open.ledger_key)
        failing == {i \in DOMAIN open.constraints : result(i) # "ok"}
    IN  IF failing = {} THEN "ok"
        ELSE result(CHOOSE i \in failing : \A j \in failing : i <= j)

\* What an open mandate asks before its constraints: its own family, its
\* pre-set claims unchanged, and no money where it never mentioned money.
structural_failure(open, closed) ==
    IF open.family # closed.family THEN "family"
    ELSE IF \E k \in DOMAIN open.presets :
                k \notin DOMAIN closed.claims \/ closed.claims[k] # open.presets[k]
         THEN "preset"
    ELSE IF /\ closed.family = "authority" /\ get(closed.claims, "amount") # None
            /\ ~ has(open.constraints, "aap.amount")
         THEN "ceiling"
    ELSE "ok"

accepts(open, closed, env) ==
    IF structural_failure(open, closed) # "ok" THEN structural_failure(open, closed)
    ELSE first_failure(open, closed, env)

\* Every open mandate, root first; the first rejection is the answer.
evaluate_chain(opens, closed, env) ==
    LET failing == {i \in DOMAIN opens : accepts(opens[i], closed, env) # "ok"} IN
    IF failing = {} THEN "ok"
    ELSE accepts(opens[CHOOSE i \in failing : \A j \in failing : i <= j], closed, env)

-----------------------------------------------------------------------------
(***************************************************************************)
(* Narrowing: is the child at least as strict as the parent?               *)
(***************************************************************************)
counterparties_covers(p, c) ==
    /\ p.allow # None => c.allow # None /\ c.allow \subseteq p.allow
    /\ p.deny # None => p.deny \subseteq (IF c.deny = None THEN {} ELSE c.deny)

amount_covers(p, c) == p.currency = c.currency /\ c.max <= p.max

unwrap_or_0(x) == IF x = None THEN 0 ELSE x

amount_range_covers(p, c) ==
    amount_covers(p, c) /\ unwrap_or_0(c.min) >= unwrap_or_0(p.min)

recurrence_covers(p, c) ==
    /\ p.frequency = c.frequency
    /\ p.max_occurrences # None =>
            c.max_occurrences # None /\ c.max_occurrences <= p.max_occurrences

execution_date_covers(p, c) ==
    /\ p.not_before # None => c.not_before # None /\ c.not_before >= p.not_before
    /\ p.not_after # None => c.not_after # None /\ c.not_after <= p.not_after

covers(p, c) ==
    /\ c.type = p.type
    /\ CASE p.type \in ListTypes                   -> c.allowed \subseteq p.allowed
         [] p.type = "aap.amount"                  -> amount_covers(p, c)
         [] p.type = "aap.counterparties"          -> counterparties_covers(p, c)
         [] p.type = "aap.time_windows"            ->
                \A w \in c.windows : covered_by(w, p.windows)
         [] p.type = "aap.delegation"              -> TRUE
         [] p.type = "checkout.line_items"         -> p.items = c.items
         [] p.type = "payment.amount_range"        -> amount_range_covers(p, c)
         [] p.type = "payment.budget"              -> amount_covers(p, c)
         [] p.type = "payment.agent_recurrence"    -> recurrence_covers(p, c)
         [] p.type = "payment.execution_date"      -> execution_date_covers(p, c)
         [] p.type = "payment.reference"           ->
                p.conditional_transaction_id = c.conditional_transaction_id

\* Mutant: a child may be as deep as its parent.
saturating_add_1_Same(d) == d

saturating_add_1(d) == IF d = U32Max THEN U32Max ELSE d + 1

\* Mutant: a child may add a ceiling its parent does not have.
narrows_AnyMoney(parent, child) ==
    /\ parent.family = child.family
    /\ saturating_add_1(child.max_depth) <= parent.max_depth
    /\ \A k \in DOMAIN parent.presets :
            k \in DOMAIN child.presets /\ child.presets[k] = parent.presets[k]
    /\ \A i \in DOMAIN parent.constraints :
            parent.constraints[i].type # "aap.delegation" =>
                \E j \in DOMAIN child.constraints :
                    covers(parent.constraints[i], child.constraints[j])

narrows(parent, child) ==
    /\ parent.family = child.family
    /\ saturating_add_1(child.max_depth) <= parent.max_depth
    /\ \A k \in DOMAIN parent.presets :
            k \in DOMAIN child.presets /\ child.presets[k] = parent.presets[k]
    /\ has(child.constraints, "aap.amount") => has(parent.constraints, "aap.amount")
    /\ \A i \in DOMAIN parent.constraints :
            parent.constraints[i].type # "aap.delegation" =>
                \E j \in DOMAIN child.constraints :
                    covers(parent.constraints[i], child.constraints[j])

-----------------------------------------------------------------------------
\* What properties compare with: an open mandate without the constraints
\* that count uses.
Stateful == {"payment.budget", "payment.agent_recurrence"}
accepts_stateless(open, closed, env) ==
    /\ structural_failure(open, closed) = "ok"
    /\ \A i \in DOMAIN open.constraints :
            open.constraints[i].type \notin Stateful =>
                evaluate(open.constraints[i], closed, env, open.ledger_key) = "ok"

=============================================================================
