--------------------------- MODULE MCMandateChain ---------------------------
(***************************************************************************)
(* Small mandates for MandateChain: each family's constraint types in a    *)
(* few strengths, one or two beside the obligatory ones, at every depth.   *)
(***************************************************************************)
EXTENDS MandateChain, TLC

\* Days of four minutes; the second zone is half a day ahead of the first.
MCLocalMinute(zone, now) ==
    IF now < 0 THEN None ELSE (now + (IF zone = "east" THEN 2 ELSE 0)) % 28

MCInstantRange(text) ==
    CASE text = "day1" -> <<0, 3>> [] text = "noon1" -> <<2, 2>>
      [] text = "day2" -> <<4, 7>> [] OTHER -> None

MCAddMonths(t, n) == t + 28 * n

Actions(s) == [type |-> "aap.actions", allowed |-> s]
ListOf(t, s) == [type |-> t, allowed |-> s]
Amount(m, c) == [type |-> "aap.amount", max |-> m, currency |-> c]
Parties(a, d) == [type |-> "aap.counterparties", allow |-> a, deny |-> d]
Windows(ws) == [type |-> "aap.time_windows", windows |-> ws]
Depth(d) == [type |-> "aap.delegation", max_depth |-> d]
PayRange(lo, hi) == [type |-> "payment.amount_range", currency |-> "EUR", min |-> lo, max |-> hi]
Budget(m) == [type |-> "payment.budget", currency |-> "EUR", max |-> m]
Recurs(f, m) == [type |-> "payment.agent_recurrence", frequency |-> f, max_occurrences |-> m]
Dates(a, b) == [type |-> "payment.execution_date", not_before |-> a, not_after |-> b]
Ref(h) == [type |-> "payment.reference", conditional_transaction_id |-> h]
Items(s) == [type |-> "checkout.line_items", items |-> s]
Want(id, ok, n) == [id |-> id, acceptable |-> ok, quantity |-> n]
W(days, from, to, zone) == [days |-> days, start |-> from, end |-> to, timezone |-> zone]

NoPresets == [x \in {} |-> None]

\* Extra constraints of the authority family.  The windows: an evening and
\* the morning after that touch, one that runs over midnight (and over the end
\* of the week), a whole day, and one in the other zone.
AuthorityExtras ==
    {ListOf("aap.resources", {"inv"}), ListOf("aap.resources", {"inv", "acc"}),
     Amount(1, "EUR"), Amount(2, "EUR"), Amount(2, "USD"),
     Parties(None, {"x"}), Parties({"x"}, None), Parties({"x", "y"}, None), Parties({"y"}, {"x"}),
     ListOf("aap.data_categories", {"health"}), ListOf("aap.data_categories", {"health", "tax"}),
     Windows({W({4}, 2, 4, "utc"), W({5}, 0, 2, "utc")}), Windows({W({4}, 3, 1, "utc")}),
     Windows({W({6}, 2, 1, "utc")}), Windows({W({0, 6}, 0, 4, "utc")}),
     Windows({W({6}, 1, 4, "utc"), W({0}, 0, 2, "utc"), W({6}, 2, 3, "utc")}),
     Windows({W({4}, 3, 1, "east"), W({5}, 1, 3, "utc"), W({5}, 0, 1, "utc")})}

PaymentExtras ==
    {PayRange(None, 2), PayRange(1, 2), PayRange(1, 1), ListOf("payment.allowed_payees", {"m1"}),
     ListOf("payment.allowed_payees", {"m1", "m2"}),
     ListOf("payment.allowed_payment_instruments", {"i1"}),
     ListOf("payment.allowed_pisps", {"p1"}), ListOf("payment.allowed_pisps", {"p1", "p2"}),
     Dates(2, None), Dates(None, 7), Dates(2, 7), Dates(0, 7), Ref("h1"), Ref("h2")}

CheckoutExtras ==
    {ListOf("checkout.allowed_merchants", {"m1"}), ListOf("checkout.allowed_merchants", {"m1", "m2"}),
     Items(<<Want("r1", {"a", "b"}, 1), Want("r2", {"a"}, 1)>>),
     Items(<<Want("r1", {"a", "b"}, 2), Want("r2", {"b", "c"}, 1)>>),
     Items(<<Want("r1", {"a", "b", "c"}, 1), Want("r2", {"a"}, 1), Want("r3", {"a", "b"}, 1)>>)}

Draft(fam, cs, presets) == open_mandate(fam, cs, presets, "k")

\* Every depth, given by one delegation constraint, by none, or by two.
Depths == {<<>>, <<Depth(1)>>, <<Depth(3)>>, <<Depth(3), Depth(2)>>}

AuthorityMandates ==
    {Draft("authority", <<Actions(a)>> \o <<x>> \o d, p) :
        a \in {{"pay"}, {"pay", "read"}}, x \in AuthorityExtras, d \in Depths, p \in {NoPresets}}
    \cup {Draft("authority", <<Actions({"pay"})>> \o d, p) :
        d \in Depths, p \in {NoPresets, [resource |-> "inv"], [resource |-> "inv", action |-> "pay"]}}

PaymentMandates ==
    {Draft("payment", <<x>> \o d, NoPresets) : x \in PaymentExtras, d \in Depths}
    \cup {Draft("payment", <<x, y>>, NoPresets) :
            x \in {PayRange(None, 2), PayRange(1, 2)}, y \in {Dates(2, 7), Ref("h1")}}
    \cup {Draft("payment", <<PayRange(None, 2), Budget(b), Recurs(f, n)>> \o d,
                [payee |-> [id |-> "m1", name |-> "M"]]) :
            b \in {2, 3}, f \in {"DAILY", "MONTHLY"}, n \in {None, 1, 2}, d \in {<<>>, <<Depth(1)>>}}

CheckoutMandates ==
    {Draft("checkout", <<x>> \o d, NoPresets) : x \in CheckoutExtras, d \in Depths}

\* Drafts the parser turns away: another family's constraint, no actions, a
\* recurrence without a budget.
BadDrafts ==
    {Draft("authority", <<Actions({"pay"}), Ref("h1")>>, NoPresets),
     Draft("authority", <<Amount(1, "EUR")>>, NoPresets),
     Draft("payment", <<Recurs("DAILY", None), PayRange(1, 2)>>, NoPresets)}

MCMandates == AuthorityMandates \cup PaymentMandates \cup CheckoutMandates \cup BadDrafts

Eur(n) == [minor |-> n, currency |-> "EUR"]

MCClosed ==
    {[family |-> "authority", claims |-> c] :
        c \in {[action |-> "pay"], [action |-> "read"],
               [action |-> "pay", resource |-> "inv"], [action |-> "pay", resource |-> "acc"],
               [action |-> "pay", amount |-> Eur(1)], [action |-> "pay", amount |-> Eur(2)],
               [action |-> "pay", amount |-> [minor |-> 1, currency |-> "USD"]],
               [action |-> "pay", counterparty |-> "x"], [action |-> "pay", counterparty |-> "y"],
               [action |-> "pay", data_categories |-> {"health"}],
               [action |-> "pay", data_categories |-> {"health", "tax"}]}}
    \cup {[family |-> "checkout", claims |-> [checkout_hash |-> "h1"]]}
    \cup {[family |-> "payment", claims |-> c @@
            [transaction_id |-> "t", payee |-> [id |-> i, name |-> "M"],
             payment_amount |-> Eur(n), payment_instrument |-> [id |-> "i1", kind |-> "card"]]] :
        c \in {[x \in {} |-> None], [execution_date |-> "noon1"], [execution_date |-> "day2"],
               [execution_date |-> "never"], [pisp |-> "p1"], [pisp |-> "p2"]},
        i \in {"m1", "m2"}, n \in {0, 1, 2}}

Carts == {None, <<>>, <<<<"a", 1>>, <<"b", 1>>>>, <<<<"b", 2>>>>, <<<<"a", 1>>, <<"b", 2>>>>,
          <<<<"c", 1>>, <<"a", 2>>>>, <<<<"a", 1>>, <<"b", 1>>, <<"c", 1>>>>,
          <<<<"b", 2>>, <<"a", 1>>>>, <<<<"a", 2>>>>, <<<<"d", 1>>>>}

\* Clocks through the end of the week, with no ledger, one out of reach and
\* one with a use on record; then the checkouts.
MCEnvs ==
    {[now |-> t, ledger |-> l, checkout |-> None, open_checkout_hash |-> h] :
        t \in {-1, 0, 2, 4, 18, 19, 20, 21, 22, 26, 27},
        l \in {[k \in {"k"} |-> [total_minor |-> 1, uses |-> 1, last_use |-> 0]]},
        h \in {"h1"}}
    \cup {[now |-> 28, ledger |-> l, checkout |-> None, open_checkout_hash |-> h] :
        l \in {None, [k \in {"k"} |-> None],
               [k \in {"k"} |-> [total_minor |-> 0, uses |-> 0, last_use |-> None]]},
        h \in {None, "h2"}}
    \cup {[now |-> 5, ledger |-> None, open_checkout_hash |-> None,
           checkout |-> [merchant |-> m, line_items |-> c]] :
        m \in {None, "m1", "m2"}, c \in Carts \ {None}}
=============================================================================
