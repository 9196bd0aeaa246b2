---------------------------- MODULE MCScopeChain ----------------------------
(***************************************************************************)
(* Small scopes and requests for ScopeChain.  The families vary the fields *)
(* that `matches` and `narrows` treat together; a chain may mix them.      *)
(***************************************************************************)
EXTENDS ScopeChain

Amt(v, c) == [value |-> v, currency |-> c]

\* An unrestricted scope over one action.
Base == [actions |-> {"pay"}, resources |-> None, max_amount |-> None,
         allow |-> None, deny |-> None, data_categories |-> None,
         time_windows |-> None]

W(days, from, to) == [timezone |-> "utc", days |-> days, start |-> from, end |-> to]

\* Actions, resources and money; one ceiling is negative, one in another
\* currency.
MoneyScopes ==
    {[Base EXCEPT !.actions = a, !.resources = r, !.max_amount = m] :
        a \in {{"pay"}, {"pay", "read"}},
        r \in {None, {"inv"}},
        m \in {None, Amt(1, "EUR"), Amt(2, "EUR"), Amt(-1, "EUR"), Amt(2, "USD")}}

\* Counterparties and data categories.
PartyScopes ==
    {[Base EXCEPT !.allow = al, !.deny = de, !.data_categories = dc] :
        al \in {None, {"x"}, {"x", "y"}},
        de \in {None, {"x"}, {}},
        dc \in {None, {}, {"health"}}}

\* Time windows: in the day, to the end of it and beyond, unparseable, and in an
\* unknown zone.
Windows == {W({0}, <<9, 0>>, <<10, 0>>), W({0, 1}, <<8, 0>>, <<10, 30>>),
            W({0}, <<9, 30>>, <<9, 59>>), W({0}, <<9, 30>>, <<24, 0>>),
            W({0}, <<9, 0>>, <<30, 59>>), W({0, 1}, <<None, 0>>, <<10, 0>>),
            W({1}, <<9, 0>>, <<10, 0, 0>>),
            [W({0}, <<9, 0>>, <<10, 0>>) EXCEPT !.timezone = "nowhere"]}

\* Minutes parse_hm accepts although no hour has them, and an hour that wraps.
LooseWindows == {W({0}, <<9, 0>>, <<10, 0>>), W({0}, <<9, 0>>, <<9, 120>>),
                 W({0}, <<8, 90>>, <<9, 30>>), W({0}, <<9, 0>>, <<68, 30>>)}

WindowScopes(ws) ==
    {[Base EXCEPT !.time_windows = tw] :
        tw \in {None, {}} \cup {{w} : w \in ws} \cup {ws}}

MCScopes == MoneyScopes \cup PartyScopes \cup WindowScopes(Windows)
                        \cup WindowScopes(LooseWindows)
MCMoneyScopes == MoneyScopes

Ask == [action |-> "pay", resource |-> None, amount |-> None,
        counterparty |-> None, data_categories |-> None]

MCRequests ==
    {[Ask EXCEPT !.action = a, !.resource = r, !.amount = m] :
        a \in {"pay", "read"}, r \in {None, "inv"},
        m \in {None, Amt(1, "EUR"), Amt(2, "EUR"), Amt(-1, "EUR"), Amt(1, "USD")}}
    \cup {[Ask EXCEPT !.counterparty = c, !.data_categories = d] :
        c \in {None, "x", "y"}, d \in {None, {"health"}}}

\* Instants are minutes of local time in the one zone: on and beside the
\* ends of the windows, on both days.
MCInstants == {539, 540, 570, 599, 600, 601, 659, 660, 661, 1440 + 600, 1440 + 480}

MCLocalMinute(zone, t) == t
=============================================================================
