----------------------------- MODULE LineItems ------------------------------
(***************************************************************************)
(* checkout.line_items of the v1 protocol (crates/authority/src/           *)
(* constraint/ap2.rs, line_items and max_flow): may the cart be handed out *)
(* to the required line items, every unit used exactly once?  The code     *)
(* answers with Edmonds-Karp on a dense capacity matrix; the loops are     *)
(* recursive functions of the number of iterations done.                   *)
(*                                                                         *)
(* A requirement is [id, acceptable, quantity] and a cart entry            *)
(* <<sku, quantity>>, one entry per distinct item; both lists are          *)
(* sequences.  Nodes: 0 the source, 1 .. r the requirements, r+1 .. r+s    *)
(* the items, n-1 the sink.                                                *)
(***************************************************************************)
EXTENDS Integers, Sequences, FiniteSetsExt, SequencesExt

CONSTANT MAX_LINE_ITEM_NODES   \* 512 in the code

-----------------------------------------------------------------------------
\* An unreached v with residual capacity is reached from u and queued.
reach(cap, st, u, v) ==
    IF v \in DOMAIN st.parent \/ cap[<<u, v>>] = 0 THEN st
    ELSE [queue |-> Append(st.queue, v),
          parent |-> [w \in DOMAIN st.parent \cup {v} |->
                        IF w = v THEN u ELSE st.parent[w]]]

\* One turn of the loop: the head of the queue, then every v in order.
visit(cap, st, n) ==
    LET row[k \in 0 .. n] ==
            IF k = 0 THEN [queue |-> Tail(st.queue), parent |-> st.parent]
            ELSE reach(cap, row[k - 1], Head(st.queue), k - 1)
    IN  row[n]

\* Breadth first from the source; every node is queued at most once.
search(cap, n) ==
    LET st[k \in 0 .. n] ==
            IF k = 0 THEN [queue |-> <<0>>, parent |-> [v \in {0} |-> 0]]
            ELSE LET before == st[k - 1] IN
                 IF before.queue = <<>> THEN before ELSE visit(cap, before, n)
    IN  st[n].parent

\* The edges from the source to the sink along the parents.
path(parent, n) ==
    LET at[k \in 0 .. n] == IF k = 0 THEN n - 1 ELSE parent[at[k - 1]]
    IN  {<<parent[v], v>> : v \in {at[k] : k \in 0 .. n} \ {0}}

\* Mutant: flow once sent is never sent back.
augment_NoReverse(cap, edges, bottleneck) ==
    [e \in DOMAIN cap |-> IF e \in edges THEN cap[e] - bottleneck ELSE cap[e]]

augment(cap, edges, bottleneck) ==
    [e \in DOMAIN cap |->
        IF e \in edges THEN cap[e] - bottleneck
        ELSE IF <<e[2], e[1]>> \in edges THEN cap[e] + bottleneck
        ELSE cap[e]]

\* One turn of the outer loop; without a path to the sink it has returned.
flow_step(flow, n) ==
    LET parent == search(flow.cap, n) IN
    IF n - 1 \notin DOMAIN parent THEN flow
    ELSE LET edges == path(parent, n)
             bottleneck == Min({flow.cap[e] : e \in edges})
         IN  [cap |-> augment(flow.cap, edges, bottleneck),
              total |-> flow.total + bottleneck]

\* Every turn adds at least one to the total, which the edges out of the
\* source bound: after `turns` of them, their capacity, the loop has ended.
max_flow(cap, n, turns) ==
    LET flow[k \in 0 .. turns] ==
            IF k = 0 THEN [cap |-> cap, total |-> 0] ELSE flow_step(flow[k - 1], n)
    IN  flow[turns].total

-----------------------------------------------------------------------------
total(q, m) ==
    LET upto[k \in 0 .. m] == IF k = 0 THEN 0 ELSE upto[k - 1] + q[k]
    IN  upto[m]

sum(quantities) == total(quantities, Len(quantities))

capacities(requirements, cart, present) ==
    LET r == Len(requirements)
        s == Len(cart)
    IN  [e \in (0 .. r + s + 1) \X (0 .. r + s + 1) |->
            IF e[1] = 0 /\ e[2] \in 1 .. r THEN requirements[e[2]].quantity
            ELSE IF /\ e[1] \in 1 .. r /\ e[2] \in r + 1 .. r + s
                    /\ cart[e[2] - r][1] \in requirements[e[1]].acceptable
                 THEN present
            ELSE IF e[1] \in r + 1 .. r + s /\ e[2] = r + s + 1 THEN cart[e[1] - r][2]
            ELSE 0]

line_items(requirements, cart) ==
    LET wanted == sum([i \in DOMAIN requirements |-> requirements[i].quantity])
        present == sum([j \in DOMAIN cart |-> cart[j][2]])
        nodes == Len(requirements) + Len(cart)
    IN  IF \/ cart = <<>>
           \/ \E j \in DOMAIN cart : \A i \in DOMAIN requirements :
                   cart[j][1] \notin requirements[i].acceptable
        THEN "violated"
        ELSE IF nodes > MAX_LINE_ITEM_NODES THEN "unresolved"
        ELSE IF wanted # present THEN "violated"
        ELSE IF max_flow(capacities(requirements, cart, present), nodes + 2, wanted) = wanted
        THEN "ok" ELSE "violated"

-----------------------------------------------------------------------------
\* What the rule promises, without the flow: an assignment of requirements
\* to items that uses up both sides exactly.
assignable(requirements, cart) ==
    \E f \in [(DOMAIN requirements) \X (DOMAIN cart) -> 0 .. sum([j \in DOMAIN cart |-> cart[j][2]])] :
        /\ \A i \in DOMAIN requirements, j \in DOMAIN cart :
                f[<<i, j>>] > 0 => cart[j][1] \in requirements[i].acceptable
        /\ \A i \in DOMAIN requirements :
                sum([j \in DOMAIN cart |-> f[<<i, j>>]]) = requirements[i].quantity
        /\ \A j \in DOMAIN cart :
                sum([i \in DOMAIN requirements |-> f[<<i, j>>]]) = cart[j][2]

=============================================================================
