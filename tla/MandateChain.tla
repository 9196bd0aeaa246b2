---------------------------- MODULE MandateChain ----------------------------
(***************************************************************************)
(* Sub-delegation of open mandates seen from the issuer's side: chains     *)
(* grown by one mandate at a time, each signed only after `narrows` said   *)
(* yes (crates/authority/src/evaluate.rs).  The verifier evaluates every   *)
(* link anyway; what `narrows` promises is that a chain it let through is  *)
(* not refused later on account of a link above the leaf.                  *)
(***************************************************************************)
EXTENDS Mandate

CONSTANTS
    Mandates,   \* the open mandates agents and users draft
    Closed,     \* the closed mandates agents present
    Envs,       \* the clocks, checkouts and ledgers verifiers evaluate under
    MaxLinks    \* bound on the length of a chain

\* A chain cannot outgrow the largest depth a mandate can name.
ASSUME MaxLinksAssumption == MaxLinks \in 1 .. U32Max + 1

is_list(l) == Len(l) \in Nat /\ DOMAIN l = 1 .. Len(l)

\* Amounts are unsigned integers (amount.rs); chrono's dates are instants and
\* its local times are minutes of a week; every item of a checkout has a
\* quantity (mandate.rs, Checkout::parse).
closed_ok(m) ==
    /\ get(m.claims, "amount") # None => m.claims.amount.minor \in Nat
    /\ m.family = "payment" => m.claims.payment_amount.minor \in Nat
    /\ get(m.claims, "execution_date") # None =>
            LET range == instant_range(m.claims.execution_date) IN
            range # None => range[1] \in Int /\ range[2] \in Int

env_ok(e) ==
    /\ e.now \in Int
    /\ \A z \in Zones : local_minute(z, e.now) # None => local_minute(z, e.now) \in Nat
    /\ e.checkout # None =>
            /\ is_list(e.checkout.line_items)
            /\ \A j \in DOMAIN e.checkout.line_items : e.checkout.line_items[j][2] \in Nat \ {0}

\* Constraints are lists, and so are the line items of one.
ASSUME MandatesAssumption ==
    \A m \in Mandates :
        /\ is_list(m.constraints)
        /\ \A i \in DOMAIN m.constraints :
                m.constraints[i].type = "checkout.line_items" => is_list(m.constraints[i].items)

ASSUME InputsAssumption == (\A m \in Closed : closed_ok(m)) /\ (\A e \in Envs : env_ok(e))

VARIABLE chain  \* the open mandates, root first

chain_vars == <<chain>>

drafted(m) == m.max_depth = max_depth(m.constraints)
                /\ ~ parse_error(m.family, m.constraints)

ChainInit == \E m \in Mandates : drafted(m) /\ chain = <<m>>

\* The holder of the last mandate drafts a child and signs it if it narrows.
SubDelegate(child) ==
    /\ Len(chain) < MaxLinks
    /\ drafted(child)
    /\ narrows(chain[Len(chain)], child)
    /\ chain' = Append(chain, child)

ChainNext == \E child \in Mandates : SubDelegate(child)

ChainSpec == ChainInit /\ [][ChainNext]_chain_vars

-----------------------------------------------------------------------------
ChainType == chain \in Seq(Mandates) /\ Len(chain) \in 1 .. MaxLinks

\* evaluate.rs on `narrows`: "everything `child` accepts, `parent` accepts
\* (for stateless constraints ...)", along the whole chain: what the leaf
\* accepts no link above it refuses, budgets and recurrences aside.
LeafWithinEveryLink ==
    \A m \in Closed, e \in Envs :
        accepts(chain[Len(chain)], m, e) = "ok" =>
            \A i \in 1 .. Len(chain) : accepts_stateless(chain[i], m, e)

\* "... and that `parent` permits one more level of delegation": every link
\* allows at least the links that follow it (the verifier's V3 check), also
\* where the depth saturates.
DepthAllowsChain ==
    \A i \in 1 .. Len(chain) : Len(chain) - i <= chain[i].max_depth

\* time_window.rs: "child window inside parent window" means exactly "every
\* instant the child accepts, the parent accepts" for windows in the same
\* zone.  The merge loop of covered_by decides the inclusion of the minutes.
minutes(windows) == {m \in 0 .. WEEK - 1 :
    \E w \in windows : \E iv \in intervals(w) : iv[1] <= m /\ m < iv[2]}

CoverageIsExact ==
    \A i, j \in 1 .. Len(chain) :
        \A p \in DOMAIN chain[i].constraints, c \in DOMAIN chain[j].constraints :
            LET pc == chain[i].constraints[p]
                cc == chain[j].constraints[c]
            IN  pc.type = "aap.time_windows" /\ cc.type = "aap.time_windows" =>
                    \A w \in cc.windows :
                        covered_by(w, pc.windows) <=>
                            minutes({w}) \subseteq
                                minutes({q \in pc.windows : q.timezone = w.timezone})

\* ap2.rs on line_items: "Met iff the flow equals both totals".  The flow the
\* loop finds decides whether the cart can be handed out to the required
\* line items, every unit exactly once; a cart too large to try is refused.
FlowFindsAssignment ==
    \A i \in 1 .. Len(chain) : \A c \in DOMAIN chain[i].constraints :
        chain[i].constraints[c].type = "checkout.line_items" =>
            \A e \in Envs : e.checkout # None =>
                LET items == chain[i].constraints[c].items
                    cart == e.checkout.line_items
                    answer == checkout_line_items(chain[i].constraints[c], e.checkout)
                IN  IF Len(items) + Len(cart) > MAX_LINE_ITEM_NODES THEN answer # "ok"
                    ELSE answer = "ok" <=> cart # <<>> /\ assignable(items, cart)

=============================================================================
