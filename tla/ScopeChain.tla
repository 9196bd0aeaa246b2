----------------------------- MODULE ScopeChain -----------------------------
(***************************************************************************)
(* Sub-delegation seen through its scopes: the scopes of the chains that   *)
(* the verifier's chain integrity loop lets through, grown from the root   *)
(* by one sub-delegation at a time.  The verifier then asks only whether   *)
(* the LAST scope matches the request, so the chain is sound exactly when  *)
(* no scope on it authorises what an earlier one denies.                   *)
(***************************************************************************)
EXTENDS Scope

CONSTANTS
    Scopes,     \* the scopes delegations are issued with
    Requests,   \* the requests agents make
    MaxLinks    \* bound on the length of a chain (nothing in the code bounds it)

ASSUME MaxLinksAssumption == MaxLinks \in Nat \ {0}

ASSUME AmountsAssumption ==
    (\A s \in Scopes : ScopeAmounts(s)) /\ (\A r \in Requests : RequestAmounts(r))

VARIABLE chain  \* the scopes, root first

chain_vars == <<chain>>

ChainInit == \E s \in Scopes : chain = <<s>>

\* An agent sub-delegates; the verifier accepts the link if it narrows.
SubDelegate(child) ==
    /\ Len(chain) < MaxLinks
    /\ narrows(chain[Len(chain)], child)
    /\ chain' = Append(chain, child)

ChainNext == \E child \in Scopes : SubDelegate(child)

ChainSpec == ChainInit /\ [][ChainNext]_chain_vars

-----------------------------------------------------------------------------
\* The chain is a non-empty sequence of issued scopes.
ChainType == chain \in Seq(Scopes) /\ Len(chain) \in 1 .. MaxLinks

\* The hypotheses scope.rs leaves to whoever issues the delegations.
Disciplined ==
    /\ \A i \in 1 .. Len(chain) : clock_texts_ordered(chain[i])
    /\ \A i \in 1 .. Len(chain) - 1 : money_kept(chain[i], chain[i + 1])

\* What the leaf authorises, every link above it authorises too.
LeafWithinEveryLink ==
    \A r \in Requests, t \in Instants :
        matches(chain[Len(chain)], r, t) =>
            \A i \in 1 .. Len(chain) : matches(chain[i], r, t)

\* Narrowing is sound along a whole chain (the verifier checks adjacent
\* pairs only, and matches the leaf only), as long as no link introduces an
\* amount ceiling and no minute of a clock text exceeds 59.
NarrowingSound == Disciplined => LeafWithinEveryLink

\* spec/scope-matching.md: "A child scope is valid only if it cannot
\* authorize anything the parent didn't", with no further hypothesis.
NarrowingNeverEscalates == LeafWithinEveryLink
=============================================================================
