# A TLA+ model of the Agent Authority Protocol

The repository implements a protocol by which a principal (a person or an
organisation) delegates limited authority to software agents, and by which a
relying party verifies that a request an agent makes is covered by that
authority. This directory holds TLA+ modules translated from its Rust source,
TLC configurations that check them on small instances, and TLAPS proofs of the
results that matter most for instances of any size.

## 1. The system

| Component | State it keeps | Operations | Talks to |
|---|---|---|---|
| `core` scope matching (`scope.rs`) | none | `matches`, `narrows` | called by the verifier |
| `core` verifier (`verifier.rs`, `nonce.rs`, `status.rs`) | revoked set, set of (agent, nonce) pairs, both behind `RwLock`s | `verify`, `revoke`, `seen_and_record` | resolver, stores, receipt signer |
| `verifier-service` (`main.rs`, `db.rs`) | Postgres: `aap_delegations`, `aap_nonces`, `aap_receipts` | `POST /verify`, `POST /verify-delegation-signature`, pruning task | Postgres, the core verifier, a surrounding web application that pairs and revokes |
| `issuer-service` enrollment (`service.rs`, `appattest.rs`) | Postgres: `enrollment_challenges`, `users`, `devices`, `audit_events` | create challenge, enroll, purge | Postgres, iOS App Attest |
| `issuer-service` assertions (`service.rs`) | `devices.counter`, `last_payload_digest`, `status`, `audit_events` | verify assertion | Postgres |
| `issuer-service` rate limiter (`ratelimit.rs`, `http.rs`) | per route, a map from client to the start and count of its window, behind a mutex | `check`, the sweep of a full map | HTTP middleware, reverse proxy |
| `issuer-service` configuration, migrations | schema | read, migrate | Postgres |
| `authority` (v1): mandates, constraints, verifier | in-memory nonces, usage ledger | `check`, `authorize`, `accepts`, `narrows` | `sdjwt` |
| `sdjwt` | the presentation, handed from holder to holder as a text | `sign`, `select`, `delegate`, `bind`, `serialize`, `parse`, `verify` | - |
| `admin-cli` | an encrypted key file, a file per signed and not yet submitted delegation | `key init`, `pairing sign`, `pairing finalize` | terminal, files, the server of the surrounding application |
| `demo-cli`, `wasm-demo`, `demo-web` | - | demonstrations | - |

What is hard about each of them, and hardly reached by a unit test:

* **Scope matching.** The verifier matches a request against the *leaf* scope
  and compares *adjacent* scopes. Every field is treated by two functions that
  were written separately; a field on which they disagree lets a leaf escape a
  limit further up. Correct: what the leaf authorises, every link authorises.
* **Core verifier.** Threads share the stores. A revocation may land while
  another thread walks the chain, and two threads may carry the same nonce.
  Correct: nothing accepted outside any link, nothing accepted twice, nobody
  can use up the nonces of another agent.
* **Verifier service.** The decision needs the database but is synchronous, so
  the handler reads everything first: key, status rows (one await each), nonce.
  The nonce is inserted before any signature is checked and pruned by a timer.
  A handler can be lost at each await. Correct: no replay across handlers,
  crashes and pruning; an accepted answer has its receipt.
* **Assertions.** Two conditional `UPDATE`s and a `SELECT` in a READ COMMITTED
  transaction decide between *verified*, *conflict* and *replay*. Correct: the
  counter behaves like an atomic register and the audit log tells its history.
* **Enrollment.** A challenge is consumed in one statement, the user and the
  device are inserted in a later transaction, concurrent enrollments of a key
  meet in a unique index, and expired challenges are deleted by a timer.
  Correct: one attempt per challenge, one device per key, all rows or none.
* **v1.** Freshness and nonce retention meet at one instant; budgets are read
  when a mandate is evaluated and recorded by the caller afterwards; line items
  are matched by a maximum flow; `narrows` and `evaluate` must agree.

* **Rate limiter.** The clock is read before the mutex is taken, so instants
  arrive out of order; a full map is swept, and fails closed if nothing can be
  dropped. Correct: nobody is let in more than twice its limit in a window, and
  nobody is turned away without cause.
* **SD-JWT.** Each holder may hide more, delegate or bind. A hash over an
  element fixes its disclosures or leaves them free; items of an array move when
  others are hidden; disclosures nest. Correct: a reader sees exactly the part
  that was kept, and the verifier accepts exactly what nobody changed behind a
  signature.
* **Admin CLI.** Commands in several terminals share files that are written in
  place, prompt for a long time between reading and acting, and talk to a server
  whose answers get lost. Correct: a registered key is in the file, whatever is
  signed was confirmed, a signed delegation is kept until the server has it.

`PROJECT.json` lists every hazard with its line and the properties that guard
against it.

## 2. Modules

| Module | Models | Depends on |
|---|---|---|
| `Scope` | `matches`, `narrows` and their helpers as operators | |
| `ScopeChain` | growth of a chain of scopes by narrowing sub-delegations | `Scope` |
| `CoreVerifier` | `verify_inner` as operators, one per loop body, with the outcome of every early return, and the receipt | `Scope` |
| `VerifierCalls` | concurrent calls of `Verifier::verify` over the in-memory stores | `CoreVerifier` |
| `VerifierCallsProofs` | replay, revocation and authority of every link in concurrent calls; soundness of `narrows`, chains of scopes of any length | `VerifierCalls`, `ScopeChain` |
| `ReplayGuard` | abstract: a message is granted at most once, while fresh | |
| `VerifierService` | `POST /verify` await by await, pruning, pairing, revocation, lost handlers | `CoreVerifier`, `ReplayGuard` |
| `VerifierServiceProofs` | what `ok` means, replay safety, status reads, receipts, and the refinement | `VerifierService` |
| `DeviceRegister` | abstract: a device's counter as an atomic register | |
| `AssertionService` | `verify_assertion` statement by statement | `DeviceRegister` |
| `AssertionServiceProofs` | audit, flagging, replays, and the refinement | `AssertionService` |
| `EnrollmentService` | `create_challenge`, `enroll`, the purge | |
| `EnrollmentServiceProofs` | tables, challenges and answers of enrollment | `EnrollmentService` |
| `TimeWindow` | v1 `aap.time_windows`: `contains`, and `covered_by` with its sort-and-merge loop | |
| `LineItems` | AP2 line items: the Edmonds-Karp loop, and assignment as its reference definition | |
| `Mandate` | v1 open mandates: evaluation and comparison of every constraint type, `accepts`, `evaluate_chain`, `narrows` | `TimeWindow`, `LineItems` |
| `MandateChain` | growth of a chain of mandates by sub-delegations that narrow | `Mandate` |
| `MandateProofs` | exactness of the interval merge and of the flow over line items, soundness of `narrows` and of chains of any length; replay, revocation, linkage and budgets in concurrent v1 calls | `MandateChain`, `MandateCalls` |
| `SdJwtChain` | `sdjwt` verification of a root and its links, as operators that answer the first error | |
| `MandateDecision` | what v1 `check` and `authorize` decide short of the stores: parsing, bindings, depths | `Mandate`, `SdJwtChain` |
| `MandateCalls` | concurrent calls of the v1 verifier over status list, nonce store and ledger | `MandateDecision` |
| `ClaimTrees` | trees of values, paths, disclosures and digests, and the order of concealments | |
| `SelectiveDisclosure` | concealment, decoys, the walk that puts disclosures back, the holder's selection, on trees of values; the part of a tree that is left, as a reference | `ClaimTrees` |
| `SdJwtHolder` | a presentation on its way from the issuer through several holders to the verifier, and its text; what is done with claim sets is a parameter | `SdJwtChain`, `ClaimTrees` |
| `SdJwtSelection` | the same with the disclosures of the code | `SdJwtHolder`, `SelectiveDisclosure` |
| `SdJwtHolderProofs` | what signatures protect, and that a text has one reading | `SdJwtHolder` |
| `RateLimiter` | `check_at` and the middleware that asks it | |
| `RateLimiterProofs` | twice the limit, and no refusal without cause, for any number of clients and threads | `RateLimiter` |
| `AdminCli` | the three commands that change something, in several terminals | |
| `AdminCliProofs` | the key, the approvals and the saved delegations of the admin CLI | `AdminCli` |
| `MC*` | instances for TLC | |

### How state and actions correspond to the code

*Data.* Tokens are records of the claims the verifier reads. A signature is the
key it verifies under (`signed_by`), a token that does not deserialise has
`parses = FALSE`, an `Option` is a value or `None`, and a `Vec` that is only
searched is a set. A clock text is the sequence of its `:`-separated fields,
each a number or `None`, since the properties turn on what `parse_hm` lets
through. Time is an integer clock; `LocalMinute` stands for `chrono_tz`.

*Core verifier.* `link_failure`, `integrity_failure`, `message_failure` and
`final_failure` are the bodies of `verify_inner` in the order of its early
returns. `VerifierCalls` runs them one loop iteration per action, because each
iteration takes a store's lock anew; `verify_inner` as a whole is used by the
service, where the stores are private to the handler.

*Verifier service.* The handler's program counter is the await it is at. What
follows an await up to the next one is one action. `Lose` covers a database
error, a client that hangs up (axum drops the future) and a crash: the
statement in flight has been executed or not. `granted` counts acceptances for
the properties, and `receipts` is the sequence of the rows as they were inserted.
`Pair` and `Revoke` stand for the surrounding application, which
is not in the repository; `Pair` is guarded by `delegation_signature_valid`,
the model of `/verify-delegation-signature`.

*Assertions and READ COMMITTED.* Each SQL statement is one action. An `UPDATE`
evaluates its `WHERE` on the rows committed when it runs; if it matches a row
another transaction holds, it waits, and evaluates the `WHERE` again on the
version it is then given. In the model a matching `UPDATE` is enabled only when
the row is free, and evaluates the `WHERE` at that moment, which is the same.
If the `WHERE` does not match it updates nothing and does not wait. The new row
version is written at commit; until then it is the transaction's `event`, and
`HoldsRow` is the lock. A transaction writes one row, so no cycle of waits can
form. A handler lost during `COMMIT` has committed or not.

*Enrollment.* Likewise; a device insert waits while another transaction holds a
row with the same key (`contended`), fails once it is committed (`taken`) and
goes ahead if that transaction rolled back. A request is described by what its
proofs are bound to, and can only be made after its challenge exists.

*v1 mandates.* A constraint is a record with its `type` and that type's members,
an open mandate the record `OpenMandate::parse` builds. Each constraint has its
own `evaluate` operator, which answers `ok`, `violated` or `unresolved`, and
`covers` is the comparison `narrows` makes. Loops of the code (the interval
merge, the breadth-first search, the augmenting paths) are recursive functions
of the number of iterations done. The calendar (`chrono`, `chrono_tz`) enters
as the constants `local_minute`, `instant_range` and `add_months`.

*v1 verifier.* A request is a presentation with the policy, the stores and the
transaction it is verified under. A signature is again the key it verifies
under, a digest the pair of algorithm and input, and `made_over` a ghost that
says which element the signer of a link had before it. `MandateCalls` runs a
call from one access to a store to the next: `Verify` (the whole of `check`, on
the instant the call is given), `CheckStatus` per element, `CheckMandates`,
`EvaluateLink` per open mandate on the ledger of that moment, `CheckNonce` (the
store's mutex makes it one step), `Sign`. `Record` is the caller, which brings
the ledger up to date under `Authorized::ledger_keys`, or fails to. The code reads the ledger anew for each
constraint that counts, `EvaluateLink` once for the link: totals only grow, so a
budget with room at a later read had room at this one, and the model accepts
whatever the code accepts. Of a call
that is turned away only its reason is kept. Revoked and suspended are one
status, since the code rejects both.

*SD-JWT holder.* A value is a tree of objects, arrays and leaves. An object
keeps its `_sd` digests as a set, since the code keeps them sorted. A salt is a
number that never comes back, and a digest is the pair of algorithm and
disclosure, so a digest never matches by accident. `walk` follows the `Walker`;
it collects what is wrong where the code returns the first error, because no
property depends on which one. What `conceal.rs`, `process.rs` and `select` do
with claim sets reaches `SdJwtHolder` through the constants `Build`, `Process`,
`SelectFrom` and their like, so that the proofs about signatures and texts hold
whatever they are; `SdJwtSelection` gives them the operators of
`SelectiveDisclosure`, and the run checks that. `SdJwtHolder` keeps, beside
the presentation, a history of every element: its claims in plain, what was concealed, what is shown
now, and what was shown when a hash over it was signed. `Drop` is a holder with
other software, who leaves out a disclosure. The text of a presentation is the
sequence of its components between the tildes, each a JWT, a disclosure, empty,
or neither (`Odd`, a component with dots that is no JWT). Reserved names
(`_sd`, `...`) are not among the names of the model, so their refusal is left
out; that of `_sd_alg` in a delegate payload is in `SdJwtChain`. `verify` is that of `SdJwtChain`, to which `received` hands the elements as
the code reads them.

*Rate limiter.* `Arrive` is the middleware up to the point where `check` has
read the clock, `Check` what happens under the mutex, in one step. An address
has a family, a prefix and a host, since IPv6 clients are counted by prefix.
The code reads the first line of the header only. `header_lines` is what the
reverse proxy makes of a request: one line of whatever the client wrote, with the
address it saw appended. A request that does not come through the proxy carries
no header if the service is told to read it, since the code would believe it
(`RequestsAssumption`); a service that is not told may get any header. A proxy
that leaves the client's lines apart and adds its own is not one the code works
with, and is not modelled. A thread waits for the mutex at most
`MaxStall < WINDOW`.

*Admin CLI.* Each step is one call to the server, one file operation or one
prompt. A file that is opened for writing is empty (`Partial`) until it is
written. A call to the server fails before or after it took effect. An
encrypted key is the pair of seed and passphrase, and loads only with that
passphrase. `render_amount` rounds to cents, as the code does: two ceilings that
differ by less show the same line on the terminal (10.004 and 10.00), and the
properties speak of the lines that were shown. The server, interruptions,
other machines and the principal who removes a file that cannot be loaded are
external.

## 3. Runs

| Run | Instance | Shows |
|---|---|---|
| `scope_chain` | chains of 3 over 60 scopes, 25 requests, 11 instants | narrowing is sound along a chain, given the two hypotheses below |
| `scope_money` | the money scopes | violation: a child may add a ceiling to a parent without one |
| `verifier_calls` | 2 threads, 2 calls, chains of 0 to 3 links, 34 presentations, 2 instants, 1 revocable link | accepted means within every link; replay, revocation and nonce ownership under interleaving |
| `verifier_service` | 2 handlers; in one scene 3 requests and 6 instants with 2 messages that share a nonce, in the other 2 requests of 7 kinds with pairing and revocation | no replay across races, lost handlers and pruning (`ServiceInv`); refinement of `ReplayGuard`; acceptance rests on current rows; an accepted answer has its receipt, and a message has one |
| `assertion_service` | 2 handlers, 3 requests of 8 kinds, counter zero among them, operator revocation | pending updates are current; audit; flags; refinement of `DeviceRegister`; liveness |
| `enrollment` | 2 handlers, 2 challenges, 7 bodies, clock 0..4 | a challenge is good for one attempt while it lives; unique keys and atomic rows (`TablesInv`); liveness |
| `mandate_chain` | chains of up to 4 over 280 mandates of the three families, days of 4 minutes, depths to 3, carts of up to 3 kinds of items | `narrows` is sound along a chain; depths suffice where they saturate; the interval merge is exact; the flow finds an assignment if there is one |
| `mandate_calls` | 2 threads, 2 calls, 52 requests, clock 0..2, revocation of the credential | a nonce comes back only after it expired, and `CallsInv`; rejected presentations burn no nonce; status fails closed; every mandate on the way accepts, and was handed on by the right key over the right element; budgets are shared, and exceeded by overlapping payments only |
| `mandate_replay` | the same, one request | violation: at `iat + max_age` the nonce is forgotten and the mandate still fresh |
| `rate_limiter` | 2 threads, 2 routes, 5 requests, clients of both families, one with two hosts of a prefix, with and without a forged header; a window of 2 instants, maps of 2 entries | an entry counts what it must (`TablesInv`); at most twice the limit; turned away only for cause |
| `admin_cli` | 2 terminals, 5 commands, 2 keys, 2 passphrases, a request that changes to a larger ceiling or to a scope that does not parse | the key is kept (`AdminInv`); signed means confirmed; saved until accepted |
| `sdjwt_holder` | 3 roots, 3 kinds of links, up to 2 links and 3 selections, delegations or losses, then a KB-JWT; pointers in pairs | a reader sees exactly what was kept; accepted if and only if seals hold and nothing else is wrong, under each key binding policy; the text has one reading |

**Bounds.** Chains of three are the shortest in which a link is neither root nor
leaf. Each presentation of `verifier_calls` differs from an honest one in one
field of one token, so each early return is taken and each check is at some
point the only one that stands. The verifier service is explored in two scenes
(`Scenes`, a constraint on states), each with all interleavings, and not in their
product: the replay scene has no status changes, the status scene two requests
and two instants. In the first the freshness window, skew,
margin and stall are one instant each, and six instants let a message become
fresh, be granted, be pruned and be presented again; a post-dated message is
first refused and later acceptable. Two handlers with three requests let one
request meet the leftovers of an earlier one while another is in flight. In
`enrollment` the clock reaches the instant at which an expired challenge is
purged. In `mandate_chain` a day has four minutes, enough for windows that
touch, nest, run over midnight and over the end of the week; the largest depth
is 3, so that a chain of four reaches the saturating addition; two carts need
an augmenting path that takes flow back, and with at most five nodes one cart is
too large to be tried. In `mandate_calls` six requests are honest, one for each
shape the verifier accepts (short and long chains under a credential, payments
that disclose different alternatives of one mandate, a checkout, a closed
mandate of the user alone), and 46 differ from one of them in one field, so that
each check is the only one that stands in the way; the ones turned away by a later
step than `check`, for reasons the time has no part in, are good for the first
instant only. Freshness window and skew are
one instant each; with three instants a mandate is post-dated, fresh and at the
last instant of its window. Two authorisations are enough for a replay and for
a budget to be overdrawn. In `rate_limiter` the limits are one and two, so that five requests
exceed twice the larger one if they are let in; the clock passes two windows, and
two clients fill the map of one route, so that the next request, whoever it
comes from, finds it full with and without an ended window in it. In `admin_cli` five commands are `key init`
interrupted and repeated, then `pairing sign` repeated and `pairing finalize`.
In `sdjwt_holder` three steps are enough to select an element before and after
it is sealed, with one hash or the other, and to hide an item, its sibling and a
member of it; the roots are hashed with SHA-256 and the links with SHA-512, so
that the wrong algorithm shows. A bounded number of requests, commands or steps
keeps histories finite; deadlock checking is off because a behaviour stops when
that bound is reached.

**Hypotheses of `NarrowingSound`.** `money_kept`: no link introduces an amount
ceiling where its parent has none (the v1 crate checks this, with the comment
"A ceiling in the child where the parent has none would let money through").
`clock_texts_ordered`: in a clock text that parses, minutes are below 60 and the
minutes of the day fit into 32 bits; hours may be of any size, `24:00` and
`30:00` among them. The first cannot
be dropped, as `scope_money` shows. Nor can the second: `parse_hm` bounds neither
field, `narrows` compares `(hour, minute)` and matching compares minutes of the
day, so that a child that ends at `09:120`, which is eleven o'clock, narrows a
parent that ends at `10:00`.

**Other cases a property leaves out, and says so.** `FlaggedOnlyOnConflict`
allows for counter zero: a device that never verified anything has counter 0
and no digest, so an assertion with counter 0 counts as a conflict and flags it.
`KeyIsKept` (in `AdminInv`) covers two terminals that both found no file and are
at their prompts while one of them stores and registers its key: the other looks
again in `generate_and_store`. It leaves out that both are past that last look:
the encryption key is derived between the look and the write (`keystore.rs:54`
and `:87`), so the slower of two commands replaces the other's key, which may be
registered by then; the help text at `main.rs:41` says "never overwrites an
existing key". A write of the key
file that is interrupted leaves a file that `key init` takes for a key and
cannot load; `AdminInv` says that no such file stands for a registered key.
`AtMostTwiceTheLimit` allows for the wait for the mutex.

**Fairness.** `AssertionService` and `EnrollmentService` assume weak fairness of
each handler's next step: the runtime polls every future and Postgres answers or
fails. A handler that waits for a row or an index entry waits for a transaction
that itself takes its next step; Postgres queues waiters, and the requests of a
behaviour are finite, so weak fairness is enough. `ScopeChain`, `VerifierCalls`,
`VerifierService`, `MandateChain`, `MandateCalls`, `RateLimiter`, `AdminCli` and
`SdJwtHolder` claim safety only and assume no fairness.

**Stall.** `VerifierService` assumes that a handler that has inserted a nonce
reaches its decision within `MaxStall <= Margin` (the code adds 60 seconds to
the retention and has no await between the two but the insert's own answer).
Without it the pruning task could forget a nonce under a stalled handler.
`RateLimiter` assumes that a thread waits for the mutex less than a window; the
mutex is held for one lookup or one sweep of the map.

## 4. Findings

1. `scope_money`: `narrows` ignores a child's `max_amount` if the parent has
   none, while a scope without a ceiling denies every amount.
2. `mandate_replay`: the v1 nonce store forgets a nonce at `iat + max_age`, an
   instant at which `check_freshness` still accepts the closed mandate that
   carried it. `ReplayOnlyAfterExpiry` shows that this is the only gap.

Three further disagreements are described above, with the cases the properties
leave out: minutes beyond the hour, counter zero, and a key file that is
overwritten. Two comments promise more than the code keeps, without harm to the properties
checked here: `verifier-service/src/main.rs:128` says that a stale message is
rejected before its nonce is consulted, while the nonce comes first; and
`issuer-service/src/service.rs:2` says that an error means nothing was recorded,
which is not so if the connection fails while `COMMIT` is in flight.

## 5. Proofs

All proofs are checked by TLAPS for arbitrary constants under the named
assumptions of the modules.

* **`VerifierCallsProofs`.** `NarrowsSound` is field by field: each conjunct of
  `narrows` implies one conjunct of `matches`. The time windows need
  `LexOrderIsMinuteOrder`: where minutes are below 60 the lexicographic order of
  `(hour, minute)` is the order of the minutes they add up to. The walk of a call is interleaved with revocations
  and other calls, so what a call accepts has to be carried along: `StoresInv`
  says, for each place in the loops, that the links and pairs before the index
  have passed on what was revoked when the call began. The set of revoked ids
  only grows, which is why passing on today's set is passing on that of the
  start. `NoReplayEver` needs that the nonce of every accepted message is in the
  store, and that check and insert are one step. `EveryLinkAccepts` turns the
  pairwise checks into statements about each link and the root
  (`AlongTheChain`) and the pairwise narrowing into authority of every link
  through `NarrowsSound`. `ChainNarrowingSound` says the same of chains of
  scopes that grow by sub-delegation. Assumed of presentations: a chain is a
  list, timestamps and amounts are numbers.
* **`VerifierServiceProofs`.** `OkMeansEveryCheckPassed`: the loops return the
  first failure (a least index exists), so `ok` means each check passed on each
  link and each adjacent pair. `NoReplay` is not inductive: it says nothing of
  handlers that are about to grant. `ReplayInv` adds that a granted message is
  stale or its nonce row is young enough to outlive its freshness, that a
  handler holding a nonce finds its own row still in the table, and that no two
  handlers hold the same one. Pruning preserves the second because the
  retention covers window, skew and margin, the third because of the stall
  bound. `Refinement` maps `Decide` to `Grant`, all else to stuttering or to the
  passing of time. `AcceptedChainsAreCurrent` follows a handler from its first
  read (`StatusInv`): each link already read is refused by what was read, or has
  a row and was not revoked at the start; `OkMeansEveryCheckPassed` then says
  that no link was refused. `ReceiptsAreTrue` needs, beside replay safety,
  that an accepted receipt belongs to a grant and that one handler at most has
  the receipt of a message still to store (`ReceiptInv`). `ServiceInv` is all of
  these, on the state that is well typed.
* **`AssertionServiceProofs`.** `PendingIsCurrent` says that the row a
  transaction is about to overwrite is still the one its `WHERE` matched and
  that nobody else is writing it; `LogInv` says the audit log tells the rows.
  `StepKinds` shows that every step of the tables is one of: quiet, an
  acceptance, a flag, a revocation; the log lemmas then treat each kind once.
  `OnlyConflictsFlag` and `FlagIsFinal` follow from what the log tells.
  `ReplaysAreHarmless` is about handlers that hold no lock: `RejectionsStand`
  says that what such a handler concluded from an `UPDATE` that matched nothing
  stays true, because counters only grow, a digest changes only with its
  counter, and an inactive device stays inactive.
* **`EnrollmentServiceProofs`.** `StepKinds` reduces the statements of
  concurrent transactions to seven effects. `TablesInv` relates the tables to
  what is in flight: a transaction that goes on after `consume` owns its
  challenge (one attempt was made, and it was this one), one past the insert of
  its device owns its keys (nobody else's is committed or waiting to be), and a
  user id in flight is in no row. With that the commit of a transaction keeps
  keys unique and rows together, `DevicesAreProved` follows from what `consume`
  let through, and `ChallengesAreGoodOnce` from the challenge rows telling what
  was created and attempted: the purge only removes rows long expired. Assumed:
  `None` is none of the values it stands beside, and a body names a challenge.
* **`MandateProofs`, chains.** `CoverageIsExactTheorem`: `covered_by` decides
  the inclusion of minutes, in both directions. The invariant of the merge loop
  (`MergeInv`): what is left lies right of the start of the last interval; every
  minute of the union is in one of the given intervals; the intervals of the
  union are apart from each other, and whatever has been taken in lies within
  one of them. A gap between two intervals of the union is then a minute no
  parent has, so a child interval that is covered lies within one interval of
  the union, which is what the code looks for. Each iteration takes one interval
  away, so the loop is done after as many. The invariant is carried through the
  loop by the least iteration at which it fails (`LeastNatural`), since the
  library's induction rule cannot be instantiated. `CoversSound` goes through
  the constraint types, `NarrowsSound` adds family, pre-set claims and the
  ceiling, and `LeafWithinEveryLinkTheorem` and `DepthAllowsChainTheorem` follow
  by induction along the chain. Assumed of the calendar: local times are natural
  numbers, instants integers.
* **`MandateProofs`, line items.** `FlowFindsAssignmentTheorem` is that the loop
  of `max_flow` is correct, for carts and quantities of any size. Each of its
  loops is followed by an invariant, carried along by `UpTo`, an induction stated
  with a set in place of a predicate. *The search* (`SearchReaches`): the parents are a tree
  over the nodes reached, each of which is waiting in the queue or done with;
  every node is queued once, so after as many turns as there are nodes the queue
  is empty and residual capacity leads out of the tree nowhere. *The path*
  (`PathIs`): the parents lead from the sink to the source over each node once,
  since the way grows shorter. *One turn* (`FlowStep`): the path carries the
  bottleneck from source to sink and loses nothing in between (`PathCarries`),
  so what the capacities have lost is again a flow of the total counted
  (`FlowOK`), a greater one than before. *The end* (`MaxFlowIs`,
  `StuckIsMost`): after `wanted` turns the total is `wanted` or the search is
  stuck, and then the nodes it reached are a cut, over which no flow within the
  capacities takes more (`Cut`). `FlowAssigns` reads an assignment off a flow
  that equals both totals; `AssignmentIsFound` makes a flow of an assignment,
  which a stuck search cannot fall short of. `LineItemsExact` puts both
  directions together with the early returns. Assumed: requirements and cart are
  lists, and a cart's quantities are positive, which `Checkout::parse` sees to;
  those of the requirements are what a constraint that parses has.
* **`MandateProofs`, calls.** `ReplayOnlyAfterExpiry` says nothing of calls that
  have inserted their nonce and not yet returned, so it is not inductive.
  `ReplayInv` adds that whatever was or is about to be authorised has expired or
  has its nonce in the store with an expiry no earlier than its own, and that of
  two holders of a nonce one has expired. A late call prunes by its own, earlier
  instant, hence never too much; a nonce it finds free was never inserted or
  had expired by that instant (`InsertKeepsHeld`). `StepKinds` reduces the steps
  to quiet ones, `CheckNonce` and a successful `Sign`. `RevocationSafe` needs
  `StatusInv`: what a call found withdrawn stays so, and every element it has
  passed is cleared. `AuthorizedByEvery` rests on `Found`: a call has passed the
  SD-JWT checks from its first step, the depths and bindings from the
  evaluation on, and each mandate before its index; what `verify` and
  `check_mandates` answer "ok" for is worked out element by element, and the
  constraints that read no ledger do not depend on when it is read.
  `BudgetsAreSharedTheorem` needs `LedgerInv`: an entry of the ledger is the sum
  of what was paid under its mandate, and what had been recorded when a call
  looked is still there and left room for its payment in each budget it has
  passed; what others record meanwhile comes after it. `CallsInvariant` puts these together. Assumed of
  requests: a claim that is there is of its type or malformed, amounts and
  budgets are unsigned, presentations have finitely many links, and two texts have two
  digests.
* **`SdJwtHolderProofs`.** Both theorems hold for any number of links, any
  sequence of operations and whatever the processing of claim sets does.
  `VerifiesExactlyIfSealsHold` needs to know what each hash was made over, which
  the property does not say. `SealInv`: a link has one hash, over the JWT of the
  element before it and the disclosures recorded as sealed there, or over the
  JWT alone and nothing is sealed; the last element is sealed by the KB-JWT or
  not at all. `verify` is then taken apart element by element
  (`VerifiedElementwise`) and compared with itself on the presentation whose
  hashes were made afresh. Assumed (`NoneIsAbsent`): a hash is not the mark of
  an absent or malformed claim, and a KB-JWT not that of an absent one, as of
  model values. `TextHasOneReading`: `Reads` says, for each state of the scan of
  the components, that what was scanned is the text of what was read; each
  component keeps it or makes the text malformed for good, so that a text that
  is accepted, damaged or not, is the text of what it is read as, and the text
  of what was sent is accepted. It needs that disclosures are lists
  (`ListInv`), and assumes so of what is built for a payload and of what a
  selection keeps (`DisclosuresAreLists`), as the operators of
  `SelectiveDisclosure` do. Both hypotheses range over all arguments, so TLC
  cannot evaluate them.
* **`RateLimiterProofs`.** `AtMostTwiceTheLimit` is about admissions that the
  entry of the moment no longer counts, so it is not inductive. `LimiterInv`
  relates each entry to the history of its client: it counts the last
  admissions, all of its own window, and every earlier one belongs to a window
  that is over; admissions a limit apart are not of one window. The lemmas
  `ToldWhenSwept`, `ToldWhenBegun`, `ToldWhenAsked` and `ToldWhenAdmitted`
  follow an entry through one `Check`; an instant from the past only makes it
  keep more. `TwiceTheLimit` takes two steps of one limit each.
  `TurnedAwayOnlyForCause` needs that a full map without a dead entry names as
  many recent clients (`CrowdedWhenFull`), which uses that distinct addresses
  behind the proxy have the keys of their clients (`CountedAsClient`). Assumed:
  the limits are natural numbers, the wait is shorter than the window, clients
  are finitely many.
* **`AdminCliProofs`.** `CommandsInv` says what a command has read, made or been
  told by the place it has come to (`located`); what was confirmed is never
  taken back, so a request that changes on the server cannot change what is
  signed. `SavedUntilAccepted`, an action property, follows: a file is removed
  only where the server's acceptance was seen. The key is kept (`KeyInv`) as
  long as no two terminals were past the last look at the file at once
  (`overlapped`): at most one terminal is past it and not yet done writing
  (`Storing`), the file is
  as it left it, and a key about to be registered is the one in the file.
  Assumed of names: the files' contents and the two marks for an absent and a
  truncated file are different things.

Model-checked only, with the reason:

* `EveryRequestAnswered`, of enrollment and of assertions: fairness and
  `ENABLED` are beyond the prover.
* `SelectionIsExact` (`SdJwtSelection`): it is about walks over trees of claims,
  which are `RECURSIVE` operators here, and no theorem can reach those.

## 6. Not modelled

Cryptography and encodings (JWS, base64, JSON texts, CBOR, X.509): the models
use what they promise. Configuration, logging, HTTP plumbing and the demos have
no state of their own. The connection pool of the verifier service is not
modelled: a handler takes one connection at a time and returns it before it
asks for another.

Of v1: the codes and the content of receipts, and presentations whose
disclosures nest, which `SdJwtHolder` treats without the mandates they carry.
A fractional `iat` is not modelled; the code truncates it for the store, and
with a clock of whole seconds that moves neither limit. `require_exp` is fixed
as the authority crate sets it. Calls that overlap on
one ledger may together exceed a budget, since recording is the caller's;
`BudgetsAreShared` says that they exceed it by no more than what they pay.
Concealing a reserved name, or one pointer twice, is refused in `conceal.rs`
before there is a presentation; names in the model are never reserved and the
pointers of a concealment are a set.

## 7. Plan

1. `SelectionIsExact` for trees of any depth, with the walk as a function of the
   depth.
2. Migrations of the issuer service.
3. The reason codes of v1 receipts.
