------------------------------ MODULE AdminCli ------------------------------
(***************************************************************************)
(* aap-admin, the principal's command line tool (crates/admin-cli): `key   *)
(* init`, `pairing sign` and `pairing finalize`, run in several terminals  *)
(* that share the files under ~/.aap-admin and one server.  Each file is   *)
(* written in place: opened, which truncates it, and then written.  An     *)
(* invocation can be interrupted anywhere, and every call to the server    *)
(* can fail before or after it took effect.                                *)
(*                                                                         *)
(*   request      [agent_id, public_key, scope], an open pairing request   *)
(*   scope        [max_amount, rest], amounts in thousandths, or None if   *)
(*                it does not parse; `rest` stands for every other field   *)
(*   delegation   [principal_id, signed_by, agent_id, public_key, scope,   *)
(*                can_delegate]; a public key is named by its seed         *)
(*                                                                         *)
(* The server is not part of the repository.                               *)
(***************************************************************************)
EXTENDS Integers

CONSTANTS
    None,
    Partial,        \* what an interrupted write leaves behind
    Err,            \* the answer of a call that failed
    Elsewhere,      \* the principal key of another machine
    Terminals,
    Ids,            \* ids of pairing requests
    PairingRequests,\* what a request may say
    Passphrases,    \* what may be typed at a prompt
    MaxSeeds,       \* bound on generated keys
    MaxCommands     \* bound on the commands of a behaviour

ASSUME BoundsAssumption == MaxSeeds \in Nat /\ MaxCommands \in Nat
ASSUME NamesAssumption ==
    /\ Elsewhere \notin Int /\ None # Partial /\ Err # "Ok"
    /\ \A r \in PairingRequests : r \notin {None, Partial}

VARIABLES
    key_file,       \* principal.key.enc: None, Partial or [seed, passphrase]
    pending,        \* pending-delegations/{id}.jws: None, Partial or a delegation
    principal,      \* server: None or the registered public key
    requests,       \* server: the open pairing request of each id, or None
    paired,         \* server: [id, jws] it accepted
    run,            \* per terminal, where its command is and its locals
    seeds,          \* how many keys were generated
    stored,         \* history: the seeds that were written to the file
    approved,       \* history: [id, lines] confirmed on a terminal
    overlapped,     \* history: whether two terminals were storing a key at once
    commands        \* commands so far

files == <<key_file, pending>>
server == <<principal, requests, paired>>
history == <<stored, approved, overlapped>>
vars == <<files, server, run, seeds, history, commands>>

Done == [pc |-> "done", id |-> None, passphrase |-> None, seed |-> 0,
         request |-> None, jws |-> None]

Init ==
    /\ key_file = None
    /\ pending = [id \in Ids |-> None]
    /\ principal = None
    /\ requests = [id \in Ids |-> None]
    /\ paired = {}
    /\ run = [t \in Terminals |-> Done]
    /\ seeds = 0
    /\ stored = {} /\ approved = {} /\ overlapped = FALSE
    /\ commands = 0

-----------------------------------------------------------------------------
At(t, pc) == run[t].pc = pc
Goto(t, pc) == run' = [run EXCEPT ![t].pc = pc]
Exit(t) == run' = [run EXCEPT ![t] = Done]

Start(t) == At(t, "done") /\ commands < MaxCommands /\ commands' = commands + 1

\* A file that an interrupted write left behind exists.
key_exists == key_file # None

\* The seed, or None: no file, a corrupt one, or the wrong passphrase.
load(passphrase) ==
    IF key_file \in {None, Partial} \/ key_file.passphrase # passphrase
      THEN None ELSE key_file.seed

(***************************************************************************)
(* Client: what a call to the server answers or does.  Any call may fail.  *)
(***************************************************************************)
get_my_principal == {principal, Err}
list_pairing_requests == {requests, Err}

\* The server keeps the first key it is given.
register_principal(public_key) ==
    /\ \/ principal = None /\ principal' = public_key
       \/ UNCHANGED principal
    /\ UNCHANGED <<requests, paired>>

\* The server takes a delegation for an open request that its principal signed.
acceptable(id, jws) ==
    /\ requests[id] # None /\ jws # Partial
    /\ principal # None /\ jws.principal_id = principal /\ jws.signed_by = principal

\* Refused, or lost on the way; accepted; accepted, with the answer lost.
finalize_pairing(id, jws, answer) ==
    /\ UNCHANGED principal
    /\ \/ answer = Err /\ UNCHANGED <<requests, paired>>
       \/ /\ acceptable(id, jws)
          /\ requests' = [requests EXCEPT ![id] = None]
          /\ paired' = paired \cup {[id |-> id, jws |-> jws]}

(***************************************************************************)
(* key init                                                                *)
(***************************************************************************)
\* Past its last look for the file, and not done writing it.
Storing(t) == run[t].pc \in {"open_key", "write_key"}

KeyInit(t) ==
    /\ Start(t)
    /\ Goto(t, IF key_exists THEN "lookup" ELSE "choose")
    /\ UNCHANGED <<files, server, seeds, history>>

make_key(t, passphrase) ==
    /\ seeds < MaxSeeds
    /\ seeds' = seeds + 1
    /\ overlapped' = (overlapped \/ \E u \in Terminals : Storing(u))
    /\ run' = [run EXCEPT ![t].pc = "open_key", ![t].passphrase = passphrase,
                          ![t].seed = seeds + 1]

\* Mutant: does not look for the file again after the prompts.
generate_and_store_LooksOnce(t, passphrase) == make_key(t, passphrase)

\* Looks for the file again, and makes the key.
generate_and_store(t, passphrase) ==
    \/ key_exists /\ Exit(t) /\ UNCHANGED <<seeds, overlapped>>
    \/ ~key_exists /\ make_key(t, passphrase)

\* The passphrase is typed twice, and must be the same.
Choose(t, first, second) ==
    /\ At(t, "choose")
    /\ IF first # second THEN Exit(t) /\ UNCHANGED <<seeds, overlapped>>
                         ELSE generate_and_store(t, first)
    /\ UNCHANGED <<files, server, stored, approved, commands>>

\* store: the key was derived meanwhile; fs::write truncates the file ...
OpenKeyFile(t) ==
    /\ At(t, "open_key")
    /\ key_file' = Partial
    /\ Goto(t, "write_key")
    /\ UNCHANGED <<pending, server, seeds, history, commands>>

\* ... and writes it.  All key files are of one length.
WriteKeyFile(t) ==
    /\ At(t, "write_key")
    /\ key_file' = [seed |-> run[t].seed, passphrase |-> run[t].passphrase]
    /\ stored' = stored \cup {run[t].seed}
    /\ run' = [run EXCEPT ![t] = [Done EXCEPT !.pc = "lookup"]]
    /\ UNCHANGED <<pending, server, seeds, approved, overlapped, commands>>

\* A principal that is registered is left alone, whatever its key.
LookupPrincipal(t) ==
    /\ At(t, "lookup")
    /\ \E answer \in get_my_principal : IF answer = None THEN Goto(t, "unlock") ELSE Exit(t)
    /\ UNCHANGED <<files, server, seeds, history, commands>>

Unlock(t, passphrase) ==
    /\ At(t, "unlock")
    /\ IF load(passphrase) = None THEN Exit(t)
       ELSE run' = [run EXCEPT ![t].pc = "register", ![t].seed = load(passphrase)]
    /\ UNCHANGED <<files, server, seeds, history, commands>>

\* The command ends the same way whether it hears of its success or not.
RegisterPrincipal(t) ==
    /\ At(t, "register")
    /\ register_principal(run[t].seed)
    /\ Exit(t)
    /\ UNCHANGED <<files, seeds, history, commands>>

(***************************************************************************)
(* pairing sign                                                            *)
(***************************************************************************)

\* "{:.2}": two decimals of the amount are shown.
render_amount(a) == IF a = None THEN None ELSE (a + 5) \div 10
render_scope(scope) == [scope EXCEPT !.max_amount = render_amount(scope.max_amount)]

\* What is printed of a request before the question is asked.
lines(r) == [agent_id |-> r.agent_id, public_key |-> r.public_key,
             scope |-> render_scope(r.scope)]

\* The open request with this id is shown if its scope parses.
PairingSign(t, id) ==
    /\ Start(t)
    /\ \E answer \in list_pairing_requests :
          IF answer = Err \/ answer[id] = None \/ answer[id].scope = None
            THEN UNCHANGED run
            ELSE run' = [run EXCEPT ![t].pc = "confirm", ![t].id = id, ![t].request = answer[id]]
    /\ UNCHANGED <<files, server, seeds, history>>

\* confirm_on_terminal
Confirm(t) ==
    /\ At(t, "confirm")
    /\ \/ Exit(t) /\ UNCHANGED approved
       \/ /\ Goto(t, "unlock_to_sign")
          /\ approved' = approved \cup {[id |-> run[t].id, lines |-> lines(run[t].request)]}
    /\ UNCHANGED <<files, server, seeds, stored, overlapped, commands>>

UnlockToSign(t, passphrase) ==
    /\ At(t, "unlock_to_sign")
    /\ IF load(passphrase) = None THEN Exit(t)
       ELSE run' = [run EXCEPT ![t].pc = "issue", ![t].seed = load(passphrase)]
    /\ UNCHANGED <<files, server, seeds, history, commands>>

\* delegation::issue
delegation(r, principal_id, seed) ==
    [principal_id |-> principal_id, signed_by |-> seed, agent_id |-> r.agent_id,
     public_key |-> r.public_key, scope |-> r.scope, can_delegate |-> FALSE]

\* Mutant: the request is fetched again once the key is unlocked.
Issue_Refetched(t) ==
    /\ At(t, "issue")
    /\ \/ Exit(t)
       \/ /\ principal # None
          /\ requests[run[t].id] # None /\ requests[run[t].id].scope # None
          /\ run' = [run EXCEPT ![t].pc = "open_jws",
                        ![t].jws = delegation(requests[run[t].id], principal, run[t].seed)]
    /\ UNCHANGED <<files, server, seeds, history, commands>>

\* The server is asked for its principal again.
Issue(t) ==
    /\ At(t, "issue")
    /\ \E answer \in get_my_principal :
          IF answer \in {None, Err} THEN Exit(t)
          ELSE run' = [run EXCEPT ![t].pc = "open_jws",
                            ![t].jws = delegation(run[t].request, answer, run[t].seed)]
    /\ UNCHANGED <<files, server, seeds, history, commands>>

OpenPending(t) ==
    /\ At(t, "open_jws")
    /\ pending' = [pending EXCEPT ![run[t].id] = Partial]
    /\ Goto(t, "write_jws")
    /\ UNCHANGED <<key_file, server, seeds, history, commands>>

\* If the file was removed since it was opened it stays so; if another terminal
\* wrote a longer text to it, the end of that text stays behind.
WritePending(t) ==
    LET now == pending[run[t].id] IN
    /\ At(t, "write_jws")
    /\ \E left \in IF now = None THEN {None}
                   ELSE IF now = Partial THEN {run[t].jws} ELSE {run[t].jws, Partial} :
            pending' = [pending EXCEPT ![run[t].id] = left]
    /\ Exit(t)
    /\ UNCHANGED <<key_file, server, seeds, history, commands>>

(***************************************************************************)
(* pairing finalize                                                        *)
(***************************************************************************)
PairingFinalize(t, id) ==
    /\ Start(t)
    /\ IF pending[id] = None THEN UNCHANGED run
       ELSE run' = [run EXCEPT ![t].pc = "submit", ![t].id = id, ![t].jws = pending[id]]
    /\ UNCHANGED <<files, server, seeds, history>>

\* Mutant: the file is removed whatever the answer.
Submit_AlwaysRemove(t) ==
    /\ At(t, "submit")
    /\ Goto(t, "remove")
    /\ UNCHANGED <<files, server, seeds, history, commands>>

\* On every error the file is kept for another try.
Submit(t) ==
    /\ At(t, "submit")
    /\ \E answer \in {"Ok", Err} :
          /\ finalize_pairing(run[t].id, run[t].jws, answer)
          /\ IF answer = "Ok" THEN Goto(t, "remove") ELSE Exit(t)
    /\ UNCHANGED <<files, seeds, history, commands>>

\* remove_file(...).ok()
RemovePending(t) ==
    /\ At(t, "remove")
    /\ \/ pending' = [pending EXCEPT ![run[t].id] = None]
       \/ UNCHANGED pending
    /\ Exit(t)
    /\ UNCHANGED <<key_file, server, seeds, history, commands>>

-----------------------------------------------------------------------------
\* The command is interrupted: ctrl-c, a failed write, the machine goes down.
Crash(t) ==
    /\ ~At(t, "done")
    /\ Exit(t)
    /\ UNCHANGED <<files, server, seeds, history, commands>>

\* External: "callers must remove it explicitly first", here a file that load
\* calls corrupt, while no command is storing one.
RemoveKeyFile ==
    /\ key_file = Partial /\ \A t \in Terminals : ~Storing(t)
    /\ key_file' = None
    /\ UNCHANGED <<pending, server, run, seeds, history, commands>>

\* External: devices ask to be paired, requests change and expire.
ChangeRequest(id, r) ==
    /\ \A x \in paired : x.id # id
    /\ requests' = [requests EXCEPT ![id] = r]
    /\ UNCHANGED <<files, principal, paired, run, seeds, history, commands>>

\* External: another machine of the same account registers its key.
RegisterElsewhere ==
    /\ principal = None
    /\ principal' = Elsewhere
    /\ UNCHANGED <<files, requests, paired, run, seeds, history, commands>>

KeyStep(t) ==
    \/ KeyInit(t) \/ \E p, q \in Passphrases : Choose(t, p, q)
    \/ OpenKeyFile(t) \/ WriteKeyFile(t) \/ LookupPrincipal(t)
    \/ \E p \in Passphrases : Unlock(t, p)
    \/ RegisterPrincipal(t)

PairingStep(t) ==
    \/ \E id \in Ids : PairingSign(t, id) \/ PairingFinalize(t, id)
    \/ Confirm(t) \/ \E p \in Passphrases : UnlockToSign(t, p)
    \/ Issue(t) \/ OpenPending(t) \/ WritePending(t) \/ Submit(t) \/ RemovePending(t)

Next ==
    \/ \E t \in Terminals : KeyStep(t) \/ PairingStep(t) \/ Crash(t)
    \/ RemoveKeyFile \/ RegisterElsewhere
    \/ \E id \in Ids, r \in PairingRequests \cup {None} : ChangeRequest(id, r)

Spec == Init /\ [][Next]_vars

-----------------------------------------------------------------------------
Delegations ==
    [principal_id : 1 .. MaxSeeds \cup {Elsewhere}, signed_by : 1 .. MaxSeeds,
     agent_id : {r.agent_id : r \in PairingRequests},
     public_key : {r.public_key : r \in PairingRequests},
     scope : {r.scope : r \in PairingRequests}, can_delegate : {FALSE}]

Keys == [seed : 1 .. MaxSeeds, passphrase : Passphrases]

\* No file is told from one with a text in it.
ASSUME FilesAssumption == None \notin Keys \cup Delegations /\ Partial \notin Keys

Pcs == {"done", "choose", "open_key", "write_key", "lookup", "unlock", "register",
        "confirm", "unlock_to_sign", "issue", "open_jws", "write_jws", "submit", "remove"}

Locals == [pc : Pcs, id : Ids \cup {None}, passphrase : Passphrases \cup {None},
           seed : 0 .. MaxSeeds, request : PairingRequests \cup {None},
           jws : Delegations \cup {None, Partial}]

TypeOK ==
    /\ key_file \in Keys \cup {None, Partial}
    /\ pending \in [Ids -> Delegations \cup {None, Partial}]
    /\ principal \in 1 .. MaxSeeds \cup {None, Elsewhere}
    /\ requests \in [Ids -> PairingRequests \cup {None}]
    /\ paired \subseteq [id : Ids, jws : Delegations]
    /\ stored \subseteq 1 .. seeds /\ seeds \in 0 .. MaxSeeds
    /\ overlapped \in BOOLEAN
    /\ run \in [Terminals -> Locals]

\* main.rs: "never overwrites an existing key": a key that was written stays in
\* the file.
NeverOverwritten ==
    \A s \in stored : key_file \notin {None, Partial} /\ key_file.seed = s

\* keystore.rs: "this file is the only copy of a key": what this machine
\* registered can be loaded from its file.
RegisteredKeyIsHeld ==
    principal \notin {None, Elsewhere} =>
        key_file \notin {None, Partial} /\ key_file.seed = principal

\* What a command has read, made or been told by the place it has come to.
shown(id, r) == [id |-> id, lines |-> lines(r)] \in approved
located(c) ==
    /\ c.pc \in {"open_key", "write_key"} => c.passphrase \in Passphrases /\ c.seed \in 1 .. seeds
    /\ c.pc \in {"register", "issue"} => c.seed \in 1 .. MaxSeeds
    /\ c.pc \in {"confirm", "unlock_to_sign", "issue"} =>
            c.id \in Ids /\ c.request \in PairingRequests
    /\ c.pc \in {"unlock_to_sign", "issue"} => shown(c.id, c.request)
    /\ c.pc \in {"open_jws", "write_jws"} =>
            c.id \in Ids /\ c.jws \in Delegations /\ shown(c.id, c.jws)
    /\ c.pc \in {"submit", "remove"} =>
            /\ c.id \in Ids /\ c.jws \in Delegations \cup {Partial}
            /\ c.jws # Partial => shown(c.id, c.jws)
    /\ c.pc = "remove" => \E x \in paired : x.id = c.id

\* Unless two did at once: one terminal at most is storing a key, no other has
\* written the file since it looked last, and a key that is about to be
\* registered is the one in the file.
OneCreator ==
    /\ \A t, u \in Terminals : Storing(t) /\ Storing(u) => t = u
    /\ \A t \in Terminals :
            /\ At(t, "open_key") => key_file = None
            /\ At(t, "write_key") => key_file = Partial
            /\ At(t, "register") =>
                    key_file \notin {None, Partial} /\ key_file.seed = run[t].seed

\* main.rs, keystore.rs: both hold wherever commands are interrupted, and
\* however many terminals found no file and are at their prompts while another
\* stores and registers its key: generate_and_store looks again.  Between that
\* look and the write a key is derived; two terminals that are both in there
\* overwrite each other, which is the one case left out.  What an interrupted
\* write left behind was never registered and may be removed.
KeyIsKept == ~overlapped => NeverOverwritten /\ RegisteredKeyIsHeld

\* main.rs, keystore.rs: every command is where its program counter says, and
\* the key is kept.
AdminInv ==
    /\ TypeOK /\ KeyIsKept
    /\ \A t \in Terminals : located(run[t])
    /\ ~overlapped => OneCreator

\* "Sign a Delegation for this device with exactly these parameters?": whatever
\* is saved or was accepted for an id shows the lines that were confirmed for
\* that id, although the server's request changes between any two steps.
EverySignatureApproved ==
    /\ \A id \in Ids : pending[id] \notin {None, Partial} =>
            [id |-> id, lines |-> lines(pending[id])] \in approved
    /\ \A x \in paired : [id |-> x.id, lines |-> lines(x.jws)] \in approved

\* "The signed delegation is still saved": a delegation that was signed goes
\* away only after the server has accepted one for its id, or to make way for
\* another that was confirmed.
SavedUntilAccepted ==
    [][\A id \in Ids : pending[id] # None /\ pending'[id] = None =>
            \E x \in paired : x.id = id]_vars
=============================================================================
