--------------------------- MODULE AdminCliProofs ---------------------------
(***************************************************************************)
(* aap-admin, for any number of terminals, requests and commands: the      *)
(* principal's key is kept, nothing is signed that was not confirmed, and  *)
(* nothing signed is lost before the server has it, wherever a command is  *)
(* interrupted and whichever call fails.                                   *)
(***************************************************************************)
EXTENDS AdminCli, TLAPS

\* What the commands have done, whichever terminals they ran in.
CommandsInv ==
    /\ TypeOK
    /\ \A t \in Terminals : located(run[t])
    /\ EverySignatureApproved

\* What was confirmed, accepted and generated stays so.
grows ==
    /\ approved \subseteq approved' /\ paired \subseteq paired'
    /\ seeds' \in 0 .. MaxSeeds /\ seeds <= seeds'

LEMMA LocatedStays ==
    ASSUME NEW c, located(c), grows, seeds \in 0 .. MaxSeeds
    PROVE  located(c)'
<1>1. c.seed \in 1 .. seeds => c.seed \in 1 .. seeds'
    BY BoundsAssumption DEF grows
<1>2. QED  BY <1>1 DEF located, shown, grows

\* A terminal moves on, and what it moves on with is in order.
moves(t, d) ==
    /\ d \in Locals /\ located(d)'
    /\ run' = [run EXCEPT ![t] = d]

LEMMA MoveKeeps ==
    ASSUME CommandsInv, NEW t \in Terminals, NEW d, moves(t, d), grows,
           key_file' \in Keys \cup {None, Partial},
           pending' \in [Ids -> Delegations \cup {None, Partial}],
           principal' \in 1 .. MaxSeeds \cup {None, Elsewhere},
           requests' \in [Ids -> PairingRequests \cup {None}],
           paired' \subseteq [id : Ids, jws : Delegations],
           stored' \subseteq 1 .. seeds', overlapped' \in BOOLEAN,
           EverySignatureApproved'
    PROVE  CommandsInv'
<1>1. run \in [Terminals -> Locals] /\ seeds \in 0 .. MaxSeeds
    BY DEF CommandsInv, TypeOK
<1>2. /\ run' \in [Terminals -> Locals] /\ run'[t] = d
      /\ \A u \in Terminals : u # t => run'[u] = run[u]
    BY <1>1 DEF moves
<1>3. ASSUME NEW u \in Terminals PROVE located(run[u])'
    <2>1. CASE u = t
        <3>1. located(d)'
            BY DEF moves
        <3>2. QED  BY <1>2, <2>1, <3>1 DEF located, shown
    <2>2. CASE u # t
        <3> DEFINE c == run[u]
        <3>1. located(c)
            BY DEF CommandsInv
        <3>2. run'[u] = c
            BY <1>2, <2>2
        <3>3. QED
            BY <1>1, <3>1, <3>2 DEF located, shown, grows
    <2>3. QED  BY <2>1, <2>2
<1>4. seeds' \in 0 .. MaxSeeds
    BY DEF grows
<1>5. QED  BY <1>2, <1>3, <1>4 DEF CommandsInv, TypeOK

\* Nothing but the terminal's place changes.
LEMMA MoveOnly ==
    ASSUME CommandsInv, NEW t \in Terminals, NEW d, moves(t, d),
           UNCHANGED <<files, server, seeds>>, UNCHANGED <<stored, approved>>,
           overlapped' \in BOOLEAN
    PROVE  CommandsInv'
<1>1. /\ key_file' = key_file /\ pending' = pending /\ principal' = principal
      /\ requests' = requests /\ paired' = paired /\ seeds' = seeds
      /\ stored' = stored /\ approved' = approved
    BY DEF files, server
<1>2. EverySignatureApproved'
    BY <1>1 DEF CommandsInv, EverySignatureApproved
<1>3. grows
    BY <1>1, BoundsAssumption DEF grows, CommandsInv, TypeOK
<1>4. QED  BY <1>1, <1>2, <1>3, MoveKeeps DEF CommandsInv, TypeOK

LEMMA DoneMoves ==
    ASSUME CommandsInv, NEW t \in Terminals, Exit(t)
    PROVE  moves(t, Done)
<1>1. Done \in Locals
    BY BoundsAssumption DEF Done, Locals, Pcs
<1>2. Done.pc = "done"
    BY DEF Done
<1>3. located(Done)'
    BY <1>2 DEF located
<1>4. QED  BY <1>1, <1>3 DEF moves, Exit

\* A terminal goes on with what it has.
LEMMA GotoMoves ==
    ASSUME CommandsInv, NEW t \in Terminals, NEW pc \in Pcs, Goto(t, pc)
    PROVE  \E d \in Locals :
                /\ run' = [run EXCEPT ![t] = d]
                /\ d.pc = pc /\ d.id = run[t].id /\ d.passphrase = run[t].passphrase
                /\ d.seed = run[t].seed /\ d.request = run[t].request /\ d.jws = run[t].jws
<1> DEFINE d == [run[t] EXCEPT !.pc = pc]
<1>1. run[t] \in Locals
    BY DEF CommandsInv, TypeOK
<1>2. /\ d \in Locals
      /\ d.pc = pc /\ d.id = run[t].id /\ d.passphrase = run[t].passphrase
      /\ d.seed = run[t].seed /\ d.request = run[t].request /\ d.jws = run[t].jws
    BY <1>1 DEF Locals
<1>3. run' = [run EXCEPT ![t] = d]
    BY DEF Goto
<1> HIDE DEF d
<1>4. QED  BY <1>2, <1>3

\* Nothing is confirmed, accepted or saved, and no key is made.
LEMMA QuietGrows ==
    ASSUME CommandsInv, seeds' = seeds, approved' = approved, paired' = paired
    PROVE  grows
<1>1. seeds \in 0 .. MaxSeeds
    BY DEF CommandsInv, TypeOK
<1>2. QED  BY <1>1, BoundsAssumption DEF grows

LEMMA QuietApproved ==
    ASSUME CommandsInv, approved \subseteq approved', paired' = paired, pending' = pending
    PROVE  EverySignatureApproved'
BY DEF CommandsInv, EverySignatureApproved

-----------------------------------------------------------------------------
LEMMA PrincipalTypes ==
    ASSUME CommandsInv, NEW answer \in get_my_principal, answer \notin {None, Err}
    PROVE  answer \in 1 .. MaxSeeds \cup {Elsewhere}
BY DEF CommandsInv, TypeOK, get_my_principal

\* The seed in the file, if the passphrase opens it.
LEMMA LoadedKey ==
    ASSUME CommandsInv, NEW passphrase, load(passphrase) # None
    PROVE  /\ key_file \notin {None, Partial} /\ load(passphrase) = key_file.seed
           /\ key_file.seed \in 1 .. MaxSeeds
<1>1. key_file \notin {None, Partial} /\ load(passphrase) = key_file.seed
    BY DEF load
<1>2. key_file \in Keys
    BY <1>1 DEF CommandsInv, TypeOK
<1>3. QED  BY <1>1, <1>2 DEF Keys

LEMMA KeyStepTypes ==
    ASSUME CommandsInv, NEW t \in Terminals, KeyStep(t) PROVE CommandsInv'
<1>0. /\ seeds \in 0 .. MaxSeeds /\ MaxSeeds \in Nat /\ overlapped \in BOOLEAN
      /\ run[t] \in Locals /\ located(run[t])
    BY BoundsAssumption DEF CommandsInv, TypeOK
<1>1. CASE KeyInit(t)
    <2> DEFINE pc == IF key_exists THEN "lookup" ELSE "choose"
    <2>1. /\ UNCHANGED <<files, server, seeds>> /\ UNCHANGED <<stored, approved>>
          /\ overlapped' \in BOOLEAN /\ Goto(t, pc)
        BY <1>0, <1>1 DEF KeyInit, history
    <2>2. pc \in Pcs /\ pc \in {"lookup", "choose"}
        BY DEF Pcs
    <2> HIDE DEF pc
    <2>3. PICK d \in Locals : run' = [run EXCEPT ![t] = d] /\ d.pc = pc
        BY <2>1, <2>2, GotoMoves
    <2>4. located(d)'
        BY <2>2, <2>3 DEF located
    <2>5. QED  BY <2>1, <2>3, <2>4, MoveOnly DEF moves
<1>2. ASSUME NEW p \in Passphrases, NEW q \in Passphrases, Choose(t, p, q) PROVE CommandsInv'
    <2>1. UNCHANGED <<files, server>> /\ UNCHANGED <<stored, approved>> /\ overlapped' \in BOOLEAN
        BY <1>0, <1>2 DEF Choose, generate_and_store, make_key
    <2>2. CASE Exit(t) /\ UNCHANGED seeds
        BY <2>1, <2>2, DoneMoves, MoveOnly
    <2>3. CASE /\ seeds < MaxSeeds /\ seeds' = seeds + 1
               /\ run' = [run EXCEPT ![t].pc = "open_key", ![t].passphrase = p,
                                     ![t].seed = seeds + 1]
        <3>1. seeds + 1 \in 0 .. MaxSeeds /\ seeds + 1 \in 1 .. seeds' /\ seeds <= seeds'
            BY <1>0, <2>3
        <3>2. PICK d \in Locals : /\ run' = [run EXCEPT ![t] = d]
                                  /\ d.pc = "open_key" /\ d.passphrase = p /\ d.seed = seeds + 1
            <4> DEFINE e == [run[t] EXCEPT !.pc = "open_key", !.passphrase = p, !.seed = seeds + 1]
            <4>1. e \in Locals /\ e.pc = "open_key" /\ e.passphrase = p /\ e.seed = seeds + 1
                BY <1>0, <3>1 DEF Locals, Pcs
            <4>2. run' = [run EXCEPT ![t] = e]
                BY <2>3
            <4> HIDE DEF e
            <4>3. QED  BY <4>1, <4>2
        <3>3. d.seed \in 1 .. seeds'
            BY <3>1, <3>2
        <3>4. located(d)'
            BY <3>2, <3>3 DEF located
        <3>5. grows
            BY <2>1, <2>3, <3>1 DEF grows, server
        <3>6. EverySignatureApproved'
            BY <2>1, QuietApproved DEF files, server
        <3>7. stored' \subseteq 1 .. seeds'
            <4>1. stored \subseteq 1 .. seeds /\ stored' = stored
                BY <2>1 DEF CommandsInv, TypeOK
            <4>2. 1 .. seeds \subseteq 1 .. seeds'
                BY <1>0, <2>3
            <4>3. QED  BY <4>1, <4>2
        <3>8. QED
            BY <2>1, <3>2, <3>3, <3>4, <3>5, <3>6, <3>7, MoveKeeps
            DEF moves, CommandsInv, TypeOK, files, server
    <2>4. QED  BY <1>2, <2>2, <2>3 DEF Choose, generate_and_store, make_key
<1>3. CASE OpenKeyFile(t)
    <2>1. /\ At(t, "open_key") /\ key_file' = Partial /\ Goto(t, "write_key")
          /\ UNCHANGED <<pending, server, seeds, stored, approved, overlapped>>
        BY <1>3 DEF OpenKeyFile, history
    <2>2. PICK d \in Locals : /\ run' = [run EXCEPT ![t] = d] /\ d.pc = "write_key"
                              /\ d.passphrase = run[t].passphrase /\ d.seed = run[t].seed
        BY <2>1, GotoMoves DEF Pcs
    <2>3. located(d)'
        BY <1>0, <2>1, <2>2 DEF located, At
    <2>4. grows /\ EverySignatureApproved'
        BY <1>0, <2>1 DEF grows, server, CommandsInv, EverySignatureApproved
    <2>5. QED
        BY <2>1, <2>2, <2>3, <2>4, MoveKeeps DEF moves, CommandsInv, TypeOK, server
<1>4. CASE WriteKeyFile(t)
    <2> DEFINE d == [Done EXCEPT !.pc = "lookup"]
               key == [seed |-> run[t].seed, passphrase |-> run[t].passphrase]
    <2>1. /\ At(t, "write_key") /\ key_file' = key /\ run' = [run EXCEPT ![t] = d]
          /\ stored' = stored \cup {run[t].seed}
          /\ UNCHANGED <<pending, server, seeds, approved, overlapped>>
        BY <1>4 DEF WriteKeyFile
    <2>2. d \in Locals /\ d.pc = "lookup"
        BY BoundsAssumption DEF Done, Locals, Pcs
    <2>3. run[t].passphrase \in Passphrases /\ run[t].seed \in 1 .. seeds
        BY <1>0, <2>1 DEF located, At
    <2>4. key \in Keys /\ stored' \subseteq 1 .. seeds'
        <3>1. run[t].seed \in 1 .. MaxSeeds
            BY <1>0, <2>3
        <3>2. QED  BY <2>1, <2>3, <3>1 DEF Keys, CommandsInv, TypeOK
    <2> HIDE DEF d, key
    <2>5. located(d)'
        BY <2>2 DEF located
    <2>6. grows /\ EverySignatureApproved'
        BY <1>0, <2>1 DEF grows, server, CommandsInv, EverySignatureApproved
    <2>7. QED
        BY <2>1, <2>2, <2>4, <2>5, <2>6, MoveKeeps DEF moves, CommandsInv, TypeOK, server
<1>5. CASE LookupPrincipal(t)
    <2>1. /\ UNCHANGED <<files, server, seeds>> /\ UNCHANGED <<stored, approved>>
          /\ overlapped' \in BOOLEAN /\ (Goto(t, "unlock") \/ Exit(t))
        BY <1>0, <1>5 DEF LookupPrincipal, history
    <2>2. CASE Exit(t)
        BY <2>1, <2>2, DoneMoves, MoveOnly
    <2>3. CASE Goto(t, "unlock")
        <3>1. PICK d \in Locals : run' = [run EXCEPT ![t] = d] /\ d.pc = "unlock"
            BY <2>3, GotoMoves DEF Pcs
        <3>2. located(d)'
            BY <3>1 DEF located
        <3>3. QED  BY <2>1, <3>1, <3>2, MoveOnly DEF moves
    <2>4. QED  BY <2>1, <2>2, <2>3
<1>6. ASSUME NEW p \in Passphrases, Unlock(t, p) PROVE CommandsInv'
    <2>1. /\ UNCHANGED <<files, server, seeds>> /\ UNCHANGED <<stored, approved>>
          /\ overlapped' \in BOOLEAN
        BY <1>0, <1>6 DEF Unlock, history
    <2>2. CASE load(p) = None
        <3>1. Exit(t)
            BY <1>6, <2>2 DEF Unlock
        <3>2. QED  BY <2>1, <3>1, DoneMoves, MoveOnly
    <2>3. CASE load(p) # None
        <3> DEFINE seed == load(p)
                   e == [run[t] EXCEPT !.pc = "register", !.seed = seed]
        <3>1. run' = [run EXCEPT ![t] = e]
            BY <1>6, <2>3 DEF Unlock
        <3>2. seed \in 1 .. MaxSeeds
            BY <2>3, LoadedKey
        <3> HIDE DEF seed
        <3>3. e \in Locals /\ e.pc = "register" /\ e.seed = seed
            <4>1. seed \in 0 .. MaxSeeds
                BY <3>2, BoundsAssumption
            <4>2. QED  BY <1>0, <4>1 DEF Locals, Pcs
        <3> HIDE DEF e
        <3>4. PICK d \in Locals : /\ run' = [run EXCEPT ![t] = d]
                                  /\ d.pc = "register" /\ d.seed \in 1 .. MaxSeeds
            BY <3>1, <3>2, <3>3
        <3>5. located(d)'
            BY <3>4 DEF located
        <3>6. QED  BY <2>1, <3>4, <3>5, MoveOnly DEF moves
    <2>4. QED  BY <2>2, <2>3
<1>7. CASE RegisterPrincipal(t)
    <2>1. /\ At(t, "register") /\ Exit(t) /\ principal' \in {principal, run[t].seed}
          /\ UNCHANGED <<files, requests, paired, seeds, stored, approved, overlapped>>
        BY <1>7 DEF RegisterPrincipal, register_principal, history
    <2>2. run[t].seed \in 1 .. MaxSeeds
        BY <1>0, <2>1 DEF located, At
    <2>3. grows /\ EverySignatureApproved'
        BY <2>1, QuietGrows, QuietApproved DEF files
    <2>4. principal' \in 1 .. MaxSeeds \cup {None, Elsewhere}
        BY <2>1, <2>2 DEF CommandsInv, TypeOK
    <2>5. moves(t, Done)
        BY <2>1, DoneMoves
    <2>6. QED
        BY <2>1, <2>3, <2>4, <2>5, MoveKeeps DEF CommandsInv, TypeOK, files
<1>8. QED
    BY <1>1, <1>2, <1>3, <1>4, <1>5, <1>6, <1>7 DEF KeyStep

\* A terminal that goes nowhere.
LEMMA StayMoves ==
    ASSUME CommandsInv, NEW t \in Terminals, run' = run, grows
    PROVE  \E d : moves(t, d)
<1>1. PICK d : d = run[t]
    OBVIOUS
<1>2. d \in Locals /\ located(d) /\ seeds \in 0 .. MaxSeeds
    BY <1>1 DEF CommandsInv, TypeOK
<1>3. located(d)'
    BY <1>2, LocatedStays
<1>4. run' = [run EXCEPT ![t] = d]
    BY <1>1 DEF CommandsInv, TypeOK
<1>5. QED  BY <1>2, <1>3, <1>4 DEF moves

\* What is signed shows the lines of the request it was made from.
LEMMA DelegationShows ==
    ASSUME NEW r \in PairingRequests, NEW p \in 1 .. MaxSeeds \cup {Elsewhere},
           NEW seed \in 1 .. MaxSeeds
    PROVE  /\ delegation(r, p, seed) \in Delegations
           /\ lines(delegation(r, p, seed)) = lines(r)
<1>1. delegation(r, p, seed) \in Delegations
    BY DEF delegation, Delegations
<1>2. lines(delegation(r, p, seed)) = lines(r)
    BY DEF delegation, lines
<1>3. QED  BY <1>1, <1>2

LEMMA SignTypes ==
    ASSUME CommandsInv, NEW t \in Terminals, NEW id \in Ids, PairingSign(t, id)
    PROVE  CommandsInv'
<1>0. run[t] \in Locals /\ requests \in [Ids -> PairingRequests \cup {None}]
    BY DEF CommandsInv, TypeOK
<1>1. /\ UNCHANGED <<files, server, seeds>> /\ UNCHANGED <<stored, approved>>
      /\ overlapped' \in BOOLEAN
    BY DEF PairingSign, history, CommandsInv, TypeOK
<1>2. grows
    BY <1>1, QuietGrows DEF server
<1>3. CASE run' = run
    BY <1>1, <1>2, <1>3, StayMoves, MoveOnly
<1>4. ASSUME NEW r \in PairingRequests,
             run' = [run EXCEPT ![t].pc = "confirm", ![t].id = id, ![t].request = r]
      PROVE  CommandsInv'
    <2> DEFINE e == [run[t] EXCEPT !.pc = "confirm", !.id = id, !.request = r]
    <2>1. e \in Locals /\ e.pc = "confirm" /\ e.id = id /\ e.request = r
        BY <1>0 DEF Locals, Pcs
    <2>2. run' = [run EXCEPT ![t] = e]
        BY <1>4
    <2> HIDE DEF e
    <2>3. PICK d \in Locals : /\ run' = [run EXCEPT ![t] = d]
                              /\ d.pc = "confirm" /\ d.id = id /\ d.request = r
        BY <2>1, <2>2
    <2>4. located(d)'
        BY <2>3 DEF located
    <2>5. QED  BY <1>1, <2>3, <2>4, MoveOnly DEF moves
<1>5. run' = run \/ \E r \in PairingRequests :
             run' = [run EXCEPT ![t].pc = "confirm", ![t].id = id, ![t].request = r]
    <2>1. PICK answer \in list_pairing_requests :
            IF answer = Err \/ answer[id] = None \/ answer[id].scope = None
              THEN UNCHANGED run
              ELSE run' = [run EXCEPT ![t].pc = "confirm", ![t].id = id, ![t].request = answer[id]]
        BY DEF PairingSign
    <2>2. CASE answer = Err \/ answer[id] = None \/ answer[id].scope = None
        BY <2>1, <2>2
    <2>3. CASE ~(answer = Err \/ answer[id] = None \/ answer[id].scope = None)
        <3>1. answer[id] \in PairingRequests
            BY <1>0, <2>3 DEF list_pairing_requests
        <3>2. QED  BY <2>1, <2>3, <3>1
    <2>4. QED  BY <2>2, <2>3
<1>6. QED  BY <1>3, <1>4, <1>5

LEMMA ConfirmTypes ==
    ASSUME CommandsInv, NEW t \in Terminals, Confirm(t) PROVE CommandsInv'
<1>0. run[t] \in Locals /\ located(run[t]) /\ run[t].pc = "confirm"
    BY DEF CommandsInv, TypeOK, Confirm, At
<1>1. /\ UNCHANGED <<files, server, seeds>> /\ UNCHANGED <<stored, overlapped>>
      /\ overlapped' \in BOOLEAN
    BY DEF Confirm, CommandsInv, TypeOK
<1>2. CASE Exit(t) /\ UNCHANGED approved
    BY <1>1, <1>2, DoneMoves, MoveOnly
<1>3. CASE /\ Goto(t, "unlock_to_sign")
           /\ approved' = approved \cup {[id |-> run[t].id, lines |-> lines(run[t].request)]}
    <2>1. PICK d \in Locals : /\ run' = [run EXCEPT ![t] = d] /\ d.pc = "unlock_to_sign"
                              /\ d.id = run[t].id /\ d.request = run[t].request
        BY <1>3, GotoMoves DEF Pcs
    <2>2. d.id \in Ids /\ d.request \in PairingRequests
        BY <1>0, <2>1 DEF located
    <2>3. [id |-> d.id, lines |-> lines(d.request)] \in approved'
        BY <1>3, <2>1
    <2>4. located(d)'
        BY <2>1, <2>2, <2>3 DEF located, shown
    <2>5. seeds \in 0 .. MaxSeeds /\ seeds' = seeds /\ paired' = paired /\ pending' = pending
        BY <1>1 DEF CommandsInv, TypeOK, server, files
    <2>6. approved \subseteq approved'
        BY <1>3
    <2>7. grows
        BY <2>5, <2>6, BoundsAssumption DEF grows
    <2>8. EverySignatureApproved'
        BY <2>5, <2>6, QuietApproved
    <2>9. QED
        BY <1>1, <2>1, <2>4, <2>7, <2>8, MoveKeeps DEF moves, CommandsInv, TypeOK, server, files
<1>4. QED  BY <1>2, <1>3 DEF Confirm

LEMMA UnlockToSignTypes ==
    ASSUME CommandsInv, NEW t \in Terminals, NEW p \in Passphrases, UnlockToSign(t, p)
    PROVE  CommandsInv'
<1>0. run[t] \in Locals /\ located(run[t]) /\ run[t].pc = "unlock_to_sign"
    BY DEF CommandsInv, TypeOK, UnlockToSign, At
<1>1. /\ UNCHANGED <<files, server, seeds>> /\ UNCHANGED <<stored, approved>>
      /\ overlapped' \in BOOLEAN
    BY DEF UnlockToSign, CommandsInv, TypeOK, history
<1>2. CASE load(p) = None
    <2>1. Exit(t)
        BY <1>2 DEF UnlockToSign
    <2>2. QED  BY <1>1, <2>1, DoneMoves, MoveOnly
<1>3. CASE load(p) # None
    <2> DEFINE seed == load(p)
               e == [run[t] EXCEPT !.pc = "issue", !.seed = seed]
    <2>1. run' = [run EXCEPT ![t] = e]
        BY <1>3 DEF UnlockToSign
    <2>2. seed \in 1 .. MaxSeeds
        BY <1>3, LoadedKey
    <2> HIDE DEF seed
    <2>3. seed \in 0 .. MaxSeeds
        BY <2>2, BoundsAssumption
    <2>4. /\ e \in Locals /\ e.pc = "issue" /\ e.seed = seed
          /\ e.id = run[t].id /\ e.request = run[t].request
        BY <1>0, <2>3 DEF Locals, Pcs
    <2> HIDE DEF e
    <2>5. PICK d \in Locals : /\ run' = [run EXCEPT ![t] = d]
                              /\ d.pc = "issue" /\ d.seed \in 1 .. MaxSeeds
                              /\ d.id = run[t].id /\ d.request = run[t].request
        BY <2>1, <2>2, <2>4
    <2>6. /\ d.id \in Ids /\ d.request \in PairingRequests
          /\ [id |-> d.id, lines |-> lines(d.request)] \in approved'
        BY <1>0, <1>1, <2>5 DEF located, shown
    <2>7. located(d)'
        BY <2>5, <2>6 DEF located, shown
    <2>8. QED  BY <1>1, <2>5, <2>7, MoveOnly DEF moves
<1>4. QED  BY <1>2, <1>3

LEMMA IssueTypes ==
    ASSUME CommandsInv, NEW t \in Terminals, Issue(t) PROVE CommandsInv'
<1>0. run[t] \in Locals /\ located(run[t]) /\ run[t].pc = "issue"
    BY DEF CommandsInv, TypeOK, Issue, At
<1>1. /\ UNCHANGED <<files, server, seeds>> /\ UNCHANGED <<stored, approved>>
      /\ overlapped' \in BOOLEAN
    BY DEF Issue, CommandsInv, TypeOK, history
<1>2. PICK answer \in get_my_principal :
          IF answer \in {None, Err} THEN Exit(t)
          ELSE run' = [run EXCEPT ![t].pc = "open_jws",
                            ![t].jws = delegation(run[t].request, answer, run[t].seed)]
    BY DEF Issue
<1>3. CASE answer \in {None, Err}
    BY <1>1, <1>2, <1>3, DoneMoves, MoveOnly
<1>4. CASE answer \notin {None, Err}
    <2> DEFINE jws == delegation(run[t].request, answer, run[t].seed)
               e == [run[t] EXCEPT !.pc = "open_jws", !.jws = jws]
    <2>1. run' = [run EXCEPT ![t] = e]
        BY <1>2, <1>4
    <2>2. /\ run[t].request \in PairingRequests /\ run[t].seed \in 1 .. MaxSeeds
          /\ run[t].id \in Ids
          /\ [id |-> run[t].id, lines |-> lines(run[t].request)] \in approved
        BY <1>0 DEF located, shown
    <2>3. jws \in Delegations /\ lines(jws) = lines(run[t].request)
        BY <1>4, <2>2, PrincipalTypes, DelegationShows
    <2> HIDE DEF jws
    <2>4. e \in Locals /\ e.pc = "open_jws" /\ e.jws = jws /\ e.id = run[t].id
        BY <1>0, <2>3 DEF Locals, Pcs
    <2> HIDE DEF e
    <2>5. PICK d \in Locals : /\ run' = [run EXCEPT ![t] = d] /\ d.pc = "open_jws"
                              /\ d.jws = jws /\ d.id = run[t].id
        BY <2>1, <2>4
    <2>6. /\ d.id \in Ids /\ d.jws \in Delegations
          /\ [id |-> d.id, lines |-> lines(d.jws)] \in approved'
        BY <1>1, <2>2, <2>3, <2>5
    <2>7. located(d)'
        BY <2>5, <2>6 DEF located, shown
    <2>8. QED  BY <1>1, <2>5, <2>7, MoveOnly DEF moves
<1>5. QED  BY <1>3, <1>4

\* A file that is emptied, removed or given a text that was confirmed.
LEMMA PendingApproved ==
    ASSUME CommandsInv, NEW id \in Ids, NEW left \in Delegations \cup {None, Partial},
           pending' = [pending EXCEPT ![id] = left],
           left \notin {None, Partial} => shown(id, left),
           paired' = paired, approved' = approved
    PROVE  /\ EverySignatureApproved'
           /\ pending' \in [Ids -> Delegations \cup {None, Partial}]
<1>1. pending \in [Ids -> Delegations \cup {None, Partial}]
    BY DEF CommandsInv, TypeOK
<1>2. /\ pending'[id] = left /\ pending' \in [Ids -> Delegations \cup {None, Partial}]
      /\ \A i \in Ids : i # id => pending'[i] = pending[i]
    BY <1>1
<1>3. ASSUME NEW i \in Ids, pending'[i] \notin {None, Partial}
      PROVE  [id |-> i, lines |-> lines(pending'[i])] \in approved'
    <2>1. CASE i = id
        BY <1>2, <1>3, <2>1 DEF shown
    <2>2. CASE i # id
        <3>1. pending[i] \notin {None, Partial}
            BY <1>2, <1>3, <2>2
        <3>2. [id |-> i, lines |-> lines(pending[i])] \in approved
            BY <3>1 DEF CommandsInv, EverySignatureApproved
        <3>3. QED  BY <1>2, <2>2, <3>2
    <2>3. QED  BY <2>1, <2>2
<1>4. QED  BY <1>2, <1>3 DEF CommandsInv, EverySignatureApproved

LEMMA OpenPendingTypes ==
    ASSUME CommandsInv, NEW t \in Terminals, OpenPending(t) PROVE CommandsInv'
<1>0. run[t] \in Locals /\ located(run[t]) /\ run[t].pc = "open_jws"
    BY DEF CommandsInv, TypeOK, OpenPending, At
<1>1. /\ pending' = [pending EXCEPT ![run[t].id] = Partial] /\ Goto(t, "write_jws")
      /\ UNCHANGED <<key_file, server, seeds, stored, approved, overlapped>>
    BY DEF OpenPending, history
<1>2. /\ run[t].id \in Ids /\ run[t].jws \in Delegations
      /\ [id |-> run[t].id, lines |-> lines(run[t].jws)] \in approved
    BY <1>0 DEF located, shown
<1>3. PICK d \in Locals : /\ run' = [run EXCEPT ![t] = d] /\ d.pc = "write_jws"
                          /\ d.jws = run[t].jws /\ d.id = run[t].id
    BY <1>1, GotoMoves DEF Pcs
<1>4. located(d)'
    BY <1>1, <1>2, <1>3 DEF located, shown
<1>5. EverySignatureApproved' /\ pending' \in [Ids -> Delegations \cup {None, Partial}]
    BY <1>1, <1>2, PendingApproved DEF server
<1>6. grows
    BY <1>1, QuietGrows DEF server
<1>7. QED
    BY <1>1, <1>3, <1>4, <1>5, <1>6, MoveKeeps DEF moves, CommandsInv, TypeOK, server

LEMMA WritePendingTypes ==
    ASSUME CommandsInv, NEW t \in Terminals, WritePending(t) PROVE CommandsInv'
<1>0. run[t] \in Locals /\ located(run[t]) /\ run[t].pc = "write_jws"
    BY DEF CommandsInv, TypeOK, WritePending, At
<1>1. /\ Exit(t)
      /\ UNCHANGED <<key_file, server, seeds, stored, approved, overlapped>>
    BY DEF WritePending, history
<1>2. /\ run[t].id \in Ids /\ run[t].jws \in Delegations /\ shown(run[t].id, run[t].jws)
    BY <1>0 DEF located
<1>3. PICK left \in {None, Partial, run[t].jws} : pending' = [pending EXCEPT ![run[t].id] = left]
    BY DEF WritePending
<1>4. EverySignatureApproved' /\ pending' \in [Ids -> Delegations \cup {None, Partial}]
    <2>1. left \in Delegations \cup {None, Partial}
        BY <1>2, <1>3
    <2>2. left \notin {None, Partial} => shown(run[t].id, left)
        BY <1>2, <1>3
    <2>3. QED  BY <1>1, <1>2, <1>3, <2>1, <2>2, PendingApproved DEF server
<1>5. grows
    BY <1>1, QuietGrows DEF server
<1>6. moves(t, Done)
    BY <1>1, DoneMoves
<1>7. QED
    BY <1>1, <1>4, <1>5, <1>6, MoveKeeps DEF CommandsInv, TypeOK, server

LEMMA FinalizeTypes ==
    ASSUME CommandsInv, NEW t \in Terminals, NEW id \in Ids, PairingFinalize(t, id)
    PROVE  CommandsInv'
<1>0. run[t] \in Locals /\ pending \in [Ids -> Delegations \cup {None, Partial}]
    BY DEF CommandsInv, TypeOK
<1>1. /\ UNCHANGED <<files, server, seeds>> /\ UNCHANGED <<stored, approved>>
      /\ overlapped' \in BOOLEAN
    BY DEF PairingFinalize, history, CommandsInv, TypeOK
<1>2. CASE pending[id] = None
    <2>1. run' = run
        BY <1>2 DEF PairingFinalize
    <2>2. grows
        BY <1>1, QuietGrows DEF server
    <2>3. QED  BY <1>1, <2>1, <2>2, StayMoves, MoveOnly
<1>3. CASE pending[id] # None
    <2> DEFINE jws == pending[id]
               e == [run[t] EXCEPT !.pc = "submit", !.id = id, !.jws = jws]
    <2>1. run' = [run EXCEPT ![t] = e]
        BY <1>3 DEF PairingFinalize
    <2>2. /\ jws \in Delegations \cup {Partial}
          /\ jws # Partial => [id |-> id, lines |-> lines(jws)] \in approved
        BY <1>0, <1>3 DEF CommandsInv, EverySignatureApproved
    <2> HIDE DEF jws
    <2>3. e \in Locals /\ e.pc = "submit" /\ e.jws = jws /\ e.id = id
        BY <1>0, <2>2 DEF Locals, Pcs
    <2> HIDE DEF e
    <2>4. PICK d \in Locals : /\ run' = [run EXCEPT ![t] = d] /\ d.pc = "submit"
                              /\ d.jws = jws /\ d.id = id
        BY <2>1, <2>3
    <2>5. /\ d.jws \in Delegations \cup {Partial}
          /\ d.jws # Partial => [id |-> d.id, lines |-> lines(d.jws)] \in approved'
        BY <1>1, <2>2, <2>4
    <2>6. located(d)'
        BY <2>4, <2>5 DEF located, shown
    <2>7. QED  BY <1>1, <2>4, <2>6, MoveOnly DEF moves
<1>4. QED  BY <1>2, <1>3

\* What the server accepts was confirmed.
LEMMA SubmitTypes ==
    ASSUME CommandsInv, NEW t \in Terminals, Submit(t) PROVE CommandsInv'
<1>0. /\ run[t] \in Locals /\ located(run[t]) /\ run[t].pc = "submit"
      /\ requests \in [Ids -> PairingRequests \cup {None}]
      /\ paired \subseteq [id : Ids, jws : Delegations]
    BY DEF CommandsInv, TypeOK, Submit, At
<1>1. UNCHANGED <<files, principal, seeds, stored, approved, overlapped>>
    BY DEF Submit, finalize_pairing, history
<1>2. /\ run[t].id \in Ids /\ run[t].jws \in Delegations \cup {Partial}
      /\ run[t].jws # Partial => [id |-> run[t].id, lines |-> lines(run[t].jws)] \in approved
    BY <1>0 DEF located, shown
<1> DEFINE x == [id |-> run[t].id, jws |-> run[t].jws]
<1>3. PICK answer \in {"Ok", Err} :
        /\ \/ answer = Err /\ UNCHANGED <<requests, paired>>
           \/ /\ run[t].jws # Partial
              /\ requests' = [requests EXCEPT ![run[t].id] = None]
              /\ paired' = paired \cup {x}
        /\ IF answer = "Ok" THEN Goto(t, "remove") ELSE Exit(t)
    BY DEF Submit, finalize_pairing, acceptable
<1>4. /\ requests' \in [Ids -> PairingRequests \cup {None}]
      /\ paired' \subseteq [id : Ids, jws : Delegations]
      /\ paired \subseteq paired'
    BY <1>0, <1>2, <1>3
<1>5. EverySignatureApproved'
    <2>1. \A y \in paired' : [id |-> y.id, lines |-> lines(y.jws)] \in approved
        BY <1>2, <1>3 DEF CommandsInv, EverySignatureApproved
    <2>2. QED  BY <1>1, <2>1 DEF CommandsInv, EverySignatureApproved, files
<1>6. grows
    <2>1. seeds' = seeds /\ seeds \in 0 .. MaxSeeds /\ approved' = approved
        BY <1>1 DEF CommandsInv, TypeOK
    <2>2. QED  BY <1>4, <2>1, BoundsAssumption DEF grows
<1>7. \E d : moves(t, d)
    <2>1. CASE answer = "Ok"
        <3>1. answer # Err
            BY <2>1, NamesAssumption
        <3>2. Goto(t, "remove") /\ run[t].jws # Partial /\ x \in paired' /\ x.id = run[t].id
            BY <1>3, <2>1, <3>1
        <3> HIDE DEF x
        <3>3. PICK d \in Locals : /\ run' = [run EXCEPT ![t] = d] /\ d.pc = "remove"
                                  /\ d.jws = run[t].jws /\ d.id = run[t].id
            BY <3>2, GotoMoves DEF Pcs
        <3>4. /\ d.id \in Ids /\ d.jws \in Delegations \cup {Partial}
              /\ [id |-> d.id, lines |-> lines(d.jws)] \in approved'
              /\ \E y \in paired' : y.id = d.id
            BY <1>1, <1>2, <3>2, <3>3
        <3>5. located(d)'
            BY <3>3, <3>4 DEF located, shown
        <3>6. QED  BY <3>3, <3>5 DEF moves
    <2>2. CASE answer # "Ok"
        BY <1>3, <2>2, DoneMoves
    <2>3. QED  BY <2>1, <2>2
<1> HIDE DEF x
<1>8. QED
    BY <1>1, <1>4, <1>5, <1>6, <1>7, MoveKeeps DEF CommandsInv, TypeOK, files

LEMMA RemovePendingTypes ==
    ASSUME CommandsInv, NEW t \in Terminals, RemovePending(t) PROVE CommandsInv'
<1>0. run[t] \in Locals /\ located(run[t]) /\ run[t].pc = "remove"
    BY DEF CommandsInv, TypeOK, RemovePending, At
<1>1. /\ Exit(t)
      /\ UNCHANGED <<key_file, server, seeds, stored, approved, overlapped>>
    BY DEF RemovePending, history
<1>2. run[t].id \in Ids
    BY <1>0 DEF located
<1>3. EverySignatureApproved' /\ pending' \in [Ids -> Delegations \cup {None, Partial}]
    <2>1. CASE pending' = [pending EXCEPT ![run[t].id] = None]
        BY <1>1, <1>2, <2>1, PendingApproved DEF server
    <2>2. CASE pending' = pending
        BY <1>1, <2>2, QuietApproved DEF server, CommandsInv, TypeOK
    <2>3. QED  BY <2>1, <2>2 DEF RemovePending
<1>4. grows
    BY <1>1, QuietGrows DEF server
<1>5. moves(t, Done)
    BY <1>1, DoneMoves
<1>6. QED
    BY <1>1, <1>3, <1>4, <1>5, MoveKeeps DEF CommandsInv, TypeOK, server

\* What happens outside the commands: nothing of theirs changes but the key file
\* and the server's view.
LEMMA OutsideTypes ==
    ASSUME CommandsInv, run' = run, pending' = pending, paired' = paired,
           approved' = approved, seeds' = seeds, stored' = stored, overlapped' = overlapped,
           key_file' \in Keys \cup {None, Partial},
           principal' \in 1 .. MaxSeeds \cup {None, Elsewhere},
           requests' \in [Ids -> PairingRequests \cup {None}]
    PROVE  CommandsInv'
<1>1. EverySignatureApproved'
    BY QuietApproved
<1>2. \A t \in Terminals : located(run[t])'
    BY DEF CommandsInv, located, shown
<1>3. QED  BY <1>1, <1>2 DEF CommandsInv, TypeOK

LEMMA CommandsStep ==
    ASSUME CommandsInv, [Next]_vars PROVE CommandsInv'
<1>1. ASSUME NEW t \in Terminals, KeyStep(t) PROVE CommandsInv'
    BY <1>1, KeyStepTypes
<1>2. ASSUME NEW t \in Terminals, PairingStep(t) PROVE CommandsInv'
    BY <1>2, SignTypes, FinalizeTypes, ConfirmTypes, UnlockToSignTypes, IssueTypes,
       OpenPendingTypes, WritePendingTypes, SubmitTypes, RemovePendingTypes DEF PairingStep
<1>3. ASSUME NEW t \in Terminals, Crash(t) PROVE CommandsInv'
    <2>1. /\ Exit(t) /\ UNCHANGED <<files, server, seeds>> /\ UNCHANGED <<stored, approved>>
          /\ overlapped' \in BOOLEAN
        BY <1>3 DEF Crash, history, CommandsInv, TypeOK
    <2>2. QED  BY <2>1, DoneMoves, MoveOnly
<1>4. CASE RemoveKeyFile
    BY <1>4, OutsideTypes DEF RemoveKeyFile, server, history, CommandsInv, TypeOK
<1>5. CASE RegisterElsewhere
    BY <1>5, OutsideTypes DEF RegisterElsewhere, files, history, CommandsInv, TypeOK
<1>6. ASSUME NEW id \in Ids, NEW r \in PairingRequests \cup {None}, ChangeRequest(id, r)
      PROVE  CommandsInv'
    BY <1>6, OutsideTypes DEF ChangeRequest, files, history, CommandsInv, TypeOK
<1>7. CASE UNCHANGED vars
    BY <1>7, OutsideTypes DEF vars, files, server, history, CommandsInv, TypeOK
<1>8. QED
    BY <1>1, <1>2, <1>3, <1>4, <1>5, <1>6, <1>7 DEF Next

LEMMA CommandsInit ==
    ASSUME Init PROVE CommandsInv
<1>1. Done \in Locals /\ Done.pc = "done"
    BY BoundsAssumption DEF Done, Locals, Pcs
<1>2. located(Done)
    BY <1>1 DEF located
<1>3. /\ stored = {} /\ seeds = 0 /\ 0 \in 0 .. MaxSeeds
    BY BoundsAssumption DEF Init
<1>4. QED
    BY <1>1, <1>2, <1>3 DEF Init, CommandsInv, TypeOK, EverySignatureApproved

LEMMA CommandsInvariant == Spec => []CommandsInv
<1>1. CommandsInv /\ [Next]_vars => CommandsInv'
    BY CommandsStep
<1>2. QED  BY <1>1, CommandsInit, PTL DEF Spec

\* main.rs, pairing sign: "Sign a Delegation for this device with exactly these
\* parameters?".  Whatever is saved or was accepted shows the lines that were
\* confirmed for its id, however the server's requests change, the terminals'
\* commands interleave and calls fail.
THEOREM SignaturesAreApproved == Spec => []EverySignatureApproved
<1>1. CommandsInv => EverySignatureApproved
    BY DEF CommandsInv
<1>2. QED  BY <1>1, CommandsInvariant, PTL

\* A step can take a saved delegation away only where remove_file follows the
\* server's acceptance.
LEMMA SavedStep ==
    ASSUME CommandsInv, [Next]_vars, NEW id \in Ids, pending[id] # None, pending'[id] = None
    PROVE  \E x \in paired : x.id = id
<1>0. pending \in [Ids -> Delegations \cup {None, Partial}]
    BY DEF CommandsInv, TypeOK
<1>1. pending' # pending
    OBVIOUS
<1>2. PICK t \in Terminals : OpenPending(t) \/ WritePending(t) \/ RemovePending(t)
    BY <1>1 DEF Next, KeyStep, KeyInit, Choose, OpenKeyFile, WriteKeyFile, LookupPrincipal, Unlock,
        RegisterPrincipal, PairingStep, PairingSign, Confirm, UnlockToSign, Issue, PairingFinalize,
        Submit, Crash, RemoveKeyFile, RegisterElsewhere, ChangeRequest, vars, files
<1>3. located(run[t])
    BY DEF CommandsInv
<1>4. ~OpenPending(t)
    BY <1>0, NamesAssumption DEF OpenPending
<1>5. CASE WritePending(t)
    <2>1. run[t].jws \in Delegations
        BY <1>3, <1>5 DEF located, WritePending, At
    <2>2. run[t].jws # None
        BY <2>1, FilesAssumption
    <2>3. CASE run[t].id = id
        BY <1>0, <1>5, <2>2, <2>3, NamesAssumption DEF WritePending
    <2>4. CASE run[t].id # id
        BY <1>0, <1>5, <2>4 DEF WritePending
    <2>5. QED  BY <2>3, <2>4
<1>6. CASE RemovePending(t)
    <2>1. \E x \in paired : x.id = run[t].id
        BY <1>3, <1>6 DEF located, RemovePending, At
    <2>2. run[t].id = id
        BY <1>0, <1>6 DEF RemovePending
    <2>3. QED  BY <2>1, <2>2
<1>7. QED  BY <1>2, <1>4, <1>5, <1>6

\* main.rs, pairing finalize: "The signed delegation is still saved".  However
\* commands are interrupted or overlap, a saved delegation goes away only once
\* the server has accepted one for its id.
THEOREM DelegationsAreSavedUntilAccepted == Spec => SavedUntilAccepted
<1>1. CommandsInv /\ [Next]_vars =>
        [\A id \in Ids : pending[id] # None /\ pending'[id] = None =>
            \E x \in paired : x.id = id]_vars
    BY SavedStep
<1>2. QED  BY <1>1, CommandsInvariant, PTL DEF Spec, SavedUntilAccepted

-----------------------------------------------------------------------------
\* While no two terminals have been storing a key at once.
KeyInv == ~overlapped => OneCreator /\ NeverOverwritten /\ RegisteredKeyIsHeld

held(seed) == key_file \notin {None, Partial} /\ key_file.seed = seed

\* A step that leaves the file alone, of a terminal that is storing no key.
LEMMA KeyQuiet ==
    ASSUME CommandsInv, KeyInv, NEW t \in Terminals, NEW d,
           run' = [run EXCEPT ![t] = d],
           d.pc \notin {"open_key", "write_key"},
           d.pc = "register" => held(d.seed),
           ~overlapped => principal' = principal \/ held(principal'),
           key_file' = key_file, stored' = stored, overlapped' = overlapped
    PROVE  KeyInv'
<1> SUFFICES ASSUME ~overlapped
             PROVE  OneCreator' /\ NeverOverwritten' /\ RegisteredKeyIsHeld'
    BY DEF KeyInv
<1>1. OneCreator /\ NeverOverwritten /\ RegisteredKeyIsHeld
    BY DEF KeyInv
<1>2. run'[t] = d /\ \A u \in Terminals : u # t => run'[u] = run[u]
    BY DEF CommandsInv, TypeOK
<1>3. \A u, v \in Terminals : Storing(u)' /\ Storing(v)' => u = v
    BY <1>1, <1>2 DEF OneCreator, Storing
<1>4. ASSUME NEW u \in Terminals
      PROVE  /\ At(u, "open_key")' => key_file' = None
             /\ At(u, "write_key")' => key_file' = Partial
             /\ At(u, "register")' =>
                    key_file' \notin {None, Partial} /\ key_file'.seed = run'[u].seed
    BY <1>1, <1>2 DEF OneCreator, At, held
<1>5. OneCreator'
    BY <1>3, <1>4 DEF OneCreator
<1>6. NeverOverwritten'
    BY <1>1 DEF NeverOverwritten
<1>7. RegisteredKeyIsHeld'
    BY <1>1 DEF RegisteredKeyIsHeld, held
<1>8. QED  BY <1>5, <1>6, <1>7

\* A terminal that is done, looks the principal up or pairs: its command makes no key.
quiet(d) == d.pc \in Pcs \ {"open_key", "write_key", "register"}

LEMMA PairingQuiet ==
    ASSUME CommandsInv, NEW t \in Terminals, PairingStep(t) \/ Crash(t)
    PROVE  /\ \E d : run' = [run EXCEPT ![t] = d] /\ quiet(d)
           /\ UNCHANGED <<key_file, principal, stored, overlapped>>
<1>0. run[t] \in Locals /\ run \in [Terminals -> Locals]
    BY DEF CommandsInv, TypeOK
<1>1. UNCHANGED <<key_file, principal, stored, overlapped>>
    BY DEF PairingStep, PairingSign, Confirm, UnlockToSign, Issue, OpenPending, WritePending,
           PairingFinalize, Submit, finalize_pairing, RemovePending, Crash, files, server, history
<1> SUFFICES \E d : run' = [run EXCEPT ![t] = d] /\ quiet(d)
    BY <1>1
<1>2. ASSUME Exit(t) PROVE \E d : run' = [run EXCEPT ![t] = d] /\ quiet(d)
    <2>1. Done.pc = "done"
        BY DEF Done
    <2>2. QED  BY <1>2, <2>1 DEF Exit, quiet, Pcs
<1>3. ASSUME NEW pc \in Pcs \ {"open_key", "write_key", "register"}, Goto(t, pc)
      PROVE  \E d : run' = [run EXCEPT ![t] = d] /\ quiet(d)
    BY <1>3, GotoMoves DEF quiet
<1>4. ASSUME run' = run, At(t, "done") PROVE \E d : run' = [run EXCEPT ![t] = d] /\ quiet(d)
    <2>1. run' = [run EXCEPT ![t] = run[t]] /\ quiet(run[t])
        BY <1>0, <1>4 DEF At, quiet, Pcs
    <2>2. QED  BY <2>1
<1>5. ASSUME NEW id \in Ids, PairingSign(t, id)
      PROVE  \E d : run' = [run EXCEPT ![t] = d] /\ quiet(d)
    <2>1. PICK r : \/ run' = run
                   \/ run' = [run EXCEPT ![t].pc = "confirm", ![t].id = id, ![t].request = r]
        BY <1>5 DEF PairingSign
    <2>2. CASE run' = run
        BY <1>4, <1>5, <2>2 DEF PairingSign, Start
    <2>3. CASE run' = [run EXCEPT ![t].pc = "confirm", ![t].id = id, ![t].request = r]
        <3> DEFINE e == [run[t] EXCEPT !.pc = "confirm", !.id = id, !.request = r]
        <3>1. run' = [run EXCEPT ![t] = e] /\ e.pc = "confirm"
            BY <1>0, <2>3 DEF Locals
        <3> HIDE DEF e
        <3>2. QED  BY <3>1 DEF quiet, Pcs
    <2>4. QED  BY <2>1, <2>2, <2>3
<1>6. ASSUME NEW id \in Ids, PairingFinalize(t, id)
      PROVE  \E d : run' = [run EXCEPT ![t] = d] /\ quiet(d)
    <2>1. CASE run' = run
        BY <1>4, <1>6, <2>1 DEF PairingFinalize, Start
    <2>2. CASE run' = [run EXCEPT ![t].pc = "submit", ![t].id = id, ![t].jws = pending[id]]
        <3> DEFINE e == [run[t] EXCEPT !.pc = "submit", !.id = id, !.jws = pending[id]]
        <3>1. run' = [run EXCEPT ![t] = e] /\ e.pc = "submit"
            BY <1>0, <2>2 DEF Locals
        <3> HIDE DEF e
        <3>2. QED  BY <3>1 DEF quiet, Pcs
    <2>3. QED  BY <1>6, <2>1, <2>2 DEF PairingFinalize
<1>7. ASSUME NEW p \in Passphrases, UnlockToSign(t, p)
      PROVE  \E d : run' = [run EXCEPT ![t] = d] /\ quiet(d)
    <2>1. CASE run' = [run EXCEPT ![t].pc = "issue", ![t].seed = load(p)]
        <3> DEFINE e == [run[t] EXCEPT !.pc = "issue", !.seed = load(p)]
        <3>1. run' = [run EXCEPT ![t] = e] /\ e.pc = "issue"
            BY <1>0, <2>1 DEF Locals
        <3> HIDE DEF e
        <3>2. QED  BY <3>1 DEF quiet, Pcs
    <2>2. QED  BY <1>2, <1>7, <2>1 DEF UnlockToSign
<1>8. CASE Issue(t)
    <2>1. PICK j : Exit(t) \/ run' = [run EXCEPT ![t].pc = "open_jws", ![t].jws = j]
        BY <1>8 DEF Issue
    <2>2. CASE run' = [run EXCEPT ![t].pc = "open_jws", ![t].jws = j]
        <3> DEFINE e == [run[t] EXCEPT !.pc = "open_jws", !.jws = j]
        <3>1. run' = [run EXCEPT ![t] = e] /\ e.pc = "open_jws"
            BY <1>0, <2>2 DEF Locals
        <3> HIDE DEF e
        <3>2. QED  BY <3>1 DEF quiet, Pcs
    <2>3. QED  BY <1>2, <2>1, <2>2
<1>9. CASE Confirm(t)
    BY <1>2, <1>3, <1>9 DEF Confirm, Pcs
<1>10. CASE OpenPending(t)
    BY <1>3, <1>10 DEF OpenPending, Pcs
<1>11. CASE WritePending(t) \/ RemovePending(t) \/ Crash(t)
    BY <1>2, <1>11 DEF WritePending, RemovePending, Crash
<1>12. CASE Submit(t)
    BY <1>2, <1>3, <1>12 DEF Submit, Pcs
<1>13. QED
    BY <1>5, <1>6, <1>7, <1>8, <1>9, <1>10, <1>11, <1>12 DEF PairingStep

\* The steps of `key init` that touch the file or its creation.
LEMMA KeyInitKept ==
    ASSUME CommandsInv, KeyInv, NEW t \in Terminals, KeyInit(t) PROVE KeyInv'
<1>0. run \in [Terminals -> Locals] /\ overlapped \in BOOLEAN
    BY DEF CommandsInv, TypeOK
<1>1. UNCHANGED <<key_file, principal, stored, overlapped>>
    BY DEF KeyInit, files, server, history
<1>2. Goto(t, "lookup") \/ Goto(t, "choose")
    BY DEF KeyInit
<1>3. PICK d \in Locals : run' = [run EXCEPT ![t] = d] /\ d.pc \in {"lookup", "choose"}
    BY <1>2, GotoMoves DEF Pcs
<1>4. QED  BY <1>1, <1>3, KeyQuiet

LEMMA ChooseKept ==
    ASSUME CommandsInv, KeyInv, NEW t \in Terminals, NEW p \in Passphrases, NEW q \in Passphrases,
           Choose(t, p, q)
    PROVE  KeyInv'
<1>0. run \in [Terminals -> Locals] /\ run[t] \in Locals /\ overlapped \in BOOLEAN
    BY DEF CommandsInv, TypeOK
<1>1. UNCHANGED <<key_file, principal, stored>> /\ At(t, "choose")
    BY DEF Choose, files, server
<1>2. CASE Exit(t) /\ UNCHANGED overlapped
    <2>1. run' = [run EXCEPT ![t] = Done] /\ Done.pc = "done"
        BY <1>2 DEF Exit, Done
    <2>2. QED  BY <1>1, <1>2, <2>1, KeyQuiet
<1>3. CASE /\ key_file = None
           /\ overlapped' = (overlapped \/ \E u \in Terminals : Storing(u))
           /\ run' = [run EXCEPT ![t].pc = "open_key", ![t].passphrase = p, ![t].seed = seeds + 1]
    <2> SUFFICES ASSUME ~overlapped' PROVE OneCreator' /\ NeverOverwritten' /\ RegisteredKeyIsHeld'
        BY DEF KeyInv
    <2>0. ~overlapped /\ \A u \in Terminals : ~Storing(u)
        BY <1>0, <1>3
    <2>1. OneCreator /\ NeverOverwritten /\ RegisteredKeyIsHeld
        BY <2>0 DEF KeyInv
    <2>2. run'[t].pc = "open_key" /\ \A u \in Terminals : u # t => run'[u] = run[u]
        BY <1>0, <1>3 DEF Locals
    <2>3. \A u, v \in Terminals : Storing(u)' /\ Storing(v)' => u = v
        BY <2>0, <2>2 DEF Storing
    <2>4. ASSUME NEW u \in Terminals PROVE ~At(u, "write_key")' /\ ~At(u, "register")'
        <3>1. CASE u = t
            BY <2>2, <3>1 DEF At
        <3>2. CASE u # t
            BY <1>3, <2>1, <2>2, <3>2, NamesAssumption DEF At, OneCreator
        <3>3. QED  BY <3>1, <3>2
    <2>5. OneCreator'
        BY <1>1, <1>3, <2>3, <2>4 DEF OneCreator
    <2>6. NeverOverwritten' /\ RegisteredKeyIsHeld'
        BY <1>1, <2>1 DEF NeverOverwritten, RegisteredKeyIsHeld
    <2>7. QED  BY <2>5, <2>6
<1>4. QED  BY <1>2, <1>3 DEF Choose, generate_and_store, make_key, key_exists

\* No key was written or registered yet if there is none in the file.
LEMMA NoKeyYet ==
    ASSUME NeverOverwritten, RegisteredKeyIsHeld, key_file \in {None, Partial}
    PROVE  stored = {} /\ principal \in {None, Elsewhere}
BY DEF NeverOverwritten, RegisteredKeyIsHeld

LEMMA OpenKeyFileKept ==
    ASSUME CommandsInv, KeyInv, NEW t \in Terminals, OpenKeyFile(t) PROVE KeyInv'
<1>0. run \in [Terminals -> Locals] /\ run[t] \in Locals
    BY DEF CommandsInv, TypeOK
<1>1. /\ UNCHANGED <<principal, stored, overlapped>> /\ At(t, "open_key")
      /\ key_file' = Partial /\ run' = [run EXCEPT ![t].pc = "write_key"]
    BY DEF OpenKeyFile, server, history, Goto
<1> SUFFICES ASSUME ~overlapped PROVE OneCreator' /\ NeverOverwritten' /\ RegisteredKeyIsHeld'
    BY <1>1 DEF KeyInv
<1>2. OneCreator /\ NeverOverwritten /\ RegisteredKeyIsHeld
    BY DEF KeyInv
<1>3. key_file = None
    BY <1>1, <1>2 DEF OneCreator
<1>4. stored = {} /\ principal \in {None, Elsewhere}
    BY <1>2, <1>3, NoKeyYet
<1>5. run'[t].pc = "write_key" /\ \A u \in Terminals : u # t => run'[u] = run[u]
    BY <1>0, <1>1 DEF Locals
<1>6. \A u \in Terminals : u # t => ~Storing(u)
    BY <1>1, <1>2 DEF Storing, At, OneCreator
<1>7. \A u, v \in Terminals : Storing(u)' /\ Storing(v)' => u = v
    BY <1>5, <1>6 DEF Storing
<1>8. ASSUME NEW u \in Terminals
      PROVE  ~At(u, "open_key")' /\ ~At(u, "register")'
    <2>1. CASE u = t
        BY <1>5, <2>1 DEF At
    <2>2. CASE u # t
        BY <1>2, <1>3, <1>5, <1>6, <2>2 DEF At, OneCreator, Storing
    <2>3. QED  BY <2>1, <2>2
<1>9. OneCreator'
    BY <1>1, <1>7, <1>8 DEF OneCreator
<1>10. NeverOverwritten' /\ RegisteredKeyIsHeld'
    BY <1>1, <1>4 DEF NeverOverwritten, RegisteredKeyIsHeld
<1>11. QED  BY <1>9, <1>10

LEMMA WriteKeyFileKept ==
    ASSUME CommandsInv, KeyInv, NEW t \in Terminals, WriteKeyFile(t) PROVE KeyInv'
<1> DEFINE key == [seed |-> run[t].seed, passphrase |-> run[t].passphrase]
<1>0. run \in [Terminals -> Locals] /\ run[t] \in Locals /\ located(run[t])
    BY DEF CommandsInv, TypeOK
<1>1. /\ UNCHANGED <<principal, overlapped>> /\ At(t, "write_key")
      /\ key_file' = key /\ run' = [run EXCEPT ![t] = [Done EXCEPT !.pc = "lookup"]]
      /\ stored' = stored \cup {run[t].seed}
    BY DEF WriteKeyFile, server
<1> SUFFICES ASSUME ~overlapped PROVE OneCreator' /\ NeverOverwritten' /\ RegisteredKeyIsHeld'
    BY <1>1 DEF KeyInv
<1>2. OneCreator /\ NeverOverwritten /\ RegisteredKeyIsHeld
    BY DEF KeyInv
<1>3. key_file = Partial
    BY <1>1, <1>2 DEF OneCreator
<1>4. stored = {} /\ principal \in {None, Elsewhere}
    BY <1>2, <1>3, NoKeyYet
<1>5. key \notin {None, Partial} /\ key.seed = run[t].seed
    <2>1. run[t].passphrase \in Passphrases /\ run[t].seed \in 1 .. seeds
        BY <1>0, <1>1 DEF located, At
    <2>2. run[t].seed \in 1 .. MaxSeeds
        BY <2>1, BoundsAssumption DEF CommandsInv, TypeOK
    <2>3. key \in Keys
        BY <2>1, <2>2 DEF Keys
    <2>4. QED  BY <2>3, FilesAssumption
<1> HIDE DEF key
<1>6. run'[t].pc = "lookup" /\ \A u \in Terminals : u # t => run'[u] = run[u]
    BY <1>0, <1>1 DEF Done
<1>7. \A u \in Terminals : u # t => ~Storing(u)
    BY <1>1, <1>2 DEF Storing, At, OneCreator
<1>8. \A u \in Terminals : ~Storing(u)'
    BY <1>6, <1>7 DEF Storing
<1>9. ASSUME NEW u \in Terminals PROVE ~At(u, "register")'
    <2>1. CASE u = t
        BY <1>6, <2>1 DEF At
    <2>2. CASE u # t
        BY <1>2, <1>3, <1>6, <2>2 DEF At, OneCreator
    <2>3. QED  BY <2>1, <2>2
<1>10. OneCreator'
    BY <1>8, <1>9 DEF OneCreator, Storing, At
<1>11. NeverOverwritten' /\ RegisteredKeyIsHeld'
    BY <1>1, <1>4, <1>5 DEF NeverOverwritten, RegisteredKeyIsHeld
<1>12. QED  BY <1>10, <1>11

LEMMA KeyStepKept ==
    ASSUME CommandsInv, KeyInv, NEW t \in Terminals, KeyStep(t) PROVE KeyInv'
<1>0. run \in [Terminals -> Locals] /\ run[t] \in Locals
    BY DEF CommandsInv, TypeOK
<1>1. CASE LookupPrincipal(t)
    <2>1. UNCHANGED <<key_file, principal, stored, overlapped>> /\ (Exit(t) \/ Goto(t, "unlock"))
        BY <1>1 DEF LookupPrincipal, files, server, history
    <2>2. PICK d : run' = [run EXCEPT ![t] = d] /\ d.pc \in {"done", "unlock"}
        <3>1. Done.pc = "done"
            BY DEF Done
        <3>2. QED  BY <2>1, <3>1, GotoMoves DEF Exit, Pcs
    <2>3. QED  BY <2>1, <2>2, KeyQuiet
<1>2. ASSUME NEW p \in Passphrases, Unlock(t, p) PROVE KeyInv'
    <2>1. UNCHANGED <<key_file, principal, stored, overlapped>>
        BY <1>2 DEF Unlock, files, server, history
    <2>2. CASE load(p) = None
        <3>1. run' = [run EXCEPT ![t] = Done] /\ Done.pc = "done"
            BY <1>2, <2>2 DEF Unlock, Exit, Done
        <3>2. QED  BY <2>1, <3>1, KeyQuiet
    <2>3. CASE load(p) # None
        <3> DEFINE e == [run[t] EXCEPT !.pc = "register", !.seed = load(p)]
        <3>1. run' = [run EXCEPT ![t] = e] /\ e.pc = "register" /\ e.seed = load(p)
            BY <1>0, <1>2, <2>3 DEF Unlock, Locals
        <3>2. held(load(p))
            BY <2>3, LoadedKey DEF held
        <3> HIDE DEF e
        <3>3. PICK d : run' = [run EXCEPT ![t] = d] /\ d.pc = "register" /\ held(d.seed)
            BY <3>1, <3>2
        <3>4. QED  BY <2>1, <3>3, KeyQuiet
    <2>4. QED  BY <2>2, <2>3
<1>3. CASE RegisterPrincipal(t)
    <2>1. /\ UNCHANGED <<key_file, stored, overlapped>> /\ At(t, "register")
          /\ principal' \in {principal, run[t].seed}
          /\ run' = [run EXCEPT ![t] = Done]
        BY <1>3 DEF RegisterPrincipal, register_principal, files, history, Exit
    <2>2. ~overlapped => held(run[t].seed)
        BY <2>1 DEF KeyInv, OneCreator, held
    <2>3. Done.pc = "done"
        BY DEF Done
    <2>4. ~overlapped => principal' = principal \/ held(principal')
        BY <2>1, <2>2
    <2>5. QED  BY <2>1, <2>3, <2>4, KeyQuiet
<1>4. QED
    BY <1>1, <1>2, <1>3, KeyInitKept, ChooseKept, OpenKeyFileKept, WriteKeyFileKept DEF KeyStep

\* Outside the commands: a file that holds no key is removed, another machine's
\* key is registered, requests change.
LEMMA OutsideKept ==
    ASSUME CommandsInv, KeyInv, run' = run, stored' = stored, overlapped' = overlapped,
           principal' \in {principal, Elsewhere},
           \/ key_file' = key_file
           \/ /\ key_file = Partial /\ key_file' = None /\ principal' = principal
              /\ \A t \in Terminals : ~Storing(t)
    PROVE  KeyInv'
<1> SUFFICES ASSUME ~overlapped PROVE OneCreator' /\ NeverOverwritten' /\ RegisteredKeyIsHeld'
    BY DEF KeyInv
<1>1. OneCreator /\ NeverOverwritten /\ RegisteredKeyIsHeld
    BY DEF KeyInv
<1>2. CASE key_file' = key_file
    BY <1>1, <1>2 DEF OneCreator, NeverOverwritten, RegisteredKeyIsHeld, Storing, At
<1>3. CASE /\ key_file = Partial /\ key_file' = None /\ principal' = principal
           /\ \A t \in Terminals : ~Storing(t)
    <2>1. stored = {} /\ principal \in {None, Elsewhere}
        BY <1>1, <1>3, NoKeyYet
    <2>2. \A t \in Terminals : ~At(t, "register")
        BY <1>1, <1>3 DEF OneCreator
    <2>3. OneCreator'
        BY <1>3, <2>2 DEF OneCreator, Storing, At
    <2>4. QED  BY <1>3, <2>1, <2>3 DEF NeverOverwritten, RegisteredKeyIsHeld
<1>4. QED  BY <1>2, <1>3

LEMMA KeyStays ==
    ASSUME CommandsInv, KeyInv, [Next]_vars PROVE KeyInv'
<1>1. ASSUME NEW t \in Terminals, KeyStep(t) PROVE KeyInv'
    BY <1>1, KeyStepKept
<1>2. ASSUME NEW t \in Terminals, PairingStep(t) \/ Crash(t) PROVE KeyInv'
    <2>1. /\ \E d : run' = [run EXCEPT ![t] = d] /\ quiet(d)
          /\ UNCHANGED <<key_file, principal, stored, overlapped>>
        BY <1>2, PairingQuiet
    <2>2. PICK d : run' = [run EXCEPT ![t] = d] /\ quiet(d)
        BY <2>1
    <2>3. d.pc \notin {"open_key", "write_key"} /\ d.pc # "register"
        BY <2>2 DEF quiet
    <2>4. QED  BY <2>1, <2>2, <2>3, KeyQuiet
<1>3. CASE RemoveKeyFile
    BY <1>3, OutsideKept DEF RemoveKeyFile, server, history
<1>4. CASE RegisterElsewhere
    BY <1>4, OutsideKept DEF RegisterElsewhere, files, history
<1>5. ASSUME NEW id \in Ids, NEW r \in PairingRequests \cup {None}, ChangeRequest(id, r)
      PROVE  KeyInv'
    BY <1>5, OutsideKept DEF ChangeRequest, files, history
<1>6. CASE UNCHANGED vars
    BY <1>6, OutsideKept DEF vars, files, server, history
<1>7. QED
    BY <1>1, <1>2, <1>3, <1>4, <1>5, <1>6 DEF Next

\* main.rs: "never overwrites an existing key"; keystore.rs: "this file is the
\* only copy of a key".  As long as no two terminals are at once past their last
\* look for the file and still writing it, a key that was written stays in the file and what was registered can be loaded from
\* it, wherever a command is interrupted; and every command holds what it read,
\* made or was told by the place it has come to.
THEOREM AdminInvariant == Spec => []AdminInv
<1>1. Init => KeyInv
    <2>1. Done.pc = "done"
        BY DEF Done
    <2>2. QED
        BY <2>1 DEF Init, KeyInv, OneCreator, NeverOverwritten, RegisteredKeyIsHeld, Storing, At
<1>2. CommandsInv /\ KeyInv /\ [Next]_vars => KeyInv'
    BY KeyStays
<1>3. CommandsInv /\ KeyInv => AdminInv
    BY DEF CommandsInv, KeyInv, AdminInv, KeyIsKept
<1>4. QED  BY <1>1, <1>2, <1>3, CommandsInvariant, PTL DEF Spec
=============================================================================
