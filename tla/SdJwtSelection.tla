--------------------------- MODULE SdJwtSelection ---------------------------
(***************************************************************************)
(* SdJwtHolder with the disclosures of crates/sdjwt: the constants of that *)
(* module are given the operators of SelectiveDisclosure.                  *)
(***************************************************************************)
EXTENDS SdJwtHolder, SelectiveDisclosure

\* sdjwt.rs, conceal.rs, process.rs: whatever was selected by whom, with items
\* of arrays moving up as others go, what a reader sees of an element is what
\* was issued without the parts that are not disclosed, if every disclosure's
\* container is disclosed, and an error if not.
SelectionIsExact ==
    \A i \in DOMAIN made :
        LET m == made[i]
            v == view(elements_of[i])
            connected == \A c \in m.shown : \A d \in m.concealed : IsPrefix(d, c) => d \in m.shown
        IN  IF connected THEN v.errors = {} /\ v.claims = Without(m.claims, hidden(m), <<>>)
                         ELSE v.errors # {}
=============================================================================
