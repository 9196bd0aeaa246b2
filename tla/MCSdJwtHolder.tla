---------------------------- MODULE MCSdJwtHolder ---------------------------
(***************************************************************************)
(* A credential with a concealed object in which a member is concealed     *)
(* too, one that conceals its confirmation key, a mandate the user signs   *)
(* directly with concealed items in an array among decoys; and links with  *)
(* an open mandate, a choice of two, and a closed one.                     *)
(***************************************************************************)
EXTENDS SdJwtSelection

K(n) == Key(n)
I(i) == Index(i)

Credential(data, concealed) ==
    [form |-> "Credential", typ |-> "dc+sd-jwt", sd_alg |-> "sha-256",
     payload |-> [claims |-> Object([exp |-> Leaf(9), cnf |-> Leaf("u"), addr |-> data]),
                  concealed |-> concealed, decoys |-> {[at |-> <<>>, count |-> 1]}]]

Address == Object([street |-> Leaf("s"), zip |-> Leaf("z")])
List == Array(<<Leaf("x"), Object([y |-> Leaf("v"), w |-> Leaf("w")])>>)

Open(key, concealed, decoys) ==
    [claims |-> Object([exp |-> Leaf(9), cnf |-> Leaf(key), list |-> List]),
     concealed |-> concealed, decoys |-> decoys]

InList == {<<K("list"), I(1)>>, <<K("list"), I(2)>>, <<K("list"), I(2), K("y")>>}
Pad == {[at |-> <<K("list")>>, count |-> 1]}
Closed == [claims |-> Object([act |-> Leaf("pay")]), concealed |-> {}, decoys |-> {}]

MCRoots ==
    {Credential(Address, {<<K("addr")>>, <<K("addr"), K("street")>>}),
     Credential(Leaf("none"), {<<K("cnf")>>}),
     [form |-> "DelegatePayload", typ |-> "kb-sd-jwt+kb", sd_alg |-> "sha-256",
      payload |-> Open("u", InList, Pad)]}

MCLinkPayloads ==
    {<<Open("a", {<<K("list")>>, <<K("list"), I(1)>>}, {})>>, <<Closed>>,
     <<Open("a", {}, {}), Open("a", {<<K("list"), I(2)>>}, {})>>}
=============================================================================
