------------------------------ MODULE MCEngine ------------------------------
(***************************************************************************)
(* Instances of Engine for TLC.                                            *)
(***************************************************************************)
EXTENDS Engine

Body(inputs, draws, labels) == [inputs |-> inputs, draws |-> draws, labels |-> labels]
Need(label, share)          == [label |-> label, share |-> share]
Ask(m, b, requirements, shrinks, kinds) ==
  [mode |-> m, body |-> b, known |-> kinds,
   settings |-> [requirements |-> requirements, shrinks |-> shrinks]]

\* Bodies that draw nothing, and bodies of one, of a few and of many inputs.
Fixed(labels) == Body(1, FALSE, labels)
One(labels)   == Body(1, TRUE, labels)
Few(labels)   == Body(3, TRUE, labels)
Many(labels)  == Body(99, TRUE, labels)

MCKnown == {<<>>, <<"trace", "stored">>, <<"values", "stored", "stored">>}

\* A run without requirements or with a share that few cases meet, or refute.
MCRuns ==
  {Ask("run", b, r, shrinks, <<>>) :
     b \in {Fixed({"a"}), One({"a"}), Few({"a"}), Many({"a"})},
     r \in {<<>>, <<Need("a", 5)>>, <<Need("a", 95)>>}, shrinks \in {TRUE}}
  \cup {Ask("run", Few({"a", "b"}), <<Need("a", 95), Need("b", 5)>>, TRUE, <<>>)}
  \cup {Ask("run", Few({}), <<>>, shrinks, kinds) : shrinks \in BOOLEAN, kinds \in MCKnown}

\* The modes that stop after their known cases.
MCReplays ==
  {Ask(m, b, <<>>, shrinks, kinds) :
     m \in {"stored", "token", "fuzz"}, b \in {Fixed({}), Few({"a"})},
     shrinks \in BOOLEAN, kinds \in MCKnown}

MCCampaigns ==
  {Ask("campaign", b, <<>>, TRUE, kinds) : b \in {Fixed({"a"}), Many({"a", "b"})}, kinds \in {<<>>}}
  \cup {Ask("campaign", Many({"a"}), <<Need("a", 95)>>, TRUE, <<>>)}
  \cup {Ask("campaign", Many({}), <<>>, shrinks, kinds) : shrinks \in BOOLEAN, kinds \in MCKnown}

MCStarts == MCRuns \cup MCReplays \cup MCCampaigns

MCChecks == <<1, 2, 4>>
=============================================================================
