-------------------------- MODULE MCContentRelease --------------------------
(* Sources, builds and their records for the TLC run over ContentRelease. *)
EXTENDS ContentRelease, TLC

CONSTANTS a, b, a1, a2, b1, p1, p2

Doc(p) == [kind |-> "document", path |-> p]
Asset(p) == [kind |-> "asset", path |-> p]
Relation(p) == [kind |-> "relation", path |-> p]

MCSourceOf == a1 :> a @@ a2 :> a @@ b1 :> b

\* The second build of a moves to the path that b wants, where b has a document and
\* an asset: it may be frozen with one of them only.
MCContent == a1 :> {Doc(p1)} @@ a2 :> {Doc(p2), Relation(p2)} @@ b1 :> {Asset(p2), Doc(p2)}

\* Two commands at once on the builds of one source, and on those of two that
\* want one path; three builds with one command at a time.
MCPlans ==
    {[releases |-> {a1, a2}, atOnce |-> 2], [releases |-> {a2, b1}, atOnce |-> 2],
     [releases |-> {a1, a2, b1}, atOnce |-> 1]}

ClientSymmetry == Permutations(Clients)
=============================================================================
