------------------------- MODULE MCContainerClients -------------------------
(***************************************************************************)
(* Jobs for TLC: no tag, and two, the cached tag among them or not.        *)
(* Dockerfiles of up to three instructions: two variables, one of which    *)
(* may be given by the other, references with and without tag and digest,  *)
(* to the job's own repository, to another, and to scratch.                *)
(***************************************************************************)
EXTENDS ContainerClients

MCJobs ==
  [registry : {"quay.io"}, repository : {"org/app"}, tagNames : {<<>>, <<"v1", "latest">>},
   cachedTag : {None, "latest", "old"}, pullToken : {None, "token"}]

Ref(name, tag, digest) == [name |-> name, tag |-> tag, digest |-> digest]

MCArgs == {"A", "B"}

MCRefs ==
  {Ref(Scratch, "", FALSE), Ref(<<"ubuntu">>, "22.04", FALSE),
   Ref(<<"quay.io", "org/app">>, "", FALSE), Ref(<<"ubuntu">>, "", TRUE)}

Arg(v, word) == [op |-> "ARG", key |-> v, word |-> word]
Other(op, word) == [op |-> op, key |-> "", word |-> word]

Instructions ==
  {Arg("A", NoWord), Arg("B", Variable("A")), Other("RUN", NoWord), Other("bad", NoWord)}
    \union {Arg("A", Literal(r)) : r \in MCRefs}
    \union {Other("FROM", w) : w \in Words}

MCDockerfiles == UNION {[1..n -> Instructions] : n \in 0..3}

=============================================================================
