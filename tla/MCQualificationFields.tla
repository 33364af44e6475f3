------------------------ MODULE MCQualificationFields ------------------------
(* Instances of QualificationFields for TLC: answers that differ in one     *)
(* respect at a time.                                                       *)
EXTENDS QualificationFields, TLC

Blank ==
    [keys |-> DomainFields,
     value |-> [f \in DomainFields |-> IF f \in ListFields THEN <<>> ELSE Null],
     evidence |-> <<>>,
     notFound |-> {}]

Proof(f, grounded) == [field |-> f, grounded |-> grounded]

Type == "award_cutline_type"
Cutline == "award_cutline_value"

ListsOfProof(f) == {<<>>, <<Proof(f, TRUE)>>, <<Proof(f, FALSE)>>}

\* The award line, with and without evidence, the type also under not_found.
Cutlines(evidences) ==
    {[Blank EXCEPT !.value = [@ EXCEPT ![Type] = t, ![Cutline] = v],
                   !.evidence = e, !.notFound = n] :
        t \in {Null, "a", "b"}, v \in {Null, "a", "b", Odd},
        e \in evidences, n \in {{}, {Type}}}

Proven == {<<Proof(Type, TRUE), Proof(Cutline, TRUE)>>}

Doubtful ==
    Proven \union {<<Proof(Type, FALSE), Proof(Cutline, TRUE)>>, <<Proof(Type, TRUE)>>,
                   <<Proof(Null, TRUE), Proof(Type, TRUE)>>,
                   <<Proof(Null, FALSE), Proof(Type, TRUE)>>}

\* Answers the validation rejects, and one Boolean.
Malformed ==
    {[Blank EXCEPT !.keys = @ \ {Type}]}
    \union {[Blank EXCEPT !.value["joint_venture_allowed"] = v,
                          !.evidence = <<Proof("joint_venture_allowed", TRUE)>>] :
                v \in {"a", Odd}}

\* A Boolean that documents differ on.
Ventures ==
    {[Blank EXCEPT !.value["joint_venture_allowed"] = v, !.evidence = e] :
        v \in {Null, "a", "b"},
        e \in ListsOfProof("joint_venture_allowed")}

ListsUpTo(items, n) == UNION {[1..k -> items] : k \in 0..n}

WithList(f, items, n) ==
    {[Blank EXCEPT !.value[f] = list, !.evidence = <<Proof(f, TRUE)>>] :
        list \in ListsUpTo(items, n)}

Licenses == [name : {"a", "b", "c"}, group : {1, 2, Null}] \union {Odd}
Objects == [key : {"k", "l"}, rest : {"a", "b"}] \union {Odd, [key |-> Odd, rest |-> "a"]}

Some ==
    [1..2 -> Cutlines(Doubtful)] \union [1..3 -> Cutlines(Proven)]
    \union [1..2 -> Malformed] \union [1..3 -> Ventures]
    \union [1..2 -> WithList("required_licenses", Licenses, 2)]
    \union [1..3 -> WithList("required_licenses", Licenses, 1)]
    \union [1..2 -> WithList("performance_reqs", Objects, 2)]
    \union [1..3 -> WithList("performance_reqs", Objects, 1)]
    \union [1..3 -> WithList("required_certs", {"a", "b"}, 2)]

Widths == ("a" :> 1) @@ ("b" :> 2) @@ (Odd :> 3)

TwoLicences == [1..2 -> WithList("required_licenses", Licenses, 2)]

===============================================================================
