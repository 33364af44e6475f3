------------------------------ MODULE LlmSchema ------------------------------
(* What becomes of a language model's answer before it is stored            *)
(* (realtime/extractors/llm/schema.py): the fields it must have, the types  *)
(* it may have, and the values that fall for want of evidence.  One field   *)
(* stands for each kind: an enumeration, a Boolean, a list of licences, of    *)
(* objects and of names, and a value no type check covers.  A value of a type    *)
(* its field does not allow is Odd; an element of a list may be anything.   *)
EXTENDS Sequences, Integers, FiniteSets, Functions

CONSTANTS
    Null,       \* JSON null
    Odd         \* a value of another type, as a list where a number belongs

EnumFields == {"award_cutline_type"}
BoolFields == {"joint_venture_allowed"}
UncheckedFields == {"award_cutline_value"}
ScalarFields == EnumFields \union BoolFields \union UncheckedFields
ListFields == {"required_licenses", "performance_reqs", "required_certs"}
DomainFields == ScalarFields \union ListFields

\* An answer: the keys it has, a value per field (a sequence for a list), the
\* evidence by its position, each item with the field it names (Null when it names
\* none) and whether its snippet is part of the document, and not_found.
HasRequiredFields(answer) == DomainFields \subseteq answer.keys

\* parse_and_validate rejects a value of a type its field does not allow,
\* where it looks at all: numbers and free text are not looked at.
InvalidTypes(answer) ==
    \E f \in EnumFields \union BoolFields : answer.value[f] = Odd

Invalid(answer) == ~HasRequiredFields(answer) \/ InvalidTypes(answer)

KeepGrounded(evidence) ==
    Restrict(evidence, {k \in DOMAIN evidence : evidence[k].grounded})

GroundedFields(evidence) ==
    {evidence[k].field : k \in DOMAIN evidence} \ {Null}

NoValue(f) == IF f \in ListFields THEN <<>> ELSE Null

DemoteNothing(value, evidence) == value

\* A value without evidence becomes null; an empty list stays.
Demote(value, evidence) ==
    [f \in DomainFields |-> IF f \in GroundedFields(evidence) THEN value[f] ELSE NoValue(f)]

\* The fields that fall.
Demoted(value, evidence) ==
    {f \in DomainFields \ GroundedFields(evidence) : value[f] # NoValue(f)}

\* Mutated form: the values are looked at before the evidence is.
DocumentDemotedFirst(answer) ==
    LET evidence == KeepGrounded(answer.evidence)
    IN  [value |-> Demote(answer.value, evidence),
         evidence |-> evidence,
         dropped |-> Cardinality(DOMAIN answer.evidence \ DOMAIN evidence),
         demoted |-> Cardinality(Demoted(answer.value, answer.evidence)),
         notFound |-> answer.notFound]

\* The document extract_llm stores for an answer that is not Invalid.
Document(answer) ==
    LET evidence == KeepGrounded(answer.evidence)
    IN  [value |-> Demote(answer.value, evidence),
         evidence |-> evidence,
         dropped |-> Cardinality(DOMAIN answer.evidence \ DOMAIN evidence),
         demoted |-> Cardinality(Demoted(answer.value, evidence)),
         notFound |-> answer.notFound]

===============================================================================
