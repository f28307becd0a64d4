----------------------------- MODULE ToolInput -----------------------------
(* What the engine makes of the arguments a model sends to a tool: aliases   *)
(* are renamed, the edit tool's spellings are gathered, and the rest is      *)
(* coerced to the tool's schema or refused.  Texts are numbers; a string may *)
(* be the JSON text of a value, and a keyword the tools do not use is left   *)
(* out.                                                                      *)
EXTENDS Integers, Sequences, FiniteSets, SequencesExt, TLC

CONSTANTS Schema,    \* the schema of the tool
          Aliases,   \* canonical name -> its accepted alternatives, in order
          Inputs     \* what the model may send

VARIABLES args,      \* the arguments as they were sent
          passed     \* what became of them: [ok, value]

inputVars == <<args, passed>>

-----------------------------------------------------------------------------
(* Values, of one shape so that any two can be compared: "in" is what a list *)
(* or a text of JSON holds, "of" the fields of an object.                    *)

Fields(f)   == [k |-> "object", n |-> 0, in |-> <<>>, of |-> f]
Plain(k, n) == [k |-> k, n |-> n, in |-> <<>>, of |-> <<>>]
Items(s)    == [k |-> "array", n |-> 0, in |-> s, of |-> <<>>]
Json(v)     == [k |-> "string", n |-> 0, in |-> <<v>>, of |-> <<>>]
Null        == Plain("null", 0)

\* A schema: no type is "", no items is <<>>, no enumeration is {}.
Typed(t) == [type |-> t, items |-> <<>>, props |-> <<>>, required |-> {}, enum |-> {}, minimum |-> -99]

With(f, name, v) == [x \in DOMAIN f \cup {name} |-> IF x = name THEN v ELSE f[x]]
Minus(f, names)  == [x \in DOMAIN f \ names |-> f[x]]
FirstOf(f, names) == SelectSeq(names, LAMBDA x : x \in DOMAIN f)
\* f with "name" given by the first of "others" it has, if it does not have it.
Renamed(f, name, others) ==
    LET found == FirstOf(f, others)
    IN  IF name \in DOMAIN f \/ found = <<>> THEN f
        ELSE With(Minus(f, {found[1]}), name, f[found[1]])

NormalizeAliases(v) ==
    IF v.k # "object" THEN v
    ELSE Fields(FoldLeft(LAMBDA f, a : Renamed(f, a.name, a.others), v.of, Aliases))

-----------------------------------------------------------------------------
(* The edit tool's shim.                                                     *)

OldNames == <<"oldText", "old_text", "old_string">>
NewNames == <<"newText", "new_text", "new_string">>

NormalizeEditEntry(e) ==
    IF e.k # "object" THEN e
    ELSE Fields(Renamed(Renamed(e.of, "oldText", Tail(OldNames)), "newText", Tail(NewNames)))

\* Edits written as text are read, if they are the text of a list.
ReadEdits(f) ==
    IF "edits" \in DOMAIN f /\ f["edits"].k = "string" /\ f["edits"].in # <<>>
       /\ f["edits"].in[1].k = "array"
    THEN With(f, "edits", f["edits"].in[1]) ELSE f

EditsOf(f) == IF "edits" \in DOMAIN f /\ f["edits"].k = "array" THEN f["edits"].in ELSE <<>>

\* mutant: a single edit takes the place of the listed ones
ReplaceEdits(f) ==
    LET old == FirstOf(f, OldNames)
        new == FirstOf(f, NewNames)
    IN  IF old = <<>> \/ new = <<>> THEN f
        ELSE With(Minus(f, ToSet(OldNames \o NewNames)), "edits",
                  Items(<<Fields("oldText" :> f[old[1]] @@ "newText" :> f[new[1]])>>))

\* A single edit beside the list is appended to it.
GatherEdits(f) ==
    LET old == FirstOf(f, OldNames)
        new == FirstOf(f, NewNames)
    IN  IF old = <<>> \/ new = <<>> THEN f
        ELSE With(Minus(f, ToSet(OldNames \o NewNames)), "edits",
                  Items(Append(EditsOf(f), Fields("oldText" :> f[old[1]] @@ "newText" :> f[new[1]]))))

CoerceEdits(v) ==
    IF v.k # "object" THEN v
    ELSE LET f == GatherEdits(ReadEdits(v.of))
         IN  Fields(IF "edits" \in DOMAIN f /\ f["edits"].k = "array"
                    THEN With(f, "edits", Items([i \in DOMAIN EditsOf(f) |-> NormalizeEditEntry(EditsOf(f)[i])]))
                    ELSE f)

-----------------------------------------------------------------------------
(* Validation.                                                               *)

SchemaRejectsNull(s) == IF s.type # "" THEN s.type # "null" ELSE s.enum # {} /\ Null \notin s.enum

RECURSIVE StripOptionalNulls(_, _)
StripOptionalNulls(s, v) ==
    IF s.props # <<>> /\ v.k = "object"
    THEN LET gone == {x \in DOMAIN s.props \cap DOMAIN v.of :
                        v.of[x] = Null /\ x \notin s.required /\ SchemaRejectsNull(s.props[x])}
         IN  Fields([x \in DOMAIN v.of \ gone |->
                        IF x \in DOMAIN s.props THEN StripOptionalNulls(s.props[x], v.of[x]) ELSE v.of[x]])
    ELSE IF s.items # <<>> /\ v.k = "array"
         THEN Items([i \in DOMAIN v.in |-> StripOptionalNulls(s.items[1], v.in[i])])
         ELSE v

\* A whole float is a number but not an integer; "half" is not whole.
TypeMatches(v, type) == v.k = type \/ (type = "number" /\ v.k \in {"integer", "float", "half"})

\* The value coerced to the type, <<>> when it cannot be.
TryCoerce(v, s) ==
    LET read == IF v.k = "string" THEN v.in ELSE <<>>
    IN  IF TypeMatches(v, s.type) THEN <<v>>
        ELSE IF s.type = "integer" /\ v.k = "float" THEN <<Plain("integer", v.n)>>
        ELSE IF read # <<>> /\ s.type \in {"integer", "number", "boolean", "array", "object"}
                /\ TypeMatches(read[1], s.type) THEN read
        ELSE IF s.type = "array" /\ v.k = "string" /\ s.items # <<>> /\ s.items[1].type = "string"
             THEN <<Items(<<v>>)>>
             ELSE <<>>

Verdict(ok, v) == [ok |-> ok, value |-> v]
Numeric(v)     == v.k \in {"integer", "float", "half"}

RECURSIVE ValidateNode(_, _)
ValidateNode(s, v) ==
    LET coerced == IF s.type = "" THEN <<v>> ELSE TryCoerce(v, s)
        value   == coerced[1]
        fits    == /\ s.enum = {} \/ value \in s.enum
                   /\ Numeric(value) => value.n >= s.minimum
        within  == [x \in DOMAIN s.props \cap DOMAIN value.of |-> ValidateNode(s.props[x], value.of[x])]
        each    == [i \in DOMAIN value.in |-> ValidateNode(s.items[1], value.in[i])]
    IN  IF coerced = <<>> THEN Verdict(FALSE, v)
        ELSE IF s.props # <<>> /\ value.k = "object"
        THEN Verdict(/\ fits
                     /\ s.required \subseteq DOMAIN value.of
                     /\ \A x \in DOMAIN within : within[x].ok,
                     Fields([x \in DOMAIN value.of |->
                                IF x \in DOMAIN within THEN within[x].value ELSE value.of[x]]))
        ELSE IF s.items # <<>> /\ value.k = "array"
        THEN Verdict(fits /\ \A i \in DOMAIN each : each[i].ok, Items([i \in DOMAIN each |-> each[i].value]))
        ELSE Verdict(fits, value)

\* mutant: the arguments are checked, and passed on as they were
PassSent(v) == Verdict(ValidateNode(Schema, StripOptionalNulls(Schema, v)).ok, v)

ValidateAndCoerce(v) ==
    IF Schema.props # <<>> /\ v.k # "object" THEN Verdict(FALSE, v)
    ELSE ValidateNode(Schema, StripOptionalNulls(Schema, v))

PreparedArguments(v) == ValidateAndCoerce(CoerceEdits(NormalizeAliases(v)))

InputInit == args = Null /\ passed = Verdict(FALSE, Null)

\* run_tool_once: the tool runs with what was accepted, or answers the error.
RunToolOnce(v) == args' = v /\ passed' = PreparedArguments(v)

InputNext == args = Null /\ \E v \in Inputs : RunToolOnce(v)

InputSpec == InputInit /\ [][InputNext]_inputVars

-----------------------------------------------------------------------------
(* Properties.                                                               *)

RECURSIVE Conforms(_, _)
Conforms(s, v) ==
    /\ s.type # "" => TypeMatches(v, s.type)
    /\ s.enum # {} => v \in s.enum
    /\ Numeric(v) => v.n >= s.minimum
    /\ v.k = "object" =>
                         /\ s.required \subseteq DOMAIN v.of
                         /\ \A x \in DOMAIN s.props \cap DOMAIN v.of : Conforms(s.props[x], v.of[x])
    /\ (v.k = "array" /\ s.items # <<>>) => \A i \in DOMAIN v.in : Conforms(s.items[1], v.in[i])

\* What a tool is run with satisfies its schema at every depth, even in what was
\* written as a text, and preparing it again changes nothing: a call that is
\* repeated with the arguments the session shows is the same call.
ArgumentsAreSettled ==
    passed.ok => Conforms(Schema, passed.value) /\ PreparedArguments(passed.value) = passed

PairIn(e) == <<e.of[FirstOf(e.of, OldNames)[1]], e.of[FirstOf(e.of, NewNames)[1]]>>
IsPair(e) == e.k = "object" /\ FirstOf(e.of, OldNames) # <<>> /\ FirstOf(e.of, NewNames) # <<>>
Sent(v)   == LET listed == EditsOf(ReadEdits(v.of))
             IN  IF IsPair(v) THEN Append(listed, v) ELSE listed

\* Every edit that was sent, in whatever spelling, reaches the tool, in order; or the
\* call is refused.  Edits in a form that is no list, beside a single edit, are not
\* counted: the single edit takes their place.
EditsSurvive ==
    passed.ok =>
        LET sent == Sent(args)
            got  == passed.value.of["edits"].in
        IN  Len(got) = Len(sent) /\ \A i \in DOMAIN got : PairIn(got[i]) = PairIn(sent[i])
=============================================================================
