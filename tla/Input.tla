------------------------------- MODULE Input -------------------------------
(***************************************************************************)
(* What a caller may send to an operation: what the tools take             *)
(* (codemode/run.ts, mcp/mutation-tool.ts, widgets/tools/define.ts),       *)
(* validateOperationInput (registry/validate.ts), the path it becomes      *)
(* (dispatcher/path.ts) and what the OpenAPI document promises of it       *)
(* (registry/openapi.ts).                                                  *)
(*                                                                         *)
(* A value is a tuple headed by its JavaScript type.  A text is what the   *)
(* patterns tell apart: the decimal of an integer, one with leading zeros, *)
(* a decimal fraction, a word of id characters, prose with others, and     *)
(* prose of more than 2000.                                                *)
(***************************************************************************)
EXTENDS Integers, Sequences

CONSTANTS
  Operations,  \* the registry: operations by their id
  Values,      \* bound: what a caller gives for a field of path, query or body
  Changes,     \* bound: how often it departs from the smallest request of an operation
  SafeInteger  \* Number.MAX_SAFE_INTEGER

VARIABLES
  request,  \* [op, path, query, body]: the two bags and the body are values
  answer,   \* what a tool makes of it, or <<>>
  changes

inputVars == <<request, answer, changes>>

Digits(n) == <<"int", n>>          Zeros(n) == <<"zeros", n>>
Word(w) == <<"word", w>>        Prose == <<"prose">>
Long == <<"long">>              Decimal == <<"decimal">>

Num(n) == <<"number", n>>       Fraction == <<"fraction">>
Str(t) == <<"string", t>>       Bool(b) == <<"boolean", b>>
Arr(s) == <<"array", s>>        Obj(f) == <<"object", f>>
Null == <<"null">>              Undefined == <<"undefined">>

Is(v, types) == v[1] \in types
Safe(n) == n \in -SafeInteger .. SafeInteger

\* String(value).
Text(v) ==
  CASE Is(v, {"number"}) -> Digits(v[2])
    [] Is(v, {"string"}) -> v[2]
    [] Is(v, {"boolean"}) -> Word(IF v[2] THEN "true" ELSE "false")
    [] Is(v, {"fraction"}) -> Decimal
    [] OTHER -> <<"structure">>

Problem(kind, at) == [kind |-> kind, at |-> at]
Valid(v) == [value |-> v, problems |-> {}]
Broken(problems) == [value |-> Undefined, problems |-> problems]
Invalid(at) == Broken({Problem("invalid", at)})

-----------------------------------------------------------------------------
(* Schemas and what they ask of a value.                                   *)

Structures == {"array", "object"}

\* The schemas of the parts of an array or an object, and that of part k.
HasSchema(s, k) == IF s.type = "array" THEN s.items # {} ELSE k \in DOMAIN s.properties
PartSchema(s, k) == IF s.type = "array" THEN CHOOSE x \in s.items : TRUE ELSE s.properties[k]
Insides(s) == IF s.type = "array" THEN s.items ELSE {s.properties[k] : k \in DOMAIN s.properties}
Inner(v, s) == {k \in DOMAIN v[2] : HasSchema(s, k)}
Structured(v, s) == s.type \in Structures /\ Is(v, {s.type})

PageSizeKeys == {"count", "limit", "per_page"}
PagingKeys == {"page"} \cup PageSizeKeys
DefaultPageSizeMax == 100

\* checkBounds: the schema's bounds, or those of paging fields.
InBounds(v, s, key) ==
  LET default(given, keys, bound) ==
        IF given = {} /\ s.type = "integer" /\ key \in keys THEN {bound} ELSE given IN
  /\ Is(v, {"number"}) =>
       /\ \A m \in default(s.minimum, PagingKeys, 1) : v[2] >= m
       /\ \A m \in default(s.maximum, PageSizeKeys, DefaultPageSizeMax) : v[2] <= m
  /\ Is(v, {"string"}) => v[2] # Long

InEnum(v, s) == s.enum = {} \/ v \in {Str(Word(w)) : w \in s.enum}

-----------------------------------------------------------------------------
(* Values.                                                                 *)

Texts(f) == [k \in DOMAIN f |-> Text(f[k])]
IntegerText(t) == Is(t, {"int", "zeros"})

\* coerce for the primitive types.
Coercible(v, type) ==
  CASE type = "integer" -> \/ Is(v, {"number"}) /\ Safe(v[2])
                           \/ Is(v, {"string"}) /\ IntegerText(v[2]) /\ Safe(v[2][2])
    [] type = "string" -> Is(v, {"string", "number", "fraction"})
    [] type = "boolean" -> Is(v, {"boolean"}) \/ (Is(v, {"string"}) /\ v[2] \in {Word("true"), Word("false")})
    [] OTHER -> FALSE
Coerced(v, type) ==
  CASE type = "integer" -> Num(IF Is(v, {"number"}) THEN v[2] ELSE v[2][2])
    [] type = "string" -> Str(Text(v))
    [] OTHER -> IF Is(v, {"boolean"}) THEN v ELSE Bool(v[2] = Word("true"))

\* checkValue in a query, where only primitive values are taken.
CheckPrimitive(v, s, at) ==
  LET c == Coerced(v, s.type) IN
  IF Coercible(v, s.type) /\ InBounds(c, s, at[Len(at)]) /\ InEnum(c, s) THEN Valid(c) ELSE Invalid(at)

\* Mutant: missing fields are looked for once the given ones are right.
MissingLate(f, s, at, problems) ==
  IF problems = {} THEN {Problem("missing", Append(at, k)) : k \in s.required \ DOMAIN f} ELSE {}

\* checkObject's required fields; `problems` are those of the given ones.
Missing(f, s, at, problems) == {Problem("missing", Append(at, k)) : k \in s.required \ DOMAIN f}

\* checkArray and checkObject, given what was found of the parts: the first
\* problem leaves no value.
CheckParts(v, s, at, found) ==
  LET unknown == IF s.closed THEN {Problem("unknown", Append(at, k)) : k \in DOMAIN v[2] \ Inner(v, s)} ELSE {}
      given == unknown \cup UNION {found[k].problems : k \in Inner(v, s)}
      problems == given \cup Missing(v[2], s, at, given) IN
  IF problems # {} THEN Broken(problems)
  ELSE Valid(<<v[1], [k \in DOMAIN v[2] |-> IF k \in Inner(v, s) THEN found[k].value ELSE v[2][k]]>>)

\* checkValue in a body.
CheckValue(v, s, at, found) ==
  IF Structured(v, s) THEN CheckParts(v, s, at, found) ELSE CheckPrimitive(v, s, at)

\* checkValue calls itself for the parts: a body has rows, which have fields.
CheckField(v, s, at) == CheckValue(v, s, at, <<>>)
CheckRow(v, s, at) ==
  CheckValue(v, s, at, [k \in Inner(v, s) |-> CheckField(v[2][k], PartSchema(s, k), Append(at, k))])
CheckRows(v, s, at) ==
  CheckValue(v, s, at, [k \in Inner(v, s) |-> CheckRow(v[2][k], PartSchema(s, k), Append(at, k))])
CheckWhole(v, s, at) ==
  CheckValue(v, s, at, [k \in Inner(v, s) |-> CheckRows(v[2][k], PartSchema(s, k), Append(at, k))])

-----------------------------------------------------------------------------
(* Path parameters: id-like segments.                                      *)

IntegerSegment(t) == IntegerText(t) /\ t[2] >= 0
SafeSegment(t) == Is(t, {"int", "zeros", "word"})

\* Mutant: an id may be any text.
CheckAnyParam(name, v, s) == IF Is(v, {"string", "number"}) THEN Valid(v) ELSE Invalid(<<name>>)

\* checkPathParam; an id that is no safe integer stays the text it is.
CheckPathParam(name, v, s) ==
  LET text == Text(v)
      value == IF s.type = "integer" /\ Is(text, {"int"}) /\ Safe(text[2])
               THEN Num(text[2]) ELSE Str(text) IN
  IF /\ Is(v, {"string"}) \/ (Is(v, {"number"}) /\ Safe(v[2]))
     /\ IF s.type = "integer" THEN IntegerSegment(text) ELSE SafeSegment(text)
     /\ InBounds(value, s, name) /\ InEnum(value, s)
  THEN Valid(value) ELSE Invalid(<<name>>)

-----------------------------------------------------------------------------
(* validateOperationInput.                                                 *)

\* entriesOf: null means not given.
Entries(bag) ==
  IF Is(bag, {"object"})
  THEN [k \in {x \in DOMAIN bag[2] : bag[2][x] # Null} |-> bag[2][k]] ELSE <<>>
WrongBag(bag, label) == IF Is(bag, {"object", "null"}) THEN {} ELSE {Problem("invalid", <<label>>)}

UsesBody(op) == op.method \notin {"GET", "DELETE"}
Rest(op) == [op.schema EXCEPT !.required = @ \ op.param]
Only(f, keys) == [k \in DOMAIN f \cap keys |-> f[k]]
Field(f, k) == IF k \in DOMAIN f THEN {f[k]} ELSE {}

CheckBody(op, body) ==
  IF UsesBody(op)
  THEN IF body = Null
       THEN [value |-> Null, problems |-> Missing(<<>>, Rest(op), <<"body">>, {})]
       ELSE CheckWhole(body, Rest(op), <<"body">>)
  ELSE [value |-> Null,
        problems |-> IF body = Null THEN {} ELSE {Problem("unknown", <<"body">>)}]

Validate(r) ==
  LET op == Operations[r.op]
      inPath == Entries(r.path)
      inQuery == Entries(r.query)
      differ == {k \in op.param \cap DOMAIN inPath \cap DOMAIN inQuery :
                   Text(inPath[k]) # Text(inQuery[k])}
      raw == [k \in op.param \cap (DOMAIN inPath \cup DOMAIN inQuery) |->
                IF k \in differ \/ k \notin DOMAIN inQuery THEN inPath[k] ELSE inQuery[k]]
      param(k) == CheckPathParam(k, raw[k], op.schema.properties[k])
      asked == Only(inQuery, DOMAIN inQuery \ op.param)
      known == DOMAIN asked \cap DOMAIN op.schema.properties
      query(k) == CheckPrimitive(asked[k], op.schema.properties[k], <<k>>)
      body == CheckBody(op, r.body)
      problems ==
        WrongBag(r.path, "path") \cup WrongBag(r.query, "query")
          \cup {Problem("unknown", <<"path", k>>) : k \in DOMAIN inPath \ op.param}
          \cup {Problem("invalid", <<k>>) : k \in differ}
          \cup {Problem("missing", <<k>>) : k \in op.param \ DOMAIN raw}
          \cup (UNION {param(k).problems : k \in DOMAIN raw})
          \cup body.problems
          \cup IF UsesBody(op) THEN {Problem("unknown", <<"query", k>>) : k \in DOMAIN asked}
               ELSE {Problem("unknown", <<k>>) : k \in DOMAIN asked \ known}
                      \cup (UNION {query(k).problems : k \in known})
                      \cup Missing(asked, Rest(op), <<>>, {}) IN
  [problems |-> problems,
   path |-> IF problems # {} THEN <<>> ELSE [k \in DOMAIN raw |-> param(k).value],
   query |-> IF problems # {} \/ UsesBody(op) THEN <<>> ELSE [k \in known |-> query(k).value],
   body |-> IF problems # {} THEN Null ELSE body.value]

\* buildPath, the dispatcher's own gate: the parameters it refuses.
PathRefused(op, path) == {k \in op.param : k \notin DOMAIN path \/ ~SafeSegment(Text(path[k]))}

-----------------------------------------------------------------------------
(* What holds of the registry and of what is sent.                         *)

\* Bounds let the value 1 through, a paging field has its own.
SchemaOK(s) ==
  /\ s = [type |-> s.type, minimum |-> s.minimum, maximum |-> s.maximum, enum |-> s.enum, items |-> s.items,
          properties |-> s.properties, required |-> s.required, closed |-> s.closed]
  /\ s.type \in {"integer", "string", "boolean"} \cup Structures /\ s.closed \in BOOLEAN
  /\ s.minimum \subseteq Int /\ s.maximum \subseteq Int
  /\ (\A m \in s.minimum : m <= 1) /\ (\A m \in s.maximum : m >= 1)
  /\ s.type # "string" => s.enum = {}
  /\ s.type = "array" => /\ s.required = {} /\ ~s.closed
                         /\ \A x \in s.items : s.items = {x} /\ x.type # "integer"
  /\ s.required \subseteq DOMAIN s.properties
  /\ \A k \in DOMAIN s.properties : LET x == s.properties[k] IN
       x.type = "integer" => (k \in PagingKeys => x.minimum # {}) /\ (k \in PageSizeKeys => x.maximum # {})

FieldOK(s) == SchemaOK(s) /\ Insides(s) = {}
RowOK(s) == SchemaOK(s) /\ \A x \in Insides(s) : FieldOK(x)
RowsOK(s) == SchemaOK(s) /\ \A x \in Insides(s) : RowOK(x)
WholeOK(s) == SchemaOK(s) /\ \A x \in Insides(s) : RowsOK(x)

\* Ids are in the paths of reads, a write asks for something, none is a DELETE.
OperationOK(op) ==
  LET props == op.schema.properties IN
  /\ WholeOK(op.schema) /\ op.schema.type = "object" /\ op.schema.closed
  /\ op.method # "DELETE"
  /\ IF op.method = "GET" THEN \A k \in DOMAIN props : props[k].type \notin Structures
     ELSE op.param = {} /\ op.schema.required # {}
  /\ op.param \subseteq DOMAIN props /\ DOMAIN props \cap {"path", "query", "body"} = {}
  /\ \A k \in op.param :
       /\ props[k].type \in {"integer", "string"}
       /\ props[k].type = "integer" => k \notin PagingKeys /\ props[k].minimum = {} /\ props[k].maximum = {}

TextOK(t) ==
  \/ t \in {Prose, Long, Decimal}
  \/ Is(t, {"int", "zeros"}) /\ t = <<t[1], t[2]>> /\ t[2] \in Int
  \/ Is(t, {"word"}) /\ t = Word(t[2])
ValueOK(v) ==
  \/ v \in {Null, Fraction}
  \/ Is(v, {"number"}) /\ v = Num(v[2]) /\ v[2] \in Int
  \/ Is(v, {"string"}) /\ v = Str(v[2]) /\ TextOK(v[2])
  \/ Is(v, {"boolean"}) /\ v = Bool(v[2]) /\ v[2] \in BOOLEAN
  \/ Is(v, Structures) /\ v = <<v[1], v[2]>> /\ v[2] = [k \in DOMAIN v[2] |-> v[2][k]]

\* A JSON value, as deep as a schema looks into it.
RowJson(v) == ValueOK(v) /\ (Is(v, Structures) => \A k \in DOMAIN v[2] : ValueOK(v[2][k]))
RowsJson(v) == ValueOK(v) /\ (Is(v, Structures) => \A k \in DOMAIN v[2] : RowJson(v[2][k]))
Json(v) == ValueOK(v) /\ (Is(v, Structures) => \A k \in DOMAIN v[2] : RowsJson(v[2][k]))

ASSUME InputAssumption ==
  /\ SafeInteger \in Nat /\ SafeInteger >= DefaultPageSizeMax
  /\ \A o \in DOMAIN Operations : OperationOK(Operations[o])
  /\ Changes \in [DOMAIN Operations -> Nat]
  /\ \A where \in {"path", "query", "body"} : \A v \in Values[where] : RowsJson(v)

-----------------------------------------------------------------------------
(* The tools.                                                              *)

InputTools == {"execute", "execute_mutation", "widget"}
ToolFor(op, tool) == (op.safety = "read") <=> (tool # "execute_mutation")

\* primitiveMap and the tool's own schema: values go into a path or a query as
\* they are.  Only a script may give null for no values.
Takes(tool, bag, types) ==
  \/ Is(bag, {"null"}) /\ tool = "execute"
  \/ Is(bag, {"object"}) /\ \A k \in DOMAIN bag[2] : Is(bag[2][k], types)

\* normalizeRequestArgs and executeMutationInput, then assertReadOperation and
\* mutationOperation; a widget's tool writes its requests itself.
Refuses(tool, r) ==
  LET numbers == {"string", "number", "fraction"} IN
  \/ ~ToolFor(Operations[r.op], tool)
  \/ tool # "widget" /\ ~(Takes(tool, r.path, numbers) /\ Takes(tool, r.query, numbers \cup {"boolean"}))

Refused == [problems |-> {Problem("refused", <<>>)}, path |-> <<>>, query |-> <<>>, body |-> Null]

-----------------------------------------------------------------------------
(* The document: buildOpenApiDocument, operationToOpenApi.                 *)

Parameters(op) ==
  {[name |-> k, in |-> IF k \in op.param THEN "path" ELSE "query",
    required |-> k \in op.param \cup op.schema.required, schema |-> op.schema.properties[k]] :
     k \in IF op.method = "GET" THEN DOMAIN op.schema.properties
           ELSE op.param \cap DOMAIN op.schema.properties}
BodySchema(op) == IF op.method = "GET" THEN {} ELSE {op.schema}

-----------------------------------------------------------------------------
\* A value of a schema, to the depth the registry's have.
SampleField(s) ==
  CASE s.type = "integer" -> Num(1)
    [] s.type = "string" -> Str(Word(IF s.enum = {} THEN "id" ELSE CHOOSE w \in s.enum : TRUE))
    [] s.type = "boolean" -> Bool(TRUE)
    [] s.type = "array" -> Arr(<<>>)
    [] OTHER -> Obj(<<>>)
SampleOf(s, parts) == IF s.type = "object" THEN Obj(parts) ELSE SampleField(s)
SampleRow(s) == SampleOf(s, [k \in s.required |-> SampleField(s.properties[k])])
SampleRows(s) == SampleOf(s, [k \in s.required |-> SampleRow(s.properties[k])])
Sample(s) == SampleOf(s, [k \in s.required |-> SampleRows(s.properties[k])])

Smallest(o) ==
  LET op == Operations[o]  sample(keys) == Obj([k \in keys |-> SampleField(op.schema.properties[k])]) IN
  [op |-> o, path |-> sample(op.param),
   query |-> IF UsesBody(op) THEN Obj(<<>>) ELSE sample(op.schema.required \ op.param),
   body |-> IF UsesBody(op) THEN Sample(Rest(op)) ELSE Null]

InputInit ==
  /\ \E o \in DOMAIN Operations : request = Smallest(o)
  /\ answer = <<>> /\ changes = 0

Give(place, v) ==
  /\ answer = <<>> /\ changes < Changes[request.op]
  /\ changes' = changes + 1
  /\ request' = [request EXCEPT ![place] = v]
  /\ UNCHANGED answer

GiveField(place, k, v) ==
  /\ Is(request[place], {"object"})
  /\ LET f == request[place][2] IN
     Give(place, Obj([x \in DOMAIN f \cup {k} |-> IF x = k THEN v ELSE f[x]]))

LeaveOut(place, k) ==
  /\ Is(request[place], {"object"}) /\ k \in DOMAIN request[place][2]
  /\ Give(place, Obj(Only(request[place][2], DOMAIN request[place][2] \ {k})))

Answer(tool) ==
  /\ answer = <<>>
  /\ answer' = [tool |-> tool, result |-> IF Refuses(tool, request) THEN Refused ELSE Validate(request)]
  /\ UNCHANGED <<request, changes>>

InputNext ==
  \/ \E place \in {"path", "query", "body"} :
       \/ \E v \in {Null, Obj(<<>>), Num(7)} : Give(place, v)
       \/ \E k \in DOMAIN Operations[request.op].schema.properties \cup {"other"} :
            LeaveOut(place, k) \/ \E v \in Values[place] : GiveField(place, k, v)
  \/ \E tool \in InputTools : Answer(tool)

InputSpec == InputInit /\ [][InputNext]_inputVars

-----------------------------------------------------------------------------
(* Properties.                                                             *)

\* A JSON value has the form a schema asks for, its parts apart.
Shaped(v, s) ==
  CASE s.type = "integer" ->
         Is(v, {"number"}) /\ (\A m \in s.minimum : v[2] >= m) /\ (\A m \in s.maximum : v[2] <= m)
    [] s.type = "string" -> Is(v, {"string"}) /\ InEnum(v, s)
    [] s.type = "boolean" -> Is(v, {"boolean"})
    [] s.type = "array" -> Is(v, {"array"})
    [] s.type = "object" ->
         /\ Is(v, {"object"})
         /\ s.required \subseteq DOMAIN v[2]
         /\ s.closed => DOMAIN v[2] \subseteq DOMAIN s.properties

\* A JSON value is one of a schema's.
FieldConforms(v, s) == Shaped(v, s)
RowConforms(v, s) ==
  Shaped(v, s) /\ (Structured(v, s) => \A k \in Inner(v, s) : FieldConforms(v[2][k], PartSchema(s, k)))
RowsConform(v, s) ==
  Shaped(v, s) /\ (Structured(v, s) => \A k \in Inner(v, s) : RowConforms(v[2][k], PartSchema(s, k)))
Conforms(v, s) ==
  Shaped(v, s) /\ (Structured(v, s) => \A k \in Inner(v, s) : RowsConform(v[2][k], PartSchema(s, k)))

\* A request's parameters and body are those of the document; `ids` may stay
\* digits too large for a number.
AsDocumented(op, path, query, body) ==
  LET bag(p) == IF p.in = "path" THEN path ELSE query IN
  /\ \A p \in Parameters(op) :
       /\ p.required => p.name \in DOMAIN bag(p)
       /\ \A v \in Field(bag(p), p.name) :
            \/ Conforms(v, p.schema)
            \/ p.in = "path" /\ p.schema.type = "integer" /\ Is(v, {"string"}) /\ IntegerSegment(v[2])
  /\ DOMAIN path \subseteq {p.name : p \in {q \in Parameters(op) : q.in = "path"}}
  /\ DOMAIN query \subseteq {p.name : p \in {q \in Parameters(op) : q.in = "query"}}
  /\ IF BodySchema(op) = {} THEN body = Null ELSE \A s \in BodySchema(op) : Conforms(body, s)

\* Short texts and safe numbers where a schema asks for them, and ids of the
\* characters ids have: what the document leaves unsaid.
Short(v) == (Is(v, {"string"}) => v[2] # Long) /\ (Is(v, {"number"}) => Safe(v[2]))
RowShort(v, s) == Short(v) /\ (Structured(v, s) => \A k \in Inner(v, s) : Short(v[2][k]))
RowsShort(v, s) ==
  Short(v) /\ (Structured(v, s) => \A k \in Inner(v, s) : RowShort(v[2][k], PartSchema(s, k)))
BodyShort(v, s) ==
  Short(v) /\ (Structured(v, s) => \A k \in Inner(v, s) : RowsShort(v[2][k], PartSchema(s, k)))
Ordinary(r) ==
  /\ Is(r.path, {"object"}) /\ Is(r.query, {"object"})
  /\ \A bag \in {r.path, r.query} : \A k \in DOMAIN bag[2] : Short(bag[2][k])
  /\ BodyShort(r.body, Rest(Operations[r.op]))
  /\ \A v \in {r.path[2][k] : k \in DOMAIN r.path[2]} :
       IF Is(v, {"number"}) THEN v[2] >= 0 ELSE SafeSegment(Text(v))

Accepted == answer # <<>> /\ answer.result.problems = {}

\* Whatever is accepted goes out as documented, and nothing the validator lets
\* through stops at the dispatcher's own gate, after an approval was burned.
AcceptedIsDocumented ==
  Accepted => LET op == Operations[request.op] IN
    /\ AsDocumented(op, answer.result.path, answer.result.query, answer.result.body)
    /\ PathRefused(op, answer.result.path) = {}

\* What is documented is accepted as it was given, by the tool of its class.
DocumentedIsAccepted ==
  LET op == Operations[request.op] IN
  /\ answer # <<>> /\ ToolFor(op, answer.tool) /\ Ordinary(request)
  /\ AsDocumented(op, request.path[2], request.query[2], request.body)
  => /\ Accepted
     /\ Texts(answer.result.path) = Texts(request.path[2])
     /\ answer.result.query = request.query[2] /\ answer.result.body = request.body

\* execute_mutation has what it normalized hashed and approved, and the
\* dispatcher validates that again: the second time nothing may change, or what
\* runs is not what the owner approved.
ApprovedIsWhatRuns ==
  Accepted =>
    LET r == answer.result IN
    Validate([op |-> request.op, path |-> Obj(r.path), query |-> Obj(r.query), body |-> r.body]) = r

\* The OpenAPI document a model searches is the contract of the tools
\* (validateOperationInput, schemaToParameters, buildPath), and normalizing what
\* is normalized changes nothing (runExecuteMutation, #prepare).
DocumentIsTheContract ==
  request # <<>> => AcceptedIsDocumented /\ DocumentedIsAccepted /\ ApprovedIsWhatRuns

\* What a model makes of the report: it drops what is unknown, adds what is
\* missing and replaces what is invalid, and touches nothing else.
MendedParts(v, s, at, problems, parts, sample) ==
  LET kept == {k \in DOMAIN v[2] : Problem("unknown", Append(at, k)) \notin problems}
      added == {k \in DOMAIN s.properties : Problem("missing", Append(at, k)) \in problems} IN
  <<v[1], [k \in kept \cup added |->
             IF k \in added THEN sample[k] ELSE IF k \in Inner(v, s) THEN parts[k] ELSE v[2][k]]>>
MendedField(v, s, at, problems) ==
  IF Problem("invalid", at) \in problems THEN SampleField(s)
  ELSE IF Structured(v, s) THEN MendedParts(v, s, at, problems, <<>>, <<>>) ELSE v
MendedRow(v, s, at, problems) ==
  IF Problem("invalid", at) \in problems THEN SampleRow(s)
  ELSE IF Structured(v, s)
       THEN MendedParts(v, s, at, problems,
              [k \in Inner(v, s) |-> MendedField(v[2][k], PartSchema(s, k), Append(at, k), problems)],
              [k \in DOMAIN s.properties |-> SampleField(s.properties[k])])
       ELSE v
MendedRows(v, s, at, problems) ==
  IF Problem("invalid", at) \in problems THEN SampleRows(s)
  ELSE IF Structured(v, s)
       THEN MendedParts(v, s, at, problems,
              [k \in Inner(v, s) |-> MendedRow(v[2][k], PartSchema(s, k), Append(at, k), problems)],
              [k \in DOMAIN s.properties |-> SampleRow(s.properties[k])])
       ELSE v
Mended(v, s, at, problems) ==
  IF Problem("invalid", at) \in problems THEN Sample(s)
  ELSE IF Structured(v, s)
       THEN MendedParts(v, s, at, problems,
              [k \in Inner(v, s) |-> MendedRows(v[2][k], PartSchema(s, k), Append(at, k), problems)],
              [k \in DOMAIN s.properties |-> SampleRows(s.properties[k])])
       ELSE v

Retried(r, problems) ==
  LET op == Operations[r.op]
      tells(kind, at) == Problem(kind, at) \in problems
      sample(k) == SampleField(op.schema.properties[k])
      bag(b, label, params) ==
        LET f == Entries(b)
            told == {k \in params : tells("missing", <<k>>) \/ tells("invalid", <<k>>)}
            kept == {k \in DOMAIN f \ op.param : ~tells("unknown", <<k>>) /\ ~tells("unknown", <<label, k>>)}
            both == {k \in DOMAIN f \cap op.param : ~tells("invalid", <<k>>)} IN
        Obj([k \in told \cup kept \cup both |-> IF k \in told THEN sample(k) ELSE f[k]]) IN
  [r EXCEPT !.path = bag(@, "path", op.param),
            !.query = bag(@, "query", DOMAIN op.schema.properties \ op.param),
            !.body = IF tells("unknown", <<"body">>) THEN Null
                     ELSE IF @ = Null THEN (IF UsesBody(op) THEN Sample(Rest(op)) ELSE Null)
                     ELSE Mended(@, Rest(op), <<"body">>, problems)]

\* An error names every missing, unknown and mistyped key, so a model that
\* corrects what it names, and only that, is accepted at its second try: what
\* validateOperationInput's comment promises.
OneRetryIsEnough ==
  answer # <<>> /\ answer.result.problems # {} /\ ~Refuses(answer.tool, request) =>
    Validate(Retried(request, answer.result.problems)).problems = {}
=============================================================================
