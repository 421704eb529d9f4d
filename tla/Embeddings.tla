----------------------------- MODULE Embeddings -----------------------------
(***************************************************************************)
(* An embeddings turn: a client of one of four dialects, a chain of        *)
(* upstreams of five, and the vectors that come back. A vector is only     *)
(* told apart by what it was made from: the content and the settings that  *)
(* the upstream saw.                                                       *)
(*                                                                         *)
(* Code: yb-wire/src/embed/, yb-gateway/src/embed.rs. What the turn        *)
(* records, and when, is in Turn; its usage and the media types of images  *)
(* are left out. An optional value that is absent is None, or a set of at  *)
(* most one, as is what may be refused.                                    *)
(***************************************************************************)
EXTENDS Integers, FiniteSets, Functions, SequencesExt

CONSTANTS
    Inputs,     \* contents an input may have, sequences of parts
    TaskTypes,  \* task types Gemini's clients name
    MaxInputs,  \* bound: inputs of a request
    Chains      \* sequences of upstreams a request may be routed to

None == "none"
Clients == {"openai", "gemini", "cohere", "voyage"}
Upstreams == Clients \cup {"ollama"}
GeminiTaskTypes ==
    {"RETRIEVAL_QUERY", "QUESTION_ANSWERING", "RETRIEVAL_DOCUMENT", "FACT_VERIFICATION",
     "CLASSIFICATION", "CLUSTERING", "SEMANTIC_SIMILARITY", None}

ASSUME EmbeddingsAssumption ==
    /\ <<>> \notin Inputs
    /\ TaskTypes \subseteq GeminiTaskTypes
    /\ MaxInputs \in Nat
    /\ Chains \subseteq Seq(Upstreams \cup {"chat"})

VARIABLES
    pc,      \* "new", "ask", "wait", "answered", or how it failed
    client,  \* the client's dialect
    body,    \* what the client sent
    request, \* EmbedRequest
    left,    \* candidates not tried yet, the current one first
    sent,    \* what the current upstream was sent
    answer   \* what the client got

embedVars == <<pc, client, body, request, left, sent, answer>>

-----------------------------------------------------------------------------
(* The intermediate representation.                                        *)

Text(x) == [type |-> "text", x |-> x]
Inline(x) == [type |-> "image", x |-> x, form |-> "data"]
Linked(x) == [type |-> "image", x |-> x, form |-> "url"]
Audio(x) == [type |-> "audio", x |-> x]

as_single_text(parts) == Len(parts) = 1 /\ parts[1].type = "text"
Has(parts, type) == \E i \in DOMAIN parts : parts[i].type = type
AllText(inputs) == \A i \in DOMAIN inputs : as_single_text(inputs[i])
image_to_data_uri(part) == part.form = "data"

EmbedRequest ==
    [inputs |-> <<>>, input_type |-> None, output_dimensions |-> None, truncate |-> None,
     encoding_format |-> None, embedding_types |-> {}, gemini_batch |-> FALSE,
     openai_content |-> FALSE]

input_type_to_gemini(t) ==
    CASE t = "query"          -> "RETRIEVAL_QUERY"
      [] t = "document"       -> "RETRIEVAL_DOCUMENT"
      [] t = "classification" -> "CLASSIFICATION"
      [] t = "clustering"     -> "CLUSTERING"
      [] OTHER                -> None
gemini_to_input_type(t) ==
    CASE t \in {"RETRIEVAL_QUERY", "QUESTION_ANSWERING"}   -> "query"
      [] t \in {"RETRIEVAL_DOCUMENT", "FACT_VERIFICATION"} -> "document"
      [] t = "CLASSIFICATION"                              -> "classification"
      [] t = "CLUSTERING"                                  -> "clustering"
      [] OTHER                                             -> None
input_type_to_cohere(t) ==
    CASE t = "query"                            -> "search_query"
      [] t \in {"classification", "clustering"} -> t
      [] OTHER                                  -> "search_document"
cohere_to_input_type(t) ==
    CASE t = "search_query"                     -> "query"
      [] t = "search_document"                  -> "document"
      [] t \in {"classification", "clustering"} -> t
      [] OTHER                                  -> None
VoyageTask(t) == IF t \in {"query", "document"} THEN t ELSE None

-----------------------------------------------------------------------------
(* parse_request. An item is a content with the form it was written in.    *)

Contents(items) == [i \in DOMAIN items |-> items[i].parts]
FirstOf(s) ==
    LET named == {i \in DOMAIN s : s[i] # None}
    IN IF named = {} THEN None ELSE s[Min(named)]

ParseOpenAI(b) ==
    IF b.items = <<>> \/ \E i \in DOMAIN b.items : b.items[i].form = "tokens" THEN {}
    ELSE {[EmbedRequest EXCEPT
             !.inputs = Contents(b.items),
             !.output_dimensions = b.dimensions,
             !.encoding_format = b.encoding_format,
             !.openai_content = \E i \in DOMAIN b.items : b.items[i].form = "content"]}

content_to_input(parts) == IF \A i \in DOMAIN parts : parts[i].type = "text" THEN {parts} ELSE {}

(* A batch has one task and one dimension: the first that is named.        *)
ParseGemini(b) ==
    IF b.items = <<>> \/ \E i \in DOMAIN b.items : content_to_input(b.items[i].parts) = {} THEN {}
    ELSE {[EmbedRequest EXCEPT
             !.inputs = Contents(b.items),
             !.input_type = FirstOf([i \in DOMAIN b.items |->
                                        gemini_to_input_type(b.items[i].taskType)]),
             !.output_dimensions = FirstOf([i \in DOMAIN b.items |-> b.items[i].dimensions]),
             !.gemini_batch = b.batch]}

data_uri_to_part(part) == IF part.form = "data" THEN {part} ELSE {}

Truncation(t) == IF t = "NONE" THEN "no" ELSE IF t = None THEN None ELSE "yes"
ParseCohere(b) ==
    IF \/ b.items = <<>>
       \/ \E i \in DOMAIN b.items :
             \/ Has(b.items[i].parts, "audio")
             \/ b.items[i].form = "images" /\ data_uri_to_part(b.items[i].parts[1]) = {}
    THEN {}
    ELSE {[EmbedRequest EXCEPT
             !.inputs = Contents(b.items),
             !.input_type = cohere_to_input_type(b.input_type),
             !.output_dimensions = b.output_dimension,
             !.truncate = Truncation(b.truncate),
             !.embedding_types = b.embedding_types]}

ParseVoyage(b) ==
    IF b.items = <<>> \/ \E i \in DOMAIN b.items : Has(b.items[i].parts, "audio") THEN {}
    ELSE {[EmbedRequest EXCEPT
             !.inputs = Contents(b.items),
             !.input_type = VoyageTask(b.input_type),
             !.truncate = b.truncation,
             !.encoding_format = IF b.encoding_format = "base64" THEN "base64" ELSE None]}

parse_embed_request(c, b) ==
    CASE c = "openai" -> ParseOpenAI(b)
      [] c = "gemini" -> ParseGemini(b)
      [] c = "cohere" -> ParseCohere(b)
      [] c = "voyage" -> ParseVoyage(b)

-----------------------------------------------------------------------------
(* emit_request: the items, and the settings the dialect has.              *)

Items(inputs, Form(_)) ==
    [i \in DOMAIN inputs |-> [form |-> Form(inputs[i]), parts |-> inputs[i]]]
Body(items, task, dimensions, truncate) ==
    [items |-> items, task |-> task, dimensions |-> dimensions, truncate |-> truncate]

EmitOpenAI(r) ==
    LET content == r.openai_content
                      \/ \E i \in DOMAIN r.inputs : Len(r.inputs[i]) > 1 \/ Has(r.inputs[i], "audio")
        Form(parts) == IF AllText(r.inputs) THEN "string"
                       ELSE IF content THEN "content" ELSE parts[1].type
    IN {Body(Items(r.inputs, Form), None, r.output_dimensions, None)}

EmitGemini(r) ==
    IF \E i \in DOMAIN r.inputs : Has(r.inputs[i], "image") \/ Has(r.inputs[i], "audio") THEN {}
    ELSE {Body(Items(r.inputs, LAMBDA p : "content"), input_type_to_gemini(r.input_type),
               r.output_dimensions, None)}

EmitCohere(r) ==
    LET Fits(part) == part.type = "text" \/ (part.type = "image" /\ image_to_data_uri(part))
        Form(parts) == IF AllText(r.inputs) THEN "texts" ELSE "inputs"
    IN IF \E i \in DOMAIN r.inputs : \E j \in DOMAIN r.inputs[i] : ~Fits(r.inputs[i][j]) THEN {}
       ELSE {Body(Items(r.inputs, Form), input_type_to_cohere(r.input_type),
                  r.output_dimensions, IF r.truncate = "no" THEN "NONE" ELSE None)}

EmitVoyage(r) ==
    IF \E i \in DOMAIN r.inputs : Has(r.inputs[i], "audio") THEN {}
    ELSE {Body(Items(r.inputs, LAMBDA p : "content"), VoyageTask(r.input_type), None, r.truncate)}

EmitOllama(r) ==
    IF ~AllText(r.inputs) THEN {}
    ELSE {Body(Items(r.inputs, LAMBDA p : "string"), None, r.output_dimensions, r.truncate)}

emit_embed_request(u, r) ==
    CASE u = "openai" -> EmitOpenAI(r)
      [] u = "gemini" -> EmitGemini(r)
      [] u = "cohere" -> EmitCohere(r)
      [] u = "voyage" -> EmitVoyage(r)
      [] u = "ollama" -> EmitOllama(r)

-----------------------------------------------------------------------------
(* Answers. A row carries an index where the dialect has one, 0 if it is   *)
(* absent, and a vector, encoded or not.                                   *)

Indexed == {"openai", "voyage"}
Row(index, encoding, vector) == [index |-> index, encoding |-> encoding, vector |-> vector]

(* The vectors in the order they come, ...                                 *)
InOrder(rows) == [i \in DOMAIN rows |-> rows[i].vector]

(* ... or sorted by the index, the place of a row without one. The sort is *)
(* stable: a row's rank counts the rows that come before it.               *)
Key(rows, i) == IF rows[i].index = 0 THEN i ELSE rows[i].index
Rank(rows, i) ==
    1 + Cardinality({j \in DOMAIN rows : \/ Key(rows, j) < Key(rows, i)
                                         \/ Key(rows, j) = Key(rows, i) /\ j < i})
SortedRows(rows) ==
    [k \in DOMAIN rows |-> rows[CHOOSE i \in DOMAIN rows : Rank(rows, i) = k].vector]

ParseOpenAIResponse(rows) == SortedRows(rows)
ParseGeminiResponse(rows) == InOrder(rows)
ParseCohereResponse(rows) == InOrder(rows)
ParseVoyageResponse(rows) == SortedRows(rows)
ParseOllamaResponse(rows) == InOrder(rows)

parse_embed_response(u, rows) ==
    CASE u = "openai" -> ParseOpenAIResponse(rows)
      [] u = "gemini" -> ParseGeminiResponse(rows)
      [] u = "cohere" -> ParseCohereResponse(rows)
      [] u = "voyage" -> ParseVoyageResponse(rows)
      [] u = "ollama" -> ParseOllamaResponse(rows)

(* emit_response: one list of rows for each encoding.                      *)
Rows(vectors, encoding) == [i \in DOMAIN vectors |-> Row(i, encoding, vectors[i])]
Encoding(r) == IF r.encoding_format = "base64" THEN "base64" ELSE "float"
EmitOpenAIResponse(vectors, r) == {Rows(vectors, Encoding(r))}
EmitVoyageResponse(vectors, r) == {Rows(vectors, Encoding(r))}
EmitCohereResponse(vectors, r) ==
    {Rows(vectors, e) : e \in IF r.embedding_types = {} THEN {"float"} ELSE UNION r.embedding_types}
EmitGeminiResponse(vectors, r) ==
    IF ~r.gemini_batch /\ Len(vectors) # 1 THEN {} ELSE {Rows(vectors, "float")}
emit_embed_response(c, vectors, r) ==
    CASE c = "openai" -> EmitOpenAIResponse(vectors, r)
      [] c = "gemini" -> EmitGeminiResponse(vectors, r)
      [] c = "cohere" -> EmitCohereResponse(vectors, r)
      [] c = "voyage" -> EmitVoyageResponse(vectors, r)

-----------------------------------------------------------------------------
(* What clients write.                                                     *)

Singles(type) == {p \in Inputs : Len(p) = 1 /\ p[1].type = type}
Item(forms, contents) == {[form |-> f, parts |-> p] : f \in forms, p \in contents}
OpenAIItems == Item({"string", "text"}, Singles("text")) \cup Item({"image"}, Singles("image"))
                  \cup Item({"content"}, Inputs) \cup {[form |-> "tokens", parts |-> <<>>]}
GeminiItems == [form : {"content"}, parts : Inputs, taskType : TaskTypes,
                dimensions : {None, "256"}]
CohereItems == {Item({"texts"}, Singles("text")), Item({"images"}, Singles("image")),
                Item({"inputs"}, Inputs)}
Several(items) == BoundedSeq(items, MaxInputs)

Bodies(c) ==
    CASE c = "openai" -> [items : Several(OpenAIItems), encoding_format : {None, "float", "base64"},
                          dimensions : {None, "256"}]
      [] c = "gemini" -> [items : Several(GeminiItems), batch : BOOLEAN]
      [] c = "cohere" -> [items : UNION {Several(s) : s \in CohereItems},
                          input_type : {None, "search_query", "search_document",
                                        "classification", "clustering", "image"},
                          output_dimension : {None, "256"}, truncate : {None, "NONE", "END"},
                          embedding_types : {{}, {{"float"}}, {{"base64"}}, {{"float", "base64"}}}]
      [] c = "voyage" -> [items : Several(Item({"content"}, Inputs)),
                          input_type : {None, "query", "document"},
                          truncation : {None, "yes", "no"}, encoding_format : {None, "base64"}]

-----------------------------------------------------------------------------
(* handle_embed.                                                           *)

EmbedInit ==
    /\ pc = "new"
    /\ client \in Clients
    /\ body \in Bodies(client)
    /\ request = EmbedRequest
    /\ left \in Chains
    /\ sent = None /\ answer = None

Parse ==
    /\ pc = "new"
    /\ \/ parse_embed_request(client, body) = {} /\ pc' = "bad request" /\ UNCHANGED request
       \/ request' \in parse_embed_request(client, body) /\ pc' = "ask"
    /\ UNCHANGED <<client, body, left, sent, answer>>

(* Deployments of other kinds are passed over; none is left.               *)
Skip ==
    /\ pc = "ask"
    /\ IF left = <<>> THEN pc' = "no candidate" /\ UNCHANGED left
       ELSE Head(left) = "chat" /\ left' = Tail(left) /\ UNCHANGED pc
    /\ UNCHANGED <<client, body, request, sent, answer>>

(* An upstream that cannot be told the request ends the turn.              *)
Emit ==
    /\ pc = "ask" /\ left # <<>> /\ Head(left) # "chat"
    /\ \/ emit_embed_request(Head(left), request) = {} /\ pc' = "unsupported" /\ UNCHANGED sent
       \/ sent' \in emit_embed_request(Head(left), request) /\ pc' = "wait"
    /\ UNCHANGED <<client, body, request, left, answer>>

(* No answer, or an error that another deployment may not give.            *)
TryNext ==
    /\ pc = "wait"
    /\ pc' = "ask" /\ left' = Tail(left) /\ sent' = None
    /\ UNCHANGED <<client, body, request, answer>>
UpstreamRefuses ==
    /\ pc = "wait"
    /\ pc' = "upstream error"
    /\ UNCHANGED <<client, body, request, left, sent, answer>>

(* The upstream makes a vector of each item, and lists them with their     *)
(* indexes in any order, or in order.                                      *)
Vector(i) == [parts |-> sent.items[i].parts, task |-> sent.task,
              dimensions |-> sent.dimensions, truncate |-> sent.truncate]
Replies ==
    LET places == DOMAIN sent.items
        Reply(order, e, indexed) ==
            [i \in places |-> Row(IF indexed THEN order[i] ELSE 0, e, Vector(order[i]))]
        inOrder == [i \in places |-> i]
    IN {Reply(inOrder, "float", FALSE)}
          \cup IF Head(left) \notin Indexed THEN {}
               ELSE {Reply(o, e, TRUE) : o \in Bijection(places, places), e \in {"float", "base64"}}

Answer ==
    /\ pc = "wait"
    /\ \E rows \in Replies :
          LET out == emit_embed_response(client, parse_embed_response(Head(left), rows), request) IN
          /\ answer' = out
          /\ pc' = IF out = {} THEN "not answered" ELSE "answered"
    /\ UNCHANGED <<client, body, request, left, sent>>

EmbedNext == Parse \/ Skip \/ Emit \/ TryNext \/ UpstreamRefuses \/ Answer
EmbedSpec == EmbedInit /\ [][EmbedNext]_embedVars

-----------------------------------------------------------------------------
(* Properties.                                                             *)

EmbedTypeOK ==
    /\ pc \in {"new", "ask", "wait", "answered", "bad request", "no candidate",
               "unsupported", "upstream error", "not answered"}
    /\ DOMAIN request = DOMAIN EmbedRequest

(* What a client asks of all its vectors, in the words of no dialect.      *)
Meant(word) ==
    CASE word \in {"query", "search_query", "RETRIEVAL_QUERY", "QUESTION_ANSWERING"} -> "query"
      [] word \in {"document", "search_document", "RETRIEVAL_DOCUMENT", "FACT_VERIFICATION"} ->
            "document"
      [] word \in {"classification", "CLASSIFICATION"} -> "classification"
      [] word \in {"clustering", "CLUSTERING"} -> "clustering"
      [] OTHER -> None
Uniform(Setting(_)) == \A i \in DOMAIN body.items : Setting(body.items[i]) = Setting(body.items[1])
GeminiTask(item) == Meant(item.taskType)
GeminiDimensions(item) == item.dimensions

Task == CASE client = "openai" -> None
          [] client = "gemini" -> GeminiTask(body.items[1])
          [] OTHER             -> Meant(body.input_type)
Dimensions == CASE client = "openai" -> body.dimensions
                [] client = "gemini" -> body.items[1].dimensions
                [] client = "cohere" -> body.output_dimension
                [] client = "voyage" -> None
MayTruncate == CASE client = "cohere" -> Truncation(body.truncate)
                 [] client = "voyage" -> body.truncation
                 [] OTHER             -> None
Encodings == CASE client = "gemini" -> {"float"}
               [] client = "cohere" ->
                    IF body.embedding_types = {} THEN {"float"} ELSE UNION body.embedding_types
               [] OTHER -> {IF body.encoding_format = "base64" THEN "base64" ELSE "float"}

(* A vector of upstream u that is right at place i.                        *)
MadeAsAsked(u, i, v) ==
    /\ v.parts = body.items[i].parts
    /\ (client = "gemini" => Uniform(GeminiTask)) /\ Task # None =>
          CASE u \in {"gemini", "cohere"} -> Meant(v.task) = Task
            [] u = "voyage" -> v.task = VoyageTask(Task)
            [] OTHER -> v.task = None
    /\ (client = "gemini" => Uniform(GeminiDimensions)) /\ u # "voyage" =>
          v.dimensions = Dimensions
    /\ u \in {"voyage", "ollama"} => v.truncate = MayTruncate
    /\ u = "cohere" => (v.truncate = "NONE" <=> MayTruncate = "no")

(* The vector at each place of an answer was made from the content the     *)
(* client put there, with the client's task, dimension and permission to   *)
(* truncate where the upstream's dialect has them, and comes in every      *)
(* encoding the client asked for, whatever the two dialects, the order of  *)
(* the upstream's rows and the candidates that failed before (handle_embed *)
(* and the codecs). A batch whose requests name different settings is made *)
(* with one of them, and is excepted.                                      *)
VectorsAreOfInputs ==
    pc = "answered" =>
       /\ {rows[1].encoding : rows \in answer} = Encodings
       /\ \A rows \in answer :
            /\ Len(rows) = Len(body.items)
            /\ \A i \in DOMAIN rows :
                  rows[i].index = i /\ MadeAsAsked(Head(left), i, rows[i].vector)

(* A batch's vectors are each made with the task their request names.      *)
TaskOfEach ==
    pc = "answered" /\ client = "gemini" /\ Head(left) = "gemini" =>
       \A rows \in answer : \A i \in DOMAIN rows :
          Meant(rows[i].vector.task) = GeminiTask(body.items[i])

(* A turn fails as unsupported only when no upstream of its chain could    *)
(* have been told the request ("every candidate is retry-safe until a 2xx  *)
(* commits", embed.rs).                                                    *)
UnsupportedByAll ==
    pc = "unsupported" =>
       \A i \in DOMAIN left : left[i] = "chat" \/ emit_embed_request(left[i], request) = {}
=============================================================================
