---------------------------- MODULE MCEmbeddings ----------------------------
(* Contents of each kind, alone and mixed, and chains that between them    *)
(* have every dialect.                                                     *)
EXTENDS Embeddings

SomeInputs == {<<Text("a")>>, <<Text("a"), Text("b")>>, <<Inline("i")>>,
               <<Text("a"), Linked("l")>>, <<Audio("s")>>}
SomeTaskTypes == {None, "QUESTION_ANSWERING", "RETRIEVAL_DOCUMENT"}
SomeChains == {<<"openai", "voyage">>, <<"gemini", "voyage">>, <<"chat", "cohere">>, <<"ollama">>}
=============================================================================
