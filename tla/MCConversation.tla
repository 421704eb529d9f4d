--------------------------- MODULE MCConversation ---------------------------
(* Conversation with two settings: one that forces a call, one that names    *)
(* the tool and the limits.                                                   *)
EXTENDS Conversation

SomeKnobs ==
  {Setting(<<>>, <<>>, <<"f", "g">>, <<Choice("required", "")>>, <<"high">>, <<2000>>),
   Setting(<<100>>, <<"end">>, <<"f">>, <<Choice("tool", "f")>>, <<>>, <<>>)}

OneKnob == {Setting(<<>>, <<>>, <<"f">>, <<>>, <<>>, <<>>)}

=============================================================================
