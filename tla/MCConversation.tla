--------------------------- MODULE MCConversation ---------------------------
(* One profile of each adapter, two of them with an allowlist, and answers of
   text, thought and up to two calls. *)
EXTENDS Conversation

B(type)  == [type |-> type]
Call(t)  == [type |-> "toolCall", name |-> t]
MCProfiles == {[adapter |-> "openai-shaped", ceiling |-> 8, toolAllowlist |-> {"bash"}],
               [adapter |-> "messages-text", ceiling |-> 4, toolAllowlist |-> {}],
               [adapter |-> "module", ceiling |-> 4, toolAllowlist |-> {"gone"}]}
MCUserBlocks   == {<<B("text")>>, <<B("image"), B("text"), B("text")>>}
MCAnswerBlocks == {<<>>, <<B("thinking"), B("text")>>, <<B("text"), Call("bash"), Call("read")>>,
                   <<Call("read")>>}
=============================================================================
