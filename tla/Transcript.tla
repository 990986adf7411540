------------------------------ MODULE Transcript ------------------------------
(***************************************************************************)
(* What a handler of Conversation sends to the LLM: the normalized messages *)
(* of llm/base.py that conversation.py and agent_core.py put together, and   *)
(* the native messages that llm/google_provider.py and                      *)
(* llm/anthropic_provider.py make of them.  A ToolCall goes by its id and    *)
(* name; provider_data, which comes back as it went, goes with the id.       *)
(***************************************************************************)
EXTENDS Conversation

(* A plain turn, an assistant's turn that asks for a Tool, and its result. *)
TextOf(role) == [role |-> role, calls |-> <<>>, answers |-> NoCall]
CallTurn(call) == [role |-> "assistant", calls |-> <<call>>, answers |-> NoCall]
ResultTurn(call) == [role |-> "tool", calls |-> <<>>, answers |-> call.id]

Stored(s) == [i \in 1..Len(history[s]) |-> TextOf(history[s][i].role)]

(* Mutant: the "yes" itself is left out. *)
SplicedWithoutYes(s) == Stored(s)

(* The history and the message being handled, which is not stored yet. *)
Spliced(s) == Append(Stored(s), TextOf("user"))

(* continue_with_tool_result *)
WithResult(messages, call) == messages \o <<CallTurn(call), ResultTurn(call)>>

(* The transcript a handler is about to send, as it reads the history. *)
Sent(t) ==
    LET s == turn[t].session IN
    CASE pc[t] = "respond" -> Append(Stored(s), TextOf("user"))
      [] pc[t] = "call" -> WithResult(Append(Stored(s), TextOf("user")), turn[t].call)
      [] pc[t] = "run" -> WithResult(Spliced(s), turn[t].call)

-------------------------------------------------------------------------------
(* Gemini wants the Tool's name with its result; the normalized result has the *)
(* call's id only, so the names are looked up among the earlier calls.        *)
CallsIn(messages) ==
    UNION {{messages[i].calls[j] : j \in DOMAIN messages[i].calls} :
           i \in {k \in DOMAIN messages : messages[k].role = "assistant"}}
NamesFor(messages, id) == {c.name : c \in {d \in CallsIn(messages) : d.id = id}}

NativeContent(m, messages) ==
    IF m.role = "tool"
    THEN [role |-> "user", part |-> "response", id |-> m.answers,
          names |-> NamesFor(messages, m.answers)]
    ELSE IF m.role = "assistant" /\ m.calls # <<>>
    THEN [role |-> "model", part |-> "call", id |-> m.calls[1].id, names |-> {m.calls[1].name}]
    ELSE [role |-> IF m.role = "user" THEN "user" ELSE "model", part |-> "text",
          id |-> NoCall, names |-> {}]

NativeContents(messages) == [i \in DOMAIN messages |-> NativeContent(messages[i], messages)]

(* Anthropic: a Tool's result is a block of a user's message. *)
NativeMessage(m) ==
    IF m.role = "tool" THEN [role |-> "user", block |-> "tool_result", id |-> m.answers]
    ELSE IF m.role = "assistant" /\ m.calls # <<>>
    THEN [role |-> "assistant", block |-> "tool_use", id |-> m.calls[1].id]
    ELSE [role |-> m.role, block |-> "text", id |-> NoCall]

-------------------------------------------------------------------------------
Alternates(turns, second) ==
    \A i \in 1..Len(turns) : turns[i].role = IF i % 2 = 1 THEN "user" ELSE second

GeminiAccepts(contents) ==
    /\ Alternates(contents, "model")
    /\ \A i \in 1..Len(contents) :
          /\ contents[i].part = "call" => i > 1 /\ contents[i - 1].part # "call"
          /\ contents[i].part = "response" =>
                /\ i > 1 /\ contents[i - 1].part = "call"
                /\ contents[i - 1].id = contents[i].id /\ contents[i - 1].names = contents[i].names

AnthropicAccepts(sent) ==
    /\ Alternates(sent, "assistant")
    /\ \A i \in 1..Len(sent) : sent[i].block = "tool_result" =>
          i > 1 /\ sent[i - 1].block = "tool_use" /\ sent[i - 1].id = sent[i].id

(* "The reconstructed transcript is valid for every provider, not just the     *)
(* lenient ones" (conversation.py:124-132): whatever was stored, confirmed,    *)
(* nudged, swept or lost before, roles alternate, a function call directly    *)
(* follows a user's turn, and a result its call, by its id and name.          *)
TranscriptsAreValid ==
    \A t \in Threads : pc[t] \in {"respond", "call", "run"} =>
        LET sent == Sent(t) IN
        /\ GeminiAccepts(NativeContents(sent))
        /\ AnthropicAccepts([i \in DOMAIN sent |-> NativeMessage(sent[i])])
===============================================================================
