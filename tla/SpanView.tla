------------------------------- MODULE SpanView --------------------------------
(* What a span is shown as (span_normalize.py): adapters for the attributes of *)
(* the SDKs are tried in turn, and the first that finds something wins.        *)
(*                                                                             *)
(* A prompt attribute is kept by its form: text that is no JSON, JSON text, a  *)
(* list or object of messages, one with a system part only, without either, or *)
(* another JSON value.                                                         *)
EXTENDS Naturals, Sequences

CONSTANTS None

Form == {None, "text", "quoted", "messages", "system", "empty", "scalar"}

VARIABLES attrs, view

vars == <<attrs, view>>

(* prompt, promptMessages: ai.prompt and ai.prompt.messages; prompts and       *)
(* completions: the indexed ones of gen_ai; tool: the SDK that names a tool;   *)
(* status: otel.status.message.                                                *)
Attributes ==
  [prompt : Form, promptMessages : {None, "messages", "empty"}, prompts : {None, "user", "system", "blank"},
   completion : BOOLEAN, entity : {None, "llm", "tool"}, system : BOOLEAN,
   operation : {None, "chat", "execute_tool"}, model : BOOLEAN,
   tool : {None, "ai", "traceloop", "gen_ai"}, result : BOOLEAN, status : BOOLEAN, error : BOOLEAN]

Llm(adapter, messages, system, output) ==
  [kind |-> "llm", adapter |-> adapter, messages |-> messages, system |-> system, output |-> output]
Tool(adapter, name, result, failed) ==
  [kind |-> "tool", adapter |-> adapter, name |-> name, result |-> result, failed |-> failed]

--------------------------------------------------------------------------------
(* The adapters; none is None                                                  *)

Json == {"messages", "system", "empty", "scalar"}

\* Of both the first that is JSON, and not a string.
AiPrompt(a) ==
  IF a.promptMessages \in Json THEN a.promptMessages
  ELSE IF a.prompt \in Json THEN a.prompt ELSE None

AiSdkLlm(a) ==
  IF AiPrompt(a) \in {"messages", "system"}
  THEN Llm("ai_sdk_llm", IF AiPrompt(a) = "messages" THEN "prompt" ELSE None, AiPrompt(a) = "system", a.completion)
  ELSE None

\* The entity "llm" stands for either name of the kind: traceloop.span.kind and
\* llm.request.type.
TraceloopLlm(a) ==
  IF (a.entity = "llm" \/ a.prompts # None \/ a.completion) /\ (a.prompts \in {"user", "system"} \/ a.completion)
  THEN Llm("traceloop_llm", IF a.prompts = "user" THEN "indexed" ELSE None, a.prompts = "system", a.completion)
  ELSE None

\* A prompt that is text, or only the name of a system.
ClaudeAgentSdkLlm(a) ==
  IF a.prompt \in {"text", "quoted"} \/ (a.prompt = None /\ a.system)
  THEN Llm("claude_agent_sdk_llm", IF a.prompt # None THEN "prompt" ELSE None, a.system, FALSE) ELSE None

Result(a) == IF a.result THEN "result" ELSE IF a.status THEN "error" ELSE None

AiSdkTool(a) == IF a.tool = "ai" THEN Tool("ai_sdk_tool", TRUE, Result(a), a.status) ELSE None

\* Without a name of its own it has that of the span.
TraceloopTool(a) ==
  IF a.entity = "tool" \/ a.tool = "traceloop" THEN Tool("traceloop_tool", TRUE, Result(a), a.status) ELSE None

\* "chat" stands for the four operations that count as a chat.
GenAiLlm(a) ==
  IF a.operation = "chat" \/ a.model THEN Llm("gen_ai_llm", None, a.system, a.completion) ELSE None

GenAiTool(a) ==
  IF a.operation = "execute_tool" \/ a.tool = "gen_ai"
  THEN Tool("gen_ai_tool", a.tool = "gen_ai", IF a.result THEN "result" ELSE None, a.error \/ a.status) ELSE None

Adapters(a) ==
  <<AiSdkLlm(a), TraceloopLlm(a), ClaudeAgentSdkLlm(a), AiSdkTool(a), TraceloopTool(a), GenAiLlm(a), GenAiTool(a)>>

NormalizeSpan(a) ==
  LET found == SelectSeq(Adapters(a), LAMBDA v : v # None)
  IN  IF found = <<>> THEN [kind |-> "other", adapter |-> "fallback"] ELSE found[1]

Init == attrs \in Attributes /\ view = None

Show == view = None /\ view' = NormalizeSpan(attrs) /\ UNCHANGED attrs

Next == Show

--------------------------------------------------------------------------------
(* Properties                                                                  *)

NoPrompt(a) == a.prompt = None /\ a.promptMessages = None /\ a.prompts = None /\ ~a.completion
NoTool(a) == a.tool = None /\ a.entity # "tool" /\ a.operation # "execute_tool"

(* Whatever else is on it: a prompt that an SDK recorded is shown, one that is *)
(* text unless another SDK numbered its own; a call of a tool is shown as one, *)
(* as failed if it has a message of failure, unless the span has a prompt, a   *)
(* system or, for the generic convention, a model; and a span is not shown as  *)
(* something no attribute says.                                                *)
SpanIsShown ==
  view # None =>
    /\ (attrs.prompt = "text" /\ attrs.prompts = None /\ ~attrs.completion) \/ attrs.promptMessages = "messages" \/ (attrs.prompts = "user" /\ attrs.prompt # "system") =>
         view.kind = "llm" /\ view.messages # None
    /\ attrs.prompt = "messages" /\ attrs.promptMessages = None => view.kind = "llm" /\ view.messages = "prompt"
    /\ attrs.tool \in {"ai", "traceloop"} /\ NoPrompt(attrs) /\ ~attrs.system =>
         view.kind = "tool" /\ (attrs.status => view.failed /\ view.result # None)
    /\ attrs.operation = "execute_tool" /\ NoPrompt(attrs) /\ ~attrs.system /\ ~attrs.model /\ attrs.entity # "llm" =>
         view.kind = "tool"
    /\ view.kind = "llm" => ~(NoPrompt(attrs) /\ ~attrs.system /\ ~attrs.model /\ attrs.operation # "chat")
    /\ view.kind = "tool" => ~NoTool(attrs)
    /\ view.kind = "llm" /\ view.messages = "prompt" => AiPrompt(attrs) = "messages" \/ attrs.prompt \in {"text", "quoted"}

(* A prompt of the Claude agent SDK falls through to its adapter               *)
(* (span_normalize.py:76-79): not if it happens to be a JSON number.           *)
PromptOfUserIsShown == view # None /\ attrs.prompt = "scalar" => view.kind = "llm" /\ view.messages # None

(* A span that executes a tool is shown as a tool (span_normalize.py:325-327): *)
(* not if it names the system, which is taken for a system prompt.             *)
ExecuteToolIsATool ==
  view # None /\ attrs.operation = "execute_tool" /\ NoPrompt(attrs) /\ ~attrs.model => view.kind = "tool"
================================================================================
