------------------------------ MODULE ModelCall ------------------------------
(***************************************************************************)
(* A conversation with the language model: GenAIClient.call_openai           *)
(* (t212ai/genai/client/core.py) with its tool rounds, its budget of tool    *)
(* calls, its retries (retrying.py), and the compaction of a context that    *)
(* has grown too large (t212ai/genai/context.py). A caller works the tool    *)
(* calls off; what the tools do is in the modules that extend this one.      *)
(***************************************************************************)
EXTENDS Integers, Sequences

CONSTANTS
    Caller,         \* who holds a conversation, one at a time each
    Large,          \* bound: the callers whose context can outgrow the model's
    RecentMessages, \* recent_messages: what a compaction tries to keep
    MaxRetries,     \* max_retries: attempts at one request
    ToolCallLimit,  \* tool_call_limit, 0 for none
    MaxWidth        \* bound: tool calls that one answer of the model can hold

ASSUME ModelCallBounds ==
    /\ Large \subseteq Caller
    /\ RecentMessages \in Nat \ {0}
    /\ MaxRetries \in Nat \ {0}
    /\ ToolCallLimit \in Nat
    /\ MaxWidth \in Nat \ {0}

VARIABLE conv       \* per caller: its conversation

-----------------------------------------------------------------------------
(* Messages *)

\* calls: the ids of the tool calls an assistant message makes. answers: the id
\* a tool message answers. offer: the pending action whose approval payload it
\* carries. 0 stands for none.
Role == {"system", "user", "assistant", "tool"}
Message == [role : Role, calls : SUBSET Nat, answers : Nat, offer : Nat]

Plain(role) == [role |-> role, calls |-> {}, answers |-> 0, offer |-> 0]
ToolMessage(id, offer) ==
    [role |-> "tool", calls |-> {}, answers |-> id, offer |-> offer]
AssistantCalls(ids) == [Plain("assistant") EXCEPT !.calls = ids]

\* _build_messages: the system prompt, n messages of context, the request.
Prompt(n) == [i \in 1 .. n + 2 |-> Plain(IF i = 1 THEN "system" ELSE "user")]

IsTool(m, i) == m[i].role = "tool"

\* What the provider asks of a request: a tool message stands under the
\* assistant message that made the call, and every call is answered.
Paired(m) ==
    /\ \A i \in DOMAIN m : IsTool(m, i) =>
          \E j \in 1 .. i - 1 :
             /\ m[i].answers \in m[j].calls
             /\ \A k \in j + 1 .. i - 1 : IsTool(m, k)
    /\ \A j \in DOMAIN m : \A id \in m[j].calls :
          \E i \in j + 1 .. Len(m) :
             /\ m[i].answers = id
             /\ \A k \in j + 1 .. i : IsTool(m, k)

-----------------------------------------------------------------------------
(* Compaction. How many tokens a message counts is left open, so where a cut *)
(* falls is a free choice among the places where the code may make it.       *)

\* A faulty variant of RecentStart: wherever the count of messages falls.
RecentStartAnywhere(m) ==
    LET wanted == Len(m) - RecentMessages + 1
    IN  {IF wanted > 2 THEN wanted ELSE 2}

\* _recent_start: back over the tool messages, to the message they belong to.
RecentStart(m) ==
    LET wanted == Len(m) - RecentMessages + 1
        from == IF wanted > 2 THEN wanted ELSE 2
    IN  {s \in 2 .. from : /\ s = 2 \/ ~IsTool(m, s)
                           /\ \A k \in s + 1 .. from : IsTool(m, k)}

\* truncate_messages goes on from there, past the tool messages.
CutPoints(m) ==
    {i \in DOMAIN m : \E s \in RecentStart(m) : i = s \/ (i > s /\ ~IsTool(m, i))}

From(m, i) == <<m[1]>> \o SubSeq(m, i, Len(m))

TruncateMessages(m) == {From(m, i) : i \in CutPoints(m)} \cup {<<m[1]>>}

\* _assemble_with_summary, when there is something before the recent messages.
Summarised(m) ==
    {<<m[1], Plain("user")>> \o SubSeq(m, s, Len(m)) :
        s \in {r \in RecentStart(m) : r > 2}}

CompactMessages(m) ==
    Summarised(m) \cup TruncateMessages(m)
        \cup UNION {TruncateMessages(candidate) : candidate \in Summarised(m)}

-----------------------------------------------------------------------------
(* The conversation *)

\* pc: "idle", "ready" (a request is to be made), "asked" (it is with the
\* provider), "tools" (calls of the last answer are to be worked off),
\* "answered", "failed" (an exception leaves the call). messages: the caller's
\* list. sent: the list the request is made from; the same one until the tool
\* budget is exceeded, then a copy of its own. width: calls an answer may hold,
\* 0 for a request without tools. closing: the last request, without tools.
\* executed: the calls worked off. adjusted: compacted after a rejection.
NoConversation ==
    [pc |-> "idle", messages |-> <<>>, sent |-> <<>>, width |-> 0,
     closing |-> FALSE, executed |-> 0, attempt |-> 1, adjusted |-> FALSE,
     calls |-> <<>>, next |-> 1]

Started(n, width) ==
    [NoConversation EXCEPT !.pc = "ready", !.messages = Prompt(n),
                           !.sent = Prompt(n), !.width = width]

\* The next request is made with attempts of its own.
Again(k) == [k EXCEPT !.pc = "ready", !.sent = k.messages]

\* The call returns or raises; its caller has the list of messages left.
Ended(k, pc) == [NoConversation EXCEPT !.pc = pc, !.messages = k.messages]

SetConv(c, k) == conv' = [conv EXCEPT ![c] = k]

\* Compacting the caller's own list changes what the caller sees of it.
WithSent(k, m) ==
    [k EXCEPT !.sent = m, !.messages = IF k.closing THEN @ ELSE m]

\* _ensure_context_budget, before a request and before each attempt.
Request(c) ==
    /\ conv[c].pc = "ready"
    /\ \E m \in {conv[c].sent} \cup
                 (IF c \in Large THEN CompactMessages(conv[c].sent) ELSE {}) :
          SetConv(c, [WithSent(conv[c], m) EXCEPT !.pc = "asked"])

Answers(c) ==
    /\ conv[c].pc = "asked"
    /\ SetConv(c, Ended(conv[c], "answered"))

OverLimit(k, n) == ToolCallLimit # 0 /\ k.executed + n > ToolCallLimit

\* The model answers with tool calls. Over the budget each gets an error for an
\* answer and one last request is made without tools.
CallTools(c) ==
    LET k == conv[c] IN
    /\ k.pc = "asked"
    /\ ~k.closing
    /\ \E n \in 1 .. k.width, timedOut \in BOOLEAN :
          LET ids == [i \in 1 .. n |-> k.next + i - 1]
              asked == Append(k.messages, AssistantCalls({ids[i] : i \in 1 .. n}))
              skipped == [i \in 1 .. n |-> ToolMessage(ids[i], 0)]
              answered == [k EXCEPT !.messages = asked, !.next = @ + n, !.sent = <<>>,
                                    !.attempt = 1, !.adjusted = FALSE]
          IN  SetConv(c, IF OverLimit(k, n) \/ timedOut
                         THEN [Again([answered EXCEPT !.messages = @ \o skipped])
                                  EXCEPT !.closing = TRUE]
                         ELSE [answered EXCEPT !.pc = "tools", !.calls = ids])

\* _execute_tool_call: whatever the tool does, one message answers the call.
ToolAnswered(k, offer) ==
    LET done == [k EXCEPT !.messages = Append(@, ToolMessage(Head(k.calls), offer)),
                          !.calls = Tail(@), !.executed = @ + 1]
    IN  IF done.calls = <<>> THEN Again(done) ELSE done

\* The context is too long: compacted and tried again, once, on an attempt.
ContextRejected(c) ==
    LET k == conv[c] IN
    /\ k.pc = "asked"
    /\ c \in Large
    /\ ~k.adjusted
    /\ \E m \in CompactMessages(k.sent) :
          SetConv(c, IF k.attempt < MaxRetries
                     THEN [WithSent(k, m) EXCEPT !.pc = "ready", !.adjusted = TRUE,
                                                 !.attempt = @ + 1]
                     ELSE Ended(WithSent(k, m), "failed"))

\* A faulty variant of Unavailable: retried until the provider is back.
UnavailableForever(c) ==
    LET k == conv[c] IN
    /\ k.pc = "asked"
    /\ SetConv(c, [k EXCEPT !.pc = "ready"])

\* A rate limit, a timeout or a server error.
Unavailable(c) ==
    LET k == conv[c] IN
    /\ k.pc = "asked"
    /\ SetConv(c, IF k.attempt < MaxRetries
                  THEN [k EXCEPT !.pc = "ready", !.attempt = @ + 1]
                  ELSE Ended(k, "failed"))

\* Any other error, a second context rejection among them.
Refused(c) ==
    /\ conv[c].pc = "asked"
    /\ SetConv(c, Ended(conv[c], "failed"))

ConvStep(c) ==
    \/ Request(c) \/ Answers(c) \/ CallTools(c)
    \/ ContextRejected(c) \/ Unavailable(c) \/ Refused(c)

=============================================================================
