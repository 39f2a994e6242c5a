------------------------------- MODULE Stream -------------------------------
(***************************************************************************)
(* One request to a model (llm.rs, ollama.rs): the tries that the client   *)
(* makes to get it accepted, and the reply, in one body or as a stream     *)
(* whose pieces may be cut anywhere.  Reasoning between <think> and        *)
(* </think> is stripped from the reply (thinking_filter.rs): a tag is three*)
(* symbols here, of the three that texts have, and a text of nothing but   *)
(* one "t" reads as a tool call.                                           *)
(* A tool call comes in parts, which may be of two calls in turn.          *)
(***************************************************************************)
EXTENDS Naturals, Sequences, FiniteSets, FiniteSetsExt, Functions

CONSTANTS Providers,   \* of "openai", "ollama"
          MaxRetries,  \* llm_max_retries
          MaxText,     \* bound: symbols and parts of calls in the reply
          MaxPiece,    \* bound: symbols of one piece
          Parts,       \* the parts of a call's arguments
          MaxToolCalls \* bound: tool calls of the reply

ASSUME StreamAssumption ==
    /\ Providers \subseteq {"openai", "ollama"}
    /\ {MaxRetries, MaxText, MaxPiece, MaxToolCalls} \subseteq Nat
    /\ Parts \in Nat \ {0}

Symbols == {"<", "t", "/"}
OpenTag == <<"<", "t", "t">>
CloseTag == <<"<", "/", "t">>
CallText == <<"t">>

Pieces == UNION {[1..n -> Symbols] : n \in 1..MaxPiece}

VARIABLES provider, streamed,
          phase,     \* "sending", "reading", "ok" or "failed"
          attempt,   \* tries that failed
          inside, pending,  \* ThinkStripper
          shown,     \* on_token, and what is accumulated with it
          toolCalls, \* tool_calls_builder: the parts of each call so far
          answer,    \* the message returned
          raw        \* ghost: the text of the reply as it came, in whole lines

filter == <<inside, pending>>
rvars == <<provider, streamed, phase, attempt, filter, shown, toolCalls, answer, raw>>

NoMessage == [text |-> <<>>, calls |-> <<>>]

RInit ==
    /\ provider \in Providers /\ streamed \in BOOLEAN
    /\ phase = "sending" /\ attempt = 0
    /\ inside = FALSE /\ pending = <<>> /\ shown = <<>>
    /\ toolCalls = <<>> /\ answer = NoMessage
    /\ raw = <<>>

-----------------------------------------------------------------------------
\* The filter

\* str::find: where tag first begins in s, 0 if nowhere.
Find(s, tag) ==
    LET at == {i \in 1..(Len(s) + 1 - Len(tag)) : SubSeq(s, i, i + Len(tag) - 1) = tag}
    IN  IF at = {} THEN 0 ELSE Min(at)

From(s, i) == SubSeq(s, i, Len(s))
Before(s, i) == SubSeq(s, 1, i - 1)

\* strip_thinking_blocks.
StripThinking[s \in Seq(Symbols)] ==
    LET start == Find(s, OpenTag)
        rest == From(s, start + Len(OpenTag))
        end == Find(rest, CloseTag)
    IN  IF start = 0 THEN s
        ELSE Before(s, start) \o
             (IF end = 0 THEN <<>> ELSE StripThinking[From(rest, end + Len(CloseTag))])

\* A wrong tail: nothing is kept back.
TailDropped(s, tag) == <<>>

\* tail_after_last_lt: what may still grow into the tag.
TailAfterLastLt(s, tag) ==
    LET lts == {i \in 1..Len(s) : s[i] = "<"}
        tail == From(s, Max(lts))
    IN  IF lts # {} /\ Len(tail) < Len(tag) /\ tail = SubSeq(tag, 1, Len(tail))
        THEN tail ELSE <<>>

\* A state of feed's loop: what is left to look at.
FilterAt == [inside : BOOLEAN, rest : Seq(Symbols)]

\* The loop of feed: what comes out, and the state it leaves.
Filtered[at \in FilterAt] ==
    LET tag == IF at.inside THEN CloseTag ELSE OpenTag
        found == Find(at.rest, tag)
        text == IF found # 0 THEN Before(at.rest, found)
                ELSE SubSeq(at.rest, 1, Len(at.rest) - Len(TailAfterLastLt(at.rest, tag)))
        out == IF at.inside THEN <<>> ELSE text
        on == Filtered[[inside |-> ~at.inside, rest |-> From(at.rest, found + Len(tag))]]
    IN  IF found # 0 THEN [on EXCEPT !.out = out \o @]
        ELSE [inside |-> at.inside, pending |-> TailAfterLastLt(at.rest, tag), out |-> out]

Feed(chunk) == Filtered[[inside |-> inside, rest |-> pending \o chunk]]
Flushed == IF inside THEN <<>> ELSE pending

-----------------------------------------------------------------------------
\* Sending

Reply == UNCHANGED <<provider, streamed, filter, shown, toolCalls, answer, raw>>

\* with_retry makes three tries.
Tries == IF provider = "ollama" THEN 2 ELSE MaxRetries

\* classify_retry and with_retry, of a failure that may pass.
Again ==
    IF attempt < Tries THEN attempt' = attempt + 1 /\ UNCHANGED phase
    ELSE phase' = "failed" /\ UNCHANGED attempt

ConnectFails == phase = "sending" /\ Again /\ Reply

\* 408, 429 or 5xx: Ollama's client takes no status for one that may pass.
Overloaded ==
    /\ phase = "sending"
    /\ IF provider = "openai" THEN Again ELSE phase' = "failed" /\ UNCHANGED attempt
    /\ Reply

Rejected ==
    /\ phase = "sending"
    /\ phase' = "failed" /\ UNCHANGED attempt
    /\ Reply

\* A stream is never asked for again: the tries are over.
Accepted ==
    /\ phase = "sending"
    /\ phase' = "reading"
    /\ attempt' = IF streamed THEN 0 ELSE attempt
    /\ Reply

-----------------------------------------------------------------------------
\* Reading

Request == UNCHANGED <<provider, streamed, attempt>>
Room(n) == Len(raw) + FoldFunction(+, 0, toolCalls) + n <= MaxText

\* synthesize_tool_call_from_content: Ollama's models may write a call as text.
Synthesized(message) ==
    IF message.calls = <<>> /\ message.text = CallText
    THEN [text |-> <<>>, calls |-> <<"text">>] ELSE message

Stripped(message) == [message EXCEPT !.text = StripThinking[@]]

\* normalize_assistant_message, which strips again what was streamed.
Normalized(message) == Synthesized(Stripped(message))

\* Calls that came whole.
WholeCalls(n) == [i \in 1..n |-> "whole"]

Answers(message) == answer' = message /\ phase' = "ok"

\* chat_with_tools: the body is read to its end before any of it is looked at.
Body ==
    /\ phase = "reading" /\ ~streamed
    /\ \E text \in Pieces : Room(Len(text)) /\ raw' = raw \o text
    /\ Request /\ UNCHANGED <<phase, filter, shown, toolCalls, answer>>

WholeReply ==
    /\ phase = "reading" /\ ~streamed
    /\ \E n \in 0..MaxToolCalls :
         LET message == [text |-> raw, calls |-> WholeCalls(n)]
         IN  Answers(IF provider = "ollama" THEN Normalized(message) ELSE Stripped(message))
    /\ Request /\ UNCHANGED <<filter, shown, toolCalls, raw>>

\* The body cannot be read to its end: Ollama's client asks again.
BodyBreaks ==
    /\ phase = "reading" /\ ~streamed
    /\ raw' = <<>>
    /\ IF provider = "ollama" /\ attempt < Tries
       THEN phase' = "sending" /\ attempt' = attempt + 1
       ELSE phase' = "failed" /\ UNCHANGED attempt
    /\ UNCHANGED <<provider, streamed, filter, shown, toolCalls, answer>>

\* The body is not the JSON it should be, or has no choices.
BadBody ==
    /\ phase = "reading" /\ ~streamed
    /\ phase' = "failed" /\ raw' = <<>>
    /\ Request /\ UNCHANGED <<filter, shown, toolCalls, answer>>

\* A line with text.
Token(text) ==
    /\ raw' = raw \o text
    /\ LET fed == Feed(text) IN
         /\ inside' = fed.inside /\ pending' = fed.pending
         /\ shown' = shown \o fed.out

Text ==
    /\ phase = "reading" /\ streamed
    /\ \E text \in Pieces : Room(Len(text)) /\ Token(text)
    /\ Request /\ UNCHANGED <<phase, toolCalls, answer>>

\* A line with a part of a call, new or one of those begun.
CallPart ==
    /\ phase = "reading" /\ streamed /\ provider = "openai" /\ Room(1)
    /\ \/ Len(toolCalls) < MaxToolCalls /\ toolCalls' = Append(toolCalls, 1)
       \/ \E i \in DOMAIN toolCalls :
            toolCalls[i] < Parts /\ toolCalls' = [toolCalls EXCEPT ![i] = @ + 1]
    /\ Request /\ UNCHANGED <<phase, filter, shown, answer, raw>>

\* Arguments that do not parse become an empty object.
Built == [i \in DOMAIN toolCalls |-> IF toolCalls[i] = Parts THEN "whole" ELSE "empty"]

\* A wrong end: what the filter kept back is forgotten.
StreamEndsUnflushed ==
    /\ phase = "reading" /\ streamed /\ provider = "openai"
    /\ UNCHANGED shown
    /\ pending' = <<>> /\ inside' = FALSE
    /\ Answers([text |-> shown, calls |-> Built])
    /\ Request /\ UNCHANGED <<toolCalls, raw>>

\* The end of the stream, for OpenAI's client, whether [DONE] came or not.  A last
\* line without a line end was never looked at: it is dropped, and nobody is told.
StreamEnds ==
    /\ phase = "reading" /\ streamed /\ provider = "openai"
    /\ shown' = shown \o Flushed
    /\ pending' = <<>> /\ inside' = FALSE
    /\ Answers([text |-> shown', calls |-> Built])
    /\ Request /\ UNCHANGED <<toolCalls, raw>>

\* The done chunk of Ollama's, with or without a line end, and the stream's end
\* after it.  The calls are those of this chunk.
DoneChunk ==
    /\ phase = "reading" /\ streamed /\ provider = "ollama"
    /\ \E text \in Pieces \cup {<<>>}, n \in 0..MaxToolCalls :
         LET fed == Feed(text) IN
         /\ Room(Len(text)) /\ raw' = raw \o text
         /\ shown' = shown \o fed.out \o (IF fed.inside THEN <<>> ELSE fed.pending)
         /\ Answers(Normalized([text |-> shown', calls |-> WholeCalls(n)]))
    /\ inside' = FALSE /\ pending' = <<>>
    /\ Request /\ UNCHANGED toolCalls

\* The connection breaks; or it ends, for Ollama's client, before a done chunk.
StreamBreaks ==
    /\ phase = "reading" /\ streamed
    /\ phase' = "failed"
    /\ Request /\ UNCHANGED <<filter, shown, toolCalls, answer, raw>>

RequestOver == phase \in {"ok", "failed"} /\ UNCHANGED rvars

Sending == ConnectFails \/ Overloaded \/ Rejected \/ Accepted

RNext ==
    \/ ConnectFails \/ Overloaded \/ Rejected \/ Accepted
    \/ Body \/ WholeReply \/ BodyBreaks \/ BadBody
    \/ Text \/ CallPart \/ StreamEnds \/ DoneChunk \/ StreamBreaks
    \/ RequestOver

RSpec == RInit /\ [][RNext]_rvars

\* The server accepts or refuses each request, and sends each body or breaks it off;
\* a stream may go on for ever.  The clients, which have no timeout, wait for that.
BodyEnds == WholeReply \/ BodyBreaks \/ BadBody
Answering == WF_rvars(Sending) /\ WF_rvars(BodyEnds)

-----------------------------------------------------------------------------
\* Properties

\* Wherever the stream cut the text, what is shown of it is what stripping all
\* of it at once would leave, but for the few symbols that may yet be a tag; so
\* no reasoning is shown, and no text is lost.
StripsAsWhole ==
    streamed => StripThinking[raw] = shown \o Flushed

\* What is kept of a reply is what was shown of it, or would have been: the text of
\* its whole lines stripped, once more by Ollama's client, unless it is a call.
AnswerIsReply ==
    phase = "ok" =>
        /\ LET text == IF provider = "ollama" /\ streamed
                       THEN StripThinking[StripThinking[raw]] ELSE StripThinking[raw]
           IN  \/ answer.text = text
               \/ provider = "ollama" /\ text = CallText /\ answer.calls = <<"text">>
        /\ streamed /\ provider = "openai" => answer.text = shown

\* The client is done with asking: it has a reply or none, or has one come in.
Settled == phase \in {"ok", "failed"} \/ (streamed /\ phase = "reading")

\* If the server answers, the client is done at some time: however often it is
\* turned away, its tries end.
RequestEnds == Answering => []<>Settled

\* Once it has shown anything it never asks again, so nothing is shown twice.
NeverShownTwice == [][phase' = "sending" => shown = <<>>]_rvars
=============================================================================
