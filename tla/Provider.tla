------------------------------ MODULE Provider ------------------------------
(***************************************************************************)
(* One call of the model (AnthropicProvider.chat, core/llm/provider.py),   *)
(* wrapped by the TracingProvider when the daemon has a trace.  The stream *)
(* of an answer may drop; the request is then sent again, up to            *)
(* MaxStreamRetries times in all, and the server answers from the start,   *)
(* not necessarily with the same text.  Tokens are published while the     *)
(* first stream lasts, one publish at a time.                              *)
(*                                                                         *)
(* stalled: a subscribed client has stopped reading for good, so that no   *)
(* publish returns (EventStream has the details).                          *)
(***************************************************************************)
EXTENDS Trace

CONSTANTS
  Chats,             \* the calls of the model
  MaxStreamRetries,  \* attempts, _MAX_STREAM_RETRIES
  MaxDeltas          \* bound: deltas of one stream, per call

ASSUME ProviderAssumption ==
  /\ MaxStreamRetries \in Nat \ {0}
  /\ MaxDeltas \in [Chats -> Nat]

VARIABLES
  pc,       \* where chat is suspended, or how it ended
  attempt,  \* the attempt under way
  deltas,   \* how many deltas the stream under way has brought
  said,     \* the text tokens of the stream under way, as the server sent them
  parts,    \* text_parts
  shown,    \* history: the tokens published
  stalled

chatVars == <<pc, attempt, deltas, said, parts, shown, stalled>>

Publishing == {"selecting", "token", "thought", "usage"}
Final == {"answered", "raised", "cancelled"}

ChatInit ==
  /\ pc = [c \in Chats |-> "idle"]
  /\ attempt = [c \in Chats |-> 1]
  /\ deltas = [c \in Chats |-> 0]
  /\ said = [c \in Chats |-> <<>>]
  /\ parts = [c \in Chats |-> <<>>]
  /\ shown = [c \in Chats |-> <<>>]
  /\ stalled = FALSE

Goto(c, p) == pc' = [pc EXCEPT ![c] = p]

StreamVars == <<attempt, deltas, said, parts, shown, stalled>>

(* The record of the call, then the publish of the selected model.          *)
Call(c) ==
  /\ pc[c] = "idle" /\ Goto(c, "selecting")
  /\ Emit
  /\ UNCHANGED StreamVars

(* The publish returns and the first stream is opened.                      *)
Selected(c) ==
  /\ pc[c] = "selecting" /\ ~stalled
  /\ Goto(c, "streaming")
  /\ UNCHANGED <<StreamVars, traceVars>>

(* A piece of text.  It is published in the first attempt, and added to     *)
(* text_parts when that publish has returned.                               *)
Token(c) == <<attempt[c], deltas[c] + 1>>

Text(c) ==
  /\ pc[c] = "streaming" /\ deltas[c] < MaxDeltas[c]
  /\ deltas' = [deltas EXCEPT ![c] = @ + 1]
  /\ said' = [said EXCEPT ![c] = Append(@, Token(c))]
  /\ \/ /\ attempt[c] = 1
        /\ Goto(c, "token")
        /\ shown' = [shown EXCEPT ![c] = Append(@, Token(c))]
        /\ UNCHANGED parts
     \/ /\ attempt[c] # 1
        /\ parts' = [parts EXCEPT ![c] = Append(@, Token(c))]
        /\ UNCHANGED <<pc, shown>>
  /\ UNCHANGED <<attempt, stalled, traceVars>>

(* A piece of thinking: published in the first attempt, kept nowhere.       *)
Thinking(c) ==
  /\ pc[c] = "streaming" /\ deltas[c] < MaxDeltas[c]
  /\ deltas' = [deltas EXCEPT ![c] = @ + 1]
  /\ IF attempt[c] = 1 THEN Goto(c, "thought") ELSE UNCHANGED pc
  /\ UNCHANGED <<attempt, said, parts, shown, stalled, traceVars>>

TokenPublished(c) ==
  /\ pc[c] = "token" /\ ~stalled
  /\ Goto(c, "streaming")
  /\ parts' = [parts EXCEPT ![c] = Append(@, said[c][Len(said[c])])]
  /\ UNCHANGED <<attempt, deltas, said, shown, stalled, traceVars>>

ThoughtPublished(c) ==
  /\ pc[c] = "thought" /\ ~stalled
  /\ Goto(c, "streaming")
  /\ UNCHANGED <<StreamVars, traceVars>>

(* The stream is complete; the usage is published.                          *)
StreamEnds(c) ==
  /\ pc[c] = "streaming" /\ Goto(c, "usage")
  /\ UNCHANGED <<StreamVars, traceVars>>

(* What chat does that empties text_parts only before its first attempt.    *)
DroppedKeepsText(c) ==
  /\ pc[c] = "streaming"
  /\ IF attempt[c] = MaxStreamRetries
     THEN Goto(c, "raised") /\ UNCHANGED <<attempt, deltas, said>>
     ELSE /\ attempt' = [attempt EXCEPT ![c] = @ + 1]
          /\ deltas' = [deltas EXCEPT ![c] = 0]
          /\ said' = [said EXCEPT ![c] = <<>>]
          /\ UNCHANGED pc
  /\ UNCHANGED <<parts, shown, stalled, traceVars>>

(* The connection drops, before or after the first delta.  All but the last *)
(* time the next attempt starts at once (the delay is computed and only     *)
(* logged), from an empty text.                                             *)
Dropped(c) ==
  /\ pc[c] = "streaming"
  /\ IF attempt[c] = MaxStreamRetries
     THEN Goto(c, "raised") /\ UNCHANGED <<attempt, deltas, said, parts>>
     ELSE /\ attempt' = [attempt EXCEPT ![c] = @ + 1]
          /\ deltas' = [deltas EXCEPT ![c] = 0]
          /\ said' = [said EXCEPT ![c] = <<>>]
          /\ parts' = [parts EXCEPT ![c] = <<>>]
          /\ UNCHANGED pc
  /\ UNCHANGED <<shown, stalled, traceVars>>

(* Any other exception of the client library is not caught.                 *)
Fails(c) ==
  /\ pc[c] = "streaming" /\ Goto(c, "raised")
  /\ UNCHANGED <<StreamVars, traceVars>>

(* A subscriber raises: publish lets the exception through.                 *)
PublishRaises(c) ==
  /\ pc[c] \in Publishing /\ Goto(c, "raised")
  /\ UNCHANGED <<StreamVars, traceVars>>

(* The usage is published; the record of the response, and the answer.      *)
Answered(c) ==
  /\ pc[c] = "usage" /\ ~stalled
  /\ Goto(c, "answered")
  /\ Emit
  /\ UNCHANGED StreamVars

(* The caller goes on: the call and its local variables are gone.           *)
Forget(c) ==
  /\ Goto(c, "idle")
  /\ attempt' = [attempt EXCEPT ![c] = 1]
  /\ deltas' = [deltas EXCEPT ![c] = 0]
  /\ said' = [said EXCEPT ![c] = <<>>]
  /\ parts' = [parts EXCEPT ![c] = <<>>]
  /\ shown' = [shown EXCEPT ![c] = <<>>]
  /\ UNCHANGED stalled

ChatStep(c) ==
  \/ Selected(c) \/ Text(c) \/ Thinking(c) \/ TokenPublished(c)
  \/ ThoughtPublished(c) \/ StreamEnds(c) \/ Dropped(c) \/ Fails(c)
  \/ Answered(c)

(* A client stops reading, at any time.                                     *)
Stall ==
  /\ ~stalled /\ stalled' = TRUE
  /\ UNCHANGED <<pc, attempt, deltas, said, parts, shown, traceVars>>

ChatTypeOK ==
  /\ pc \in [Chats -> {"idle", "streaming"} \cup Publishing \cup Final]
  /\ attempt \in [Chats -> 1 .. MaxStreamRetries]
  /\ deltas \in [Chats -> Nat]
  /\ said \in [Chats -> Seq(Nat \X Nat)]
  /\ parts \in [Chats -> Seq(Nat \X Nat)]
  /\ shown \in [Chats -> Seq(Nat \X Nat)]
  /\ stalled \in BOOLEAN

(* The text of an answer is what the stream that ended well brought, all of *)
(* it and nothing of the streams that dropped before.                       *)
AnswerMatchesStream ==
  \A c \in Chats : pc[c] = "answered" => parts[c] = said[c]

(* What the clients were shown comes from one stream: the first.  So they   *)
(* have seen the answer if and only if no stream dropped.                   *)
ShownIsFirstStream ==
  \A c \in Chats :
    /\ attempt[c] = 1 => shown[c] = said[c]
    /\ \A i \in 1 .. Len(shown[c]) : shown[c][i][1] = 1
=============================================================================
