------------------------------- MODULE Reply -------------------------------
(***************************************************************************)
(* One agent's reply in the Team Chat, from the line that Ollama sends to  *)
(* the row of the transcript: the client's chat_stream (ollama_client.py), *)
(* the model manager's, which counts the tokens for the usage bar          *)
(* (usage.py), and ChatService._stream_role, whose filter is the module    *)
(* this one extends.                                                       *)
(*                                                                         *)
(* A stream that is cut after a whole line ends like a complete one.       *)
(***************************************************************************)
EXTENDS ThinkFilter

CONSTANTS
    NoReply,        \* no row in the transcript
    MaxTokens       \* bound on each of the two counts that a final line reports

ASSUME ReplyAssumption == MaxTokens \in Nat

VARIABLES
    stage,          \* where the reply is
    shown,          \* the text of the token frames sent so far: the joined parts
    tokens,         \* tokens, of the final line
    usage,          \* the tracker's _events of this reply
    stored          \* the row of the transcript

filterVars == <<input, buf, inside, out, feeding>>
replyVars == <<filterVars, stage, shown, tokens, usage, stored>>

Unreported == -1    \* eval_count, or prompt_eval_count, is missing
Event == [input : 0..MaxTokens, output : 0..MaxTokens]
Row == [text : Seq(Chars), tokens : 0..MaxTokens]

ReplyTypeOK ==
    /\ TypeOK
    /\ stage \in {"streaming", "ending", "saving", "saved", "error", "raised", "left"}
    /\ shown \in Seq(Chars)
    /\ tokens \in 0..MaxTokens
    /\ usage \in Seq(Event)
    /\ stored \in Row \cup {NoReply}

ReplyInit ==
    /\ Init
    /\ stage = "streaming"
    /\ shown = <<>>
    /\ tokens = 0
    /\ usage = <<>>
    /\ stored = NoReply

-----------------------------------------------------------------------------
(* The stream                                                              *)

\* UsageTracker.record, with prompt_eval_count or 0 as the input's tokens and
\* eval_count or 0 as the output's.
Recorded(count, prompt) ==
    usage' = Append(usage, [input |-> Max({prompt, 0}), output |-> Max({count, 0})])

\* What the usage bar shows of it: report, for the session.
Calls == Len(usage)
InputTokens == SumFunction([i \in DOMAIN usage |-> usage[i].input])
OutputTokens == SumFunction([i \in DOMAIN usage |-> usage[i].output])
TotalTokens == InputTokens + OutputTokens

\* WRONG: every line is recorded.
WrongLine(piece) ==
    /\ stage = "streaming"
    /\ Feed(piece)
    /\ Recorded(Unreported, Unreported)
    /\ UNCHANGED <<stage, shown, tokens, stored>>

\* A line with content.  One without any, an error that Ollama reports among
\* them, is passed over.
Line(piece) ==
    /\ stage = "streaming"
    /\ Feed(piece)
    /\ UNCHANGED <<stage, shown, tokens, usage, stored>>

\* The line that says done, with the last of the text if there is any: the
\* manager records its tokens before it passes it on.
FinalLine(piece, count, prompt) ==
    /\ stage = "streaming"
    /\ IF piece = <<>> THEN ~feeding /\ UNCHANGED filterVars ELSE Feed(piece)
    /\ Recorded(count, prompt)
    /\ tokens' = IF count = Unreported THEN tokens ELSE count
    /\ stage' = "ending"
    /\ UNCHANGED <<shown, stored>>

\* The connection closes without it.
Cut ==
    /\ stage = "streaming" /\ ~feeding
    /\ stage' = "ending"
    /\ UNCHANGED <<filterVars, shown, tokens, usage, stored>>

\* What is wrong with the model, the connection or its status becomes a
\* CrewOSError and an error frame; a line that is not JSON leaves the handler.
Breaks(end) ==
    /\ stage = "streaming" /\ ~feeding
    /\ end \in {"error", "raised"}
    /\ stage' = end
    /\ UNCHANGED <<filterVars, shown, tokens, usage, stored>>

-----------------------------------------------------------------------------
(* The reply                                                               *)

\* The filter goes on in its loop, or returns: what it returns is sent.
Filter ==
    /\ \/ AtTag /\ shown' = shown
       \/ (NoTag \/ Exhausted) /\ shown' = out'
    /\ UNCHANGED <<stage, tokens, usage, stored>>

\* WRONG: what the filter has kept is forgotten.
WrongEnd ==
    /\ stage = "ending" /\ ~feeding
    /\ stage' = "saving"
    /\ UNCHANGED <<filterVars, shown, tokens, usage, stored>>

\* The stream has ended: flush.
End ==
    /\ stage = "ending" /\ ~feeding
    /\ shown' = shown \o Flush
    /\ buf' = IF inside THEN buf ELSE <<>>
    /\ stage' = "saving"
    /\ UNCHANGED <<input, inside, out, feeding, tokens, usage, stored>>

Save ==
    /\ stage = "saving"
    /\ stored' = [text |-> shown, tokens |-> tokens]
    /\ stage' = "saved"
    /\ UNCHANGED <<filterVars, shown, tokens, usage>>

\* The client is gone when a token frame is sent, or the save raises.
Abandon ==
    /\ stage \in {"streaming", "ending", "saving"} /\ ~feeding
    /\ stage' = "left"
    /\ UNCHANGED <<filterVars, shown, tokens, usage, stored>>

Pieces(n) == UNION {[1..m -> Chars] : m \in 1..n}

ReplyNext ==
    \/ \E piece \in Pieces(MaxPiece) : Line(piece)
    \/ \E piece \in {<<>>} \cup Pieces(MaxPiece), count, prompt \in Unreported..MaxTokens :
          FinalLine(piece, count, prompt)
    \/ Cut \/ Abandon
    \/ \E end \in {"error", "raised"} : Breaks(end)
    \/ Filter \/ End \/ Save

ReplySpec == ReplyInit /\ [][ReplyNext]_replyVars

\* feed() is a plain call: its loop runs on by itself.
FairReplySpec == ReplySpec /\ WF_replyVars(Filter)

-----------------------------------------------------------------------------
\* However the stream was cut into pieces, and wherever it was cut off, the
\* transcript has the text without its spans, and it is what the client was
\* shown.
StoredIsStripped ==
    stored # NoReply => stored.text = Strip(input) /\ stored.text = shown

\* A prefix of that is shown at any time: nothing of a span, and nothing that has
\* to be taken back.
ShownIsFinal == IsPrefix(shown, Strip(input))

\* A reply is one call in the usage bar, or none, whether or not it is stored.
\* What the bar counts of it besides the prompt is what its final line reported,
\* and what its row says.
UsageOnce ==
    /\ Calls <= 1
    /\ TotalTokens = InputTokens + tokens
    /\ stored # NoReply => stored.tokens = OutputTokens
=============================================================================
