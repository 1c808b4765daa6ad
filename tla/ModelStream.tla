---------------------------- MODULE ModelStream ----------------------------
(* One request to a model: the lines a server sends, in pieces and cut off  *)
(* anywhere, and what the adapters make of them (models/openai.py and       *)
(* models/ollama.py, stream_chat) for the loop of the turn that reads them  *)
(* (agent/service.py). The arguments of a call are one text in Pieces       *)
(* pieces, valid JSON when all are there.                                   *)
EXTENDS Integers, Sequences, FiniteSets

CONSTANTS
    Call,      \* calls the model may make, by their index
    Pieces,    \* pieces of the arguments of a call
    MaxTexts   \* bound on the pieces of text

ASSUME StreamAssumption == Pieces \in Nat \ {0} /\ MaxTexts \in Nat

VARIABLES
    adapter,   \* "openai" or "ollama"
    sent,      \* pieces of each call the server has sent
    said,      \* how the server ended its answer, when it did
    open,      \* the connection
    broken,    \* calls whose arguments are no JSON object even when whole
    calls,     \* pieces the adapter has put together
    texts,     \* pieces of text given to the turn
    completed, \* the adapter knows that the answer is complete
    given,     \* calls given to the turn
    reading    \* what has become of the request

streamVars == <<adapter, sent, said, open, broken, calls, texts, completed, given, reading>>
-----------------------------------------------------------------------------
StreamTypeOK ==
    /\ adapter \in {"openai", "ollama"}
    /\ sent \in [Call -> 0..Pieces]
    /\ said \in {"nothing", "stop", "length", "filter", "unknown", "done"}
    /\ open \in BOOLEAN
    /\ broken \subseteq Call
    /\ calls \in [Call -> Seq(1..Pieces)]
    /\ texts \in 0..MaxTexts
    /\ completed \in BOOLEAN
    /\ given \subseteq Call
    /\ reading \in {"streaming", "reply", "tools", "failed"}

StreamInit ==
    /\ adapter \in {"openai", "ollama"}
    /\ sent = [i \in Call |-> 0]
    /\ said = "nothing"
    /\ open = TRUE
    /\ broken \in SUBSET Call
    /\ calls = [i \in Call |-> <<>>]
    /\ texts = 0
    /\ completed = FALSE
    /\ given = {}
    /\ reading = "streaming"
-----------------------------------------------------------------------------
Reads == reading = "streaming" /\ open

(* Text goes to the turn, and to the owner, at once.                        *)
TextLine ==
    /\ Reads
    /\ texts < MaxTexts
    /\ said = "nothing"
    /\ texts' = texts + 1
    /\ UNCHANGED <<adapter, sent, said, open, broken, calls, completed, given, reading>>

(* The pieces of several calls come in any order of the calls.              *)
WithPiece(i, n) == [calls EXCEPT ![i] = Append(@, n)]
PieceLine(i) ==
    /\ Reads
    /\ adapter = "openai"
    /\ said \in {"nothing", "stop"}
    /\ sent[i] < Pieces
    /\ sent' = [sent EXCEPT ![i] = @ + 1]
    /\ calls' = WithPiece(i, sent'[i])
    /\ UNCHANGED <<adapter, said, open, broken, texts, completed, given, reading>>

(* Ollama sends a call as a whole; arguments it cannot use are dropped.     *)
CallLine(i) ==
    /\ Reads
    /\ adapter = "ollama"
    /\ said = "nothing"
    /\ sent[i] = 0
    /\ sent' = [sent EXCEPT ![i] = Pieces]
    /\ calls' = [calls EXCEPT ![i] = [n \in 1..Pieces |-> n]]
    /\ UNCHANGED <<adapter, said, open, broken, texts, completed, given, reading>>

(* finish_reason: the stream goes on to its end.                            *)
FinishLine(reason) ==
    /\ Reads
    /\ adapter = "openai"
    /\ said = "nothing"
    /\ said' = reason
    /\ IF reason = "stop"
       THEN completed' = TRUE /\ UNCHANGED reading
       ELSE reading' = "failed" /\ UNCHANGED completed
    /\ UNCHANGED <<adapter, sent, open, broken, calls, texts, given>>

(* A line that is no event, or an error in the stream. Ollama's are skipped.*)
BadLine ==
    /\ Reads
    /\ adapter = "openai"
    /\ reading' = "failed"
    /\ UNCHANGED <<adapter, sent, said, open, broken, calls, texts, completed, given>>

(* The calls of the turn, all or none; without calls the text is the reply. *)
Begun == {i \in Call : calls[i] # <<>>}
Whole(i) == Len(calls[i]) = Pieces /\ i \notin broken
Publish ==
    IF adapter = "openai" /\ \E i \in Begun : ~Whole(i)
    THEN reading' = "failed" /\ UNCHANGED given
    ELSE /\ given' = Begun
         /\ reading' = IF Begun = {} THEN "reply" ELSE "tools"

DoneLine ==
    /\ Reads
    /\ said \in {"nothing", "stop"}
    /\ said' = "done"
    /\ completed' = TRUE
    /\ Publish
    /\ UNCHANGED <<adapter, sent, open, broken, calls, texts>>

(* Fault: the end of the stream is taken for the end of the answer. *)
FaultEndIsKnown == TRUE
(* The server closes the connection: only the adapter for OpenAI asks       *)
(* whether that was the end.                                                *)
EndIsKnown == completed
EndOfStream ==
    /\ Reads
    /\ open' = FALSE
    /\ CASE adapter = "openai" /\ EndIsKnown -> Publish
         [] adapter = "openai" /\ ~EndIsKnown -> reading' = "failed" /\ UNCHANGED given
         [] adapter = "ollama" -> reading' = "reply" /\ UNCHANGED given
    /\ UNCHANGED <<adapter, sent, said, broken, calls, texts, completed>>

(* A connection that breaks, or a timeout, is an exception of the client.   *)
Break ==
    /\ Reads
    /\ open' = FALSE
    /\ reading' = "failed"
    /\ UNCHANGED <<adapter, sent, said, broken, calls, texts, completed, given>>

StreamNext ==
    \/ TextLine
    \/ \E i \in Call : PieceLine(i) \/ CallLine(i)
    \/ \E reason \in {"stop", "length", "filter", "unknown"} : FinishLine(reason)
    \/ BadLine
    \/ DoneLine
    \/ EndOfStream
    \/ Break

StreamSpec == StreamInit /\ [][StreamNext]_streamVars
-----------------------------------------------------------------------------
(* "EOF alone, output truncation, filtering, in-stream errors and malformed *)
(* event payloads fail the request ... an invalid call prevents publication *)
(* of the entire call batch" (docs/contracts/provider-interface.md:19-22):  *)
(* what the adapter for OpenAI gives to a turn is the whole of an answer    *)
(* that its server called complete, each call in the order of its pieces.   *)
AnswersAreWhole ==
    adapter = "openai" /\ reading \in {"reply", "tools"} =>
        /\ said \in {"stop", "done"}
        /\ given = {i \in Call : sent[i] > 0}
        /\ \A i \in given : calls[i] = [n \in 1..Pieces |-> n] /\ i \notin broken
=============================================================================
