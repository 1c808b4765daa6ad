---------------------------- MODULE OneBotSender ----------------------------
(***************************************************************************)
(* The OneBot sender (channels/onebot/sender.py).  Threads send messages   *)
(* over HTTP; a long message is split and its pieces are posted one after  *)
(* the other.  Only an attempt that reached nobody is repeated, and a      *)
(* message of which a piece was delivered is never reported as safe to     *)
(* send again.                                                             *)
(*                                                                         *)
(* A text is a sequence of paragraphs and a paragraph a sequence of        *)
(* characters; NewLine is the character that joins two paragraphs.         *)
(***************************************************************************)
EXTENDS Integers, SequencesExt

CONSTANTS
    Thread,        \* the worker threads that may be sending
    Message,       \* the messages they may send
    TextOf,        \* [Message -> the paragraphs of its text]
    MaxChars,      \* reply_max_chars
    MaxAttempts,   \* max_attempts of _post
    Char,          \* the characters of the texts
    NewLine

ASSUME SenderAssumption ==
    /\ MaxChars \in Nat \ {0}
    /\ MaxAttempts \in Nat \ {0}
    /\ NewLine \in Char
    /\ TextOf \in [Message -> Seq(Seq(Char)) \ {<<>>}]

VARIABLES
    job,     \* [Thread -> what the thread is sending, and how the send ended]
    inbox    \* the pieces the owner received, in order

senderVars == <<job, inbox>>
-----------------------------------------------------------------------------
(* split_text.  The pieces cut from the front of a paragraph that is too   *)
(* long come out at once, also before the text already collected.          *)

(* How many full pieces the inner loop cuts from n characters. *)
CutsOf(n) == IF n > MaxChars THEN (n - 1) \div MaxChars ELSE 0

CutPieces(p) ==
    [i \in 1..CutsOf(Len(p)) |-> SubSeq(p, (i - 1) * MaxChars + 1, i * MaxChars)]

CutRest(p) == SubSeq(p, CutsOf(Len(p)) * MaxChars + 1, Len(p))

AddParagraph(acc, p) ==
    LET rest   == CutRest(p)
        chunks == acc.chunks \o CutPieces(p)
    IN  IF acc.current # <<>> /\ Len(acc.current) + 1 + Len(rest) > MaxChars
          THEN [chunks |-> Append(chunks, acc.current), current |-> rest]
          ELSE [chunks  |-> chunks,
                current |-> IF acc.current = <<>> THEN rest
                            ELSE acc.current \o <<NewLine>> \o rest]

JoinLines(text) ==
    FoldLeft(LAMBDA s, p : s \o <<NewLine>> \o p, Head(text), Tail(text))

SplitText(text) ==
    IF Len(JoinLines(text)) <= MaxChars THEN <<JoinLines(text)>>
    ELSE LET r == FoldLeft(AddParagraph, [chunks |-> <<>>, current |-> <<>>], text)
         IN  r.chunks \o (IF r.current = <<>> THEN <<>> ELSE <<r.current>>)

(* send_private_message sends nothing at all for an empty text. *)
PiecesOf(m) == IF JoinLines(TextOf[m]) = <<>> THEN <<>> ELSE SplitText(TextOf[m])

-----------------------------------------------------------------------------
NoJob == [state |-> "idle"]

Posting(m, i, a) == [state |-> "posting", msg |-> m, piece |-> i, attempt |-> a]
Ended(m, how) == [state |-> how, msg |-> m]

(* How a send can end: the count of pieces, or an error with retry_safe. *)
SendEnds == {"sent", "nothing", "safe", "unsafe"}

SenderTypeOK ==
    /\ \A t \in Thread :
          \/ job[t] = NoJob
          \/ \E m \in Message, how \in SendEnds : job[t] = Ended(m, how)
          \/ \E m \in Message, a \in 1..MaxAttempts :
                \E i \in 1..Len(PiecesOf(m)) : job[t] = Posting(m, i, a)
    /\ \A n \in DOMAIN inbox : /\ inbox[n].msg \in Message
                               /\ inbox[n].piece \in 1..Len(PiecesOf(inbox[n].msg))

SenderInit ==
    /\ job = [t \in Thread |-> NoJob]
    /\ inbox = <<>>

(* The thread starts send_private_message. *)
BeginSend(t, m) ==
    /\ job[t] = NoJob
    /\ job' = [job EXCEPT ![t] = IF PiecesOf(m) = <<>> THEN Ended(m, "nothing")
                                 ELSE Posting(m, 1, 1)]
    /\ UNCHANGED inbox

Arrives(t) == inbox' = Append(inbox, [msg |-> job[t].msg, piece |-> job[t].piece])

(* 200 and no business error: the piece arrived, and the next one follows. *)
PostOk(t) ==
    /\ job[t].state = "posting"
    /\ Arrives(t)
    /\ job' = [job EXCEPT ![t] =
                  IF @.piece < Len(PiecesOf(@.msg)) THEN Posting(@.msg, @.piece + 1, 1)
                  ELSE Ended(@.msg, "sent")]

(* Fault: forgets that earlier pieces of the message were delivered. *)
FaultFailure(j, safe) == Ended(j.msg, IF safe THEN "safe" ELSE "unsafe")

(* A partial delivery is never safe to replay. *)
Failure(j, safe) == Ended(j.msg, IF safe /\ j.piece = 1 THEN "safe" ELSE "unsafe")

(* No connection was made, so nothing was delivered: the attempt is        *)
(* repeated as long as there are any left.                                 *)
PostNoConnection(t) ==
    /\ job[t].state = "posting"
    /\ job' = [job EXCEPT ![t] =
                  IF @.attempt < MaxAttempts THEN Posting(@.msg, @.piece, @.attempt + 1)
                  ELSE Failure(@, TRUE)]
    /\ UNCHANGED inbox

(* The connection broke or timed out after it was made, the server failed  *)
(* or its answer was no JSON: the piece may have arrived.                  *)
PostUncertain(t) ==
    /\ job[t].state = "posting"
    /\ Arrives(t) \/ UNCHANGED inbox
    /\ job' = [job EXCEPT ![t] = Failure(@, FALSE)]

(* OneBot refused the piece (a 4xx status or a business error). *)
PostRefused(t) ==
    /\ job[t].state = "posting"
    /\ job' = [job EXCEPT ![t] = Failure(@, FALSE)]
    /\ UNCHANGED inbox

Post(t) == PostOk(t) \/ PostNoConnection(t) \/ PostUncertain(t) \/ PostRefused(t)

(* The caller takes the result of the send. *)
Take(t) ==
    /\ job[t].state \in SendEnds
    /\ job' = [job EXCEPT ![t] = NoJob]
-----------------------------------------------------------------------------
Arrivals(m, i) == {n \in DOMAIN inbox : inbox[n].msg = m /\ inbox[n].piece = i}

(* Every piece of m has arrived at least once. *)
AllArrived(m) == \A i \in 1..Len(PiecesOf(m)) : Arrivals(m, i) # {}

(* No piece of m has arrived. *)
NoneArrived(m) == \A i \in 1..Len(PiecesOf(m)) : Arrivals(m, i) = {}
=============================================================================
