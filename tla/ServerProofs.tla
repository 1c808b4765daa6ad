---------------------------- MODULE ServerProofs ----------------------------
(* Proofs about the parts of the server, for any sizes: each part's         *)
(* inductive invariant, and what it gives for the server that MCServer      *)
(* puts together.                                                           *)
EXTENDS MCServer, RestoreJournalProofs, FiniteSetTheorems, SequenceTheorems,
        WellFoundedInduction, TLAPS

-----------------------------------------------------------------------------
(* The way of a message. *)

(* A message that is on its way past the commands is no approval that comes *)
(* alone, and nothing is answered before the turn ends.                     *)
OnItsWay(m) ==
    /\ stage[m] \in {"commanded", "routed", "local"} => (ComesAlone(m) => "approval" \notin text[m])
    /\ stage[m] # "ended" => answer[m] = "none"
DispatchInv ==
    /\ DispatchTypeOK
    /\ MessagesStayWhereTheyBelong
    /\ \A m \in ChatMessage : OnItsWay(m)

(* The router names a target it knows, Codex only for a text that asks for  *)
(* it and Hermes only when it is enabled.                                   *)
LEMMA RulePlanTyped ==
    ASSUME hermes \in BOOLEAN, NEW t, NEW pic \in BOOLEAN
    PROVE  /\ RulePlan(t, pic) \in [to : {"nobody", "whitenight", "codex", "hermes"}, risk : Risks,
                                    image : BOOLEAN]
           /\ Guarded(RulePlan(t, pic), t) \in
                  [to : {"nobody", "whitenight", "codex", "hermes"}, risk : Risks,
                   image : BOOLEAN]
           /\ Guarded(RulePlan(t, pic), t).to = "codex" => "codex" \in t
           /\ Guarded(RulePlan(t, pic), t).to = "hermes" => hermes
<1> DEFINE P == [to : {"nobody", "whitenight", "codex", "hermes"}, risk : Risks, image : BOOLEAN]
<1>1. RulePlan(t, pic) \in P
  <2>1. CASE "hermes" \in t
    BY <2>1 DEF RulePlan, Plan, Risks
  <2>2. CASE "hermes" \notin t /\ "codex" \in t
    BY <2>2 DEF RulePlan, Plan, Risks
  <2>3. CASE t \cap {"hermes", "codex"} = {} /\ "local" \in t
    BY <2>3 DEF RulePlan, Plan, Risks
  <2>4. CASE t \cap {"hermes", "codex", "local"} = {}
    BY <2>4 DEF RulePlan, Plan, Risks
  <2>5. QED
    BY <2>1, <2>2, <2>3, <2>4
<1>2. ASSUME NEW p \in P
      PROVE  /\ Guarded(p, t) \in P
             /\ Guarded(p, t).to = "codex" => "codex" \in t
             /\ Guarded(p, t).to = "hermes" => hermes
  BY <1>2 DEF Guarded
<1>3. QED
  BY <1>1, <1>2

LEMMA DispatchStart == DispatchInit => DispatchInv
<1> SUFFICES ASSUME DispatchInit
             PROVE  DispatchInv
  OBVIOUS
<1>1. DispatchTypeOK
  BY DispatchAssumption DEF DispatchInit, DispatchTypeOK, NoPlan, NoModel, Risks, Answers
<1>2. MessagesStayWhereTheyBelong /\ \A m \in ChatMessage : OnItsWay(m)
  BY DEF DispatchInit, MessagesStayWhereTheyBelong, OnItsWay, NoPlan
<1>3. QED
  BY <1>1, <1>2 DEF DispatchInv

LEMMA DispatchStep ==
    ASSUME DispatchInv, [DispatchNext]_dispatchVars
    PROVE  DispatchInv'
<1> USE DEF DispatchInv
<1>1. ASSUME NEW m \in ChatMessage, StoreMessage(m)
      PROVE  DispatchInv'
  BY <1>1 DEF StoreMessage, Stages, Ends, DispatchTypeOK, MessagesStayWhereTheyBelong, OnItsWay,
              ComesAlone, Answers, SupportsVision
<1>2. ASSUME NEW m \in ChatMessage, Command(m)
      PROVE  DispatchInv'
  BY <1>2 DEF Command, Stages, Ends, DispatchTypeOK, MessagesStayWhereTheyBelong, OnItsWay,
              ComesAlone, Answers, SupportsVision
<1>3. ASSUME NEW m \in ChatMessage, Route(m)
      PROVE  DispatchInv'
  <2>1. hermes \in BOOLEAN /\ (m \in image) \in BOOLEAN
    BY DEF DispatchTypeOK
  <2> DEFINE chosen == Guarded(RulePlan(text[m], m \in image), text[m])
  <2>2. /\ chosen \in [to : {"nobody", "whitenight", "codex", "hermes"}, risk : Risks,
                       image : BOOLEAN]
        /\ chosen.to = "codex" => "codex" \in text[m]
        /\ chosen.to = "hermes" => hermes
    BY <2>1, RulePlanTyped
  <2>3. plan' = [plan EXCEPT ![m] = chosen]
    BY <1>3 DEF Route
  <2> HIDE DEF chosen
  <2>4. QED
    BY <1>3, <2>2, <2>3 DEF Route, Stages, Ends, DispatchTypeOK, MessagesStayWhereTheyBelong,
              OnItsWay, ComesAlone, Answers, SupportsVision
<1>4. ASSUME NEW m \in ChatMessage, Hand(m)
      PROVE  DispatchInv'
  BY <1>4 DEF Hand, Stages, Ends, DispatchTypeOK, MessagesStayWhereTheyBelong, OnItsWay,
              ComesAlone, Answers, SupportsVision
<1>5. ASSUME NEW m \in ChatMessage, Generate(m)
      PROVE  DispatchInv'
  BY <1>5 DEF Generate, MaySee, Stages, Ends, DispatchTypeOK, MessagesStayWhereTheyBelong,
              OnItsWay, ComesAlone, Answers, SupportsVision
<1>6. ASSUME NEW p \in Model, SetProvider(p)
      PROVE  DispatchInv'
  <2>1. DispatchTypeOK'
    BY <1>6, DispatchAssumption DEF SetProvider, DispatchTypeOK
  <2>2. MessagesStayWhereTheyBelong' /\ \A m \in ChatMessage : OnItsWay(m)'
    BY <1>6 DEF SetProvider, MessagesStayWhereTheyBelong, OnItsWay, ComesAlone, SupportsVision
  <2>3. QED
    BY <2>1, <2>2
<1>7. CASE UNCHANGED dispatchVars
  BY <1>7 DEF dispatchVars, DispatchTypeOK, MessagesStayWhereTheyBelong, OnItsWay, ComesAlone, SupportsVision
<1>8. QED
  BY <1>1, <1>2, <1>3, <1>4, <1>5, <1>6, <1>7 DEF DispatchNext

LEMMA DispatchInductive == DispatchSpec => []DispatchInv
BY DispatchStart, DispatchStep, PTL DEF DispatchSpec
-----------------------------------------------------------------------------
(* One request to a model. *)

Prefix(n) == [k \in 1..n |-> k]
(* The adapter holds of every call exactly what was sent of it, in order;   *)
(* it knows of an end only when the server gave one, and gives nothing      *)
(* while it still reads.                                                    *)
StreamKept ==
    /\ \A i \in Call : calls[i] = Prefix(sent[i])
    /\ completed => said \in {"stop", "done"}
    /\ reading = "streaming" => given = {}
StreamInv == StreamTypeOK /\ StreamKept /\ AnswersAreWhole

LEMMA PrefixGrows ==
    ASSUME NEW n \in Nat
    PROVE  /\ Prefix(n) \in Seq(1..n) /\ Len(Prefix(n)) = n
           /\ Append(Prefix(n), n + 1) = Prefix(n + 1)
           /\ Prefix(n) = <<>> <=> n = 0
           /\ \A m \in Nat : n <= m => Prefix(n) \in Seq(1..m)
<1>1. Prefix(n) \in [1..n -> 1..n]
  BY DEF Prefix
<1>2. Prefix(n) \in Seq(1..n) /\ Len(Prefix(n)) = n
  BY DEF Prefix
<1>3. Append(Prefix(n), n + 1) = Prefix(n + 1)
  BY <1>2 DEF Prefix
<1>4. Prefix(n) = <<>> <=> n = 0
  BY <1>2 DEF Prefix
<1>5. \A m \in Nat : n <= m => Prefix(n) \in Seq(1..m)
  BY DEF Prefix
<1>6. QED
  BY <1>2, <1>3, <1>4, <1>5

LEMMA StreamStart == StreamInit => StreamInv
<1> SUFFICES ASSUME StreamInit PROVE StreamInv
  OBVIOUS
<1>1. 0 \in 0..Pieces /\ Prefix(0) = <<>>
  BY StreamAssumption DEF Prefix
<1>2. StreamTypeOK
  <2>1. <<>> \in Seq(1..Pieces) /\ 0 \in 0..MaxTexts
    BY StreamAssumption
  <2>2. sent \in [Call -> 0..Pieces] /\ calls \in [Call -> Seq(1..Pieces)]
    BY <1>1, <2>1 DEF StreamInit
  <2>3. QED
    BY <2>1, <2>2 DEF StreamInit, StreamTypeOK
<1>3. QED
  BY <1>1, <1>2 DEF StreamInit, StreamInv, StreamKept, AnswersAreWhole

LEMMA StreamStep ==
    ASSUME StreamInv, [StreamNext]_streamVars
    PROVE  StreamInv'
<1> USE DEF StreamInv
<1> USE StreamAssumption
<1>1. CASE TextLine
  BY <1>1 DEF TextLine, Reads, StreamTypeOK, StreamKept, AnswersAreWhole
<1>2. ASSUME NEW i \in Call, PieceLine(i)
      PROVE  StreamInv'
  <2>1. /\ sent[i] \in Nat /\ sent[i] + 1 \in Nat /\ Pieces \in Nat
        /\ sent[i] \in 0..Pieces /\ sent[i] + 1 \in 0..Pieces
    BY <1>2 DEF PieceLine, StreamTypeOK
  <2>2. calls' = [calls EXCEPT ![i] = Prefix(sent[i] + 1)]
    <3>1. sent'[i] = sent[i] + 1
      BY <1>2, <2>1 DEF PieceLine, StreamTypeOK
    <3>2. Append(calls[i], sent[i] + 1) = Prefix(sent[i] + 1)
      BY <2>1, PrefixGrows DEF StreamKept
    <3>3. QED
      BY <1>2, <3>1, <3>2 DEF PieceLine, WithPiece, StreamTypeOK
  <2>3. Prefix(sent[i] + 1) \in Seq(1..Pieces)
    <3>1. sent[i] + 1 <= Pieces
      BY <2>1
    <3>2. QED
      BY <2>1, <3>1, PrefixGrows
  <2>4. StreamTypeOK'
    BY <1>2, <2>1, <2>2, <2>3 DEF PieceLine, Reads, StreamTypeOK
  <2>5. QED
    BY <1>2, <2>1, <2>2, <2>4 DEF PieceLine, Reads, StreamTypeOK, StreamKept, AnswersAreWhole
<1>3. ASSUME NEW i \in Call, CallLine(i)
      PROVE  StreamInv'
  <2>1. calls' = [calls EXCEPT ![i] = Prefix(Pieces)] /\ Prefix(Pieces) \in Seq(1..Pieces)
    BY <1>3, PrefixGrows DEF CallLine, Prefix
  <2>2. StreamTypeOK'
    BY <1>3, <2>1 DEF CallLine, Reads, StreamTypeOK
  <2>3. QED
    BY <1>3, <2>1, <2>2 DEF CallLine, Reads, StreamTypeOK, StreamKept, AnswersAreWhole
<1>4. ASSUME NEW reason \in {"stop", "length", "filter", "unknown"}, FinishLine(reason)
      PROVE  StreamInv'
  BY <1>4 DEF FinishLine, Reads, StreamTypeOK, StreamKept, AnswersAreWhole
<1>5. CASE BadLine
  BY <1>5 DEF BadLine, Reads, StreamTypeOK, StreamKept, AnswersAreWhole
<1>6. ASSUME Publish, reading = "streaming", UNCHANGED <<adapter, sent, broken, calls, texts>>,
             completed', completed' \in BOOLEAN, said' \in {"stop", "done"}, open' \in BOOLEAN
      PROVE  StreamInv'
  <2>1. Begun = {i \in Call : sent[i] > 0}
    BY PrefixGrows DEF Begun, StreamKept, StreamTypeOK
  <2>2. CASE adapter = "openai" /\ \E i \in Begun : ~Whole(i)
    BY <1>6, <2>2 DEF Publish, StreamTypeOK, StreamKept, AnswersAreWhole
  <2>3. CASE ~(adapter = "openai" /\ \E i \in Begun : ~Whole(i))
    <3>1. given' = Begun /\ reading' \in {"reply", "tools"}
      BY <1>6, <2>3 DEF Publish
    <3>2. ASSUME NEW i \in Begun, adapter = "openai"
          PROVE  calls[i] = [n \in 1..Pieces |-> n] /\ i \notin broken
      <4>1. Len(calls[i]) = Pieces /\ i \notin broken
        BY <2>3, <3>2 DEF Whole
      <4>2. calls[i] = Prefix(sent[i]) /\ Len(Prefix(sent[i])) = sent[i]
        BY PrefixGrows DEF Begun, StreamKept, StreamTypeOK
      <4>3. QED
        BY <4>1, <4>2 DEF Prefix
    <3>3. StreamTypeOK'
      BY <1>6, <3>1 DEF StreamTypeOK, Begun
    <3>4. QED
      BY <1>6, <2>1, <3>1, <3>2, <3>3 DEF StreamKept, AnswersAreWhole
  <2>4. QED
    BY <2>2, <2>3
<1>7. CASE DoneLine
  BY <1>6, <1>7 DEF DoneLine, Reads, StreamTypeOK
<1>8. CASE EndOfStream
  <2>1. CASE adapter = "openai" /\ completed
    BY <1>6, <1>8, <2>1 DEF EndOfStream, EndIsKnown, Reads, StreamTypeOK, StreamKept
  <2>2. CASE ~(adapter = "openai" /\ completed)
    <3>1. adapter = "openai" => reading' = "failed" /\ given' = given
      BY <1>8, <2>2 DEF EndOfStream, EndIsKnown
    <3>2. adapter # "openai" => reading' = "reply" /\ given' = given
      BY <1>8, <2>2 DEF EndOfStream, EndIsKnown, StreamTypeOK
    <3>3. QED
      BY <1>8, <3>1, <3>2 DEF EndOfStream, Reads, StreamTypeOK, StreamKept, AnswersAreWhole
  <2>3. QED
    BY <2>1, <2>2
<1>9. CASE Break
  BY <1>9 DEF Break, Reads, StreamTypeOK, StreamKept, AnswersAreWhole
<1>10. CASE UNCHANGED streamVars
  BY <1>10 DEF streamVars, StreamTypeOK, StreamKept, AnswersAreWhole
<1>11. QED
  BY <1>1, <1>2, <1>3, <1>4, <1>5, <1>7, <1>8, <1>9, <1>10 DEF StreamNext

LEMMA StreamInductive == StreamSpec => []StreamInv
BY StreamStart, StreamStep, PTL DEF StreamSpec
-----------------------------------------------------------------------------
(* The messages of a request. *)

LEMMA LargerOfTwo ==
    ASSUME NEW a \in Int, NEW b \in Int
    PROVE  Max({a, b}) = IF a >= b THEN a ELSE b
<1>1. \E x \in {a, b} : \A y \in {a, b} : x >= y
  OBVIOUS
<1>2. Max({a, b}) \in {a, b} /\ \A y \in {a, b} : Max({a, b}) >= y
  BY <1>1 DEF Max
<1>3. QED
  BY <1>2
LEMMA LeastOf ==
    ASSUME NEW S \in SUBSET Nat, S # {}
    PROVE  Min(S) \in S /\ \A y \in S : Min(S) <= y
<1>1. PICK x \in S : \A y \in S : ~(<<y, x>> \in OpToRel(<, Nat))
  BY NatLessThanWellFounded, WFMin
<1>2. ASSUME NEW y \in S PROVE ~(y < x)
  <2>1. <<y, x>> \in Nat \X Nat /\ <<y, x>>[1] = y /\ <<y, x>>[2] = x
    OBVIOUS
  <2>2. QED
    BY <1>1, <2>1, Zenon DEF OpToRel
<1>4. \A y \in S : x <= y
  BY <1>2
<1>3. QED
  BY <1>4 DEF Min
LEMMA InsertedAt ==
    ASSUME NEW S, NEW s \in Seq(S), NEW i \in 1..(Len(s) + 1), NEW e \in S
    PROVE  /\ InsertAt(s, i, e) \in Seq(S)
           /\ Len(InsertAt(s, i, e)) = Len(s) + 1
           /\ \A k \in 1..(Len(s) + 1) :
                 InsertAt(s, i, e)[k] = IF k < i THEN s[k] ELSE IF k = i THEN e ELSE s[k - 1]
<1>1. /\ SubSeq(s, 1, i - 1) \in Seq(S) /\ Len(SubSeq(s, 1, i - 1)) = i - 1
      /\ SubSeq(s, i, Len(s)) \in Seq(S) /\ Len(SubSeq(s, i, Len(s))) = Len(s) + 1 - i
      /\ \A k \in 1..(i - 1) : SubSeq(s, 1, i - 1)[k] = s[k]
      /\ \A k \in 1..(Len(s) + 1 - i) : SubSeq(s, i, Len(s))[k] = s[i + k - 1]
  <2>1. Len(s) \in Nat /\ i \in Int
    OBVIOUS
  <2>2. /\ SubSeq(s, 1, i - 1) \in Seq(S) /\ Len(SubSeq(s, 1, i - 1)) = i - 1
        /\ \A k \in 1..(i - 1) : SubSeq(s, 1, i - 1)[k] = s[k]
    BY <2>1
  <2>3. SubSeq(s, i, Len(s)) \in Seq(S) /\ Len(SubSeq(s, i, Len(s))) = Len(s) + 1 - i
    BY <2>1
  <2>4. \A k \in 1..(Len(s) + 1 - i) : SubSeq(s, i, Len(s))[k] = s[i + k - 1]
    BY <2>1
  <2>5. QED
    BY <2>2, <2>3, <2>4
<1>2. <<e>> \in Seq(S) /\ Len(<<e>>) = 1 /\ <<e>>[1] = e
  OBVIOUS
<1> DEFINE a == SubSeq(s, 1, i - 1)
           c == SubSeq(s, i, Len(s))
           o == a \o <<e>>
<1>3. o \in Seq(S) /\ Len(o) = i /\ o[i] = e /\ \A k \in 1..(i - 1) : o[k] = a[k]
  <2> HIDE DEF a
  <2> QED
    BY <1>1, <1>2 DEF a
<1>4. InsertAt(s, i, e) = o \o c
  BY DEF InsertAt
<1> HIDE DEF a, c, o
<1>5. c \in Seq(S) /\ Len(c) = Len(s) + 1 - i /\ Len(s) \in Nat
      /\ \A k \in 1..(Len(s) + 1 - i) : c[k] = s[i + k - 1]
  BY <1>1 DEF c
<1>6. \A k \in 1..(i - 1) : o[k] = s[k]
  BY <1>1, <1>3 DEF a
<1>7. o \o c \in Seq(S) /\ Len(o \o c) = Len(o) + Len(c)
      /\ \A k \in 1..(Len(o) + Len(c)) :
            (o \o c)[k] = IF k <= Len(o) THEN o[k] ELSE c[k - Len(o)]
  BY <1>3, <1>5, ConcatProperties
<1>8. QED
  BY <1>3, <1>4, <1>5, <1>6, <1>7
LEMMA RemovedAt ==
    ASSUME NEW S, NEW s \in Seq(S), NEW i \in 1..Len(s)
    PROVE  /\ RemoveAt(s, i) \in Seq(S)
           /\ Len(RemoveAt(s, i)) = Len(s) - 1
           /\ \A k \in 1..(Len(s) - 1) : RemoveAt(s, i)[k] = IF k < i THEN s[k] ELSE s[k + 1]
<1> DEFINE a == SubSeq(s, 1, i - 1)
           c == SubSeq(s, i + 1, Len(s))
<1>1. /\ a \in Seq(S) /\ Len(a) = i - 1 /\ Len(s) \in Nat
      /\ c \in Seq(S) /\ Len(c) = Len(s) - i
      /\ \A k \in 1..(i - 1) : a[k] = s[k]
      /\ \A k \in 1..(Len(s) - i) : c[k] = s[i + k]
  OBVIOUS
<1>2. RemoveAt(s, i) = a \o c
  BY DEF RemoveAt
<1> HIDE DEF a, c
<1>3. a \o c \in Seq(S) /\ Len(a \o c) = Len(a) + Len(c)
      /\ \A k \in 1..(Len(a) + Len(c)) :
            (a \o c)[k] = IF k <= Len(a) THEN a[k] ELSE c[k - Len(a)]
  BY <1>1, ConcatProperties
<1>4. QED
  BY <1>1, <1>2, <1>3

-----------------------------------------------------------------------------
(* Sums. *)

(* Induction over the natural numbers, with the set of those for which the  *)
(* claim holds.                                                             *)
LEMMA ByInduction ==
    ASSUME NEW Claim, 0 \in Claim, \A n \in Nat : n \in Claim => n + 1 \in Claim
    PROVE  Nat \subseteq Claim
<1>1. SUFFICES ASSUME Nat \ Claim # {} PROVE FALSE
  OBVIOUS
<1> DEFINE n == Min(Nat \ Claim)
<1>2. n \in Nat \ Claim /\ \A m \in Nat \ Claim : n <= m
  BY <1>1, LeastOf
<1> HIDE DEF n
<1>3. n # 0 /\ n - 1 \in Nat /\ n - 1 \in Claim
  BY <1>2
<1>4. QED
  BY <1>2, <1>3

(* The costs of the rows of S together. MapThenSumSet takes them in some    *)
(* order; AddsUp is the function it goes along.                             *)
SumOf(rows, T) == MapThenSumSet(LAMBDA k : rows[k].cost, T)
Picked(T) == CHOOSE x \in T : TRUE
AddsUp(g, rows, S) ==
    g = [T \in SUBSET S |->
            IF T = {} THEN 0 ELSE rows[Picked(T)].cost + g[T \ {Picked(T)}]]
Costed(rows, S) == IsFiniteSet(S) /\ \A k \in S : rows[k].cost \in Nat

(* A set without one of its elements.                                       *)
LEMMA OneLess ==
    ASSUME NEW T, IsFiniteSet(T), T # {}
    PROVE  /\ Picked(T) \in T
           /\ \A x \in T : /\ IsFiniteSet(T \ {x}) /\ Cardinality(T) \in Nat \ {0}
                           /\ Cardinality(T \ {x}) = Cardinality(T) - 1
<1>1. Picked(T) \in T
  BY DEF Picked
<1>2. ASSUME NEW x \in T
      PROVE /\ IsFiniteSet(T \ {x}) /\ Cardinality(T) \in Nat \ {0}
            /\ Cardinality(T \ {x}) = Cardinality(T) - 1
  <2>1. IsFiniteSet(T \ {x}) /\ Cardinality(T \ {x}) = Cardinality(T) - 1
    BY FS_RemoveElement
  <2>2. Cardinality(T) \in Nat /\ Cardinality(T) # 0
    BY FS_CardinalityType, FS_EmptySet
  <2>3. QED
    BY <2>1, <2>2
<1>3. QED
  BY <1>1, <1>2

(* There is such a function, by induction over the size of the sets.        *)
LEMMA SumExists ==
    ASSUME NEW rows, NEW S, Costed(rows, S)
    PROVE  \E g : AddsUp(g, rows, S)
<1> DEFINE Small(n) == {T \in SUBSET S : Cardinality(T) <= n}
<1> DEFINE Value(g, T) == IF T = {} THEN 0 ELSE rows[Picked(T)].cost + g[T \ {Picked(T)}]
<1> DEFINE Upto(n) == \E g : g = [T \in Small(n) |-> Value(g, T)]
<1> DEFINE Claim == {n \in Nat : Upto(n)}
<1>1. \A T \in SUBSET S : IsFiniteSet(T) /\ Cardinality(T) \in Nat /\ Cardinality(T) <= Cardinality(S)
      /\ Cardinality(S) \in Nat
  BY FS_Subset, FS_CardinalityType DEF Costed
<1>2. \A T \in SUBSET S : T # {} => /\ T \ {Picked(T)} \in SUBSET S
                                   /\ Cardinality(T \ {Picked(T)}) = Cardinality(T) - 1
  BY <1>1, OneLess
<1>3. 0 \in Claim
  <2> DEFINE g == [T \in Small(0) |-> 0]
  <2>1. \A T \in Small(0) : T = {}
    BY <1>1, FS_EmptySet
  <2>2. g = [T \in Small(0) |-> Value(g, T)]
    BY <2>1
  <2>3. QED
    BY <2>2
<1>4. ASSUME NEW n \in Nat, n \in Claim
      PROVE  n + 1 \in Claim
  <2>1. PICK g : g = [T \in Small(n) |-> Value(g, T)]
    BY <1>4
  <2> DEFINE h == [T \in Small(n + 1) |-> Value(g, T)]
  <2>2. ASSUME NEW T \in Small(n + 1), T # {}
        PROVE  T \ {Picked(T)} \in Small(n)
    BY <1>1, <1>2, <2>2
  <2>3. \A T \in Small(n) : T \in Small(n + 1) /\ h[T] = g[T]
    <3>1. ASSUME NEW T \in Small(n)
          PROVE  T \in Small(n + 1) /\ h[T] = g[T]
      <4>1. T \in Small(n + 1)
        BY <1>1
      <4>2. h[T] = Value(g, T)
        BY <4>1
      <4>3. g[T] = Value(g, T)
        BY <2>1
      <4>4. QED
        BY <4>1, <4>2, <4>3
    <3>2. QED
      BY <3>1
  <2>4. \A T \in Small(n + 1) : Value(g, T) = Value(h, T)
    BY <2>2, <2>3
  <2>5. h = [T \in Small(n + 1) |-> Value(h, T)]
    BY <2>4
  <2> HIDE DEF h
  <2>6. Upto(n + 1)
    BY <2>5
  <2> HIDE DEF Upto
  <2>7. QED
    BY <2>6
<1>5. Cardinality(S) \in Claim
  <2>1. Nat \subseteq Claim
    <3> HIDE DEF Claim
    <3>1. QED
      BY <1>3, <1>4, ByInduction
  <2>2. QED
    BY <1>1, <2>1
<1>6. Small(Cardinality(S)) = SUBSET S
  BY <1>1
<1>7. QED
  BY <1>5, <1>6 DEF AddsUp

LEMMA SumAddsUp ==
    ASSUME NEW rows, NEW S, Costed(rows, S)
    PROVE  \E g : AddsUp(g, rows, S) /\ SumOf(rows, S) = g[S]
<1>1. PICK g : AddsUp(g, rows, S)
  BY SumExists
<1>2. QED
  BY <1>1 DEF SumOf, MapThenSumSet, MapThenFoldSet, Picked, AddsUp

(* Its values do not depend on the set it is defined for.                   *)
LEMMA SumsAgree ==
    ASSUME NEW rows, NEW S, NEW R, Costed(rows, S), NEW g, NEW h,
           AddsUp(g, rows, S), AddsUp(h, rows, R), NEW U, U \subseteq S, U \subseteq R
    PROVE  g[U] = h[U] /\ g[U] \in Nat
<1> DEFINE Claim == {n \in Nat : \A T \in SUBSET (S \cap R) :
                        Cardinality(T) = n => g[T] = h[T] /\ g[T] \in Nat}
<1>1. \A T \in SUBSET (S \cap R) : IsFiniteSet(T) /\ Cardinality(T) \in Nat
  BY FS_Subset, FS_CardinalityType DEF Costed
<1>2. \A T \in SUBSET (S \cap R) :
         /\ g[T] = IF T = {} THEN 0 ELSE rows[Picked(T)].cost + g[T \ {Picked(T)}]
         /\ h[T] = IF T = {} THEN 0 ELSE rows[Picked(T)].cost + h[T \ {Picked(T)}]
  BY DEF AddsUp
<1>3. 0 \in Claim
  BY <1>1, <1>2, FS_EmptySet
<1>4. ASSUME NEW n \in Nat, n \in Claim
      PROVE  n + 1 \in Claim
  <2>1. ASSUME NEW T \in SUBSET (S \cap R), Cardinality(T) = n + 1
        PROVE  g[T] = h[T] /\ g[T] \in Nat
    <3>1. T # {} /\ IsFiniteSet(T)
      BY <1>1, <2>1, FS_EmptySet
    <3>2. /\ Picked(T) \in T /\ T \ {Picked(T)} \in SUBSET (S \cap R)
          /\ Cardinality(T \ {Picked(T)}) = n
      BY <2>1, <3>1, OneLess
    <3>3. g[T \ {Picked(T)}] = h[T \ {Picked(T)}] /\ g[T \ {Picked(T)}] \in Nat
      BY <1>4, <3>2
    <3>4. rows[Picked(T)].cost \in Nat
      BY <3>2 DEF Costed
    <3>5. /\ g[T] = rows[Picked(T)].cost + g[T \ {Picked(T)}]
          /\ h[T] = rows[Picked(T)].cost + h[T \ {Picked(T)}]
      BY <1>2, <3>1
    <3>6. QED
      BY <3>3, <3>4, <3>5
  <2>2. QED
    BY <2>1
<1>5. Nat \subseteq Claim
  <2> HIDE DEF Claim
  <2>1. QED
    BY <1>3, <1>4, ByInduction
<1>6. QED
  BY <1>1, <1>5

(* What a sum begins with.                                                  *)
LEMMA SumSteps ==
    ASSUME NEW rows, NEW S, Costed(rows, S)
    PROVE  /\ SumOf(rows, S) \in Nat
           /\ S = {} => SumOf(rows, S) = 0
           /\ S # {} => /\ Picked(S) \in S
                        /\ SumOf(rows, S) =
                              rows[Picked(S)].cost + SumOf(rows, S \ {Picked(S)})
<1>1. PICK g : AddsUp(g, rows, S) /\ SumOf(rows, S) = g[S]
  BY SumAddsUp
<1>2. g[S] \in Nat
  BY <1>1, SumsAgree
<1>3. g[S] = IF S = {} THEN 0 ELSE rows[Picked(S)].cost + g[S \ {Picked(S)}]
  BY <1>1 DEF AddsUp
<1>4. ASSUME S # {}
      PROVE  Picked(S) \in S /\ g[S \ {Picked(S)}] = SumOf(rows, S \ {Picked(S)})
  <2>1. Picked(S) \in S
    BY <1>4 DEF Picked
  <2> DEFINE R == S \ {Picked(S)}
  <2>2. Costed(rows, R)
    BY FS_Subset DEF Costed
  <2>3. PICK h : AddsUp(h, rows, R) /\ SumOf(rows, R) = h[R]
    BY <2>2, SumAddsUp
  <2>4. g[R] = h[R]
    BY <1>1, <2>3, SumsAgree
  <2>5. QED
    BY <2>1, <2>3, <2>4
<1>5. QED
  BY <1>1, <1>2, <1>3, <1>4

(* It may begin with any of its rows.                                       *)
LEMMA SumAnyOrder ==
    ASSUME NEW rows, NEW S, Costed(rows, S), NEW y \in S
    PROVE  SumOf(rows, S) = rows[y].cost + SumOf(rows, S \ {y})
<1> DEFINE Claim == {n \in Nat : \A T \in SUBSET S : Cardinality(T) = n =>
                        \A x \in T : SumOf(rows, T) = rows[x].cost + SumOf(rows, T \ {x})}
<1>1. \A T \in SUBSET S : IsFiniteSet(T) /\ Cardinality(T) \in Nat /\ Costed(rows, T)
  BY FS_Subset, FS_CardinalityType DEF Costed
<1>2. 0 \in Claim
  BY <1>1, FS_EmptySet
<1>3. ASSUME NEW n \in Nat, n \in Claim
      PROVE  n + 1 \in Claim
  <2>1. ASSUME NEW T \in SUBSET S, Cardinality(T) = n + 1, NEW x \in T
        PROVE  SumOf(rows, T) = rows[x].cost + SumOf(rows, T \ {x})
    <3> DEFINE p == Picked(T)
    <3>1. p \in T /\ SumOf(rows, T) = rows[p].cost + SumOf(rows, T \ {p})
      BY <1>1, <2>1, SumSteps
    <3>2. CASE p = x
      BY <3>1, <3>2
    <3>3. CASE p # x
      <4>1. /\ Cardinality(T \ {p}) = n /\ x \in T \ {p} /\ T \ {p} \in SUBSET S
            /\ Cardinality(T \ {x}) = n /\ p \in T \ {x} /\ T \ {x} \in SUBSET S
        BY <1>1, <2>1, <3>1, <3>3, OneLess
      <4>2. SumOf(rows, T \ {p}) = rows[x].cost + SumOf(rows, (T \ {p}) \ {x})
        BY <1>3, <4>1
      <4>3. SumOf(rows, T \ {x}) = rows[p].cost + SumOf(rows, (T \ {x}) \ {p})
        BY <1>3, <4>1
      <4>4. (T \ {p}) \ {x} = (T \ {x}) \ {p} /\ (T \ {x}) \ {p} \in SUBSET S
        OBVIOUS
      <4>5. SumOf(rows, (T \ {x}) \ {p}) \in Nat /\ rows[x].cost \in Nat /\ rows[p].cost \in Nat
        BY <1>1, <2>1, <3>1, <4>4, SumSteps DEF Costed
      <4>6. QED
        BY <3>1, <4>2, <4>3, <4>4, <4>5
    <3>4. QED
      BY <3>2, <3>3
  <2>2. QED
    BY <2>1
<1>4. Nat \subseteq Claim
  <2> HIDE DEF Claim
  <2>1. QED
    BY <1>2, <1>3, ByInduction
<1>5. QED
  BY <1>1, <1>4

(* Fewer rows do not cost more.                                             *)
LEMMA SumOfPart ==
    ASSUME NEW rows, NEW S, Costed(rows, S), NEW P \in SUBSET S
    PROVE  SumOf(rows, P) <= SumOf(rows, S)
<1> DEFINE Claim == {n \in Nat : \A T \in SUBSET S : Cardinality(T) = n =>
                        \A R \in SUBSET T : SumOf(rows, R) <= SumOf(rows, T)}
<1>1. \A T \in SUBSET S : /\ IsFiniteSet(T) /\ Cardinality(T) \in Nat /\ Costed(rows, T)
                         /\ SumOf(rows, T) \in Nat
  <2>1. \A T \in SUBSET S : IsFiniteSet(T) /\ Cardinality(T) \in Nat /\ Costed(rows, T)
    BY FS_Subset, FS_CardinalityType DEF Costed
  <2>2. QED
    BY <2>1, SumSteps
<1>2. 0 \in Claim
  <2>1. \A T \in SUBSET S : Cardinality(T) = 0 => T = {}
    BY <1>1, FS_EmptySet
  <2>2. \A T \in SUBSET S : Cardinality(T) = 0 => \A R \in SUBSET T : R = T
    BY <2>1
  <2>3. \A T \in SUBSET S : SumOf(rows, T) <= SumOf(rows, T)
    BY <1>1
  <2>4. QED
    BY <2>2, <2>3
<1>3. ASSUME NEW n \in Nat, n \in Claim
      PROVE  n + 1 \in Claim
  <2>1. ASSUME NEW T \in SUBSET S, Cardinality(T) = n + 1, NEW R \in SUBSET T
        PROVE  SumOf(rows, R) <= SumOf(rows, T)
    <3>1. CASE R = {}
      <4>1. SumOf(rows, R) = 0 /\ SumOf(rows, T) \in Nat
        BY <1>1, <3>1, SumSteps
      <4>2. QED
        BY <4>1
    <3>2. CASE R # {}
      <4>1. PICK x \in R : TRUE
        BY <3>2
      <4>2. /\ Cardinality(T \ {x}) = n /\ T \ {x} \in SUBSET S
            /\ R \ {x} \in SUBSET (T \ {x}) /\ R \in SUBSET S /\ R \ {x} \in SUBSET S
        BY <1>1, <2>1, <4>1, OneLess
      <4>3. SumOf(rows, R \ {x}) <= SumOf(rows, T \ {x})
        BY <1>3, <4>2
      <4>4. /\ SumOf(rows, R) = rows[x].cost + SumOf(rows, R \ {x})
            /\ SumOf(rows, T) = rows[x].cost + SumOf(rows, T \ {x})
        <5>1. ASSUME NEW U, Costed(rows, U), NEW y \in U
              PROVE  SumOf(rows, U) = rows[y].cost + SumOf(rows, U \ {y})
          BY <5>1, SumAnyOrder
        <5>2. Costed(rows, R) /\ Costed(rows, T) /\ x \in R /\ x \in T
          BY <1>1, <4>1, <4>2
        <5>3. QED
          BY <5>1, <5>2
      <4>5. /\ rows[x].cost \in Nat
            /\ SumOf(rows, R \ {x}) \in Nat /\ SumOf(rows, T \ {x}) \in Nat
        BY <1>1, <4>1, <4>2 DEF Costed
      <4>6. QED
        BY <4>3, <4>4, <4>5
    <3>3. QED
      BY <3>1, <3>2
  <2>2. QED
    BY <2>1
<1>4. Nat \subseteq Claim
  <2> HIDE DEF Claim
  <2>1. QED
    BY <1>2, <1>3, ByInduction
<1>5. QED
  BY <1>1, <1>4
-----------------------------------------------------------------------------
(* The assembly of a prompt. *)

Message == [source : {"kernel", "main", "character", "history", "custom", "runtime"},
            n : Nat, cost : Nat]
(* Until the request is ready: what is pinned comes first and the history   *)
(* begins after it, the history is in order and new, and whole until it is  *)
(* trimmed.                                                                 *)
PinsAreFirst == Len(messages) >= 3 /\ \A k \in 1..3 : messages[k] = Pinned[k]
ConstraintIsLast ==
    ruled /\ assembly \in {"trim", "ready", "refused"} =>
        Len(messages) > 3 /\ messages[Len(messages)] = Constraint
PromptInv ==
    /\ PromptTypeOK
    /\ messages \in Seq(Message)
    /\ start = 3
    /\ PinsAreFirst
    /\ ConstraintIsLast
    /\ HistoryIsNewest
    /\ EndsAsItFits
    /\ assembly = "history" => Places = {}

LEMMA PinnedIs ==
    /\ Pinned \in Seq(Message) /\ Len(Pinned) = 3 /\ Constraint \in Message
    /\ \A k \in 1..3 : Pinned[k].source # "history"
    /\ Constraint.source # "history"
BY DEF Pinned, Kernel, Piece, Message, Constraint

LEMMA TypedMessages ==
    ASSUME NEW ms \in Seq(Message)
    PROVE  \A k \in DOMAIN ms : ms[k] \in
              [source : {"kernel", "main", "character", "history", "custom", "runtime"},
               n : Nat, cost : Nat]
<1>1. DOMAIN ms = 1..Len(ms)
  OBVIOUS
<1>2. \A k \in 1..Len(ms) : ms[k] \in Message
  BY ElementOfSeq
<1>3. QED
  BY <1>1, <1>2 DEF Message

LEMMA PromptProperty ==
    ASSUME PromptInv, assembly \in {"ready", "refused"}
    PROVE  PinsStay /\ HistoryIsNewest /\ EndsAsItFits
<1>1. /\ messages \in Seq(Message) /\ Len(messages) >= 3 /\ Len(messages) \in Nat
      /\ \A k \in 1..3 : messages[k] = Pinned[k]
  BY DEF PromptInv, PinsAreFirst
<1>2. /\ SubSeq(messages, 1, 3) \in Seq(Message) /\ Len(SubSeq(messages, 1, 3)) = 3
      /\ \A k \in 1..3 : SubSeq(messages, 1, 3)[k] = messages[k]
  BY <1>1
<1>3. SubSeq(messages, 1, Len(Pinned)) = Pinned
  BY <1>1, <1>2, PinnedIs, SeqEqual
<1>4. QED
  BY <1>3 DEF PromptInv, PinsStay, ConstraintIsLast

LEMMA PromptStart == PromptInit => PromptInv
<1> SUFFICES ASSUME PromptInit PROVE PromptInv
  OBVIOUS
<1>1. /\ messages \in Seq(Message) /\ Len(messages) = 3
      /\ \A k \in DOMAIN messages : messages[k] \in Message /\ messages[k].source # "history"
  <2>1. messages = Pinned
    BY DEF PromptInit
  <2>2. DOMAIN messages = 1..3
    BY <2>1, PinnedIs
  <2>3. \A k \in 1..3 : Pinned[k] \in Message
    BY PinnedIs, ElementOfSeq
  <2>4. QED
    BY <2>1, <2>2, <2>3, PinnedIs
<1>2. PromptTypeOK
  BY <1>1, PinnedIs, PromptAssumption DEF PromptInit, PromptTypeOK, Message
<1>3. Places = {}
  BY <1>1 DEF Places
<1>4. QED
  BY <1>1, <1>2, <1>3, PinnedIs
     DEF PromptInv, PinsAreFirst, ConstraintIsLast, HistoryIsNewest, EndsAsItFits, PromptInit

(* When messages are put in or taken out, the history keeps its order if    *)
(* what is left of it was where place says, and what is taken out is older. *)
LEMMA OrderIsKept ==
    ASSUME HistoryIsNewest, history' = history, messages \in Seq(Message),
           messages' \in Seq(Message), history \in Seq(Nat),
           NEW place \in [Places' -> Places],
           \A k \in Places' : messages'[k] = messages[place[k]],
           \A k, j \in Places' : k < j => place[k] < place[j],
           \A j \in Places : \/ \E k \in Places' : place[k] = j
                             \/ \A k \in Places' : messages[j].n < messages[place[k]].n
    PROVE  HistoryIsNewest'
<1>1. ASSUME NEW i \in Places', NEW j \in Places', i < j
      PROVE  messages'[i].n < messages'[j].n
  <2>1. place[i] \in Places /\ place[j] \in Places /\ place[i] < place[j]
    BY <1>1
  <2>2. messages[place[i]].n < messages[place[j]].n
    BY <2>1 DEF HistoryIsNewest
  <2>3. messages'[i] = messages[place[i]] /\ messages'[j] = messages[place[j]]
    BY <1>1
  <2>4. QED
    BY <2>2, <2>3
<1>2. ASSUME NEW i \in Places'
      PROVE  /\ messages'[i].n \in DOMAIN history'
             /\ messages'[i].cost = history'[messages'[i].n]
             /\ \A n \in messages'[i].n..Len(history') : \E j \in Places' : messages'[j].n = n
  <2>1. place[i] \in Places /\ messages'[i] = messages[place[i]]
    OBVIOUS
  <2>2. /\ messages[place[i]].n \in DOMAIN history
        /\ messages[place[i]].cost = history[messages[place[i]].n]
    BY <2>1 DEF HistoryIsNewest
  <2>3. ASSUME NEW n \in messages'[i].n..Len(history')
        PROVE  \E j \in Places' : messages'[j].n = n
    <3>1. PICK j \in Places : messages[j].n = n
      BY <2>1 DEF HistoryIsNewest
    <3>2. messages[place[i]].n \in Nat /\ n \in Int /\ n >= messages[place[i]].n
      BY <2>1, <2>2
    <3>3. PICK k \in Places' : place[k] = j
      BY <3>1, <3>2
    <3>4. QED
      BY <3>1, <3>3
  <2>4. QED
    BY <2>1, <2>2, <2>3
<1>3. QED
  BY <1>1, <1>2 DEF HistoryIsNewest

LEMMA HistorySeq == ASSUME PromptTypeOK PROVE history \in Seq(Nat)
<1>1. PICK m \in 0..MaxHistory : history \in [1..m -> Costs]
  BY DEF PromptTypeOK, BoundedSeq, SeqOf
<1>2. history \in [1..m -> Nat]
  BY <1>1, PromptAssumption
<1>3. QED
  BY <1>1, <1>2, PromptAssumption, SeqDef

(* What the steps of the assembly make of the messages.                     *)
LEMMA HistoryAdded ==
    ASSUME PromptInv, AddHistory
    PROVE  /\ messages' \in Seq(Message) /\ Len(messages') = Len(messages) + Len(history)
           /\ \A k \in 1..Len(messages) : messages'[k] = messages[k]
           /\ Places' = (Len(messages) + 1)..(Len(messages) + Len(history))
           /\ \A k \in Places' : /\ messages'[k].n = k - Len(messages)
                                /\ messages'[k].cost = history[k - Len(messages)]
<1> DEFINE older == [k \in DOMAIN history |-> Piece("history", k, history[k])]
<1>1. /\ assembly = "history" /\ messages' = messages \o older /\ assembly' = "depth"
      /\ UNCHANGED <<history, depth, post, ruled, limit, start, inserting>>
  BY DEF AddHistory
<1>2. /\ messages \in Seq(Message) /\ Len(messages) \in Nat /\ Len(messages) >= 3
      /\ Places = {} /\ history \in Seq(Nat) /\ Len(history) \in Nat /\ PromptTypeOK
      /\ DOMAIN messages = 1..Len(messages) /\ start = 3
      /\ \A k \in 1..3 : messages[k] = Pinned[k]
  BY <1>1, HistorySeq DEF PromptInv, PinsAreFirst
<1>3. /\ older \in Seq(Message) /\ Len(older) = Len(history)
      /\ \A k \in 1..Len(history) :
            older[k].source = "history" /\ older[k].n = k /\ older[k].cost = history[k]
  <2>1. \A k \in 1..Len(history) : Piece("history", k, history[k]) \in Message
    BY <1>2 DEF Piece, Message
  <2>2. DOMAIN history = 1..Len(history)
    BY <1>2
  <2>3. older \in [1..Len(history) -> Message]
    BY <2>1, <2>2
  <2>4. older \in Seq(Message)
    BY <1>2, <2>3, SeqDef
  <2>5. ASSUME NEW k \in 1..Len(history)
        PROVE  older[k].source = "history" /\ older[k].n = k /\ older[k].cost = history[k]
    <3>1. older[k] = Piece("history", k, history[k])
      BY <2>2
    <3>2. QED
      BY <3>1 DEF Piece
  <2>6. Len(older) = Len(history)
    BY <1>2, <2>3, <2>4
  <2>7. QED
    BY <2>4, <2>5, <2>6
<1> HIDE DEF older
<1>4. /\ messages' \in Seq(Message) /\ Len(messages') = Len(messages) + Len(history)
      /\ \A k \in 1..(Len(messages) + Len(history)) :
            messages'[k] = IF k <= Len(messages) THEN messages[k] ELSE older[k - Len(messages)]
  <2>1. /\ messages \o older \in Seq(Message)
        /\ Len(messages \o older) = Len(messages) + Len(older)
        /\ \A k \in 1..(Len(messages) + Len(older)) :
              (messages \o older)[k] =
                 IF k <= Len(messages) THEN messages[k] ELSE older[k - Len(messages)]
    <3>1. messages \in Seq(Message) /\ older \in Seq(Message)
      BY <1>2, <1>3
    <3>2. QED
      BY <3>1, ConcatProperties
  <2>2. messages' = messages \o older
    BY <1>1
  <2>3. QED
    BY <1>3, <2>1, <2>2
<1>5. Places' = (Len(messages) + 1)..(Len(messages) + Len(history))
  <2>1. \A k \in 1..Len(messages) : messages[k].source # "history"
    BY <1>2 DEF Places
  <2>2. DOMAIN messages' = 1..(Len(messages) + Len(history))
    BY <1>2, <1>4
  <2>3. ASSUME NEW k \in 1..(Len(messages) + Len(history))
        PROVE  messages'[k].source = "history" <=> k > Len(messages)
    <3>1. CASE k <= Len(messages)
      BY <1>2, <1>4, <2>1, <3>1
    <3>2. CASE k > Len(messages)
      <4>1. k - Len(messages) \in 1..Len(history) /\ messages'[k] = older[k - Len(messages)]
        BY <1>2, <1>4, <3>2
      <4>2. QED
        BY <1>3, <3>2, <4>1
    <3>3. QED
      BY <1>2, <3>1, <3>2
  <2>4. Places' = {k \in 1..(Len(messages) + Len(history)) : messages'[k].source = "history"}
    BY <2>2 DEF Places
  <2>5. QED
    BY <1>2, <2>3, <2>4
<1>6. \A k \in Places' : /\ messages'[k].n = k - Len(messages)
                        /\ messages'[k].cost = history[k - Len(messages)]
  <2> SUFFICES ASSUME NEW k \in Places'
               PROVE  /\ messages'[k].n = k - Len(messages)
                      /\ messages'[k].cost = history[k - Len(messages)]
    OBVIOUS
  <2>1. /\ k \in 1..(Len(messages) + Len(history)) /\ k > Len(messages)
        /\ k - Len(messages) \in 1..Len(history)
    BY <1>2, <1>5
  <2>2. messages'[k] = older[k - Len(messages)]
    BY <1>2, <1>4, <2>1
  <2>3. QED
    BY <1>3, <2>1, <2>2
<1>7. QED
  BY <1>2, <1>4, <1>5, <1>6

LEMMA AddHistoryStep == ASSUME PromptInv, AddHistory PROVE PromptInv'
<1>1. /\ assembly = "history" /\ assembly' = "depth"
      /\ UNCHANGED <<history, depth, post, ruled, limit, start, inserting>>
  BY DEF AddHistory
<1>2. /\ messages \in Seq(Message) /\ Len(messages) \in Nat /\ Len(messages) >= 3
      /\ history \in Seq(Nat) /\ Len(history) \in Nat /\ PromptTypeOK /\ start = 3
      /\ \A k \in 1..3 : messages[k] = Pinned[k]
  BY HistorySeq DEF PromptInv, PinsAreFirst
<1>4. /\ messages' \in Seq(Message) /\ Len(messages') = Len(messages) + Len(history)
      /\ \A k \in 1..Len(messages) : messages'[k] = messages[k]
  BY HistoryAdded
<1>5. Places' = (Len(messages) + 1)..(Len(messages) + Len(history))
  BY HistoryAdded
<1>6. \A k \in Places' : /\ messages'[k].n = k - Len(messages)
                        /\ messages'[k].cost = history[k - Len(messages)]
  BY HistoryAdded
<1>7. HistoryIsNewest'
  <2>1. \A n \in 1..Len(history) : n + Len(messages) \in Places' /\ messages'[n + Len(messages)].n = n
    <3> SUFFICES ASSUME NEW n \in 1..Len(history)
                 PROVE  n + Len(messages) \in Places' /\ messages'[n + Len(messages)].n = n
      OBVIOUS
    <3>1. n + Len(messages) \in Places' /\ (n + Len(messages)) - Len(messages) = n
      BY <1>2, <1>5
    <3>2. messages'[n + Len(messages)].n = (n + Len(messages)) - Len(messages)
      BY <1>6, <3>1
    <3>3. QED
      BY <3>1, <3>2
  <2>2. DOMAIN history = 1..Len(history)
    BY <1>2
  <2>3. ASSUME NEW i \in Places'
        PROVE  /\ messages'[i].n \in 1..Len(history)
               /\ messages'[i].cost = history[messages'[i].n]
    BY <1>2, <1>5, <1>6
  <2>4. \A i, j \in Places' : i < j => messages'[i].n < messages'[j].n
    BY <1>2, <1>5, <1>6
  <2>5. \A i \in Places' : \A n \in messages'[i].n..Len(history) : \E j \in Places' : messages'[j].n = n
    BY <2>1, <2>3, <1>2
  <2>6. QED
    BY <1>1, <2>2, <2>3, <2>4, <2>5 DEF HistoryIsNewest
<1>8. PromptTypeOK'
  BY <1>1, <1>2, <1>4, TypedMessages DEF PromptTypeOK
<1>9. PinsAreFirst'
  <2>1. \A k \in 1..3 : messages'[k] = messages[k]
    BY <1>2, <1>4
  <2>2. QED
    BY <1>2, <1>4, <2>1 DEF PinsAreFirst
<1>10. QED
  BY <1>1, <1>2, <1>4, <1>7, <1>8, <1>9 DEF PromptInv, ConstraintIsLast, EndsAsItFits

LEMMA BlockInserted ==
    ASSUME PromptInv, NEW b \in Blocks, InsertBlock(b)
    PROVE  /\ PositionOf(b) = IF 3 >= Len(messages) - depth[b] THEN 3 ELSE Len(messages) - depth[b]
           /\ PositionOf(b) + 1 \in 4..(Len(messages) + 1)
           /\ Piece("custom", b, 1) \in Message
           /\ messages' \in Seq(Message) /\ Len(messages') = Len(messages) + 1
           /\ \A k \in 1..(Len(messages) + 1) :
                 messages'[k] = IF k < PositionOf(b) + 1 THEN messages[k]
                                ELSE IF k = PositionOf(b) + 1 THEN Piece("custom", b, 1)
                                ELSE messages[k - 1]
<1> DEFINE at == PositionOf(b) + 1
<1> DEFINE block == Piece("custom", b, 1)
<1>1. /\ assembly = "depth" /\ messages' = InsertAt(messages, at, block)
      /\ inserting' = inserting \ {b}
      /\ UNCHANGED <<history, depth, post, ruled, limit, start, assembly>>
  BY DEF InsertBlock
<1>2. /\ messages \in Seq(Message) /\ Len(messages) \in Nat /\ Len(messages) >= 3
      /\ history \in Seq(Nat) /\ PromptTypeOK /\ start = 3
      /\ DOMAIN messages = 1..Len(messages) /\ HistoryIsNewest
      /\ \A k \in 1..3 : messages[k] = Pinned[k]
  BY HistorySeq DEF PromptInv, PinsAreFirst
<1>6. PositionOf(b) = IF 3 >= Len(messages) - depth[b] THEN 3 ELSE Len(messages) - depth[b]
  <2>1. depth[b] \in Nat
    BY <1>2, PromptAssumption DEF PromptTypeOK
  <2>2. Len(messages) - depth[b] \in Int /\ 3 \in Int
    BY <1>2, <2>1
  <2>3. QED
    BY <1>2, <2>2, LargerOfTwo DEF PositionOf
<1>3. at \in 4..(Len(messages) + 1)
  BY <1>2, <1>6, PromptAssumption DEF PromptTypeOK
<1>4. block \in Message /\ block.source = "custom"
  BY PromptAssumption DEF Piece, Message
<1> HIDE DEF at, block
<1>5. /\ messages' \in Seq(Message) /\ Len(messages') = Len(messages) + 1
      /\ \A k \in 1..(Len(messages) + 1) :
            messages'[k] = IF k < at THEN messages[k] ELSE IF k = at THEN block ELSE messages[k - 1]
  <2>1. at \in 1..(Len(messages) + 1)
    BY <1>3
  <2>2. QED
    <3>1. /\ InsertAt(messages, at, block) \in Seq(Message)
          /\ Len(InsertAt(messages, at, block)) = Len(messages) + 1
          /\ \A k \in 1..(Len(messages) + 1) :
                InsertAt(messages, at, block)[k] =
                   IF k < at THEN messages[k] ELSE IF k = at THEN block ELSE messages[k - 1]
      <4>1. messages \in Seq(Message) /\ block \in Message
        BY <1>2, <1>4
      <4>2. QED
        BY <2>1, <4>1, InsertedAt
    <3>2. QED
      BY <1>1, <3>1
<1>7. QED
  BY <1>3, <1>4, <1>5, <1>6 DEF at, block

LEMMA InsertBlockStep == ASSUME PromptInv, NEW b \in Blocks, InsertBlock(b) PROVE PromptInv'
<1> DEFINE at == PositionOf(b) + 1
<1> DEFINE block == Piece("custom", b, 1)
<1>1. /\ assembly = "depth" /\ inserting' = inserting \ {b}
      /\ UNCHANGED <<history, depth, post, ruled, limit, start, assembly>>
  BY DEF InsertBlock
<1>2. /\ messages \in Seq(Message) /\ Len(messages) \in Nat /\ Len(messages) >= 3
      /\ history \in Seq(Nat) /\ PromptTypeOK /\ start = 3
      /\ DOMAIN messages = 1..Len(messages) /\ HistoryIsNewest
      /\ \A k \in 1..3 : messages[k] = Pinned[k]
  BY HistorySeq DEF PromptInv, PinsAreFirst
<1>3. at \in 4..(Len(messages) + 1)
  BY BlockInserted
<1>4. block.source = "custom"
  BY DEF Piece
<1>5. /\ messages' \in Seq(Message) /\ Len(messages') = Len(messages) + 1
      /\ \A k \in 1..(Len(messages) + 1) :
            messages'[k] = IF k < at THEN messages[k] ELSE IF k = at THEN block ELSE messages[k - 1]
  BY BlockInserted
<1> HIDE DEF at, block
<1> DEFINE place == [k \in Places' |-> IF k < at THEN k ELSE k - 1]
<1>6. /\ place \in [Places' -> Places]
      /\ \A k \in Places' : messages'[k] = messages[place[k]]
      /\ \A k, j \in Places' : k < j => place[k] < place[j]
  <2>1. DOMAIN messages' = 1..(Len(messages) + 1)
    BY <1>5
  <2>2. ASSUME NEW k \in Places'
        PROVE  k # at /\ place[k] \in Places /\ messages'[k] = messages[place[k]]
    <3>1. k \in 1..(Len(messages) + 1) /\ messages'[k].source = "history" /\ k # at
      BY <1>4, <1>5, <2>1 DEF Places
    <3>2. place[k] \in 1..Len(messages) /\ messages'[k] = messages[place[k]]
      BY <1>2, <1>3, <1>5, <3>1
    <3>3. QED
      BY <1>2, <3>1, <3>2 DEF Places
  <2>3. ASSUME NEW k \in Places', NEW j \in Places', k < j PROVE place[k] < place[j]
    <3>1. k \in Int /\ j \in Int
      BY <1>2, <2>1 DEF Places
    <3>4. k # at /\ j # at
      BY <2>2
    <3>2. place[k] = (IF k < at THEN k ELSE k - 1) /\ place[j] = (IF j < at THEN j ELSE j - 1)
      OBVIOUS
    <3>3. QED
      BY <1>3, <2>3, <3>1, <3>2, <3>4
  <2>4. QED
    BY <2>2, <2>3
<1>7. ASSUME NEW j \in Places PROVE \E k \in Places' : place[k] = j
  <2> DEFINE k == IF j < at THEN j ELSE j + 1
  <2>1. j \in 1..Len(messages) /\ messages[j].source = "history"
    BY <1>2 DEF Places
  <2>2. k \in 1..(Len(messages) + 1) /\ messages'[k] = messages[j]
    <3>1. CASE j < at
      BY <1>2, <1>3, <1>5, <2>1, <3>1
    <3>2. CASE ~(j < at)
      <4>1. /\ j + 1 \in 1..(Len(messages) + 1) /\ ~(j + 1 < at) /\ j + 1 # at
            /\ (j + 1) - 1 = j /\ k = j + 1
        BY <1>2, <1>3, <2>1, <3>2
      <4>2. messages'[j + 1] = messages[(j + 1) - 1]
        BY <1>5, <4>1
      <4>3. QED
        BY <4>1, <4>2
    <3>3. QED
      BY <3>1, <3>2
  <2>3. k \in Places'
    BY <1>5, <2>1, <2>2 DEF Places
  <2>4. place[k] = j
    BY <1>2, <1>3, <2>1, <2>3
  <2>5. QED
    BY <2>3, <2>4
<1> HIDE DEF place
<1>8. HistoryIsNewest'
  BY <1>1, <1>2, <1>5, <1>6, <1>7, OrderIsKept
<1>9. PromptTypeOK'
  BY <1>1, <1>2, <1>5, TypedMessages DEF PromptTypeOK
<1>10. PinsAreFirst'
  <2>1. \A k \in 1..3 : k \in 1..(Len(messages) + 1) /\ k < at
    BY <1>2, <1>3
  <2>2. \A k \in 1..3 : messages'[k] = messages[k]
    BY <1>5, <2>1
  <2>3. QED
    BY <1>2, <1>5, <2>2 DEF PinsAreFirst
<1>11. QED
  BY <1>1, <1>2, <1>5, <1>8, <1>9, <1>10 DEF PromptInv, ConstraintIsLast, EndsAsItFits

LEMMA ConstraintsAdded ==
    ASSUME PromptInv, AddConstraints
    PROVE  /\ messages' \in Seq(Message) /\ Len(messages') >= Len(messages)
           /\ \A k \in 1..Len(messages) : messages'[k] = messages[k]
           /\ ruled => Len(messages') > Len(messages) /\ messages'[Len(messages')] = Constraint
           /\ Places' = Places
<1> DEFINE extra == IF post THEN <<Piece("character", 0, 1)>> ELSE <<>>
<1> DEFINE last == IF ruled THEN <<Constraint>> ELSE <<>>
<1>1. /\ assembly = "depth" /\ messages' = (messages \o extra) \o last /\ assembly' = "trim"
      /\ UNCHANGED <<history, depth, post, ruled, limit, start, inserting>>
  BY DEF AddConstraints
<1>2. /\ messages \in Seq(Message) /\ Len(messages) \in Nat /\ Len(messages) >= 3
      /\ history \in Seq(Nat) /\ PromptTypeOK /\ start = 3
      /\ DOMAIN messages = 1..Len(messages) /\ HistoryIsNewest
      /\ \A k \in 1..3 : messages[k] = Pinned[k]
  BY HistorySeq DEF PromptInv, PinsAreFirst
<1>3. /\ extra \in Seq(Message) /\ Len(extra) \in 0..1
      /\ \A k \in 1..Len(extra) : extra[k].source # "history"
  <2>1. Piece("character", 0, 1) \in Message /\ Piece("character", 0, 1).source # "history"
    BY DEF Piece, Message
  <2>2. CASE post
    <3>1. extra = <<Piece("character", 0, 1)>>
      BY <2>2
    <3> HIDE DEF extra
    <3>2. QED
      BY <2>1, <3>1
  <2>3. CASE ~post
    <3>1. extra = <<>>
      BY <2>3
    <3> HIDE DEF extra
    <3>2. QED
      BY <3>1
  <2>4. QED
    BY <2>2, <2>3
<1>4. /\ last \in Seq(Message) /\ Len(last) \in 0..1
      /\ \A k \in 1..Len(last) : last[k] = Constraint
      /\ ruled => Len(last) = 1
  <2>1. CASE ruled
    <3>1. last = <<Constraint>>
      BY <2>1
    <3> HIDE DEF last
    <3>2. QED
      BY <3>1, PinnedIs
  <2>2. CASE ~ruled
    <3>1. last = <<>>
      BY <2>2
    <3> HIDE DEF last
    <3>2. QED
      BY <2>2, <3>1
  <2>3. QED
    BY <2>1, <2>2
<1> HIDE DEF extra, last
<1>5. /\ messages \o extra \in Seq(Message)
      /\ Len(messages \o extra) = Len(messages) + Len(extra)
      /\ \A k \in 1..(Len(messages) + Len(extra)) :
            (messages \o extra)[k] =
               IF k <= Len(messages) THEN messages[k] ELSE extra[k - Len(messages)]
  <2>1. messages \in Seq(Message) /\ extra \in Seq(Message)
    BY <1>2, <1>3
  <2>2. QED
    BY <2>1, ConcatProperties
<1> DEFINE body == messages \o extra
<1>6. /\ body \o last \in Seq(Message)
      /\ Len(body \o last) = Len(body) + Len(last)
      /\ \A k \in 1..(Len(body) + Len(last)) :
            (body \o last)[k] = IF k <= Len(body) THEN body[k] ELSE last[k - Len(body)]
  <2>1. body \in Seq(Message) /\ last \in Seq(Message)
    BY <1>4, <1>5
  <2> HIDE DEF body
  <2>2. QED
    BY <2>1, ConcatProperties
<1>7. /\ messages' = body \o last /\ body \in Seq(Message) /\ Len(body) \in Nat
      /\ Len(body) >= Len(messages)
      /\ \A k \in 1..Len(messages) : body[k] = messages[k]
      /\ \A k \in 1..Len(body) : k > Len(messages) => body[k].source # "history"
  BY <1>1, <1>2, <1>3, <1>5
<1> HIDE DEF body
<1>8. /\ messages' \in Seq(Message) /\ Len(messages') = Len(body) + Len(last)
      /\ \A k \in 1..Len(messages) : messages'[k] = messages[k]
      /\ ruled => messages'[Len(messages')] = Constraint
      /\ \A k \in 1..Len(messages') : k > Len(messages) => messages'[k].source # "history"
  <2>1. \A k \in 1..(Len(body) + Len(last)) :
           messages'[k] = IF k <= Len(body) THEN body[k] ELSE Constraint
    BY <1>4, <1>6, <1>7
  <2>2. Len(messages') = Len(body) + Len(last) /\ messages' \in Seq(Message)
    BY <1>6, <1>7
  <2>3. \A k \in 1..Len(messages) : messages'[k] = messages[k]
    BY <1>2, <1>4, <1>7, <2>1
  <2>4. ASSUME ruled
        PROVE  messages'[Len(messages')] = Constraint
    <3>1. Len(last) = 1
      BY <1>4, <2>4
    <3>2. Len(messages') = Len(body) + 1
      BY <2>2, <3>1
    <3>3. Len(messages') \in 1..(Len(body) + Len(last)) /\ ~(Len(messages') <= Len(body))
      BY <1>7, <3>1, <3>2
    <3>4. QED
      BY <2>1, <3>3
  <2>5. ASSUME NEW k \in 1..Len(messages'), k > Len(messages)
        PROVE  messages'[k].source # "history"
    <3>1. messages'[k] = IF k <= Len(body) THEN body[k] ELSE Constraint
      BY <2>1, <2>2
    <3>2. QED
      BY <1>2, <1>4, <1>7, <2>2, <2>5, <3>1, PinnedIs
  <2>6. QED
    BY <2>2, <2>3, <2>4, <2>5
<1>9. Places' = Places
  <2>1. DOMAIN messages' = 1..Len(messages')
    BY <1>8
  <2>2. QED
    BY <1>2, <1>4, <1>7, <1>8, <2>1 DEF Places
<1>10. /\ Len(messages') >= Len(messages)
       /\ ruled => Len(messages') > Len(messages)
  <2>1. Len(messages') = Len(body) + Len(last) /\ Len(last) \in 0..1
    BY <1>4, <1>8
  <2>2. Len(messages') >= Len(messages)
    BY <1>2, <1>7, <2>1
  <2>3. ASSUME ruled
        PROVE  Len(messages') > Len(messages)
    <3>1. Len(last) = 1
      BY <1>4, <2>3
    <3>2. QED
      BY <1>2, <1>7, <2>1, <3>1
  <2>4. QED
    BY <2>2, <2>3
<1>11. QED
  BY <1>8, <1>9, <1>10

LEMMA AddConstraintsStep == ASSUME PromptInv, AddConstraints PROVE PromptInv'
<1>1. /\ assembly = "depth" /\ assembly' = "trim"
      /\ UNCHANGED <<history, depth, post, ruled, limit, start, inserting>>
  BY DEF AddConstraints
<1>2. /\ messages \in Seq(Message) /\ Len(messages) \in Nat /\ Len(messages) >= 3
      /\ history \in Seq(Nat) /\ PromptTypeOK /\ start = 3
      /\ DOMAIN messages = 1..Len(messages) /\ HistoryIsNewest
      /\ \A k \in 1..3 : messages[k] = Pinned[k]
  BY HistorySeq DEF PromptInv, PinsAreFirst
<1>8. /\ messages' \in Seq(Message) /\ Len(messages') >= Len(messages) /\ Len(messages') \in Nat
      /\ \A k \in 1..Len(messages) : messages'[k] = messages[k]
      /\ ruled => Len(messages') > Len(messages) /\ messages'[Len(messages')] = Constraint
  BY ConstraintsAdded
<1>9. Places' = Places
  BY ConstraintsAdded
<1>10. HistoryIsNewest'
  <2> DEFINE place == [k \in Places' |-> k]
  <2>1. /\ place \in [Places' -> Places]
        /\ \A k \in Places' : messages'[k] = messages[place[k]]
        /\ \A k, j \in Places' : k < j => place[k] < place[j]
        /\ \A j \in Places : \E k \in Places' : place[k] = j
    BY <1>2, <1>8, <1>9 DEF Places
  <2> HIDE DEF place
  <2>2. QED
    BY <1>1, <1>2, <1>8, <2>1, OrderIsKept
<1>11. PromptTypeOK'
  BY <1>1, <1>2, <1>8, TypedMessages DEF PromptTypeOK
<1>12. PinsAreFirst'
  BY <1>2, <1>8 DEF PinsAreFirst
<1>13. ConstraintIsLast'
  BY <1>1, <1>2, <1>8 DEF ConstraintIsLast
<1>14. QED
  BY <1>1, <1>2, <1>8, <1>10, <1>11, <1>12, <1>13 DEF PromptInv, EndsAsItFits

LEMMA OldestTaken ==
    ASSUME PromptInv, TrimOldest
    PROVE  \E oldest \in Places :
              /\ oldest \in 4..(Len(messages) - 1) /\ \A k \in Places : oldest <= k
              /\ messages' \in Seq(Message) /\ Len(messages') = Len(messages) - 1
              /\ \A k \in 1..(Len(messages) - 1) :
                    messages'[k] = IF k < oldest THEN messages[k] ELSE messages[k + 1]
<1> DEFINE oldest == Min(Removable)
<1>1. /\ assembly = "trim" /\ Removable # {} /\ messages' = RemoveAt(messages, oldest)
      /\ UNCHANGED <<history, depth, post, ruled, limit, start, inserting, assembly>>
  BY DEF TrimOldest
<1>2. /\ messages \in Seq(Message) /\ Len(messages) \in Nat /\ Len(messages) >= 3
      /\ history \in Seq(Nat) /\ PromptTypeOK /\ start = 3
      /\ DOMAIN messages = 1..Len(messages) /\ HistoryIsNewest
      /\ \A k \in 1..3 : messages[k] = Pinned[k]
  BY <1>1, HistorySeq DEF PromptInv, PinsAreFirst
<1>3. Removable \subseteq Places /\ Places \subseteq Removable \cup {Len(messages)}
  BY <1>2 DEF Removable, Places
<1>4. /\ oldest \in Places /\ \A k \in Places : oldest <= k
      /\ oldest \in 4..(Len(messages) - 1)
  <2>1. Removable \subseteq Nat
    BY <1>2 DEF Removable
  <2>2. oldest \in Removable /\ \A k \in Removable : oldest <= k
    BY <1>1, <2>1, LeastOf
  <2> HIDE DEF oldest
  <2>3. oldest \in 1..(Len(messages) - 1) /\ messages[oldest].source = "history"
    BY <2>2 DEF Removable
  <2>4. oldest \notin 1..3
    BY <1>2, <2>3, PinnedIs
  <2>5. ASSUME NEW k \in Places
        PROVE  oldest <= k
    <3>1. k \in Removable \/ k = Len(messages)
      BY <1>3
    <3>2. CASE k \in Removable
      BY <2>2, <3>2
    <3>3. CASE k = Len(messages)
      <4>1. Len(messages) \in Nat
        BY <1>2
      <4>2. oldest \in 1..(Len(messages) - 1)
        BY <2>3
      <4>3. QED
        BY <3>3, <4>1, <4>2
    <3>4. QED
      BY <3>1, <3>2, <3>3
  <2>6. oldest \in Places /\ oldest \in 4..(Len(messages) - 1)
    <3>1. oldest \in Places
      BY <1>3, <2>2
    <3>2. Len(messages) \in Nat
      BY <1>2
    <3>3. QED
      BY <2>3, <2>4, <3>1, <3>2
  <2>7. QED
    BY <2>5, <2>6
<1> HIDE DEF oldest
<1>5. /\ messages' \in Seq(Message) /\ Len(messages') = Len(messages) - 1
      /\ \A k \in 1..(Len(messages) - 1) :
            messages'[k] = IF k < oldest THEN messages[k] ELSE messages[k + 1]
  <2>1. messages \in Seq(Message) /\ oldest \in 1..Len(messages)
    BY <1>2, <1>4
  <2>2. /\ RemoveAt(messages, oldest) \in Seq(Message)
        /\ Len(RemoveAt(messages, oldest)) = Len(messages) - 1
        /\ \A k \in 1..(Len(messages) - 1) :
              RemoveAt(messages, oldest)[k] = IF k < oldest THEN messages[k] ELSE messages[k + 1]
    BY <2>1, RemovedAt
  <2>3. QED
    BY <1>1, <2>2
<1>6. QED
  BY <1>4, <1>5

LEMMA TrimOldestStep == ASSUME PromptInv, TrimOldest PROVE PromptInv'
<1>1. assembly = "trim" /\ UNCHANGED <<history, depth, post, ruled, limit, start, inserting, assembly>>
  BY DEF TrimOldest
<1>2. /\ messages \in Seq(Message) /\ Len(messages) \in Nat /\ Len(messages) >= 3
      /\ history \in Seq(Nat) /\ PromptTypeOK /\ start = 3
      /\ DOMAIN messages = 1..Len(messages) /\ HistoryIsNewest
      /\ ruled => Len(messages) > 3 /\ messages[Len(messages)] = Constraint
      /\ \A k \in 1..3 : messages[k] = Pinned[k]
  BY <1>1, HistorySeq DEF PromptInv, PinsAreFirst, ConstraintIsLast
<1>3. PICK oldest \in Places :
              /\ oldest \in 4..(Len(messages) - 1) /\ \A k \in Places : oldest <= k
              /\ messages' \in Seq(Message) /\ Len(messages') = Len(messages) - 1
              /\ \A k \in 1..(Len(messages) - 1) :
                    messages'[k] = IF k < oldest THEN messages[k] ELSE messages[k + 1]
  BY OldestTaken
<1>4. /\ oldest \in Places /\ \A k \in Places : oldest <= k
      /\ oldest \in 4..(Len(messages) - 1)
  BY <1>3
<1>5. /\ messages' \in Seq(Message) /\ Len(messages') = Len(messages) - 1
      /\ \A k \in 1..(Len(messages) - 1) :
            messages'[k] = IF k < oldest THEN messages[k] ELSE messages[k + 1]
  BY <1>3
<1> DEFINE place == [k \in Places' |-> k + 1]
<1>6. ASSUME NEW k \in Places'
      PROVE  /\ k \in 1..(Len(messages) - 1) /\ k >= oldest
             /\ k + 1 \in Places /\ messages'[k] = messages[k + 1]
  <2>1. k \in 1..(Len(messages) - 1) /\ messages'[k].source = "history"
    BY <1>2, <1>5 DEF Places
  <2>2. ~(k < oldest)
    <3>1. SUFFICES ASSUME k < oldest PROVE FALSE
      OBVIOUS
    <3>2. messages'[k] = messages[k]
      BY <1>5, <2>1, <3>1
    <3>3. DOMAIN messages = 1..Len(messages) /\ k \in 1..Len(messages)
      BY <1>2, <2>1
    <3>4. k \in Places
      BY <2>1, <3>2, <3>3 DEF Places
    <3>5. QED
      BY <1>4, <2>1, <3>1, <3>4
  <2>3. messages'[k] = messages[k + 1] /\ k + 1 \in 1..Len(messages)
    BY <1>2, <1>4, <1>5, <2>1, <2>2
  <2>4. QED
    BY <1>2, <1>4, <2>1, <2>2, <2>3 DEF Places
<1>7. /\ place \in [Places' -> Places]
      /\ \A k \in Places' : messages'[k] = messages[place[k]]
      /\ \A k, j \in Places' : k < j => place[k] < place[j]
  BY <1>2, <1>6
<1>8. ASSUME NEW j \in Places
      PROVE  \/ \E k \in Places' : place[k] = j
             \/ \A k \in Places' : messages[j].n < messages[place[k]].n
  <2>1. j \in 1..Len(messages) /\ messages[j].source = "history" /\ j >= oldest
    BY <1>2, <1>4 DEF Places
  <2>2. CASE j = oldest
    <3>1. ASSUME NEW k \in Places' PROVE messages[j].n < messages[place[k]].n
      <4>1. place[k] = k + 1 /\ k + 1 \in Places /\ j < k + 1
        BY <1>2, <1>4, <1>6, <2>2
      <4>2. QED
        BY <1>2, <4>1 DEF HistoryIsNewest
    <3>2. QED
      BY <3>1
  <2>3. CASE j # oldest
    <3>1. j - 1 \in 1..(Len(messages) - 1) /\ ~(j - 1 < oldest) /\ (j - 1) + 1 = j
      BY <1>2, <1>4, <2>1, <2>3
    <3>2. messages'[j - 1] = messages[j]
      BY <1>5, <3>1
    <3>3. j - 1 \in Places'
      BY <1>5, <2>1, <3>1, <3>2 DEF Places
    <3>4. place[j - 1] = j
      BY <3>1, <3>3
    <3>5. QED
      BY <3>3, <3>4
  <2>4. QED
    BY <2>2, <2>3
<1> HIDE DEF place
<1>9. HistoryIsNewest'
  BY <1>1, <1>2, <1>5, <1>7, <1>8, OrderIsKept
<1>10. PromptTypeOK'
  BY <1>1, <1>2, <1>5, TypedMessages DEF PromptTypeOK
<1>11. PinsAreFirst'
  BY <1>2, <1>4, <1>5 DEF PinsAreFirst
<1>12. ConstraintIsLast'
  <2>1. messages'[Len(messages) - 1] = messages[Len(messages)]
    <3>1. /\ Len(messages) - 1 \in 1..(Len(messages) - 1) /\ ~(Len(messages) - 1 < oldest)
          /\ (Len(messages) - 1) + 1 = Len(messages)
      BY <1>2, <1>4
    <3>2. messages'[Len(messages) - 1] = messages[(Len(messages) - 1) + 1]
      BY <1>5, <3>1
    <3>3. QED
      BY <3>1, <3>2
  <2>2. ruled => Len(messages) - 1 > 3
    <3>1. SUFFICES ASSUME ruled, Len(messages) = 4
                   PROVE  FALSE
      BY <1>2, <1>4
    <3>2. oldest = 4 - 1
      BY <1>4, <3>1
    <3>3. QED
      BY <1>4, <3>1, <3>2
  <2>3. QED
    BY <1>1, <1>2, <1>5, <2>1, <2>2 DEF ConstraintIsLast
<1>13. QED
  BY <1>1, <1>2, <1>5, <1>9, <1>10, <1>11, <1>12 DEF PromptInv, EndsAsItFits

LEMMA PromptStep == ASSUME PromptInv, [PromptNext]_promptVars PROVE PromptInv'
<1>1. CASE EndAssembly
  <2>1. Places \subseteq Removable \cup {Len(messages)}
    BY <1>1 DEF EndAssembly, PromptInv, PinsAreFirst, Removable, Places
  <2>2. FitsLimit(messages)' <=> FitsLimit(messages)
    BY <1>1 DEF EndAssembly, FitsLimit
  <2>3. Places' = Places /\ (HistoryIsNewest' <=> HistoryIsNewest)
    BY <1>1 DEF EndAssembly, Places, HistoryIsNewest
  <2>4. QED
    BY <1>1, <2>1, <2>2, <2>3
       DEF EndAssembly, PromptInv, PromptTypeOK, PinsAreFirst, ConstraintIsLast, EndsAsItFits
<1>2. CASE UNCHANGED promptVars
  <2>1. Places' = Places /\ (HistoryIsNewest' <=> HistoryIsNewest)
    BY <1>2 DEF promptVars, Places, HistoryIsNewest
  <2>2. FitsLimit(messages)' <=> FitsLimit(messages)
    BY <1>2 DEF promptVars, FitsLimit
  <2>3. QED
    BY <1>2, <2>1, <2>2
       DEF promptVars, PromptInv, PromptTypeOK, PinsAreFirst, ConstraintIsLast, EndsAsItFits
<1>3. QED
  BY <1>1, <1>2, AddHistoryStep, InsertBlockStep, AddConstraintsStep, TrimOldestStep
     DEF PromptNext

LEMMA PromptInductive == PromptSpec => []PromptInv
BY PromptStart, PromptStep, PTL DEF PromptSpec

(* A request without one of its messages costs so much less.                *)
LEMMA CountWithout ==
    ASSUME NEW ms \in Seq(Message), NEW j \in 1..Len(ms), NEW rest \in Seq(Message),
           Len(rest) = Len(ms) - 1,
           \A k \in 1..(Len(ms) - 1) : rest[k] = IF k < j THEN ms[k] ELSE ms[k + 1]
    PROVE  /\ CountRequest(ms) = ms[j].cost + CountRequest(rest)
           /\ CountRequest(rest) \in Nat
<1> DEFINE A(n) == SumOf(rest, 1..n)
           B(n) == SumOf(ms, 1..n)
<1>1. Len(ms) \in Nat \ {0} /\ j \in Nat \ {0} /\ DOMAIN ms = 1..Len(ms)
      /\ DOMAIN rest = 1..(Len(ms) - 1)
  OBVIOUS
<1>2. /\ \A k \in 1..Len(ms) : ms[k].cost \in Nat
      /\ \A k \in 1..(Len(ms) - 1) : rest[k].cost \in Nat
  <2>1. \A k \in DOMAIN ms : ms[k].cost \in Nat
    BY TypedMessages
  <2>2. \A k \in DOMAIN rest : rest[k].cost \in Nat
    BY TypedMessages
  <2>3. QED
    BY <1>1, <2>1, <2>2
<1>3. ASSUME NEW n \in 0..Len(ms)
      PROVE  Costed(ms, 1..n)
  <2>1. IsFiniteSet(1..n)
    BY <1>1, FS_Interval
  <2>2. \A k \in 1..n : k \in 1..Len(ms)
    BY <1>1
  <2>3. QED
    BY <1>2, <2>1, <2>2 DEF Costed
<1>4. ASSUME NEW n \in 0..(Len(ms) - 1)
      PROVE  Costed(rest, 1..n)
  <2>1. IsFiniteSet(1..n)
    BY <1>1, FS_Interval
  <2>2. \A k \in 1..n : k \in 1..(Len(ms) - 1)
    BY <1>1
  <2>3. QED
    BY <1>2, <2>1, <2>2 DEF Costed
<1>5. A(0) = 0 /\ B(0) = 0
  <2>1. 1..0 = {} /\ 0 \in 0..Len(ms) /\ 0 \in 0..(Len(ms) - 1)
    BY <1>1
  <2>2. Costed(ms, 1..0) /\ Costed(rest, 1..0)
    BY <1>3, <1>4, <2>1
  <2>3. QED
    BY <2>1, <2>2, SumSteps
<1>6. ASSUME NEW n \in 0..(Len(ms) - 1)
      PROVE  B(n + 1) = ms[n + 1].cost + B(n) /\ B(n) \in Nat
  <2>1. /\ n + 1 \in 0..Len(ms) /\ n \in 0..Len(ms) /\ n + 1 \in 1..(n + 1)
        /\ (1..(n + 1)) \ {n + 1} = 1..n
    BY <1>1
  <2>2. Costed(ms, 1..(n + 1)) /\ Costed(ms, 1..n)
    BY <1>3, <2>1
  <2>3. SumOf(ms, 1..(n + 1)) = ms[n + 1].cost + SumOf(ms, (1..(n + 1)) \ {n + 1})
    <3>1. ASSUME NEW T, Costed(ms, T), NEW x \in T
          PROVE  SumOf(ms, T) = ms[x].cost + SumOf(ms, T \ {x})
      BY <3>1, SumAnyOrder
    <3>2. QED
      BY <2>1, <2>2, <3>1
  <2>4. SumOf(ms, 1..n) \in Nat
    BY <2>2, SumSteps
  <2>5. QED
    BY <2>1, <2>3, <2>4
<1>7. ASSUME NEW n \in 0..(Len(ms) - 1), n + 1 <= Len(ms) - 1
      PROVE  A(n + 1) = rest[n + 1].cost + A(n)
  <2>1. /\ n + 1 \in 0..(Len(ms) - 1) /\ n + 1 \in 1..(n + 1)
        /\ (1..(n + 1)) \ {n + 1} = 1..n
    BY <1>1, <1>7
  <2>2. Costed(rest, 1..(n + 1))
    BY <1>4, <2>1
  <2>3. SumOf(rest, 1..(n + 1)) = rest[n + 1].cost + SumOf(rest, (1..(n + 1)) \ {n + 1})
    BY <2>1, <2>2, SumAnyOrder
  <2>4. QED
    BY <2>1, <2>3
<1>8. \A n \in 0..(Len(ms) - 1) : A(n) \in Nat
  BY <1>4, SumSteps
<1> HIDE DEF A, B
<1> DEFINE Claim == {n \in Nat : n <= Len(ms) - 1 =>
                        /\ n < j => A(n) = B(n)
                        /\ n >= j => ms[j].cost + A(n) = B(n + 1)}
<1>9. 0 \in Claim
  BY <1>1, <1>5
<1>10. ASSUME NEW n \in Nat, n \in Claim
       PROVE  n + 1 \in Claim
  <2>1. SUFFICES ASSUME n + 1 <= Len(ms) - 1
                 PROVE  /\ n + 1 < j => A(n + 1) = B(n + 1)
                        /\ n + 1 >= j => ms[j].cost + A(n + 1) = B((n + 1) + 1)
    OBVIOUS
  <2>2. n \in 0..(Len(ms) - 1) /\ n + 1 \in 0..(Len(ms) - 1) /\ n + 1 \in 1..(Len(ms) - 1)
    BY <1>1, <2>1
  <2>3. /\ A(n + 1) = rest[n + 1].cost + A(n)
        /\ B(n + 1) = ms[n + 1].cost + B(n)
        /\ B((n + 1) + 1) = ms[(n + 1) + 1].cost + B(n + 1)
        /\ A(n) \in Nat /\ B(n) \in Nat /\ B(n + 1) \in Nat
    BY <1>6, <1>7, <1>8, <2>1, <2>2
  <2>4. /\ rest[n + 1] = IF n + 1 < j THEN ms[n + 1] ELSE ms[(n + 1) + 1]
        /\ ms[n + 1].cost \in Nat /\ ms[(n + 1) + 1].cost \in Nat /\ ms[j].cost \in Nat
    BY <1>1, <1>2, <2>2
  <2>5. CASE n + 1 < j
    BY <1>1, <1>10, <2>1, <2>3, <2>4, <2>5
  <2>6. CASE n + 1 = j
    <3>1. n < j /\ A(n) = B(n)
      BY <1>10, <2>1, <2>6
    <3>2. QED
      BY <2>3, <2>4, <2>6, <3>1
  <2>7. CASE n + 1 > j
    <3>1. n >= j /\ ms[j].cost + A(n) = B(n + 1)
      BY <1>1, <1>10, <2>1, <2>7
    <3>2. rest[n + 1].cost = ms[(n + 1) + 1].cost
      BY <1>1, <2>4, <2>7
    <3> DEFINE one == ms[j].cost
    <3> DEFINE other == ms[(n + 1) + 1].cost
    <3>3. /\ one + A(n) = B(n + 1) /\ A(n + 1) = other + A(n)
          /\ B((n + 1) + 1) = other + B(n + 1)
          /\ one \in Nat /\ other \in Nat /\ A(n) \in Nat /\ B(n + 1) \in Nat
      BY <2>3, <2>4, <3>1, <3>2
    <3> HIDE DEF one, other
    <3>4. one + A(n + 1) = B((n + 1) + 1)
      BY <3>3
    <3>5. QED
      BY <1>1, <2>7, <3>4 DEF one
  <2>8. QED
    BY <1>1, <2>5, <2>6, <2>7
<1>11. Len(ms) - 1 \in Claim
  <2>1. Nat \subseteq Claim
    <3> HIDE DEF Claim
    <3>1. QED
      BY <1>9, <1>10, ByInduction
  <2>2. QED
    BY <1>1, <2>1
<1>12. B(Len(ms)) = ms[j].cost + A(Len(ms) - 1) /\ A(Len(ms) - 1) \in Nat
  <2> DEFINE n == Len(ms) - 1
  <2>1. n \in 0..(Len(ms) - 1) /\ n + 1 = Len(ms)
    BY <1>1
  <2>2. /\ n < j => A(n) = B(n)
        /\ n >= j => ms[j].cost + A(n) = B(Len(ms))
        /\ B(Len(ms)) = ms[Len(ms)].cost + B(n)
    BY <1>1, <1>6, <1>11, <2>1
  <2>3. n < j => j = Len(ms)
    BY <1>1
  <2>4. QED
    BY <1>8, <2>1, <2>2, <2>3
<1>13. CountRequest(ms) = B(Len(ms)) /\ CountRequest(rest) = A(Len(ms) - 1)
  BY <1>1 DEF CountRequest, SumOf, A, B
<1>14. QED
  BY <1>12, <1>13

(* What was given up is older than what is left, and the newest of it would *)
(* not have fitted.                                                         *)
TrimInv ==
    /\ assembly = "depth" => GivenUp = {}
    /\ assembly \in {"trim", "ready", "refused"} => TrimIsForced

LEMMA GreatestIs ==
    ASSUME NEW S \in SUBSET Nat, NEW m \in S, \A n \in S : n <= m
    PROVE  Max(S) = m
<1>1. \E x \in S : \A n \in S : x >= n
  OBVIOUS
<1> DEFINE x == Max(S)
<1>2. x \in S /\ \A n \in S : x >= n
  BY <1>1 DEF Max
<1> HIDE DEF x
<1>3. x \in Nat /\ m \in Nat /\ x <= m /\ x >= m
  BY <1>2
<1>4. x = m
  BY <1>3
<1>5. QED
  BY <1>4 DEF x

LEMMA TrimSteps ==
    ASSUME PromptInv, PromptInv', TrimInv, [PromptNext]_promptVars
    PROVE  TrimInv'
<1>1. /\ history \in Seq(Nat) /\ DOMAIN history = 1..Len(history) /\ Len(history) \in Nat
      /\ messages \in Seq(Message) /\ DOMAIN messages = 1..Len(messages) /\ Len(messages) \in Nat
      /\ HistoryIsNewest
  BY HistorySeq DEF PromptInv
<1>2. CASE AddHistory
  <2>1. /\ Places' = (Len(messages) + 1)..(Len(messages) + Len(history))
        /\ \A k \in Places' : messages'[k].n = k - Len(messages)
    BY <1>2, HistoryAdded
  <2>2. history' = history /\ assembly' = "depth"
    BY <1>2 DEF AddHistory
  <2>3. ASSUME NEW n \in DOMAIN history
        PROVE  \E k \in Places' : messages'[k].n = n
    <3>1. n + Len(messages) \in Places' /\ (n + Len(messages)) - Len(messages) = n
      BY <1>1, <2>1
    <3>2. QED
      BY <2>1, <3>1
  <2>4. GivenUp' = {}
    BY <2>2, <2>3 DEF GivenUp
  <2>5. QED
    BY <2>2, <2>4 DEF TrimInv
<1>3. ASSUME NEW b \in Blocks, InsertBlock(b)
      PROVE  TrimInv'
  <2>1. /\ PositionOf(b) + 1 \in 4..(Len(messages) + 1) /\ Len(messages') = Len(messages) + 1
        /\ messages' \in Seq(Message)
        /\ \A k \in 1..(Len(messages) + 1) :
              messages'[k] = IF k < PositionOf(b) + 1 THEN messages[k]
                             ELSE IF k = PositionOf(b) + 1 THEN Piece("custom", b, 1)
                             ELSE messages[k - 1]
    BY <1>3, BlockInserted
  <2>2. assembly = "depth" /\ assembly' = "depth" /\ history' = history
    BY <1>3 DEF InsertBlock
  <2>3. ASSUME NEW j \in Places
        PROVE  \E k \in Places' : messages'[k] = messages[j]
    <3> DEFINE at == PositionOf(b) + 1
    <3> DEFINE k == IF j < at THEN j ELSE j + 1
    <3>1. j \in 1..Len(messages) /\ messages[j].source = "history"
      BY <1>1 DEF Places
    <3>2. at \in 4..(Len(messages) + 1)
      BY <2>1
    <3> HIDE DEF at
    <3>3. /\ k \in 1..(Len(messages) + 1) /\ k # at
          /\ (k < at => k = j) /\ (~(k < at) => k - 1 = j)
      BY <1>1, <3>1, <3>2
    <3>4. messages'[k] = messages[j]
      BY <2>1, <3>3 DEF at
    <3>5. k \in Places'
      BY <2>1, <3>1, <3>3, <3>4 DEF Places
    <3>6. QED
      BY <3>4, <3>5
  <2>4. GivenUp = {}
    BY <2>2 DEF TrimInv
  <2>5. GivenUp' = {}
    BY <2>2, <2>3, <2>4 DEF GivenUp
  <2>6. QED
    BY <2>2, <2>5 DEF TrimInv
<1>4. CASE AddConstraints
  <2>1. /\ Places' = Places
        /\ \A k \in 1..Len(messages) : messages'[k] = messages[k]
    BY <1>4, ConstraintsAdded
  <2>2. assembly = "depth" /\ assembly' = "trim" /\ history' = history
    BY <1>4 DEF AddConstraints
  <2>3. \A k \in Places : messages'[k] = messages[k]
    BY <1>1, <2>1 DEF Places
  <2>4. GivenUp' = {}
    BY <2>1, <2>2, <2>3 DEF TrimInv, GivenUp
  <2>5. QED
    BY <2>2, <2>4 DEF TrimInv, TrimIsForced
<1>5. CASE TrimOldest
  <2>1. PICK oldest \in Places :
              /\ oldest \in 4..(Len(messages) - 1) /\ \A k \in Places : oldest <= k
              /\ messages' \in Seq(Message) /\ Len(messages') = Len(messages) - 1
              /\ \A k \in 1..(Len(messages) - 1) :
                    messages'[k] = IF k < oldest THEN messages[k] ELSE messages[k + 1]
    BY <1>5, OldestTaken
  <2>2. /\ assembly = "trim" /\ assembly' = "trim" /\ history' = history /\ limit' = limit
        /\ limit # 0 /\ ~(CountRequest(messages) <= limit)
    BY <1>5 DEF TrimOldest, FitsLimit
  <2> DEFINE m == messages[oldest].n
  <2>3. /\ m \in 1..Len(history) /\ messages[oldest].cost = history[m]
        /\ \A n \in m..Len(history) : \E j \in Places : messages[j].n = n
    BY <1>1, <2>1 DEF HistoryIsNewest
  <2> HIDE DEF m
  <2>4. CountRequest(messages) = history[m] + CountRequest(messages') /\ CountRequest(messages') \in Nat
    <3>1. oldest \in 1..Len(messages)
      BY <1>1, <2>1
    <3>2. QED
      BY <1>1, <2>1, <2>3, <3>1, CountWithout
  <2>5. ASSUME NEW k \in Places'
        PROVE  messages'[k].n # m
    <3>1. k \in 1..(Len(messages) - 1) /\ messages'[k].source = "history"
      BY <1>1, <2>1 DEF Places
    <3>2. ~(k < oldest)
      <4>1. SUFFICES ASSUME k < oldest
                     PROVE  FALSE
        OBVIOUS
      <4>2. messages'[k] = messages[k] /\ k \in DOMAIN messages
        BY <1>1, <2>1, <3>1, <4>1
      <4>3. k \in Places
        BY <3>1, <4>2 DEF Places
      <4>4. QED
        BY <1>1, <2>1, <3>1, <4>1, <4>3
    <3>3. k + 1 \in Places /\ oldest < k + 1 /\ messages'[k] = messages[k + 1]
      BY <1>1, <2>1, <3>1, <3>2 DEF Places
    <3>4. messages[oldest].n < messages[k + 1].n
      BY <1>1, <3>3 DEF HistoryIsNewest
    <3>5. QED
      BY <2>3, <3>3, <3>4 DEF m
  <2>6. m \in GivenUp'
    BY <1>1, <2>2, <2>3, <2>5 DEF GivenUp
  <2>7. ASSUME NEW n \in GivenUp'
        PROVE  n <= m
    <3>1. n \in 1..Len(history) /\ \A k \in Places' : messages'[k].n # n
      BY <1>1, <2>2, <2>7 DEF GivenUp
    <3>2. SUFFICES ASSUME n > m
                   PROVE  FALSE
      BY <2>3, <3>1
    <3>3. PICK j \in Places : messages[j].n = n
      BY <1>1, <2>3, <3>1, <3>2
    <3>4. j # oldest /\ j > oldest /\ j \in 1..Len(messages) /\ messages[j].source = "history"
      BY <1>1, <2>1, <2>3, <3>2, <3>3 DEF Places, m
    <3>5. /\ j - 1 \in 1..(Len(messages) - 1) /\ ~(j - 1 < oldest) /\ (j - 1) + 1 = j
      BY <1>1, <2>1, <3>4
    <3>6. messages'[j - 1] = messages[j]
      BY <2>1, <3>5
    <3>7. j - 1 \in Places'
      BY <2>1, <3>4, <3>5, <3>6 DEF Places
    <3>8. QED
      BY <3>1, <3>3, <3>6, <3>7
  <2>8. Max(GivenUp') = m
    <3>1. GivenUp' \subseteq Nat
      BY <1>1, <2>2 DEF GivenUp
    <3>2. QED
      BY <2>6, <2>7, <3>1, GreatestIs
  <2>9. CountRequest(messages') + history[m] > limit
    <3>1. history[m] \in Nat /\ limit \in Nat
      BY <1>1, <2>3, PromptAssumption DEF PromptInv, PromptTypeOK
    <3>2. QED
      BY <2>2, <2>4, <3>1
  <2>10. TrimIsForced'
    BY <2>2, <2>8, <2>9 DEF TrimIsForced
  <2>11. QED
    BY <2>2, <2>10 DEF TrimInv
<1>6. CASE EndAssembly
  <2>1. assembly = "trim" /\ assembly' \in {"ready", "refused"} /\ UNCHANGED <<history, messages, limit>>
    BY <1>6 DEF EndAssembly
  <2>2. GivenUp' = GivenUp
    BY <2>1 DEF GivenUp, Places
  <2>3. CountRequest(messages)' = CountRequest(messages)
    BY <2>1
  <2>4. QED
    BY <2>1, <2>2, <2>3 DEF TrimInv, TrimIsForced
<1>7. CASE UNCHANGED promptVars
  <2>1. UNCHANGED <<history, messages, limit, assembly>>
    BY <1>7 DEF promptVars
  <2>2. GivenUp' = GivenUp
    BY <2>1 DEF GivenUp, Places
  <2>3. CountRequest(messages)' = CountRequest(messages)
    BY <2>1
  <2>4. QED
    BY <2>1, <2>2, <2>3 DEF TrimInv, TrimIsForced
<1>8. QED
  BY <1>2, <1>3, <1>4, <1>5, <1>6, <1>7 DEF PromptNext

LEMMA TrimInductive == PromptSpec => []TrimInv
<1>1. PromptInit => TrimInv
  BY DEF PromptInit, TrimInv
<1>2. PromptInv /\ PromptInv' /\ TrimInv /\ [PromptNext]_promptVars => TrimInv'
  BY TrimSteps
<1>3. QED
  BY <1>1, <1>2, PromptInductive, PTL DEF PromptSpec

(* Until all blocks are in, the last messages are the newest of the history, *)
(* as many of them as the deepest block that is left goes back.             *)
BlockHolds(b) ==
    \E k \in DOMAIN messages :
        /\ IsBlock(k, b)
        /\ \A i \in Places : i > k <=> messages[i].n > Len(history) - depth[b]
TailIsHistory(b) ==
    \A j \in 4..Len(messages) :
        Len(messages) - j < depth[b] /\ Len(messages) - j < Len(history) =>
            j \in Places /\ messages[j].n = Len(history) - (Len(messages) - j)
DepthInv ==
    /\ assembly = "history" => inserting = Blocks
    /\ assembly = "depth" =>
          /\ Len(messages) >= 3 + Len(history)
          /\ \A b \in inserting : TailIsHistory(b)
          /\ \A b \in Blocks \ inserting : BlockHolds(b)
    /\ assembly \in {"trim", "ready", "refused"} => \A b \in Blocks : BlockHolds(b)

(* A block stays where it is in the history as long as no message of the    *)
(* history changes sides.                                                   *)
LEMMA BlockIsKept ==
    ASSUME NEW b \in Blocks, BlockHolds(b), history' = history, depth' = depth, NEW to,
           \A k \in DOMAIN messages : messages[k].source = "custom" =>
              to[k] \in DOMAIN messages' /\ messages'[to[k]] = messages[k],
           \A i \in Places' : \E j \in Places :
              /\ messages'[i].n = messages[j].n
              /\ \A k \in DOMAIN messages : messages[k].source = "custom" =>
                    (i > to[k] <=> j > k)
    PROVE  BlockHolds(b)'
<1>1. PICK k \in DOMAIN messages :
         /\ messages[k].source = "custom" /\ messages[k].n = b
         /\ \A i \in Places : i > k <=> messages[i].n > Len(history) - depth[b]
  BY DEF BlockHolds, IsBlock
<1>2. to[k] \in DOMAIN messages' /\ messages'[to[k]] = messages[k]
  BY <1>1
<1>3. ASSUME NEW i \in Places'
      PROVE  i > to[k] <=> messages'[i].n > Len(history) - depth[b]
  <2>1. PICK j \in Places : /\ messages'[i].n = messages[j].n
                           /\ (i > to[k] <=> j > k)
    BY <1>1
  <2>2. QED
    BY <1>1, <2>1
<1>4. QED
  BY <1>1, <1>2, <1>3 DEF BlockHolds, IsBlock

(* Where the last e messages begin, and what is before them.                *)
LEMMA StartOfTail ==
    ASSUME NEW size \in Nat, NEW total \in Nat, NEW d \in Nat, NEW i \in Nat, NEW e \in 1..total,
           size >= 3 + total, e <= d
    PROVE  /\ (size - e) + 1 \in 4..size
           /\ size - ((size - e) + 1) = e - 1
           /\ i <= size - d => i < (size - e) + 1
           /\ e - 1 < d /\ e - 1 < total
OBVIOUS

LEMMA BeforeTail ==
    ASSUME NEW total \in Nat, NEW d \in Nat, NEW n \in 1..total, NEW e \in 1..total,
           e <= d, e = d \/ e = total, n < total - (e - 1)
    PROVE  e = d /\ ~(n > total - d)
OBVIOUS

(* A block goes where its depth says.                                       *)
LEMMA BlockIsPlaced ==
    ASSUME PromptInv, DepthInv, NEW b \in Blocks, InsertBlock(b)
    PROVE  BlockHolds(b)'
<1> DEFINE total == Len(history)
<1> DEFINE size == Len(messages)
<1> DEFINE d == depth[b]
<1> DEFINE at == PositionOf(b) + 1
<1>1. /\ history \in Seq(Nat) /\ DOMAIN history = 1..total /\ total \in Nat
      /\ messages \in Seq(Message) /\ DOMAIN messages = 1..size /\ size \in Nat /\ size >= 3
      /\ HistoryIsNewest /\ \A k \in 1..3 : messages[k].source # "history"
  BY HistorySeq, PinnedIs DEF PromptInv, PinsAreFirst
<1>2. /\ size >= 3 + total /\ TailIsHistory(b) /\ d \in Nat
      /\ history' = history /\ depth' = depth
  BY PromptAssumption DEF InsertBlock, DepthInv, PromptInv, PromptTypeOK
<1>3. /\ at = (IF 3 >= size - d THEN 3 ELSE size - d) + 1
      /\ at \in 4..(size + 1)
      /\ messages' \in Seq(Message) /\ Len(messages') = size + 1
      /\ \A k \in 1..(size + 1) :
            messages'[k] = IF k < at THEN messages[k]
                           ELSE IF k = at THEN Piece("custom", b, 1)
                           ELSE messages[k - 1]
  BY BlockInserted
<1> HIDE DEF at
<1>4. /\ DOMAIN messages' = 1..(size + 1) /\ at \in 1..(size + 1)
      /\ messages'[at].source = "custom" /\ messages'[at].n = b
  <2>1. at \in 1..(size + 1)
    BY <1>1, <1>3
  <2>2. messages'[at] = Piece("custom", b, 1)
    BY <1>3, <2>1
  <2>3. QED
    BY <1>1, <1>3, <2>1, <2>2 DEF Piece
<1>5. \A j \in 4..size : size - j < d /\ size - j < total =>
         j \in Places /\ messages[j].n = total - (size - j)
  BY <1>2 DEF TailIsHistory
<1>6. \A j \in Places : j \in 4..size /\ messages[j].source = "history" /\ messages[j].n \in 1..total
  <2>1. \A j \in Places : j \in 1..size /\ messages[j].source = "history" /\ messages[j].n \in 1..total
    BY <1>1 DEF Places, HistoryIsNewest
  <2>2. QED
    BY <1>1, <2>1
<1>7. ASSUME NEW i \in Places'
      PROVE  i > at <=> messages'[i].n > total - d
  <2>1. i \in 1..(size + 1) /\ messages'[i].source = "history" /\ i # at
    BY <1>4 DEF Places
  <2>2. CASE i > at
    <3>1. messages'[i] = messages[i - 1] /\ i - 1 \in 1..size
      BY <1>1, <1>3, <2>1, <2>2
    <3>2. i - 1 \in Places
      BY <1>1, <2>1, <3>1 DEF Places
    <3>3. i - 1 \in 4..size /\ messages[i - 1].n \in 1..total
      BY <1>6, <3>2
    <3>4. CASE d > total
      BY <1>1, <1>2, <2>2, <3>1, <3>3, <3>4
    <3>5. CASE d <= total
      <4>1. size - (i - 1) < d /\ size - (i - 1) < total
        BY <1>1, <1>2, <1>3, <2>1, <2>2, <3>3, <3>5
      <4>2. messages[i - 1].n = total - (size - (i - 1))
        BY <1>5, <3>3, <4>1
      <4>3. QED
        BY <1>1, <1>2, <2>1, <2>2, <3>1, <3>3, <4>1, <4>2
    <3>6. QED
      BY <1>1, <1>2, <3>4, <3>5
  <2>3. CASE i < at
    <3>1. messages'[i] = messages[i] /\ i \in 1..size
      BY <1>1, <1>3, <2>1, <2>3
    <3>2. i \in Places
      BY <1>1, <2>1, <3>1 DEF Places
    <3>3. i \in 4..size /\ messages[i].n \in 1..total
      BY <1>6, <3>2
    <3>4. i <= size - d
      BY <1>1, <1>2, <1>3, <2>3, <3>3
    <3>5. CASE d = 0
      BY <1>1, <1>2, <2>3, <3>1, <3>3, <3>5, <1>3
    <3>6. CASE d # 0
      <4> DEFINE n == messages[i].n
      <4> DEFINE e == IF d <= total THEN d ELSE total
      <4>1. n \in 1..total /\ i \in Nat /\ i >= 4
        BY <3>3
      <4> HIDE DEF n
      <4>2. total >= 1 /\ n >= 1 /\ n <= total /\ d >= 1
        BY <1>1, <1>2, <3>6, <4>1
      <4>3. e \in 1..total /\ e <= d /\ (e = d \/ e = total)
        BY <1>1, <1>2, <4>2
      <4> HIDE DEF e, d
      <4> DEFINE j == (size - e) + 1
      <4>4. /\ size \in Nat /\ total \in Nat /\ d \in Nat /\ i \in Nat /\ e \in 1..total
             /\ size >= 3 + total /\ e <= d /\ i <= size - d
        BY <1>1, <1>2, <3>4, <4>1, <4>3
      <4>5. j \in 4..size /\ size - j = e - 1 /\ i < j /\ size - j < d /\ size - j < total
        <5> HIDE DEF total, size
        <5>1. QED
          BY <4>4, StartOfTail
      <4> HIDE DEF j
      <4>6. j \in Places /\ messages[j].n = total - (e - 1)
        BY <1>5, <4>5
      <4>7. n < total - (e - 1)
        BY <1>1, <3>2, <4>5, <4>6 DEF HistoryIsNewest, n
      <4>8. e = d /\ ~(n > total - d)
        BY <1>1, <1>2, <4>1, <4>2, <4>3, <4>7, BeforeTail
      <4>9. QED
        BY <2>1, <2>3, <3>1, <3>2, <1>3, <4>8 DEF n
    <3>7. QED
      BY <3>5, <3>6
  <2>4. QED
    BY <1>3, <2>1, <2>2, <2>3
<1>8. QED
  BY <1>2, <1>4, <1>7 DEF BlockHolds, IsBlock

(* The tail is left alone by the deeper blocks.                             *)
LEMMA TailIsKept ==
    ASSUME PromptInv, DepthInv, NEW b \in Blocks, InsertBlock(b), NEW c \in inserting
    PROVE  TailIsHistory(c)'
<1> DEFINE total == Len(history)
<1> DEFINE size == Len(messages)
<1> DEFINE at == PositionOf(b) + 1
<1>1. /\ history \in Seq(Nat) /\ total \in Nat
      /\ DOMAIN messages = 1..size /\ size \in Nat /\ size >= 3 + total
      /\ TailIsHistory(c) /\ depth[b] \in Nat /\ depth[c] \in Nat /\ depth[c] <= depth[b]
      /\ history' = history /\ depth' = depth
  BY HistorySeq, PromptAssumption DEF InsertBlock, DepthInv, PromptInv, PromptTypeOK
<1>2. /\ at = (IF 3 >= size - depth[b] THEN 3 ELSE size - depth[b]) + 1
      /\ messages' \in Seq(Message) /\ Len(messages') = size + 1
      /\ \A k \in 1..(size + 1) :
            messages'[k] = IF k < at THEN messages[k]
                           ELSE IF k = at THEN Piece("custom", b, 1)
                           ELSE messages[k - 1]
  BY BlockInserted
<1> HIDE DEF at
<1>3. ASSUME NEW j \in 4..(size + 1), (size + 1) - j < depth[c], (size + 1) - j < total
      PROVE  j \in Places' /\ messages'[j].n = total - ((size + 1) - j)
  <2>1. /\ j > at /\ j - 1 \in 4..size /\ size - (j - 1) = (size + 1) - j /\ j \in 1..(size + 1)
        /\ size - (j - 1) < depth[c] /\ size - (j - 1) < total
    BY <1>1, <1>2, <1>3
  <2>2. j - 1 \in Places /\ messages[j - 1].n = total - (size - (j - 1))
    BY <1>1, <2>1 DEF TailIsHistory
  <2>3. messages'[j] = messages[j - 1]
    BY <1>1, <1>2, <2>1
  <2>4. j \in DOMAIN messages'
    BY <1>2, <2>1
  <2>5. QED
    BY <2>1, <2>2, <2>3, <2>4 DEF Places
<1>4. QED
  BY <1>1, <1>2, <1>3 DEF TailIsHistory

LEMMA DepthSteps ==
    ASSUME PromptInv, PromptInv', DepthInv, [PromptNext]_promptVars
    PROVE  DepthInv'
<1>1. /\ history \in Seq(Nat) /\ Len(history) \in Nat
      /\ messages \in Seq(Message) /\ DOMAIN messages = 1..Len(messages) /\ Len(messages) \in Nat
      /\ Len(messages) >= 3
  BY HistorySeq DEF PromptInv, PinsAreFirst
<1>2. CASE AddHistory
  <2>1. /\ messages' \in Seq(Message) /\ Len(messages') = Len(messages) + Len(history)
        /\ Places' = (Len(messages) + 1)..(Len(messages) + Len(history))
        /\ \A k \in Places' : messages'[k].n = k - Len(messages)
    BY <1>2, HistoryAdded
  <2>2. /\ assembly = "history" /\ assembly' = "depth"
        /\ history' = history /\ depth' = depth /\ inserting' = inserting /\ inserting = Blocks
    BY <1>2 DEF AddHistory, DepthInv
  <2>3. ASSUME NEW b \in Blocks
        PROVE  TailIsHistory(b)'
    <3>1. ASSUME NEW j \in 4..Len(messages'), Len(messages') - j < Len(history)
          PROVE  j \in Places' /\ messages'[j].n = Len(history) - (Len(messages') - j)
      <4>1. j \in Places'
        BY <1>1, <2>1, <3>1
      <4>2. messages'[j].n = j - Len(messages)
        BY <2>1, <4>1
      <4>3. QED
        BY <1>1, <2>1, <3>1, <4>1, <4>2
    <3>2. QED
      BY <2>2, <3>1 DEF TailIsHistory
  <2>4. QED
    BY <1>1, <2>1, <2>2, <2>3 DEF DepthInv
<1>3. ASSUME NEW b \in Blocks, InsertBlock(b)
      PROVE  DepthInv'
  <2> DEFINE at == PositionOf(b) + 1
  <2>1. /\ at \in 4..(Len(messages) + 1) /\ Len(messages') = Len(messages) + 1
        /\ messages' \in Seq(Message)
        /\ \A k \in 1..(Len(messages) + 1) :
              messages'[k] = IF k < at THEN messages[k]
                             ELSE IF k = at THEN Piece("custom", b, 1)
                             ELSE messages[k - 1]
    BY <1>3, BlockInserted
  <2> HIDE DEF at
  <2>2. /\ assembly = "depth" /\ assembly' = "depth" /\ history' = history /\ depth' = depth
        /\ inserting' = inserting \ {b} /\ DOMAIN messages' = 1..(Len(messages) + 1)
    BY <1>3, <1>1, <2>1 DEF InsertBlock
  <2> DEFINE to == [k \in DOMAIN messages |-> IF k < at THEN k ELSE k + 1]
  <2>3. ASSUME NEW k \in DOMAIN messages
        PROVE  to[k] \in DOMAIN messages' /\ messages'[to[k]] = messages[k]
    <3>1. CASE k < at
      <4>1. to[k] = k /\ k \in 1..(Len(messages) + 1)
        BY <1>1, <3>1
      <4>2. QED
        BY <2>1, <2>2, <3>1, <4>1
    <3>2. CASE ~(k < at)
      <4>1. /\ to[k] = k + 1 /\ k + 1 \in 1..(Len(messages) + 1) /\ ~(k + 1 < at) /\ k + 1 # at
            /\ (k + 1) - 1 = k
        BY <1>1, <2>1, <3>2
      <4>2. messages'[k + 1] = messages[(k + 1) - 1]
        BY <2>1, <4>1
      <4>3. QED
        BY <2>2, <4>1, <4>2
    <3>3. QED
      BY <3>1, <3>2
  <2>4. ASSUME NEW i \in Places'
        PROVE  \E j \in Places : /\ messages'[i].n = messages[j].n
                                /\ \A k \in DOMAIN messages : i > to[k] <=> j > k
    <3> DEFINE j == IF i < at THEN i ELSE i - 1
    <3>1. i \in 1..(Len(messages) + 1) /\ messages'[i].source = "history"
      BY <2>2 DEF Places
    <3>2. i # at
      BY <2>1, <3>1 DEF Piece
    <3>3. j \in 1..Len(messages) /\ messages'[i] = messages[j]
      BY <1>1, <2>1, <3>1, <3>2
    <3>4. \A k \in DOMAIN messages : i > to[k] <=> j > k
      BY <1>1, <2>1, <3>1, <3>2
    <3> HIDE DEF j, to
    <3>5. j \in Places
      BY <1>1, <3>1, <3>3 DEF Places
    <3>6. QED
      BY <3>3, <3>4, <3>5
  <2> HIDE DEF to
  <2>5. ASSUME NEW c \in Blocks, BlockHolds(c)
        PROVE  BlockHolds(c)'
    BY <2>2, <2>3, <2>4, <2>5, BlockIsKept
  <2>6. \A c \in Blocks \ inserting' : BlockHolds(c)'
    BY <1>3, <2>2, <2>5, BlockIsPlaced DEF DepthInv
  <2>7. \A c \in inserting' : TailIsHistory(c)'
    BY <1>3, <2>2, TailIsKept
  <2>8. Len(messages') >= 3 + Len(history)
    BY <1>1, <2>1, <2>2 DEF DepthInv
  <2>9. QED
    BY <2>2, <2>6, <2>7, <2>8 DEF DepthInv
<1>4. CASE AddConstraints
  <2>1. /\ messages' \in Seq(Message) /\ Len(messages') >= Len(messages)
        /\ \A k \in 1..Len(messages) : messages'[k] = messages[k]
        /\ Places' = Places
    BY <1>4, ConstraintsAdded
  <2>2. /\ assembly = "depth" /\ assembly' = "trim" /\ history' = history /\ depth' = depth
        /\ inserting = {}
    BY <1>4 DEF AddConstraints
  <2> DEFINE to == [k \in DOMAIN messages |-> k]
  <2>3. \A k \in DOMAIN messages : to[k] = k /\ k \in DOMAIN messages' /\ messages'[k] = messages[k]
    BY <1>1, <2>1
  <2>4. \A i \in Places' : i \in Places /\ messages'[i].n = messages[i].n
    BY <2>1, <2>3 DEF Places
  <2> HIDE DEF to
  <2>5. ASSUME NEW c \in Blocks, BlockHolds(c)
        PROVE  BlockHolds(c)'
    BY <2>2, <2>3, <2>4, <2>5, BlockIsKept
  <2>6. QED
    BY <2>2, <2>5 DEF DepthInv
<1>5. CASE TrimOldest
  <2>1. PICK oldest \in Places :
              /\ oldest \in 4..(Len(messages) - 1) /\ \A k \in Places : oldest <= k
              /\ messages' \in Seq(Message) /\ Len(messages') = Len(messages) - 1
              /\ \A k \in 1..(Len(messages) - 1) :
                    messages'[k] = IF k < oldest THEN messages[k] ELSE messages[k + 1]
    BY <1>5, OldestTaken
  <2>2. /\ assembly = "trim" /\ assembly' = "trim" /\ history' = history /\ depth' = depth
        /\ DOMAIN messages' = 1..(Len(messages) - 1) /\ messages[oldest].source = "history"
    BY <1>5, <1>1, <2>1 DEF TrimOldest, Places
  <2> DEFINE to == [k \in DOMAIN messages |-> IF k < oldest THEN k ELSE k - 1]
  <2>3. ASSUME NEW k \in DOMAIN messages, k # oldest
        PROVE  to[k] \in DOMAIN messages' /\ messages'[to[k]] = messages[k]
    <3>1. CASE k < oldest
      <4>1. to[k] = k /\ k \in 1..(Len(messages) - 1)
        BY <1>1, <2>1, <3>1
      <4>2. QED
        BY <2>1, <2>2, <3>1, <4>1
    <3>2. CASE ~(k < oldest)
      <4>1. /\ to[k] = k - 1 /\ k - 1 \in 1..(Len(messages) - 1) /\ ~(k - 1 < oldest)
            /\ (k - 1) + 1 = k
        BY <1>1, <2>1, <2>3, <3>2
      <4>2. messages'[k - 1] = messages[(k - 1) + 1]
        BY <2>1, <4>1
      <4>3. QED
        BY <2>2, <4>1, <4>2
    <3>3. QED
      BY <3>1, <3>2
  <2>4. ASSUME NEW i \in Places'
        PROVE  /\ i + 1 \in Places /\ messages'[i].n = messages[i + 1].n
               /\ \A k \in DOMAIN messages : k # oldest => (i > to[k] <=> i + 1 > k)
    <3>1. i \in 1..(Len(messages) - 1) /\ messages'[i].source = "history"
      BY <2>2 DEF Places
    <3>2. ~(i < oldest)
      <4>1. SUFFICES ASSUME i < oldest
                     PROVE  FALSE
        OBVIOUS
      <4>2. messages'[i] = messages[i] /\ i \in DOMAIN messages
        BY <1>1, <2>1, <3>1, <4>1
      <4>3. i \in Places
        BY <3>1, <4>2 DEF Places
      <4>4. QED
        BY <1>1, <2>1, <3>1, <4>1, <4>3
    <3>3. messages'[i] = messages[i + 1] /\ i + 1 \in DOMAIN messages
      BY <1>1, <2>1, <3>1, <3>2
    <3>4. i + 1 \in Places
      BY <3>1, <3>3 DEF Places
    <3>5. \A k \in DOMAIN messages : k # oldest => (i > to[k] <=> i + 1 > k)
      BY <1>1, <2>1, <3>1, <3>2
    <3>6. QED
      BY <3>3, <3>4, <3>5
  <2> HIDE DEF to
  <2>5. \A k \in DOMAIN messages : messages[k].source = "custom" => k # oldest
    BY <2>2
  <2>6. ASSUME NEW c \in Blocks, BlockHolds(c)
        PROVE  BlockHolds(c)'
    <3>1. \A k \in DOMAIN messages : messages[k].source = "custom" =>
             to[k] \in DOMAIN messages' /\ messages'[to[k]] = messages[k]
      BY <2>3, <2>5
    <3>2. \A i \in Places' : \E j \in Places :
              /\ messages'[i].n = messages[j].n
              /\ \A k \in DOMAIN messages : messages[k].source = "custom" =>
                    (i > to[k] <=> j > k)
      BY <2>4, <2>5
    <3>3. QED
      BY <2>2, <2>6, <3>1, <3>2, BlockIsKept
  <2>7. QED
    BY <2>2, <2>6 DEF DepthInv
<1>6. CASE EndAssembly
  <2>1. /\ assembly = "trim" /\ assembly' \in {"ready", "refused"}
        /\ UNCHANGED <<history, messages, depth>>
    BY <1>6 DEF EndAssembly
  <2>2. \A b \in Blocks : BlockHolds(b)' <=> BlockHolds(b)
    BY <2>1 DEF BlockHolds, IsBlock, Places
  <2>3. QED
    BY <2>1, <2>2 DEF DepthInv
<1>7. CASE UNCHANGED promptVars
  <2>1. UNCHANGED <<history, messages, depth, assembly, inserting>>
    BY <1>7 DEF promptVars
  <2>2. \A b \in Blocks : (BlockHolds(b)' <=> BlockHolds(b)) /\ (TailIsHistory(b)' <=> TailIsHistory(b))
    BY <2>1 DEF BlockHolds, IsBlock, TailIsHistory, Places
  <2>3. inserting \subseteq Blocks
    BY DEF PromptInv, PromptTypeOK
  <2>4. QED
    BY <2>1, <2>2, <2>3 DEF DepthInv
<1>8. QED
  BY <1>2, <1>3, <1>4, <1>5, <1>6, <1>7 DEF PromptNext

LEMMA DepthInductive == PromptSpec => []DepthInv
<1>1. PromptInit => DepthInv
  BY DEF PromptInit, DepthInv
<1>2. PromptInv /\ PromptInv' /\ DepthInv /\ [PromptNext]_promptVars => DepthInv'
  BY DepthSteps
<1>3. QED
  BY <1>1, <1>2, PromptInductive, PTL DEF PromptSpec
-----------------------------------------------------------------------------
(* The lore of a prompt. *)

(* While a prompt is compiled its sequence is not behind the session's, its *)
(* candidates wait and rest no more, and what is placed or about to be is   *)
(* one candidate of every group. A timer runs from the last use.            *)
OneOfEach(entries) ==
    \A e, o \in entries : lore[e].group = lore[o].group => e = o \/ lore[e].group = "none"
Compiling ==
    /\ compiling = "idle" => scan.candidates = {} /\ placing = {} /\ placed = {}
    /\ compiling = "scan" => placing = {} /\ placed = {}
    /\ compiling # "idle" => sequence <= scan.now /\ (scan.keep => scan.now = sequence)
    /\ placing \cup placed \subseteq scan.candidates
    /\ \A e \in scan.candidates : ~Rests(e)
    /\ OneOfEach(placing \cup placed)
TimerRuns(e) ==
    /\ lastUsed[e] <= sequence
    /\ lastUsed[e] # NotUsed /\ lore[e].delay > 0 => effects[e].delayed = lastUsed[e] + lore[e].delay
    /\ lastUsed[e] # NotUsed /\ lore[e].cooldown > 0 =>
          effects[e].cooldown = lastUsed[e] + lore[e].cooldown
WorldInv == WorldTypeOK /\ Compiling /\ \A e \in Entry : TimerRuns(e)

LEMMA WorldProperty == WorldInv => (compiling = "place" => OneOfEachGroup /\ TimersAreKept)
<1> SUFFICES ASSUME WorldInv, compiling = "place"
             PROVE  OneOfEachGroup /\ TimersAreKept
  OBVIOUS
<1>1. OneOfEachGroup
  BY DEF WorldInv, Compiling, OneOfEach, OneOfEachGroup
<1>2. ASSUME NEW e \in placed, lastUsed[e] # NotUsed
      PROVE  /\ scan.now - lastUsed[e] >= lore[e].delay
             /\ Sticks(e) \/ scan.now - lastUsed[e] >= lore[e].cooldown
  <2>1. e \in Entry /\ e \in scan.candidates /\ sequence <= scan.now
    BY DEF WorldInv, WorldTypeOK, Compiling
  <2>2. ~Rests(e) /\ TimerRuns(e)
    BY <2>1 DEF WorldInv, Compiling
  <2>3. /\ scan.now \in Int /\ lastUsed[e] \in Int /\ sequence \in Int
        /\ effects[e].delayed \in Int /\ effects[e].cooldown \in Int
    BY <2>1 DEF WorldInv, WorldTypeOK, Timers
  <2>4. lore[e].delay \in Nat /\ lore[e].cooldown \in Nat
    BY <2>1, WorldbookAssumption DEF WorldInv, WorldTypeOK
  <2>5. QED
    BY <1>2, <2>1, <2>2, <2>3, <2>4 DEF Rests, TimerRuns
<1>3. QED
  BY <1>1, <1>2 DEF TimersAreKept

LEMMA WorldStart == WorldInit => WorldInv
<1> SUFFICES ASSUME WorldInit
             PROVE  WorldInv
  OBVIOUS
<1>1. scan \in [now : 0..MaxSequence, step : Nat, left : SUBSET Entry, candidates : SUBSET Entry,
                fresh : SUBSET Entry, heard : SUBSET Entry,
                foundAt : [Entry -> Nat], keep : BOOLEAN, exact : BOOLEAN]
  BY WorldbookAssumption DEF WorldInit, NoScan
<1>2. WorldTypeOK
  BY <1>1, WorldbookAssumption DEF WorldInit, WorldTypeOK, Timers, NotUsed
<1>3. Compiling
  BY DEF WorldInit, Compiling, NoScan, OneOfEach
<1>4. \A e \in Entry : TimerRuns(e)
  BY DEF WorldInit, TimerRuns, NotUsed
<1>5. QED
  BY <1>2, <1>3, <1>4 DEF WorldInv

LEMMA WorldStep ==
    ASSUME WorldInv, [WorldNext]_worldVars
    PROVE  WorldInv'
<1> DEFINE Scans == [now : 0..MaxSequence, step : Nat, left : SUBSET Entry,
                     candidates : SUBSET Entry, fresh : SUBSET Entry, heard : SUBSET Entry,
                     foundAt : [Entry -> Nat], keep : BOOLEAN, exact : BOOLEAN]
<1>0. /\ WorldTypeOK /\ Compiling /\ (\A e \in Entry : TimerRuns(e)) /\ scan \in Scans
      /\ MaxSequence \in Nat /\ sequence \in 0..MaxSequence
  BY WorldbookAssumption DEF WorldInv, WorldTypeOK
<1>1. ASSUME NEW keep \in BOOLEAN, NEW exact \in BOOLEAN, NEW at \in Finds,
             BeginPrompt(keep, exact, at)
      PROVE  WorldInv'
  <2>1. /\ compiling = "idle" /\ sequence < MaxSequence
        /\ sequence' = IF keep THEN sequence + 1 ELSE sequence
        /\ compiling' = "scan"
        /\ scan' = [NoScan EXCEPT !.now = sequence + 1, !.left = Entry, !.foundAt = at,
                                  !.keep = keep, !.exact = exact]
        /\ UNCHANGED <<lore, shelf, effects, placing, placed, lastUsed>>
    BY <1>1 DEF BeginPrompt
  <2>2. at \in [Entry -> Nat]
    BY WorldbookAssumption
  <2>3. /\ scan' \in Scans /\ scan'.candidates = {} /\ scan'.now = sequence + 1
        /\ scan'.keep = keep
    <3>1. scan' = [now |-> sequence + 1, step |-> 0, left |-> Entry, candidates |-> {},
                   fresh |-> {}, heard |-> {}, foundAt |-> at, keep |-> keep, exact |-> exact]
      BY <2>1 DEF NoScan
    <3>2. sequence + 1 \in 0..MaxSequence
      BY <1>0, <2>1
    <3>3. QED
      BY <2>2, <3>1, <3>2
  <2>4. WorldTypeOK'
    BY <1>0, <2>1, <2>3 DEF WorldTypeOK
  <2>5. Compiling'
    BY <1>0, <2>1, <2>3 DEF Compiling, OneOfEach
  <2>6. \A e \in Entry : TimerRuns(e)'
    BY <1>0, <2>1 DEF TimerRuns, WorldTypeOK
  <2>7. QED
    BY <2>4, <2>5, <2>6 DEF WorldInv
<1>2. CASE OtherMessage
  <2>1. /\ compiling = "idle" /\ sequence < MaxSequence /\ sequence' = sequence + 1
        /\ UNCHANGED <<lore, shelf, effects, compiling, scan, placing, placed, lastUsed>>
    BY <1>2 DEF OtherMessage
  <2>2. WorldTypeOK'
    BY <1>0, <2>1 DEF WorldTypeOK
  <2>3. Compiling'
    BY <1>0, <2>1 DEF Compiling, OneOfEach, Rests, Sticks
  <2>4. \A e \in Entry : TimerRuns(e)'
    BY <1>0, <2>1 DEF TimerRuns, WorldTypeOK
  <2>5. QED
    BY <2>2, <2>3, <2>4 DEF WorldInv
<1>3. ASSUME NEW x \in Entry, ScanEntry(x)
      PROVE  WorldInv'
  <2>1. /\ compiling = "scan" /\ x \in scan.left
        /\ UNCHANGED <<lore, shelf, sequence, effects, compiling, placing, placed, lastUsed>>
    BY <1>3 DEF ScanEntry
  <2>2. PICK admitted \in IF x \in scan.candidates THEN {FALSE} ELSE Admits(x) :
            scan' = [scan EXCEPT
                       !.left = @ \ {x},
                       !.candidates = IF admitted THEN @ \cup {x} ELSE @,
                       !.fresh = IF admitted /\ lore[x].contagious THEN @ \cup {x} ELSE @]
    BY <1>3 DEF ScanEntry
  <2>3. Rests(x) => admitted = FALSE
    BY <2>2 DEF Admits
  <2>4. /\ scan' \in Scans /\ scan'.now = scan.now /\ scan'.keep = scan.keep
        /\ scan.candidates \subseteq scan'.candidates
        /\ scan'.candidates \subseteq scan.candidates \cup (IF admitted = FALSE THEN {} ELSE {x})
    BY <1>0, <2>2
  <2>5. WorldTypeOK'
    BY <1>0, <2>1, <2>4 DEF WorldTypeOK
  <2>6. ASSUME NEW e \in scan'.candidates
        PROVE  ~Rests(e)'
    <3>1. Rests(e)' = Rests(e)
      BY <2>1, <2>4 DEF Rests, Sticks
    <3>2. QED
      BY <1>0, <2>3, <2>4, <3>1 DEF Compiling
  <2>7. Compiling'
    BY <1>0, <2>1, <2>4, <2>6 DEF Compiling, OneOfEach
  <2>8. \A e \in Entry : TimerRuns(e)'
    BY <1>0, <2>1 DEF TimerRuns
  <2>9. QED
    BY <2>5, <2>7, <2>8 DEF WorldInv
<1>4. ASSUME NEW x \in Entry, PlaceEntry(x)
      PROVE  WorldInv'
  <2>1. /\ compiling = "place" /\ x \in placing /\ placing' = placing \ {x}
        /\ placed' \in {placed, placed \cup {x}}
        /\ UNCHANGED <<lore, shelf, sequence, effects, compiling, scan, lastUsed>>
    BY <1>4 DEF PlaceEntry
  <2>2. placing' \cup placed' \subseteq placing \cup placed
    BY <2>1
  <2>3. WorldTypeOK'
    BY <1>0, <2>1 DEF WorldTypeOK
  <2>4. Compiling'
    <3>1. \A e : Rests(e)' = Rests(e)
      BY <2>1 DEF Rests, Sticks
    <3>2. OneOfEach(placing \cup placed)'
      BY <1>0, <2>1, <2>2 DEF Compiling, OneOfEach
    <3>3. QED
      BY <1>0, <2>1, <2>2, <3>1, <3>2 DEF Compiling
  <2>5. \A e \in Entry : TimerRuns(e)'
    BY <1>0, <2>1 DEF TimerRuns
  <2>6. QED
    BY <2>3, <2>4, <2>5 DEF WorldInv
<1>5. CASE NextStep
  <2>1. /\ compiling = "scan"
        /\ scan' = [scan EXCEPT !.step = @ + 1, !.left = Entry, !.fresh = {},
                                !.heard = @ \cup scan.fresh]
        /\ UNCHANGED <<lore, shelf, sequence, effects, compiling, placing, placed, lastUsed>>
    BY <1>5 DEF NextStep
  <2>2. /\ scan' \in Scans /\ scan'.now = scan.now /\ scan'.candidates = scan.candidates
        /\ scan'.keep = scan.keep
    <3>1. scan.step + 1 \in Nat /\ scan.heard \cup scan.fresh \in SUBSET Entry
      BY <1>0
    <3>2. QED
      BY <1>0, <2>1, <3>1
  <2>3. WorldTypeOK'
    BY <1>0, <2>1, <2>2 DEF WorldTypeOK
  <2>4. Compiling'
    <3>1. \A e : Rests(e)' = Rests(e)
      BY <2>1, <2>2 DEF Rests, Sticks
    <3>2. QED
      BY <1>0, <2>1, <2>2, <3>1 DEF Compiling, OneOfEach
  <2>5. \A e \in Entry : TimerRuns(e)'
    BY <1>0, <2>1 DEF TimerRuns
  <2>6. QED
    BY <2>3, <2>4, <2>5 DEF WorldInv
<1>6. CASE ChooseOfGroups
  <2>1. /\ compiling = "scan" /\ compiling' = "place"
        /\ UNCHANGED <<lore, shelf, sequence, effects, scan, placed, lastUsed>>
    BY <1>6 DEF ChooseOfGroups
  <2>2. PICK pick \in [Groups -> scan.candidates] :
            /\ \A g \in Groups : pick[g] \in Pool(g)
            /\ placing' = InGroup("none") \cup {pick[g] : g \in Groups}
    BY <1>6 DEF ChooseOfGroups
  <2>3. \A g \in Groups : lore[pick[g]].group = g /\ pick[g] \in scan.candidates
    BY <2>2 DEF Pool, InGroup
  <2>4. placed = {} /\ placing' \subseteq scan.candidates
    BY <1>0, <2>1, <2>2, <2>3 DEF Compiling, InGroup
  <2>5. ASSUME NEW e \in placing', NEW o \in placing', lore[e].group = lore[o].group
        PROVE  e = o \/ lore[e].group = "none"
    <3>1. lore[e].group = "none" \/ \E g \in Groups : e = pick[g] /\ lore[e].group = g
      BY <2>2, <2>3 DEF InGroup
    <3>2. lore[o].group = "none" \/ \E g \in Groups : o = pick[g] /\ lore[o].group = g
      BY <2>2, <2>3 DEF InGroup
    <3>3. QED
      BY <2>5, <3>1, <3>2
  <2>6. WorldTypeOK'
    BY <1>0, <2>1, <2>4 DEF WorldTypeOK
  <2>7. Compiling'
    <3>1. \A e : Rests(e)' = Rests(e)
      BY <2>1 DEF Rests, Sticks
    <3>2. OneOfEach(placing \cup placed)'
      BY <2>1, <2>4, <2>5 DEF OneOfEach
    <3>3. QED
      BY <1>0, <2>1, <2>4, <3>1, <3>2 DEF Compiling
  <2>8. \A e \in Entry : TimerRuns(e)'
    BY <1>0, <2>1 DEF TimerRuns
  <2>9. QED
    BY <2>6, <2>7, <2>8 DEF WorldInv
<1>7. CASE SaveEffects
  <2>1. /\ compiling = "place" /\ placing = {} /\ compiling' = "idle" /\ scan' = NoScan
        /\ placed' = {} /\ UNCHANGED <<lore, shelf, sequence, placing>>
    BY <1>7 DEF SaveEffects
  <2>2. /\ effects' = [e \in Entry |-> IF e \in placed THEN Timed(e) ELSE effects[e]]
        /\ lastUsed' = [e \in Entry |-> IF e \in placed THEN scan.now ELSE lastUsed[e]]
        /\ scan.keep
        \/ UNCHANGED <<effects, lastUsed>>
    BY <1>7 DEF SaveEffects
  <2>3. NoScan \in Scans /\ NoScan.candidates = {}
    BY WorldbookAssumption DEF NoScan
  <2>4. ASSUME NEW e \in Entry
        PROVE  /\ Timed(e) \in Timers
               /\ lore[e].delay > 0 => Timed(e).delayed = scan.now + lore[e].delay
               /\ lore[e].cooldown > 0 => Timed(e).cooldown = scan.now + lore[e].cooldown
    <3>1. lore[e].sticky \in Nat /\ lore[e].cooldown \in Nat /\ lore[e].delay \in Nat
      BY <1>0, WorldbookAssumption DEF WorldTypeOK
    <3>2. scan.now \in Nat /\ effects[e] \in Timers
      BY <1>0 DEF WorldTypeOK
    <3>3. QED
      BY <3>1, <3>2 DEF Timed, Timers
  <2>5. effects' \in [Entry -> Timers] /\ lastUsed' \in [Entry -> 0..MaxSequence]
    BY <1>0, <2>2, <2>4 DEF WorldTypeOK
  <2>6. WorldTypeOK'
    BY <1>0, <2>1, <2>3, <2>5 DEF WorldTypeOK
  <2>7. Compiling'
    BY <1>0, <2>1, <2>3 DEF Compiling, OneOfEach
  <2>8. ASSUME NEW e \in Entry
        PROVE  TimerRuns(e)'
    <3>1. CASE UNCHANGED <<effects, lastUsed>>
      BY <1>0, <2>1, <3>1 DEF TimerRuns
    <3>2. CASE ~UNCHANGED <<effects, lastUsed>>
      <4>1. scan.now = sequence
        BY <1>0, <2>1, <2>2, <3>2 DEF Compiling
      <4>2. CASE e \in placed
        BY <1>0, <2>1, <2>2, <2>4, <3>2, <4>1, <4>2 DEF TimerRuns, WorldTypeOK
      <4>3. CASE e \notin placed
        BY <1>0, <2>1, <2>2, <3>2, <4>3 DEF TimerRuns, WorldTypeOK
      <4>4. QED
        BY <4>2, <4>3
    <3>3. QED
      BY <3>1, <3>2
  <2>9. QED
    BY <2>6, <2>7, <2>8 DEF WorldInv
<1>8. CASE UNCHANGED worldVars
  BY <1>0, <1>8 DEF worldVars, WorldInv, WorldTypeOK, Compiling, OneOfEach, Rests, Sticks, TimerRuns
<1>9. QED
  BY <1>1, <1>2, <1>3, <1>4, <1>5, <1>6, <1>7, <1>8 DEF WorldNext

LEMMA WorldInductive == WorldSpec => []WorldInv
BY WorldStart, WorldStep, PTL DEF WorldSpec

(* What is placed is not placed again, and what obeys the budget of its     *)
(* book is within it: it costs no more than all that is placed of the book. *)
BudgetInv ==
    /\ placing \cap placed = {}
    /\ compiling = "place" => BudgetsHold
Placed(b) == {e \in placed : BookOf(e) = b}
Obeys(b) == {e \in placed : BookOf(e) = b /\ ~lore[e].free}

LEMMA BudgetsAre ==
    BudgetsHold <=> \A b \in Book : scan.exact => SumOf(lore, Obeys(b)) <= shelf[b].budget
BY DEF BudgetsHold, SumOf, Obeys

LEMMA BudgetsAreNext ==
    BudgetsHold' <=> \A b \in Book : scan'.exact => SumOf(lore', Obeys(b)') <= shelf'[b].budget
<1>1. BudgetsHold' <=> (\A b \in Book : scan.exact => SumOf(lore, Obeys(b)) <= shelf[b].budget)'
  BY BudgetsAre, PTL
<1>2. QED
  BY <1>1

LEMMA LoreIsCosted ==
    ASSUME WorldTypeOK, NEW S \in SUBSET Entry
    PROVE  Costed(lore, S)
<1>1. IsFiniteSet(S)
  BY WorldbookAssumption, FS_Subset
<1>2. \A e \in Entry : lore[e].cost \in Nat
  BY WorldbookAssumption DEF WorldTypeOK
<1>3. QED
  BY <1>1, <1>2 DEF Costed

(* An entry is placed only if it fits its book.                             *)
LEMMA PlacingKeepsBudgets ==
    ASSUME WorldInv, BudgetInv, NEW x \in Entry, PlaceEntry(x)
    PROVE  BudgetsHold'
<1>1. /\ compiling = "place" /\ x \in placing
      /\ placed' = IF Fits(x) THEN placed \cup {x} ELSE placed
      /\ UNCHANGED <<lore, shelf, scan>>
  BY DEF PlaceEntry
<1>2. /\ WorldTypeOK /\ placed \in SUBSET Entry /\ x \notin placed
      /\ \A b \in Book : scan.exact => SumOf(lore, Obeys(b)) <= shelf[b].budget
  BY <1>1, BudgetsAre DEF WorldInv, WorldTypeOK, BudgetInv
<1>3. \A b \in Book : Obeys(b)' = {e \in placed' : BookOf(e) = b /\ ~lore[e].free}
  BY <1>1 DEF Obeys, BookOf
<1>4. ASSUME NEW b \in Book, scan.exact
      PROVE  SumOf(lore, Obeys(b)') <= shelf[b].budget
  <2>1. CASE placed' = placed
    <3>1. Obeys(b)' = Obeys(b)
      BY <1>3, <2>1 DEF Obeys
    <3>2. QED
      BY <1>2, <1>4, <3>1
  <2>2. CASE placed' # placed /\ ~(BookOf(x) = b /\ ~lore[x].free)
    <3>1. Obeys(b)' = Obeys(b)
      BY <1>1, <1>3, <2>2 DEF Obeys
    <3>2. QED
      BY <1>2, <1>4, <3>1
  <2>3. CASE placed' # placed /\ BookOf(x) = b /\ ~lore[x].free
    <3>1. placed' = placed \cup {x} /\ Used(b) + lore[x].cost <= shelf[b].budget
      BY <1>1, <1>4, <2>3 DEF Fits
    <3> DEFINE S == Obeys(b)'
    <3>2. /\ x \in S /\ S \ {x} = Obeys(b) /\ S \in SUBSET Entry
          /\ Obeys(b) \in SUBSET Placed(b) /\ Placed(b) \in SUBSET Entry
      BY <1>2, <1>3, <2>3, <3>1 DEF Obeys, Placed
    <3>3. Costed(lore, S) /\ Costed(lore, Placed(b)) /\ Costed(lore, Obeys(b))
      BY <1>2, <3>2, LoreIsCosted
    <3> HIDE DEF S
    <3>4. SumOf(lore, S) = lore[x].cost + SumOf(lore, Obeys(b))
      <4>1. ASSUME NEW U, Costed(lore, U), NEW y \in U
            PROVE  SumOf(lore, U) = lore[y].cost + SumOf(lore, U \ {y})
        BY <4>1, SumAnyOrder
      <4>2. QED
        BY <3>2, <3>3, <4>1
    <3>5. SumOf(lore, Obeys(b)) <= SumOf(lore, Placed(b))
      BY <3>2, <3>3, SumOfPart
    <3>6. Used(b) = SumOf(lore, Placed(b))
      BY DEF Used, SumOf, Placed
    <3>7. /\ SumOf(lore, Obeys(b)) \in Nat /\ SumOf(lore, Placed(b)) \in Nat
          /\ lore[x].cost \in Nat /\ shelf[b].budget \in Nat
      BY <1>2, <3>3, SumSteps, WorldbookAssumption DEF WorldTypeOK
    <3>8. SumOf(lore, S) <= shelf[b].budget
      BY <3>1, <3>4, <3>5, <3>6, <3>7
    <3>9. QED
      BY <3>8 DEF S
  <2>4. QED
    BY <2>1, <2>2, <2>3
<1>5. BudgetsHold' <=> \A b \in Book : scan.exact => SumOf(lore, Obeys(b)') <= shelf[b].budget
  BY <1>1, BudgetsAreNext
<1>6. QED
  BY <1>4, <1>5

LEMMA BudgetSteps ==
    ASSUME WorldInv, BudgetInv, [WorldNext]_worldVars
    PROVE  BudgetInv'
<1>1. WorldTypeOK /\ Compiling /\ placing \cap placed = {}
  BY DEF WorldInv, BudgetInv
<1>2. CASE OtherMessage \/ NextStep
           \/ (\E keep, exact \in BOOLEAN, at \in Finds : BeginPrompt(keep, exact, at))
           \/ \E e \in Entry : ScanEntry(e)
  <2>1. UNCHANGED <<placing, placed>> /\ compiling' # "place"
    BY <1>2 DEF OtherMessage, NextStep, BeginPrompt, ScanEntry
  <2>2. QED
    BY <1>1, <2>1 DEF BudgetInv
<1>3. CASE ChooseOfGroups
  <2>1. placed' = {} /\ UNCHANGED <<lore, shelf, scan>>
    BY <1>1, <1>3 DEF ChooseOfGroups, Compiling
  <2>2. ASSUME NEW b \in Book
        PROVE  SumOf(lore, {}) <= shelf[b].budget
    <3>1. SumOf(lore, {}) = 0 /\ shelf[b].budget \in Nat
      <4>1. Costed(lore, {})
        BY <1>1, LoreIsCosted
      <4>2. QED
        BY <1>1, <4>1, SumSteps, WorldbookAssumption DEF WorldTypeOK
    <3>2. QED
      BY <3>1
  <2>3. \A b \in Book : Obeys(b)' = {}
    BY <2>1 DEF Obeys
  <2>4. BudgetsHold'
    BY <2>1, <2>2, <2>3, BudgetsAreNext
  <2>5. QED
    BY <2>1, <2>4 DEF BudgetInv
<1>4. ASSUME NEW e \in Entry, PlaceEntry(e)
      PROVE  BudgetInv'
  <2>1. placing' = placing \ {e} /\ placed' \subseteq placed \cup {e}
    BY <1>4 DEF PlaceEntry
  <2>2. QED
    BY <1>1, <1>4, <2>1, PlacingKeepsBudgets DEF BudgetInv
<1>5. CASE SaveEffects
  BY <1>5 DEF SaveEffects, BudgetInv
<1>6. CASE UNCHANGED worldVars
  <2>1. UNCHANGED <<lore, shelf, scan, placing, placed, compiling>>
    BY <1>6 DEF worldVars
  <2>2. \A b \in Book : Obeys(b)' = Obeys(b)
    BY <2>1 DEF Obeys, BookOf
  <2>3. BudgetsHold' <=> BudgetsHold
    BY <2>1, <2>2, BudgetsAre, BudgetsAreNext
  <2>4. QED
    BY <2>1, <2>3 DEF BudgetInv
<1>7. QED
  BY <1>2, <1>3, <1>4, <1>5, <1>6 DEF WorldNext

LEMMA BudgetInductive == WorldSpec => []BudgetInv
<1>1. WorldInit => BudgetInv
  BY DEF WorldInit, BudgetInv
<1>2. WorldInv /\ BudgetInv /\ [WorldNext]_worldVars => BudgetInv'
  BY BudgetSteps
<1>3. QED
  BY <1>1, <1>2, WorldInductive, PTL DEF WorldSpec
-----------------------------------------------------------------------------
(* Revisions and traces. *)

(* A trace tells what was used: the revisions it names are, now, what its   *)
(* prompt was made from.                                                    *)
TraceRow == [chat : Chat, character : Character, card : Nat, prompt : Nat, message : BOOLEAN,
             used : [card : Nat, blocks : Nat, self : Nat, lore : SUBSET (Lorebook \X Nat)]]
TraceTells(t) ==
    /\ t.card \in DOMAIN cards[t.character]
    /\ cards[t.character][t.card] = t.used.card
    /\ t.prompt \in DOMAIN blocks[t.character]
    /\ blocks[t.character][t.prompt] = t.used.blocks
    /\ \E r \in DOMAIN selves : selves[r] = t.used.self
    /\ \A entry \in t.used.lore :
          \E r \in DOMAIN books[entry[1]] : books[entry[1]][r] = entry[2]
(* The row in use is the last of its revisions; of a character that does    *)
(* not exist there are none.                                                *)
LatestOf(revisions) == [revision |-> Len(revisions), text |-> revisions[Len(revisions)]]
CharacterKept(c) ==
    IF Exists(c) THEN /\ active[c] \in DOMAIN cards[c]
                      /\ blocks[c] # <<>>
                      /\ profile[c] = LatestOf(blocks[c])
                 ELSE blocks[c] = <<>>
RowsKept ==
    /\ \A c \in Character : CharacterKept(c)
    /\ selves # <<>> /\ self = LatestOf(selves)
    /\ \A b \in Lorebook : books[b] # <<>> => book[b] = LatestOf(books[b])
    /\ \A pair \in attached : books[pair[2]] # <<>>
SessionsKept ==
    \A s \in Chat : /\ identity[s] # NoChat => Exists(identity[s])
                    /\ generating[s].at # "idle" => identity[s] # NoChat
                    /\ generating[s].at = "answering" => generating[s].trace # Absent
TracesKept == traces \in Seq(TraceRow) /\ \A n \in DOMAIN traces : TraceTells(traces[n])
PersonInv == PersonalityTypeOK /\ RowsKept /\ SessionsKept /\ TracesKept

(* Revisions are only ever added.                                           *)
Extends(new, prior) == DOMAIN prior \subseteq DOMAIN new /\ \A n \in DOMAIN prior : new[n] = prior[n]
Grows ==
    /\ \A c \in Character : Extends(cards'[c], cards[c]) /\ Extends(blocks'[c], blocks[c])
    /\ Extends(selves', selves)
    /\ \A b \in Lorebook : Extends(books'[b], books[b])

LEMMA AddedRevision ==
    ASSUME NEW S, NEW prior \in Seq(S), NEW x \in S
    PROVE  /\ Append(prior, x) \in Seq(S) /\ Append(prior, x) # <<>>
           /\ Extends(Append(prior, x), prior)
           /\ LatestOf(Append(prior, x)) = [revision |-> Len(prior) + 1, text |-> x]
           /\ DOMAIN Append(prior, x) = 1..(Len(prior) + 1)
           /\ Extends(prior, prior)
BY DEF Extends, LatestOf

LEMMA FirstRevision ==
    ASSUME NEW S, NEW x \in S
    PROVE  /\ <<x>> \in Seq(S) /\ <<x>> # <<>> /\ DOMAIN <<x>> = 1..1 /\ Len(<<x>>) = 1
           /\ Extends(<<x>>, <<>>)
           /\ LatestOf(<<x>>) = First(x)
BY DEF Extends, LatestOf, First

LEMMA PersonalityProperty == PersonInv => TracesTellWhatWasUsed
<1> SUFFICES ASSUME PersonInv
             PROVE  TracesTellWhatWasUsed
  OBVIOUS
<1>1. \A n \in DOMAIN traces : TraceTells(traces[n])
  BY DEF PersonInv, TracesKept
<1>2. self = [revision |-> Len(selves), text |-> Last(selves)]
  BY DEF PersonInv, RowsKept, LatestOf, Last
<1>a. \A revisions : LatestOf(revisions).text = revisions[LatestOf(revisions).revision]
  BY DEF LatestOf
<1>3. \A c \in Character : Exists(c) => profile[c].text = blocks[c][profile[c].revision]
  BY <1>a DEF PersonInv, RowsKept, CharacterKept
<1>4. \A b \in Lorebook : books[b] # <<>> => book[b].text = books[b][book[b].revision]
  BY <1>a DEF PersonInv, RowsKept
<1>5. QED
  BY <1>1, <1>2, <1>3, <1>4 DEF TracesTellWhatWasUsed, TraceTells

LEMMA PersonalityStart == PersonalityInit => PersonInv
<1> SUFFICES ASSUME PersonalityInit
             PROVE  PersonInv
  OBVIOUS
<1> USE PersonalityAssumption DEF NoChat, Absent
<1>1. 0 \in 0..MaxEdits /\ <<0>> \in Seq(0..MaxEdits) /\ <<0>> # <<>> /\ Len(<<0>>) = 1
      /\ LatestOf(<<0>>) = First(0) /\ DOMAIN <<0>> = 1..1
  BY FirstRevision
<1>2. <<>> \in Seq(0..MaxEdits) /\ Len(<<>>) = 0
  OBVIOUS
<1>3. First(0) \in Row /\ [revision |-> 0, text |-> 0] \in Row
  BY DEF First, Row
<1>4. PersonalityTypeOK
  <2>1. cards \in [Character -> Seq(0..MaxEdits)] /\ blocks \in [Character -> Seq(0..MaxEdits)]
    BY <1>1, <1>2 DEF PersonalityInit
  <2>2. active \in [Character -> Nat] /\ \A c \in Character : active[c] \in 0..Len(cards[c])
    BY <1>1, <1>2 DEF PersonalityInit
  <2>3. profile \in [Character -> Row] /\ self \in Row /\ book \in [Lorebook -> Row]
    BY <1>3 DEF PersonalityInit
  <2>4. /\ selves \in Seq(0..MaxEdits) /\ books \in [Lorebook -> Seq(0..MaxEdits)]
        /\ edits \in 0..MaxEdits
    BY <1>1, <1>2 DEF PersonalityInit
  <2>5. /\ archived \subseteq {c \in Character : Exists(c)}
        /\ shelved \subseteq Lorebook /\ attached \subseteq Character \X Lorebook
        /\ identity \in [Chat -> Character \cup {NoChat}]
        /\ generating \in [Chat -> [at : {"idle", "recalling", "answering"}, trace : 0..Len(traces)]]
        /\ Len(traces) <= MaxTraces
    BY DEF PersonalityInit
  <2>6. QED
    BY <2>1, <2>2, <2>3, <2>4, <2>5 DEF PersonalityTypeOK
<1>5. RowsKept
  <2>1. ASSUME NEW c \in Character
        PROVE  CharacterKept(c)
    BY <1>1 DEF PersonalityInit, CharacterKept, Exists
  <2>2. QED
    BY <1>1, <2>1 DEF PersonalityInit, RowsKept
<1>6. SessionsKept /\ TracesKept
  BY DEF PersonalityInit, SessionsKept, TracesKept
<1>7. QED
  BY <1>4, <1>5, <1>6 DEF PersonInv

(* An edit that only adds revisions, and keeps the rows to the last of them.*)
LEMMA EditKeeps ==
    ASSUME PersonInv, Edit, Grows, RowsKept', PersonalityTypeOK'
    PROVE  PersonInv'
<1>1. UNCHANGED <<identity, generating, traces>>
  BY DEF Edit
<1>2. SessionsKept'
  <2>1. ASSUME NEW c \in Character, Exists(c)
        PROVE  Exists(c)'
    <3>1. cards[c] \in Seq(0..MaxEdits) /\ cards'[c] \in Seq(0..MaxEdits)
      BY DEF PersonInv, PersonalityTypeOK
    <3>2. Extends(cards'[c], cards[c])
      BY DEF Grows
    <3>3. 1 \in DOMAIN cards[c]
      BY <2>1, <3>1 DEF Exists
    <3>4. QED
      BY <3>1, <3>2, <3>3 DEF Exists, Extends
  <2>2. \A s \in Chat : identity[s] # NoChat => identity[s] \in Character
    BY DEF PersonInv, PersonalityTypeOK
  <2>3. QED
    BY <1>1, <2>1, <2>2 DEF PersonInv, SessionsKept
<1>3. TracesKept'
  <2>1. \A n \in DOMAIN traces : traces[n] \in TraceRow /\ TraceTells(traces[n])
    BY DEF PersonInv, TracesKept
  <2>2. \A n \in DOMAIN traces : TraceTells(traces[n])'
    <3>1. ASSUME NEW n \in DOMAIN traces
          PROVE  TraceTells(traces[n])'
      <4> DEFINE t == traces[n]
      <4>1. t \in TraceRow /\ TraceTells(t)
        BY <2>1
      <4>2. t' = t
        BY <1>1
      <4> HIDE DEF t
      <4>3. /\ t.character \in Character
            /\ \A entry \in t.used.lore : entry[1] \in Lorebook
        BY <4>1 DEF TraceRow
      <4>4. /\ Extends(cards'[t.character], cards[t.character])
            /\ Extends(blocks'[t.character], blocks[t.character])
        BY <4>3 DEF Grows
      <4>5. ASSUME NEW entry \in t.used.lore
            PROVE  \E r \in DOMAIN books'[entry[1]] : books'[entry[1]][r] = entry[2]
        BY <4>1, <4>3, <4>5 DEF Grows, Extends, TraceTells
      <4>6. \E r \in DOMAIN selves' : selves'[r] = t.used.self
        BY <4>1 DEF Grows, Extends, TraceTells
      <4>7. TraceTells(t)'
        BY <4>1, <4>2, <4>4, <4>5, <4>6 DEF Extends, TraceTells
      <4>8. QED
        BY <4>7 DEF t
    <3>2. QED
      BY <3>1
  <2>3. QED
    BY <1>1, <2>2 DEF PersonInv, TracesKept
<1>4. QED
  BY <1>2, <1>3 DEF PersonInv

LEMMA EditIsTyped ==
    ASSUME PersonInv, Edit
    PROVE  /\ edits' \in 0..MaxEdits
           /\ UNCHANGED <<identity, generating, traces>>
           /\ identity' \in [Chat -> Character \cup {NoChat}]
           /\ generating' \in [Chat -> [at : {"idle", "recalling", "answering"}, trace : 0..Len(traces')]]
           /\ Len(traces') <= MaxTraces
BY PersonalityAssumption DEF PersonInv, PersonalityTypeOK, Edit

(* A row that takes up another text counts one revision more.               *)
LEMMA RevisedIsLatest ==
    ASSUME NEW S, NEW prior \in Seq(S), NEW x \in S
    PROVE  Revised(LatestOf(prior), x) = LatestOf(Append(prior, x))
BY DEF Revised, LatestOf

LEMMA CharacterEdits ==
    ASSUME PersonInv, NEW c \in Character,
           CreateCharacter(c) \/ UpdateCharacter(c) \/ ArchiveCharacter(c)
             \/ \E n \in 1..(MaxEdits + 1) : RestoreCharacterRevision(c, n)
    PROVE  PersonInv'
<1>0. /\ PersonalityTypeOK /\ RowsKept /\ CharacterKept(c)
      /\ cards[c] \in Seq(0..MaxEdits) /\ blocks[c] \in Seq(0..MaxEdits)
  BY DEF PersonInv, PersonalityTypeOK, RowsKept
<1>1. Edit /\ edits' \in 0..MaxEdits /\ 0 \in 0..MaxEdits
  <2>1. Edit
    BY DEF CreateCharacter, UpdateCharacter, ArchiveCharacter, RestoreCharacterRevision
  <2>2. QED
    BY <2>1, EditIsTyped, PersonalityAssumption
<1>2. \A q : Extends(q, q)
  BY DEF Extends
<1>3. CASE CreateCharacter(c)
  <2>1. /\ cards[c] = <<>> /\ cards' = [cards EXCEPT ![c] = <<edits'>>]
        /\ active' = [active EXCEPT ![c] = 1]
        /\ blocks' = [blocks EXCEPT ![c] = <<0>>]
        /\ profile' = [profile EXCEPT ![c] = First(0)]
        /\ UNCHANGED <<archived, selves, self, books, book, shelved, attached>>
    BY <1>3 DEF CreateCharacter, Exists
  <2>2. /\ <<edits'>> \in Seq(0..MaxEdits) /\ <<edits'>> # <<>> /\ DOMAIN <<edits'>> = 1..1
        /\ Len(<<edits'>>) = 1 /\ Extends(<<edits'>>, <<>>)
        /\ <<0>> \in Seq(0..MaxEdits) /\ <<0>> # <<>> /\ Extends(<<0>>, <<>>)
        /\ LatestOf(<<0>>) = First(0)
    BY <1>1, FirstRevision
  <2>3. blocks[c] = <<>> /\ First(0) \in Row
    BY <1>0, <2>1 DEF CharacterKept, Exists, First, Row
  <2>4. Grows
    BY <1>0, <1>2, <2>1, <2>2, <2>3 DEF Grows, PersonalityTypeOK
  <2>5. RowsKept'
    <3>1. ASSUME NEW x \in Character
          PROVE  CharacterKept(x)'
      BY <1>0, <2>1, <2>2, <2>3 DEF RowsKept, CharacterKept, Exists, PersonalityTypeOK
    <3>2. QED
      BY <1>0, <2>1, <3>1 DEF RowsKept
  <2>6. PersonalityTypeOK'
    <3>1. cards' \in [Character -> Seq(0..MaxEdits)] /\ blocks' \in [Character -> Seq(0..MaxEdits)]
      BY <1>0, <2>1, <2>2 DEF PersonalityTypeOK
    <3>2. active' \in [Character -> Nat] /\ \A x \in Character : active'[x] \in 0..Len(cards'[x])
      BY <2>5, <3>1, <1>0, <2>1, <2>2 DEF PersonalityTypeOK
    <3>3. archived' \subseteq {x \in Character : Exists(x)'}
      BY <1>0, <2>1, <2>2 DEF PersonalityTypeOK, Exists
    <3>4. QED
      BY <1>0, <1>1, <2>1, <2>3, <3>1, <3>2, <3>3, EditIsTyped DEF PersonalityTypeOK
  <2>7. QED
    BY <1>1, <2>4, <2>5, <2>6, EditKeeps
<1>4. CASE UpdateCharacter(c)
  <2>1. /\ Exists(c) /\ cards' = [cards EXCEPT ![c] = Append(cards[c], edits')]
        /\ active' = [active EXCEPT ![c] = Len(cards'[c])]
        /\ UNCHANGED <<archived, blocks, profile, selves, self, books, book, shelved, attached>>
    BY <1>4 DEF UpdateCharacter
  <2>2. /\ Append(cards[c], edits') \in Seq(0..MaxEdits) /\ Append(cards[c], edits') # <<>>
        /\ Extends(Append(cards[c], edits'), cards[c])
    BY <1>0, <1>1, AddedRevision
  <2>3. cards'[c] = Append(cards[c], edits') /\ \A x \in Character \ {c} : cards'[x] = cards[x]
    BY <1>0, <2>1 DEF PersonalityTypeOK
  <2>4. Grows
    BY <1>2, <2>1, <2>2, <2>3 DEF Grows
  <2>5. Len(cards'[c]) \in DOMAIN cards'[c] /\ Len(cards'[c]) \in Nat
    BY <2>2, <2>3
  <2>6. RowsKept'
    <3>1. ASSUME NEW x \in Character
          PROVE  CharacterKept(x)'
      <4>1. CASE x = c
        <5>1. cards'[c] # <<>> /\ active'[c] \in DOMAIN cards'[c]
          BY <1>0, <2>1, <2>2, <2>3, <2>5 DEF PersonalityTypeOK, CharacterKept
        <5>2. blocks[c] # <<>> /\ profile[c] = LatestOf(blocks[c])
          BY <1>0, <2>1 DEF CharacterKept
        <5>3. QED
          BY <2>1, <4>1, <5>1, <5>2 DEF CharacterKept, Exists
      <4>2. CASE x # c
        BY <1>0, <2>1, <2>3, <4>2 DEF RowsKept, CharacterKept, Exists, PersonalityTypeOK
      <4>3. QED
        BY <4>1, <4>2
    <3>2. QED
      BY <1>0, <2>1, <3>1 DEF RowsKept
  <2>7. PersonalityTypeOK'
    <3>1. cards' \in [Character -> Seq(0..MaxEdits)]
      BY <1>0, <2>1, <2>2 DEF PersonalityTypeOK
    <3>2. active' \in [Character -> Nat] /\ \A x \in Character : active'[x] \in 0..Len(cards'[x])
      BY <1>0, <2>1, <2>3, <2>5 DEF PersonalityTypeOK
    <3>3. archived' \subseteq {x \in Character : Exists(x)'}
      BY <1>0, <2>1, <2>2, <2>3 DEF PersonalityTypeOK, Exists
    <3>4. QED
      BY <1>0, <1>1, <2>1, <3>1, <3>2, <3>3, EditIsTyped DEF PersonalityTypeOK
  <2>8. QED
    BY <1>1, <2>4, <2>6, <2>7, EditKeeps
<1>5. CASE ArchiveCharacter(c)
  <2>1. /\ Exists(c) /\ archived' = archived \cup {c}
        /\ UNCHANGED <<cards, active, blocks, profile, selves, self, books, book, shelved, attached>>
    BY <1>5 DEF ArchiveCharacter
  <2>2. Grows
    BY <1>2, <2>1 DEF Grows
  <2>3. RowsKept'
    BY <1>0, <2>1 DEF RowsKept, CharacterKept, Exists
  <2>4. PersonalityTypeOK'
    BY <1>0, <1>1, <2>1, EditIsTyped DEF PersonalityTypeOK, Exists
  <2>5. QED
    BY <1>1, <2>2, <2>3, <2>4, EditKeeps
<1>6. ASSUME NEW n \in 1..(MaxEdits + 1), RestoreCharacterRevision(c, n)
      PROVE  PersonInv'
  <2>1. /\ n \in DOMAIN cards[c] /\ active' = [active EXCEPT ![c] = n]
        /\ UNCHANGED <<cards, archived, blocks, profile, selves, self, books, book, shelved,
                       attached>>
    BY <1>6 DEF RestoreCharacterRevision
  <2>2. Grows
    BY <1>2, <2>1 DEF Grows
  <2>3. RowsKept'
    <3>1. ASSUME NEW x \in Character
          PROVE  CharacterKept(x)'
      <4>1. CASE x = c
        <5>1. cards[c] # <<>>
          BY <2>1
        <5>2. blocks[c] # <<>> /\ profile[c] = LatestOf(blocks[c]) /\ active[c] \in DOMAIN cards[c]
          BY <1>0, <5>1 DEF CharacterKept, Exists
        <5>3. active'[c] \in DOMAIN cards[c]
          BY <1>0, <2>1 DEF PersonalityTypeOK
        <5>4. QED
          BY <2>1, <4>1, <5>1, <5>2, <5>3 DEF CharacterKept, Exists
      <4>2. CASE x # c
        BY <1>0, <2>1, <4>2 DEF RowsKept, CharacterKept, Exists
      <4>3. QED
        BY <4>1, <4>2
    <3>2. QED
      BY <1>0, <2>1, <3>1 DEF RowsKept
  <2>4. PersonalityTypeOK'
    <3>1. n \in 0..Len(cards[c])
      BY <1>0, <2>1
    <3>2. active' \in [Character -> Nat] /\ \A x \in Character : active'[x] \in 0..Len(cards'[x])
      BY <1>0, <2>1, <3>1 DEF PersonalityTypeOK
    <3>3. QED
      BY <1>0, <1>1, <2>1, <3>2, EditIsTyped DEF PersonalityTypeOK, Exists
  <2>5. QED
    BY <1>1, <2>2, <2>3, <2>4, EditKeeps
<1>7. QED
  BY <1>3, <1>4, <1>5, <1>6

(* A revision that is restored is one of the texts there were.              *)
LEMMA RestoredText ==
    ASSUME NEW S, NEW prior \in Seq(S), NEW n \in DOMAIN prior
    PROVE  prior[n] \in S
<1>1. n \in 1..Len(prior)
  OBVIOUS
<1>2. QED
  BY <1>1

LEMMA ProfileEdits ==
    ASSUME PersonInv, NEW c \in Character, NEW x \in 0..MaxEdits, blocks[c] # <<>>, Edit,
           WithBlocks(c, x),
           UNCHANGED <<cards, active, archived, selves, self, books, book, shelved, attached>>
    PROVE  PersonInv'
<1>0. /\ PersonalityTypeOK /\ RowsKept /\ CharacterKept(c) /\ blocks[c] \in Seq(0..MaxEdits)
  BY DEF PersonInv, PersonalityTypeOK, RowsKept
<1>1. Exists(c) /\ profile[c] = LatestOf(blocks[c])
  BY <1>0 DEF CharacterKept
<1> DEFINE longer == Append(blocks[c], x)
<1>2. /\ longer \in Seq(0..MaxEdits) /\ longer # <<>> /\ Extends(longer, blocks[c])
      /\ Revised(profile[c], x) = LatestOf(longer) /\ \A q : Extends(q, q)
  <2>1. \A q : Extends(q, q)
    BY DEF Extends
  <2>2. longer \in Seq(0..MaxEdits) /\ longer # <<>> /\ Extends(longer, blocks[c])
    BY <1>0, AddedRevision
  <2>3. Revised(profile[c], x) = LatestOf(longer)
    BY <1>0, <1>1, RevisedIsLatest
  <2>4. QED
    BY <2>1, <2>2, <2>3
<1>3. LatestOf(longer) \in Row
  <2>1. Revised(profile[c], x) \in Row
    BY <1>0 DEF PersonalityTypeOK, Revised, Row
  <2>2. QED
    BY <1>2, <2>1
<1>4. blocks' = [blocks EXCEPT ![c] = longer] /\ profile' = [profile EXCEPT ![c] = LatestOf(longer)]
  BY <1>0, <1>2 DEF WithBlocks, PersonalityTypeOK
<1> HIDE DEF longer
<1>5. Grows
  BY <1>0, <1>2, <1>4 DEF Grows, PersonalityTypeOK
<1>6. RowsKept'
  <2>1. ASSUME NEW y \in Character
        PROVE  CharacterKept(y)'
    <3>1. CASE y = c
      BY <1>0, <1>1, <1>2, <1>4, <3>1 DEF CharacterKept, Exists, PersonalityTypeOK
    <3>2. CASE y # c
      BY <1>0, <1>4, <3>2 DEF RowsKept, CharacterKept, Exists, PersonalityTypeOK
    <3>3. QED
      BY <3>1, <3>2
  <2>2. QED
    BY <1>0, <2>1 DEF RowsKept
<1>7. PersonalityTypeOK'
  <2>1. blocks' \in [Character -> Seq(0..MaxEdits)] /\ profile' \in [Character -> Row]
    BY <1>0, <1>2, <1>3, <1>4 DEF PersonalityTypeOK
  <2>2. QED
    BY <1>0, <2>1, EditIsTyped DEF PersonalityTypeOK, Exists
<1>8. QED
  BY <1>5, <1>6, <1>7, EditKeeps

LEMMA PersonaEdits ==
    ASSUME PersonInv, NEW x \in 0..MaxEdits, Edit, WithSelf(x)
    PROVE  PersonInv'
<1>0. PersonalityTypeOK /\ RowsKept /\ selves \in Seq(0..MaxEdits) /\ self = LatestOf(selves)
  BY DEF PersonInv, PersonalityTypeOK, RowsKept
<1> DEFINE longer == Append(selves, x)
<1>1. /\ longer \in Seq(0..MaxEdits) /\ longer # <<>> /\ Extends(longer, selves)
      /\ Revised(self, x) = LatestOf(longer) /\ \A q : Extends(q, q)
  <2>1. \A q : Extends(q, q)
    BY DEF Extends
  <2>2. longer \in Seq(0..MaxEdits) /\ longer # <<>> /\ Extends(longer, selves)
    BY <1>0, AddedRevision
  <2>3. Revised(self, x) = LatestOf(longer)
    BY <1>0, RevisedIsLatest
  <2>4. QED
    BY <2>1, <2>2, <2>3
<1>2. LatestOf(longer) \in Row
  <2>1. Revised(self, x) \in Row
    BY <1>0 DEF PersonalityTypeOK, Revised, Row
  <2>2. QED
    BY <1>1, <2>1
<1>3. /\ selves' = longer /\ self' = LatestOf(longer)
      /\ UNCHANGED <<cards, active, archived, blocks, profile, books, book, shelved, attached>>
  BY <1>1 DEF WithSelf
<1> HIDE DEF longer
<1>4. Grows
  BY <1>1, <1>3 DEF Grows
<1>5. RowsKept'
  <2>1. ASSUME NEW y \in Character
        PROVE  CharacterKept(y)'
    BY <1>0, <1>3 DEF RowsKept, CharacterKept, Exists
  <2>2. QED
    BY <1>0, <1>1, <1>3, <2>1 DEF RowsKept
<1>6. PersonalityTypeOK'
  BY <1>0, <1>1, <1>2, <1>3, EditIsTyped DEF PersonalityTypeOK, Exists
<1>7. QED
  BY <1>4, <1>5, <1>6, EditKeeps

LEMMA BookEdits ==
    ASSUME PersonInv, NEW b \in Lorebook, NEW x \in 0..MaxEdits, books[b] # <<>>, Edit,
           WithBook(b, x)
    PROVE  PersonInv'
<1>0. PersonalityTypeOK /\ RowsKept /\ books[b] \in Seq(0..MaxEdits) /\ book[b] = LatestOf(books[b])
  BY DEF PersonInv, PersonalityTypeOK, RowsKept
<1> DEFINE longer == Append(books[b], x)
<1>1. /\ longer \in Seq(0..MaxEdits) /\ longer # <<>> /\ Extends(longer, books[b])
      /\ Revised(book[b], x) = LatestOf(longer) /\ \A q : Extends(q, q)
  <2>1. \A q : Extends(q, q)
    BY DEF Extends
  <2>2. longer \in Seq(0..MaxEdits) /\ longer # <<>> /\ Extends(longer, books[b])
    BY <1>0, AddedRevision
  <2>3. Revised(book[b], x) = LatestOf(longer)
    BY <1>0, RevisedIsLatest
  <2>4. QED
    BY <2>1, <2>2, <2>3
<1>2. LatestOf(longer) \in Row
  <2>1. Revised(book[b], x) \in Row
    BY <1>0 DEF PersonalityTypeOK, Revised, Row
  <2>2. QED
    BY <1>1, <2>1
<1>3. /\ books' = [books EXCEPT ![b] = longer]
      /\ book' = [book EXCEPT ![b] = LatestOf(longer)]
      /\ UNCHANGED <<cards, active, archived, blocks, profile, selves, self, shelved, attached>>
  BY <1>0, <1>1 DEF WithBook, PersonalityTypeOK
<1> HIDE DEF longer
<1>4. Grows
  BY <1>0, <1>1, <1>3 DEF Grows, PersonalityTypeOK
<1>5. RowsKept'
  <2>1. ASSUME NEW y \in Character
        PROVE  CharacterKept(y)'
    BY <1>0, <1>3 DEF RowsKept, CharacterKept, Exists
  <2>2. ASSUME NEW y \in Lorebook, books'[y] # <<>>
        PROVE  book'[y] = LatestOf(books'[y])
    BY <1>0, <1>3, <2>2 DEF RowsKept, PersonalityTypeOK
  <2>3. \A pair \in attached' : books'[pair[2]] # <<>>
    BY <1>0, <1>1, <1>3 DEF RowsKept, PersonalityTypeOK
  <2>4. QED
    BY <1>0, <1>3, <2>1, <2>2, <2>3 DEF RowsKept
<1>6. PersonalityTypeOK'
  <2>1. books' \in [Lorebook -> Seq(0..MaxEdits)] /\ book' \in [Lorebook -> Row]
    BY <1>0, <1>1, <1>2, <1>3 DEF PersonalityTypeOK
  <2>2. QED
    BY <1>0, <1>3, <2>1, EditIsTyped DEF PersonalityTypeOK, Exists
<1>7. QED
  BY <1>4, <1>5, <1>6, EditKeeps

LEMMA BookCreated ==
    ASSUME PersonInv, NEW b \in Lorebook, NEW c \in Character, CreateLorebook(b, c)
    PROVE  PersonInv'
<1>0. PersonalityTypeOK /\ RowsKept
  BY DEF PersonInv
<1>1. /\ books[b] = <<>> /\ Edit
      /\ books' = [books EXCEPT ![b] = <<edits'>>]
      /\ book' = [book EXCEPT ![b] = First(edits')]
      /\ attached' \in {attached, attached \cup {<<c, b>>}, attached \cup (Character \X {b})}
      /\ UNCHANGED <<cards, active, archived, blocks, profile, selves, self, shelved>>
  BY DEF CreateLorebook
<1>2. edits' \in 0..MaxEdits /\ First(edits') \in Row
  BY <1>1, EditIsTyped DEF First, Row
<1>3. /\ <<edits'>> \in Seq(0..MaxEdits) /\ <<edits'>> # <<>> /\ Extends(<<edits'>>, <<>>)
      /\ LatestOf(<<edits'>>) = First(edits') /\ \A q : Extends(q, q)
  BY <1>2, FirstRevision DEF Extends
<1>4. attached' \subseteq Character \X Lorebook /\ \A pair \in attached' \ attached : pair[2] = b
  <2>1. <<c, b>> \in Character \X Lorebook /\ <<c, b>>[2] = b
    OBVIOUS
  <2>2. Character \X {b} \subseteq Character \X Lorebook /\ \A pair \in Character \X {b} : pair[2] = b
    OBVIOUS
  <2>3. attached \subseteq Character \X Lorebook
    BY <1>0 DEF PersonalityTypeOK
  <2>4. \A pair \in {<<c, b>>} : pair \in Character \X Lorebook /\ pair[2] = b
    BY <2>1
  <2>5. QED
    BY <1>1, <2>2, <2>3, <2>4
<1>5. Grows
  BY <1>0, <1>1, <1>3 DEF Grows, PersonalityTypeOK
<1>6. RowsKept'
  <2>1. ASSUME NEW y \in Character
        PROVE  CharacterKept(y)'
    BY <1>0, <1>1 DEF RowsKept, CharacterKept, Exists
  <2>2. ASSUME NEW y \in Lorebook, books'[y] # <<>>
        PROVE  book'[y] = LatestOf(books'[y])
    BY <1>0, <1>1, <1>3, <2>2 DEF RowsKept, PersonalityTypeOK
  <2>3. ASSUME NEW pair \in attached'
        PROVE  books'[pair[2]] # <<>>
    <3>1. pair[2] \in Lorebook
      BY <1>4
    <3>2. CASE pair[2] = b
      BY <1>0, <1>1, <1>3, <3>2 DEF PersonalityTypeOK
    <3>3. CASE pair[2] # b
      <4>1. pair \in attached
        BY <1>4, <3>3
      <4>2. QED
        BY <1>0, <1>1, <3>1, <3>3, <4>1 DEF RowsKept, PersonalityTypeOK
    <3>4. QED
      BY <3>2, <3>3
  <2>4. QED
    BY <1>0, <1>1, <2>1, <2>2, <2>3 DEF RowsKept
<1>7. PersonalityTypeOK'
  <2>1. books' \in [Lorebook -> Seq(0..MaxEdits)] /\ book' \in [Lorebook -> Row]
    BY <1>0, <1>1, <1>2, <1>3 DEF PersonalityTypeOK
  <2>2. QED
    BY <1>0, <1>1, <1>4, <2>1, EditIsTyped DEF PersonalityTypeOK, Exists
<1>8. QED
  BY <1>1, <1>5, <1>6, <1>7, EditKeeps

LEMMA BookArchived ==
    ASSUME PersonInv, NEW b \in Lorebook, ArchiveLorebook(b)
    PROVE  PersonInv'
<1>0. PersonalityTypeOK /\ RowsKept
  BY DEF PersonInv
<1>1. /\ Edit /\ shelved' = shelved \cup {b}
      /\ UNCHANGED <<cards, active, archived, blocks, profile, selves, self, books, book, attached>>
  BY DEF ArchiveLorebook
<1>2. Grows
  BY <1>1 DEF Grows, Extends
<1>3. RowsKept'
  BY <1>0, <1>1 DEF RowsKept, CharacterKept, Exists
<1>4. PersonalityTypeOK'
  BY <1>0, <1>1, EditIsTyped DEF PersonalityTypeOK, Exists
<1>5. QED
  BY <1>1, <1>2, <1>3, <1>4, EditKeeps
-----------------------------------------------------------------------------
(* Steps of a session leave the revisions alone.                            *)
LEMMA RowsStay ==
    ASSUME PersonInv, UNCHANGED editVars
    PROVE  /\ RowsKept'
           /\ \A t : TraceTells(t)' = TraceTells(t)
           /\ \A c : Exists(c)' = Exists(c)
           /\ edits' \in 0..MaxEdits
<1>1. UNCHANGED <<edits, cards, active, archived, blocks, profile, selves, self, books, book,
                  shelved, attached>>
  BY DEF editVars
<1>2. RowsKept'
  BY <1>1 DEF PersonInv, RowsKept, CharacterKept, Exists
<1>3. \A t : TraceTells(t)' = TraceTells(t)
  BY <1>1 DEF TraceTells
<1>4. (\A c : Exists(c)' = Exists(c)) /\ edits' \in 0..MaxEdits
  BY <1>1 DEF Exists, PersonInv, PersonalityTypeOK
<1>5. QED
  BY <1>2, <1>3, <1>4

LEMMA SessionSteps ==
    ASSUME PersonInv, NEW s \in Chat,
           \/ \E c \in Character : NewSession(s, c)
           \/ StartGeneration(s) \/ FailGeneration(s)
    PROVE  PersonInv'
<1> USE PersonalityAssumption DEF NoChat, Absent
<1>0. PersonalityTypeOK /\ RowsKept /\ SessionsKept /\ TracesKept
  BY DEF PersonInv
<1>1. UNCHANGED editVars /\ UNCHANGED traces
  BY DEF NewSession, StartGeneration, FailGeneration
<1>2. UNCHANGED <<edits, cards, active, archived, blocks, profile, selves, self, books, book,
                  shelved, attached>>
  BY <1>1 DEF editVars
<1>3. identity' \in [Chat -> Character \cup {NoChat}] /\ SessionsKept'
      /\ generating' \in [Chat -> [at : {"idle", "recalling", "answering"}, trace : 0..Len(traces)]]
  <2>1. Len(traces) \in Nat
    BY <1>0 DEF TracesKept
  <2>2. ASSUME NEW c \in Character, NewSession(s, c)
        PROVE  /\ identity' \in [Chat -> Character \cup {NoChat}] /\ SessionsKept'
               /\ UNCHANGED generating
    BY <1>0, <1>2, <2>2 DEF NewSession, PersonalityTypeOK, SessionsKept, Exists
  <2>3. CASE StartGeneration(s)
    BY <1>0, <1>2, <2>1, <2>3 DEF StartGeneration, Generates, PersonalityTypeOK, SessionsKept, Exists
  <2>4. CASE FailGeneration(s)
    BY <1>0, <1>2, <2>1, <2>4 DEF FailGeneration, Generates, PersonalityTypeOK, SessionsKept, Exists
  <2>5. QED
    BY <1>0, <2>2, <2>3, <2>4 DEF PersonalityTypeOK
<1>4. PersonalityTypeOK'
  BY <1>0, <1>1, <1>2, <1>3 DEF PersonalityTypeOK, Exists
<1>5. TracesKept'
  BY <1>0, <1>1, RowsStay DEF TracesKept
<1>6. QED
  BY <1>1, <1>3, <1>4, <1>5, RowsStay DEF PersonInv

(* A prompt is made from the rows in use, each the last of its revisions,   *)
(* and from the books attached to its character.                            *)
LEMMA CompiledTells ==
    ASSUME PersonInv, NEW s \in Chat, Compile(s)
    PROVE  \E t \in TraceRow : traces' = Append(traces, t) /\ TraceTells(t)
<1> DEFINE c == identity[s]
<1>0. PersonalityTypeOK /\ RowsKept /\ SessionsKept
  BY DEF PersonInv
<1>1. generating[s].at = "recalling"
  BY DEF Compile
<1>2. c \in Character /\ Exists(c)
  BY <1>0, <1>1 DEF PersonalityTypeOK, SessionsKept
<1> DEFINE used == [card |-> cards[c][active[c]], blocks |-> profile[c].text, self |-> self.text,
                    lore |-> {<<b, book[b].text>> : b \in ActiveLorebooks(c)}]
           t == [chat |-> s, character |-> c, card |-> active[c], prompt |-> profile[c].revision,
                 message |-> FALSE, used |-> used]
<1>3. traces' = Append(traces, t)
  BY DEF Compile
<1> HIDE DEF c
<1>4. CharacterKept(c)
  BY <1>0, <1>2 DEF RowsKept
<1>5. active[c] \in DOMAIN cards[c] /\ blocks[c] # <<>> /\ profile[c] = LatestOf(blocks[c])
  BY <1>2, <1>4 DEF CharacterKept
<1>6. cards[c] \in Seq(0..MaxEdits) /\ blocks[c] \in Seq(0..MaxEdits) /\ selves \in Seq(0..MaxEdits)
  BY <1>0, <1>2 DEF PersonalityTypeOK
<1>7. cards[c][active[c]] \in Nat /\ active[c] \in Nat
  <2>1. cards[c][active[c]] \in 0..MaxEdits
    BY <1>5, <1>6, RestoredText
  <2>2. QED
    BY <1>0, <1>2, <2>1 DEF PersonalityTypeOK
<1>8. profile[c].revision \in Nat /\ profile[c].text \in Nat /\ self.text \in Nat
  BY <1>0, <1>2 DEF PersonalityTypeOK, Row
<1>9. ASSUME NEW b \in ActiveLorebooks(c)
      PROVE  /\ b \in Lorebook /\ book[b].text \in Nat
             /\ \E r \in DOMAIN books[b] : books[b][r] = book[b].text
  <2>1. b \in Lorebook /\ <<c, b>> \in attached
    BY DEF ActiveLorebooks
  <2>2. books[b] # <<>>
    <3>1. books[<<c, b>>[2]] # <<>>
      BY <1>0, <2>1 DEF RowsKept
    <3>2. QED
      BY <3>1
  <2>3. book[b] = LatestOf(books[b]) /\ books[b] \in Seq(0..MaxEdits) /\ book[b] \in Row
    BY <1>0, <2>1, <2>2 DEF RowsKept, PersonalityTypeOK
  <2>4. Len(books[b]) \in DOMAIN books[b]
    BY <2>2, <2>3
  <2>5. book[b].text = books[b][Len(books[b])] /\ book[b].text \in Nat
    BY <2>3 DEF LatestOf, Row
  <2>6. QED
    BY <2>1, <2>4, <2>5
<1>10. used.lore \in SUBSET (Lorebook \X Nat)
  <2>1. ASSUME NEW b \in ActiveLorebooks(c)
        PROVE  <<b, book[b].text>> \in Lorebook \X Nat
    BY <1>9
  <2>2. QED
    BY <2>1
<1>11. used \in [card : Nat, blocks : Nat, self : Nat, lore : SUBSET (Lorebook \X Nat)]
  <2> DEFINE entries == {<<b, book[b].text>> : b \in ActiveLorebooks(c)}
  <2>1. entries \in SUBSET (Lorebook \X Nat)
    BY <1>10
  <2> HIDE DEF entries
  <2>2. [card |-> cards[c][active[c]], blocks |-> profile[c].text, self |-> self.text,
         lore |-> entries] \in [card : Nat, blocks : Nat, self : Nat, lore : SUBSET (Lorebook \X Nat)]
    BY <1>7, <1>8, <2>1
  <2>3. QED
    BY <2>2 DEF entries
<1>12. /\ used.card = cards[c][active[c]] /\ used.blocks = profile[c].text
       /\ used.self = self.text
       /\ \A entry \in used.lore : \E b \in ActiveLorebooks(c) : entry = <<b, book[b].text>>
  OBVIOUS
<1> HIDE DEF used
<1>13. t \in TraceRow
  BY <1>2, <1>7, <1>8, <1>11 DEF TraceRow
<1>14. TraceTells(t)
  <2>1. /\ t.card = active[c] /\ t.character = c /\ t.prompt = profile[c].revision
        /\ t.used = used
    OBVIOUS
  <2> HIDE DEF t
  <2>2. t.prompt \in DOMAIN blocks[t.character] /\ blocks[t.character][t.prompt] = t.used.blocks
    <3>1. Len(blocks[c]) \in DOMAIN blocks[c]
      BY <1>5, <1>6
    <3>2. profile[c].revision = Len(blocks[c]) /\ profile[c].text = blocks[c][Len(blocks[c])]
      BY <1>5 DEF LatestOf
    <3>3. QED
      BY <1>12, <2>1, <3>1, <3>2
  <2>3. \E r \in DOMAIN selves : selves[r] = t.used.self
    <3>1. selves # <<>> /\ self = LatestOf(selves)
      BY <1>0 DEF RowsKept
    <3>2. Len(selves) \in DOMAIN selves
      BY <1>6, <3>1
    <3>3. self.text = selves[Len(selves)]
      BY <3>1 DEF LatestOf
    <3>4. QED
      BY <1>12, <2>1, <3>2, <3>3
  <2>4. ASSUME NEW entry \in t.used.lore
        PROVE  \E r \in DOMAIN books[entry[1]] : books[entry[1]][r] = entry[2]
    <3>1. PICK b \in ActiveLorebooks(c) : entry = <<b, book[b].text>>
      BY <1>12, <2>1, <2>4
    <3>2. entry[1] = b /\ entry[2] = book[b].text
      BY <3>1
    <3>3. QED
      BY <1>9, <3>2
  <2>5. t.card \in DOMAIN cards[t.character] /\ cards[t.character][t.card] = t.used.card
    BY <1>5, <1>12, <2>1
  <2>6. QED
    BY <2>2, <2>3, <2>4, <2>5 DEF TraceTells
<1>15. QED
  BY <1>3, <1>13, <1>14

LEMMA CompileStep ==
    ASSUME PersonInv, NEW s \in Chat, Compile(s)
    PROVE  PersonInv'
<1> USE PersonalityAssumption DEF NoChat, Absent
<1>0. PersonalityTypeOK /\ RowsKept /\ SessionsKept /\ TracesKept
  BY DEF PersonInv
<1>1. PICK t \in TraceRow : traces' = Append(traces, t) /\ TraceTells(t)
  BY CompiledTells
<1>2. /\ UNCHANGED editVars /\ UNCHANGED identity /\ Len(traces) < MaxTraces
      /\ generating[s].at = "recalling"
      /\ generating' = [generating EXCEPT ![s] = [at |-> "answering", trace |-> Len(traces')]]
  BY DEF Compile, Generates
<1>3. /\ traces' \in Seq(TraceRow) /\ Len(traces') = Len(traces) + 1 /\ Len(traces) \in Nat
      /\ \A n \in DOMAIN traces' : (n \in DOMAIN traces /\ traces'[n] = traces[n]) \/ traces'[n] = t
  BY <1>0, <1>1 DEF TracesKept
<1>4. TracesKept'
  BY <1>0, <1>1, <1>2, <1>3, RowsStay DEF TracesKept
<1>5. SessionsKept'
  BY <1>0, <1>2, <1>3, RowsStay DEF SessionsKept, PersonalityTypeOK
<1>6. PersonalityTypeOK'
  <2>1. generating' \in [Chat -> [at : {"idle", "recalling", "answering"}, trace : 0..Len(traces')]]
    <3>1. \A x \in Chat : generating[x] \in [at : {"idle", "recalling", "answering"}, trace : 0..Len(traces')]
      BY <1>0, <1>3 DEF PersonalityTypeOK
    <3>2. [at |-> "answering", trace |-> Len(traces')]
              \in [at : {"idle", "recalling", "answering"}, trace : 0..Len(traces')]
      BY <1>3
    <3>3. QED
      BY <1>0, <1>2, <3>1, <3>2 DEF PersonalityTypeOK
  <2>2. Len(traces') <= MaxTraces
    BY <1>2, <1>3
  <2>3. QED
    BY <1>0, <1>2, <2>1, <2>2 DEF PersonalityTypeOK, editVars, Exists
<1>7. QED
  BY <1>2, <1>4, <1>5, <1>6, RowsStay DEF PersonInv

LEMMA KeepReplyStep ==
    ASSUME PersonInv, NEW s \in Chat, KeepReply(s)
    PROVE  PersonInv'
<1> USE PersonalityAssumption DEF NoChat, Absent
<1>0. PersonalityTypeOK /\ RowsKept /\ SessionsKept /\ TracesKept
  BY DEF PersonInv
<1> DEFINE k == generating[s].trace
<1>1. /\ UNCHANGED editVars /\ UNCHANGED identity
      /\ generating[s].at = "answering"
      /\ traces' = [traces EXCEPT ![k].message = TRUE]
      /\ generating' = [generating EXCEPT ![s] = [at |-> "idle", trace |-> 0]]
  BY DEF KeepReply, Generates
<1>2. k \in DOMAIN traces /\ traces \in Seq(TraceRow)
  BY <1>0, <1>1 DEF PersonalityTypeOK, SessionsKept, TracesKept
<1> HIDE DEF k
<1>3. traces[k] \in TraceRow
  BY <1>2, RestoredText
<1> DEFINE t == [traces[k] EXCEPT !.message = TRUE]
<1>4. /\ t \in TraceRow /\ t.card = traces[k].card /\ t.character = traces[k].character
      /\ t.prompt = traces[k].prompt /\ t.used = traces[k].used
  BY <1>3 DEF TraceRow
<1>5. traces' = [traces EXCEPT ![k] = t]
  BY <1>1
<1> HIDE DEF t
<1>6. traces' \in Seq(TraceRow) /\ Len(traces') = Len(traces) /\ DOMAIN traces' = DOMAIN traces
  BY <1>2, <1>4, <1>5
<1>7. ASSUME NEW n \in DOMAIN traces'
      PROVE  TraceTells(traces'[n])
  <2>1. TraceTells(traces[n])
    BY <1>0, <1>6 DEF TracesKept
  <2>2. CASE n = k
    BY <1>2, <1>4, <1>5, <2>1, <2>2 DEF TraceTells
  <2>3. CASE n # k
    BY <1>2, <1>5, <1>6, <2>1, <2>3
  <2>4. QED
    BY <2>2, <2>3
<1>8. TracesKept'
  BY <1>1, <1>6, <1>7, RowsStay DEF TracesKept
<1>9. SessionsKept'
  BY <1>0, <1>1, RowsStay DEF SessionsKept, PersonalityTypeOK
<1>10. PersonalityTypeOK'
  <2>1. generating' \in [Chat -> [at : {"idle", "recalling", "answering"}, trace : 0..Len(traces')]]
    <3>1. [at |-> "idle", trace |-> 0]
              \in [at : {"idle", "recalling", "answering"}, trace : 0..Len(traces')]
      BY <1>2, <1>6
    <3>2. QED
      BY <1>0, <1>1, <1>6, <3>1 DEF PersonalityTypeOK
  <2>2. QED
    BY <1>0, <1>1, <1>6, <2>1 DEF PersonalityTypeOK, editVars, Exists
<1>11. QED
  BY <1>1, <1>8, <1>9, <1>10, RowsStay DEF PersonInv

LEMMA PersonalityStep ==
    ASSUME PersonInv, [PersonalityNext]_personVars
    PROVE  PersonInv'
<1>0. PersonalityTypeOK /\ RowsKept
  BY DEF PersonInv
<1>1. ASSUME Edit
      PROVE  edits' \in 0..MaxEdits
  BY <1>1, EditIsTyped
<1>2. ASSUME NEW c \in Character, UpdatePromptProfile(c)
      PROVE  PersonInv'
  <2>1. Exists(c) /\ Edit /\ WithBlocks(c, edits')
        /\ UNCHANGED <<cards, active, archived, selves, self, books, book, shelved, attached>>
    BY <1>2 DEF UpdatePromptProfile
  <2>2. blocks[c] # <<>>
    BY <1>0, <2>1 DEF RowsKept, CharacterKept
  <2> DEFINE x == edits'
  <2>3. x \in 0..MaxEdits /\ WithBlocks(c, x)
    BY <1>1, <2>1
  <2> HIDE DEF x
  <2>4. QED
    BY <2>1, <2>2, <2>3, ProfileEdits
<1>3. ASSUME NEW c \in Character, NEW n \in 1..(MaxEdits + 1), RestorePromptRevision(c, n)
      PROVE  PersonInv'
  <2>1. n \in DOMAIN blocks[c] /\ Edit /\ WithBlocks(c, blocks[c][n])
        /\ UNCHANGED <<cards, active, archived, selves, self, books, book, shelved, attached>>
    BY <1>3 DEF RestorePromptRevision
  <2>2. blocks[c] # <<>> /\ blocks[c][n] \in 0..MaxEdits
    <3>1. blocks[c] \in Seq(0..MaxEdits)
      BY <1>0 DEF PersonalityTypeOK
    <3>2. blocks[c] # <<>>
      BY <2>1
    <3>3. QED
      BY <2>1, <3>1, <3>2, RestoredText
  <2>3. QED
    BY <2>1, <2>2, ProfileEdits
<1>4. CASE UpdatePersona
  <2> DEFINE x == edits'
  <2>1. x \in 0..MaxEdits /\ Edit /\ WithSelf(x)
    BY <1>1, <1>4 DEF UpdatePersona
  <2> HIDE DEF x
  <2>2. QED
    BY <2>1, PersonaEdits
<1>5. ASSUME NEW n \in 1..(MaxEdits + 1), RestorePersonaRevision(n)
      PROVE  PersonInv'
  <2>1. n \in DOMAIN selves /\ Edit /\ WithSelf(selves[n])
    BY <1>5 DEF RestorePersonaRevision
  <2>2. selves[n] \in 0..MaxEdits
    BY <1>0, <2>1, RestoredText DEF PersonalityTypeOK
  <2>3. QED
    BY <2>1, <2>2, PersonaEdits
<1>6. ASSUME NEW b \in Lorebook, UpdateLorebook(b)
      PROVE  PersonInv'
  <2> DEFINE x == edits'
  <2>1. x \in 0..MaxEdits /\ books[b] # <<>> /\ Edit /\ WithBook(b, x)
    BY <1>1, <1>6 DEF UpdateLorebook
  <2> HIDE DEF x
  <2>2. QED
    BY <2>1, BookEdits
<1>7. ASSUME NEW b \in Lorebook, NEW n \in 1..(MaxEdits + 1), RestoreLorebookRevision(b, n)
      PROVE  PersonInv'
  <2>1. n \in DOMAIN books[b] /\ Edit /\ WithBook(b, books[b][n])
    BY <1>7 DEF RestoreLorebookRevision
  <2>2. books[b] # <<>> /\ books[b][n] \in 0..MaxEdits
    <3>1. books[b] \in Seq(0..MaxEdits)
      BY <1>0 DEF PersonalityTypeOK
    <3>2. books[b] # <<>>
      BY <2>1
    <3>3. QED
      BY <2>1, <3>1, <3>2, RestoredText
  <2>3. QED
    BY <2>1, <2>2, BookEdits
<1>8. CASE UNCHANGED personVars
  <2>1. UNCHANGED editVars /\ UNCHANGED <<identity, generating, traces>>
    BY <1>8 DEF personVars
  <2>2. SessionsKept' /\ TracesKept'
    BY <2>1, RowsStay DEF PersonInv, SessionsKept, TracesKept
  <2>3. PersonalityTypeOK'
    BY <1>0, <2>1 DEF PersonalityTypeOK, editVars, Exists
  <2>4. QED
    BY <2>1, <2>2, <2>3, RowsStay DEF PersonInv
<1>9. QED
  BY <1>2, <1>3, <1>4, <1>5, <1>6, <1>7, <1>8, CharacterEdits, BookCreated, BookArchived,
     SessionSteps, CompileStep, KeepReplyStep DEF PersonalityNext

LEMMA PersonalityInductive == PersonalitySpec => []PersonInv
BY PersonalityStart, PersonalityStep, PTL DEF PersonalitySpec
-----------------------------------------------------------------------------
(* The provider and its key. *)

(* The pair an update has in hand is one the owner asked for: before the    *)
(* key is kept the key it came with, afterwards the key of its account. And *)
(* the same of what the file says and the process believes.                 *)
PairInHand ==
    /\ update.at = "key" =>
          /\ update.to = "openai"
          /\ update.key \in Key
          /\ <<update.endpoint, update.key>> \in wanted
    /\ update.at \in {"build", "persist", "install"} /\ update.to = "openai" =>
          <<update.endpoint, keychain[update.account]>> \in wanted
Asked(c) == c.uses = "openai" => <<c.endpoint, keychain[c.account]>> \in wanted
ConfigInv ==
    /\ ModelConfigTypeOK
    /\ PairInHand
    /\ Asked(yaml) /\ Asked(settings)
    /\ running = Provider(settings)

LEMMA ProviderTyped ==
    ASSUME NEW c \in Config
    PROVE  /\ c.uses = Local => Provider(c) = <<Local, NoKey>>
           /\ c.uses = "openai" => Provider(c) = <<c.endpoint, keychain[c.account]>>
           /\ c.uses \in {"openai", Local}
           /\ ModelConfigTypeOK => Provider(c) \in (Endpoint \cup {Local}) \X (Key \cup {NoKey})
BY DEF ModelConfigTypeOK, Config, Provider, KeyOf, Local, NoKey

LEMMA PairsAreTheOwners == ConfigInv => KeysStayWithTheirEndpoint
<1> SUFFICES ASSUME ConfigInv
             PROVE  KeysStayWithTheirEndpoint
  OBVIOUS
<1>1. yaml \in Config /\ settings \in Config
  BY DEF ConfigInv, ModelConfigTypeOK
<1>2. ASSUME NEW c \in {yaml, settings}, c.uses = "openai"
      PROVE  Provider(c) \in wanted
  BY <1>1, <1>2, ProviderTyped DEF ConfigInv, Asked
<1>3. running[1] # Local => running \in wanted
  <2>1. settings.uses = Local => running[1] = Local
    BY <1>1, ProviderTyped DEF ConfigInv
  <2>2. QED
    BY <1>1, <1>2, <2>1, ProviderTyped DEF ConfigInv
<1>4. QED
  BY <1>2, <1>3 DEF ConfigInv, KeysStayWithTheirEndpoint

LEMMA ConfigStart == ModelConfigInit => ConfigInv
<1> SUFFICES ASSUME ModelConfigInit
             PROVE  ConfigInv
  OBVIOUS
<1> USE ModelConfigAssumption, NamesAreDistinct DEF NoKey, Local
<1>1. yaml \in Config /\ settings \in Config
  BY DEF ModelConfigInit, Config
<1>2. keychain \in [Account -> Key \cup {NoKey}] /\ keychain[StartAccount] = StartKey
  BY DEF ModelConfigInit
<1>3. Provider(yaml) = <<StartEndpoint, StartKey>>
  BY <1>2 DEF ModelConfigInit, Provider, KeyOf
<1>4. ModelConfigTypeOK
  <2>1. update \in [at : {"idle", "key", "build", "persist", "install"}, to : {"openai", Local},
                    endpoint : Endpoint, key : Key \cup {NoKey}, account : Account]
    BY DEF ModelConfigInit, NoUpdate
  <2>2. running \in (Endpoint \cup {Local}) \X (Key \cup {NoKey})
    <3>1. running = <<StartEndpoint, StartKey>>
      BY <1>3 DEF ModelConfigInit
    <3>2. QED
      BY <3>1
  <2>3. wanted \subseteq Endpoint \X Key
    <3>1. <<StartEndpoint, StartKey>> \in Endpoint \X Key
      OBVIOUS
    <3>2. QED
      BY <3>1 DEF ModelConfigInit
  <2>4. QED
    BY <1>1, <1>2, <2>1, <2>2, <2>3 DEF ModelConfigTypeOK
<1>5. PairInHand /\ Asked(yaml) /\ Asked(settings) /\ running = Provider(settings)
  BY <1>2 DEF ModelConfigInit, PairInHand, NoUpdate, Asked
<1>6. QED
  BY <1>4, <1>5 DEF ConfigInv

LEMMA ConfigStep ==
    ASSUME ConfigInv, [ModelConfigNext]_configVars
    PROVE  ConfigInv'
<1> USE ModelConfigAssumption, NamesAreDistinct DEF ConfigInv, NoKey, Local
<1> DEFINE Updates == [at : {"idle", "key", "build", "persist", "install"}, to : {"openai", Local},
                       endpoint : Endpoint, key : Key \cup {NoKey}, account : Account]
<1>0. NoUpdate \in Updates
  BY DEF NoUpdate
<1>1. ASSUME NEW to \in {"openai", Local}, NEW e \in Endpoint, NEW k \in Key \cup {NoKey},
             AskForProvider(to, e, k)
      PROVE  ConfigInv'
  <2> DEFINE used == IF k = NoKey THEN keychain[settings.account] ELSE k
  <2>1. /\ update' = [at |-> IF to = "openai" /\ k # NoKey THEN "key" ELSE "build", to |-> to,
                      endpoint |-> IF to = "openai" THEN e ELSE settings.endpoint, key |-> k,
                      account |-> settings.account]
        /\ to = "openai" => used # NoKey
        /\ wanted' = IF to = "openai" THEN wanted \cup {<<e, used>>} ELSE wanted
        /\ UNCHANGED <<keychain, yaml, settings, running>>
    BY <1>1 DEF AskForProvider, KeyOf
  <2>2. settings.endpoint \in Endpoint /\ settings.account \in Account
    BY DEF ModelConfigTypeOK, Config
  <2>3. to = "openai" => used \in Key
    BY <2>1, <2>2 DEF ModelConfigTypeOK
  <2>4. update' \in Updates
    BY <2>1, <2>2
  <2>5. wanted' \subseteq Endpoint \X Key
    <3>1. to = "openai" => <<e, used>> \in Endpoint \X Key
      BY <2>3
    <3> HIDE DEF used
    <3>2. QED
      BY <2>1, <3>1 DEF ModelConfigTypeOK
  <2>6. ModelConfigTypeOK'
    BY <2>1, <2>4, <2>5 DEF ModelConfigTypeOK
  <2>7. PairInHand'
    BY <2>1 DEF PairInHand
  <2>8. Asked(yaml)' /\ Asked(settings)' /\ (running = Provider(settings))'
    BY <2>1 DEF Asked, Provider, KeyOf
  <2>9. QED
    BY <2>6, <2>7, <2>8
<1>2. CASE SetKey
  <2>1. PICK a \in Account :
            /\ keychain[a] = NoKey
            /\ keychain' = [keychain EXCEPT ![a] = update.key]
            /\ update' = [update EXCEPT !.at = "build", !.account = a]
    BY <1>2 DEF SetKey, AccountFor
  <2>2. update.at = "key" /\ UNCHANGED <<yaml, settings, running, wanted>>
    BY <1>2 DEF SetKey, UpdateAt
  <2>3. ModelConfigTypeOK'
    BY <2>1, <2>2 DEF ModelConfigTypeOK
  <2>4. PairInHand'
    BY <2>1, <2>2 DEF PairInHand, ModelConfigTypeOK
  <2>5. ASSUME NEW c \in Config, Asked(c), c.uses = "openai"
        PROVE  keychain'[c.account] = keychain[c.account]
    <3>1. keychain[c.account] \in Key
      BY <2>5 DEF Asked, ModelConfigTypeOK
    <3>2. c.account # a /\ c.account \in Account
      BY <2>1, <2>5, <3>1 DEF Config
    <3>3. QED
      BY <2>1, <3>1, <3>2 DEF ModelConfigTypeOK
  <2>6. settings \in Config /\ yaml \in Config
    BY DEF ModelConfigTypeOK
  <2>7. Asked(yaml)' /\ Asked(settings)'
    BY <2>2, <2>5, <2>6 DEF Asked
  <2>8. (running = Provider(settings))'
    <3>1. CASE settings.uses = "openai"
      BY <2>2, <2>5, <2>6, <3>1 DEF Provider, KeyOf
    <3>2. CASE settings.uses = Local
      BY <2>2, <3>2 DEF Provider
    <3>3. QED
      BY <2>6, <3>1, <3>2 DEF Config
  <2>9. QED
    BY <2>3, <2>4, <2>7, <2>8
<1>3. CASE BuildProviders
  BY <1>3 DEF BuildProviders, UpdateAt, Goes, ModelConfigTypeOK, PairInHand, Asked, Provider, KeyOf
<1>4. CASE Persist
  <2>1. NextSettings \in Config
    BY DEF NextSettings, ModelConfigTypeOK, Config
  <2>2. ModelConfigTypeOK' /\ PairInHand'
    BY <1>4, <2>1 DEF Persist, UpdateAt, Goes, ModelConfigTypeOK, PairInHand
  <2>3. Asked(yaml)' /\ Asked(settings)' /\ (running = Provider(settings))'
    BY <1>4 DEF Persist, UpdateAt, Goes, PairInHand, NextSettings, Asked, Provider, KeyOf
  <2>4. QED
    BY <2>2, <2>3
<1>5. CASE InstallModel
  <2>1. NextSettings \in Config
    BY DEF NextSettings, ModelConfigTypeOK, Config
  <2>2. Provider(NextSettings) \in (Endpoint \cup {Local}) \X (Key \cup {NoKey})
    BY <2>1, ProviderTyped
  <2>3. ModelConfigTypeOK' /\ PairInHand'
    BY <1>0, <1>5, <2>1, <2>2 DEF InstallModel, Stops, ModelConfigTypeOK, PairInHand, NoUpdate
  <2>4. Asked(yaml)' /\ Asked(settings)' /\ (running = Provider(settings))'
    BY <1>5 DEF InstallModel, UpdateAt, Stops, PairInHand, NextSettings, Asked, Provider, KeyOf
  <2>5. QED
    BY <2>3, <2>4
<1>6. CASE Refuse
  BY <1>0, <1>6 DEF Refuse, Stops, NoUpdate, ModelConfigTypeOK, PairInHand, Asked, Provider, KeyOf
<1>7. CASE Restart
  <2>1. Provider(yaml) \in (Endpoint \cup {Local}) \X (Key \cup {NoKey})
    BY ProviderTyped DEF ModelConfigTypeOK
  <2>2. ModelConfigTypeOK' /\ PairInHand'
    BY <1>0, <1>7, <2>1 DEF Restart, Stops, NoUpdate, ModelConfigTypeOK, PairInHand
  <2>3. Asked(yaml)' /\ Asked(settings)' /\ (running = Provider(settings))'
    BY <1>7 DEF Restart, Asked, Provider, KeyOf
  <2>4. QED
    BY <2>2, <2>3
<1>8. CASE UNCHANGED configVars
  BY <1>8 DEF configVars, ModelConfigTypeOK, PairInHand, Asked, Provider, KeyOf
<1>9. QED
  BY <1>1, <1>2, <1>3, <1>4, <1>5, <1>6, <1>7, <1>8 DEF ModelConfigNext

LEMMA ConfigInductive == ModelConfigSpec => []ConfigInv
BY ConfigStart, ConfigStep, PTL DEF ModelConfigSpec
-----------------------------------------------------------------------------
(* Received files. *)

(* An upload past its ownership check holds the writer lock, and its        *)
(* session is there as long as it does; a receipt belongs to a kept file,   *)
(* and it is there until the session goes.                                  *)
LockedFor(u) ==
    upload[u] \in {"owned", "created", "written"} => writer = u /\ owner[u] \in rooms
ReceiptsAreKept(u) == receipt[u] # "none" => upload[u] = "kept"
SessionInv ==
    /\ SessionFilesTypeOK
    /\ \A u \in Upload : LockedFor(u) /\ ReceiptsAreKept(u)
    /\ FilesHaveOwners

(* The parts of FilesHaveOwners for one file and for one message.           *)
Owned(u) ==
    /\ upload[u] \in {"new", "streaming", "owned", "refused"} => stored[u] = "absent"
    /\ upload[u] = "kept" /\ owner[u] \in rooms => receipt[u] # "none"
HasAll(t) ==
    turn[t] \in {"sent", "read"} /\ owner[t] \in rooms => \A u \in carries[t] : receipt[u] = t
Bound(u) ==
    receipt[u] \in Turn => /\ owner[u] \in rooms
                           /\ owner[u] = owner[receipt[u]]
                           /\ u \in carries[receipt[u]]
FileKept(u) == LockedFor(u) /\ ReceiptsAreKept(u) /\ Owned(u) /\ Bound(u)

LEMMA SessionParts ==
    SessionInv <=> /\ SessionFilesTypeOK
                   /\ \A u \in Upload : FileKept(u)
                   /\ \A t \in Turn : HasAll(t)
BY DEF SessionInv, FilesHaveOwners, FileKept, Owned, HasAll, Bound

LEMMA SessionStart == SessionFilesInit => SessionInv
<1> SUFFICES ASSUME SessionFilesInit
             PROVE  SessionInv
  OBVIOUS
<1>1. SessionFilesTypeOK
  BY DEF SessionFilesInit, SessionFilesTypeOK, Nobody
<1>2. \A u \in Upload : FileKept(u)
  BY SessionFilesAssumption
     DEF SessionFilesInit, FileKept, LockedFor, ReceiptsAreKept, Owned, Bound, Nobody
<1>3. \A t \in Turn : HasAll(t)
  BY DEF SessionFilesInit, HasAll
<1>4. QED
  BY <1>1, <1>2, <1>3, SessionParts

LEMMA SessionStep ==
    ASSUME SessionInv, [SessionFilesNext]_sessionVars
    PROVE  SessionInv'
<1>0. /\ SessionFilesTypeOK
      /\ \A u \in Upload : FileKept(u)
      /\ \A t \in Turn : HasAll(t)
  BY SessionParts
<1> SUFFICES /\ SessionFilesTypeOK'
             /\ \A u \in Upload : FileKept(u)'
             /\ \A t \in Turn : HasAll(t)'
  BY DEF SessionInv, FilesHaveOwners, FileKept, Owned, HasAll, Bound
<1> USE SessionFilesAssumption DEF Nobody
<1>1. ASSUME NEW v \in Upload, StartUpload(v) \/ OwnSession(v) \/ CreateFile(v) \/ WriteFile(v)
                               \/ FailUpload(v) \/ Download(v) \/ ChangeStored(v)
      PROVE  /\ SessionFilesTypeOK'
             /\ \A u \in Upload : FileKept(u)'
             /\ \A t \in Turn : HasAll(t)'
  <2>1. CASE StartUpload(v)
    BY <1>0, <2>1 DEF StartUpload, Moves, SessionFilesTypeOK, FileKept, LockedFor,
                      ReceiptsAreKept, Owned, Bound, HasAll
  <2>2. CASE OwnSession(v)
    <3>1. SessionFilesTypeOK' /\ \A t \in Turn : HasAll(t)'
      BY <1>0, <2>2 DEF OwnSession, Moves, SessionFilesTypeOK, HasAll
    <3>2. \A u \in Upload : FileKept(u)'
      BY <1>0, <2>2 DEF OwnSession, Moves, SessionFilesTypeOK, FileKept, LockedFor,
                        ReceiptsAreKept, Owned, Bound
    <3>3. QED
      BY <3>1, <3>2
  <2>3. CASE WriteFile(v)
    BY <1>0, <2>3 DEF WriteFile, Moves, SessionFilesTypeOK, FileKept, LockedFor,
                      ReceiptsAreKept, Owned, Bound, HasAll
  <2>4. CASE FailUpload(v)
    <3>1. SessionFilesTypeOK' /\ \A t \in Turn : HasAll(t)'
      BY <1>0, <2>4 DEF FailUpload, ReleaseUpload, Moves, SessionFilesTypeOK, HasAll
    <3>2. \A u \in Upload : FileKept(u)'
      BY <1>0, <2>4 DEF FailUpload, ReleaseUpload, Receiving, Moves, SessionFilesTypeOK, FileKept,
                        LockedFor, ReceiptsAreKept, Owned, Bound
    <3>3. QED
      BY <3>1, <3>2
  <2>5. CASE Download(v)
    BY <1>0, <2>5 DEF Download, Moves, SessionFilesTypeOK, FileKept, LockedFor,
                      ReceiptsAreKept, Owned, Bound, HasAll
  <2>6. CASE ChangeStored(v)
    BY <1>0, <2>6 DEF ChangeStored, SessionFilesTypeOK, FileKept, LockedFor,
                      ReceiptsAreKept, Owned, Bound, HasAll
  <2>7. CASE CreateFile(v)
    BY <1>0, <2>7 DEF CreateFile, Moves, SessionFilesTypeOK, FileKept, LockedFor,
                      ReceiptsAreKept, Owned, Bound, HasAll
  <2>8. QED
    BY <1>1, <2>1, <2>2, <2>3, <2>4, <2>5, <2>6, <2>7
<1>2. ASSUME NEW v \in Upload, KeepFile(v)
      PROVE  /\ SessionFilesTypeOK'
             /\ \A u \in Upload : FileKept(u)'
             /\ \A t \in Turn : HasAll(t)'
  <2>1. upload[v] = "written" /\ writer = v /\ owner[v] \in rooms /\ receipt[v] = "none"
    BY <1>0, <1>2 DEF KeepFile, FileKept, LockedFor, ReceiptsAreKept
  <2>2. SessionFilesTypeOK'
    BY <1>0, <1>2 DEF KeepFile, ReleaseUpload, Moves, SessionFilesTypeOK
  <2>3. \A u \in Upload : FileKept(u)'
    BY <1>0, <1>2, <2>1 DEF KeepFile, ReleaseUpload, Moves, SessionFilesTypeOK, FileKept,
                       LockedFor, ReceiptsAreKept, Owned, Bound
  <2>4. \A t \in Turn : HasAll(t)'
    BY <1>0, <1>2, <2>1 DEF KeepFile, SessionFilesTypeOK, HasAll
  <2>5. QED
    BY <2>2, <2>3, <2>4
<1>3. ASSUME NEW v \in Upload, NEW w \in Turn, RecordAttachment(v, w)
      PROVE  /\ SessionFilesTypeOK'
             /\ \A u \in Upload : FileKept(u)'
             /\ \A t \in Turn : HasAll(t)'
  <2>1. upload[v] = "downloaded" /\ receipt[v] = "none"
    BY <1>0, <1>3 DEF RecordAttachment, FileKept, ReceiptsAreKept
  <2>2. SessionFilesTypeOK'
    BY <1>0, <1>3 DEF RecordAttachment, Moves, SessionFilesTypeOK
  <2>3. \A u \in Upload : FileKept(u)'
    BY <1>0, <1>3, <2>1 DEF RecordAttachment, Moves, SessionFilesTypeOK, FileKept, LockedFor,
                            ReceiptsAreKept, Owned, Bound
  <2>4. \A t \in Turn : HasAll(t)'
    BY <1>0, <1>3, <2>1 DEF RecordAttachment, SessionFilesTypeOK, HasAll
  <2>5. QED
    BY <2>2, <2>3, <2>4
<1>4. ASSUME NEW w \in Turn, VerifyAttachments(w) \/ ReadAttachments(w)
      PROVE  /\ SessionFilesTypeOK'
             /\ \A u \in Upload : FileKept(u)'
             /\ \A t \in Turn : HasAll(t)'
  BY <1>0, <1>4 DEF VerifyAttachments, ReadAttachments, Turns, SessionFilesTypeOK, FileKept,
                    LockedFor, ReceiptsAreKept, Owned, Bound, HasAll
<1>5. ASSUME NEW w \in Turn, AddMessage(w)
      PROVE  /\ SessionFilesTypeOK'
             /\ \A u \in Upload : FileKept(u)'
             /\ \A t \in Turn : HasAll(t)'
  <2>1. CASE writer = Nobody /\ owner[w] \in rooms /\ \A u \in carries[w] : Binds(w, u)
    <3>1. /\ turn' = [turn EXCEPT ![w] = "sent"]
          /\ receipt' = [u \in Upload |-> IF u \in carries[w] THEN w ELSE receipt[u]]
          /\ UNCHANGED <<owner, carries, rooms, upload, writer, stored>>
      BY <1>5, <2>1 DEF AddMessage, Turns
    <3>2. \A u \in carries[w] : receipt[u] = "unbound" /\ owner[u] = owner[w]
      BY <2>1 DEF Binds, Verified
    <3>3. SessionFilesTypeOK'
      BY <1>0, <3>1 DEF SessionFilesTypeOK
    <3>4. \A u \in Upload : FileKept(u)'
      BY <1>0, <2>1, <3>1, <3>2 DEF FileKept, LockedFor, ReceiptsAreKept, Owned, Bound
    <3>5. \A t \in Turn : HasAll(t)'
      BY <1>0, <3>1, <3>2 DEF SessionFilesTypeOK, HasAll
    <3>6. QED
      BY <3>3, <3>4, <3>5
  <2>2. CASE ~(writer = Nobody /\ owner[w] \in rooms /\ \A u \in carries[w] : Binds(w, u))
    <3>1. /\ turn' = [turn EXCEPT ![w] = "failed"]
          /\ UNCHANGED <<receipt, owner, carries, rooms, upload, writer, stored>>
      BY <1>5, <2>2 DEF AddMessage, Turns
    <3>2. QED
      BY <1>0, <3>1 DEF SessionFilesTypeOK, FileKept, LockedFor, ReceiptsAreKept, Owned, Bound,
                        HasAll
  <2>3. QED
    BY <2>1, <2>2
<1>6. ASSUME NEW r \in Room, DeleteRoom(r)
      PROVE  /\ SessionFilesTypeOK'
             /\ \A u \in Upload : FileKept(u)'
             /\ \A t \in Turn : HasAll(t)'
  <2>1. /\ rooms' = rooms \ {r}
        /\ receipt' = [u \in Upload |-> IF owner[u] = r THEN "none" ELSE receipt[u]]
        /\ UNCHANGED <<owner, carries, upload, writer, stored, turn>>
        /\ writer = Nobody
    BY <1>6 DEF DeleteRoom
  <2>2. SessionFilesTypeOK'
    BY <1>0, <2>1 DEF SessionFilesTypeOK
  <2>3. \A u \in Upload : FileKept(u)'
    BY <1>0, <2>1 DEF FileKept, LockedFor, ReceiptsAreKept, Owned, Bound
  <2>4. ASSUME NEW t \in Turn
        PROVE  HasAll(t)'
    BY <1>0, <2>1 DEF SessionFilesTypeOK, HasAll, FileKept, Bound
  <2>5. QED
    BY <2>2, <2>3, <2>4
<1>7. CASE CrashUploads
  <2>1. SessionFilesTypeOK' /\ \A t \in Turn : HasAll(t)'
    BY <1>0, <1>7 DEF CrashUploads, SessionFilesTypeOK, HasAll
  <2>2. \A u \in Upload : FileKept(u)'
    BY <1>0, <1>7 DEF CrashUploads, Receiving, FileKept, LockedFor, ReceiptsAreKept, Owned, Bound
  <2>3. QED
    BY <2>1, <2>2
<1>8. CASE UNCHANGED sessionVars
  BY <1>0, <1>8 DEF sessionVars, SessionFilesTypeOK, FileKept, LockedFor, ReceiptsAreKept, Owned,
                    Bound, HasAll
<1>9. QED
  BY <1>1, <1>2, <1>3, <1>4, <1>5, <1>6, <1>7, <1>8 DEF SessionFilesNext

LEMMA SessionInductive == SessionFilesSpec => []SessionInv
BY SessionStart, SessionStep, PTL DEF SessionFilesSpec
-----------------------------------------------------------------------------
(* The file tools. *)

(* A call that was checked saw the state its approval names, and only a     *)
(* call that is over has left traces. Every state there ever was is still   *)
(* on disk or accounted for.                                                *)
Seen(t) == phase[t] = "checked" => observed[t] = ApprovedState(t)
Over(pairs) == \A pair \in pairs : phase[pair[2]] \in {"done", "failed"}
Accounted ==
    1..made \subseteq {disk[p] : p \in ToolFile} \cup outside
                          \cup {pair[1] : pair \in trash \cup replaced}
ToolsInv ==
    /\ FilesTypeOK
    /\ \A t \in Tool : Seen(t)
    /\ Over(replaced) /\ Over(uploaded) /\ Over(trash)
    /\ OnlyApprovedContent

(* One step of one call: it changes what is known of this call only, while  *)
(* it is not over, and what it adds it adds in its own name, checked.       *)
Advances(t) ==
    /\ UNCHANGED job
    /\ \E s \in {"new", "prepared", "checked", "done", "failed"} :
          phase' = [phase EXCEPT ![t] = s]
    /\ phase[t] \notin {"done", "failed"}
AddsOwn(t, pairs, new) ==
    \/ new = pairs
    \/ phase[t] = "checked" /\ phase'[t] \in {"done", "failed"}
       /\ \E x \in 1..made : new = pairs \cup {<<x, t>>}

LEMMA FilesStart == FilesInit => ToolsInv
<1> SUFFICES ASSUME FilesInit
             PROVE  ToolsInv
  OBVIOUS
<1>1. Cardinality(ToolFile) \in 0..MaxState
  BY ToolFileAssumption, FS_CardinalityType
<1>2. FilesTypeOK
  BY <1>1, ToolFileAssumption DEF FilesInit, FilesTypeOK, Unprepared, Nothing
<1>3. (\A t \in Tool : Seen(t)) /\ Over(replaced) /\ Over(uploaded) /\ Over(trash)
  BY DEF FilesInit, Seen, Over
<1>4. OnlyApprovedContent
  BY DEF FilesInit, OnlyApprovedContent, ApprovedOrNewer
<1>5. QED
  BY <1>2, <1>3, <1>4 DEF ToolsInv

(* What a checked call adds in its own name is what was approved, or newer. *)
LEMMA OwnPairs ==
    ASSUME NEW t \in Tool, NEW pairs, NEW new, pairs \subseteq (1..made) \X Tool,
           FilesTypeOK, Seen(t), Advances(t), UNCHANGED <<approved, observed>>,
           AddsOwn(t, pairs, new), Over(pairs), ApprovedOrNewer(pairs)
    PROVE  /\ \A pair \in new : phase'[pair[2]] \in {"done", "failed"}
           /\ \A pair \in new : \/ pair[1] = ApprovedState(pair[2])'
                                \/ pair[1] # observed'[pair[2]]
           /\ new \subseteq (1..made) \X Tool
<1>1. \A u \in Tool : ApprovedState(u)' = ApprovedState(u)
  BY DEF Advances, ApprovedState
<1>2. \A u \in Tool : phase[u] \in {"done", "failed"} => phase'[u] = phase[u]
  BY DEF Advances, FilesTypeOK
<1>3. ASSUME NEW pair \in pairs
      PROVE  /\ phase'[pair[2]] \in {"done", "failed"}
             /\ pair[1] = ApprovedState(pair[2])' \/ pair[1] # observed'[pair[2]]
  <2>1. pair[2] \in Tool
    BY <1>3
  <2>2. QED
    BY <1>1, <1>2, <1>3, <2>1 DEF Over, ApprovedOrNewer
<1>4. CASE new = pairs
  BY <1>3, <1>4
<1>5. ASSUME NEW x \in 1..made, new = pairs \cup {<<x, t>>}, phase[t] = "checked",
             phase'[t] \in {"done", "failed"}
      PROVE  /\ \A pair \in new : phase'[pair[2]] \in {"done", "failed"}
             /\ \A pair \in new : \/ pair[1] = ApprovedState(pair[2])'
                                  \/ pair[1] # observed'[pair[2]]
             /\ new \subseteq (1..made) \X Tool
  <2> DEFINE own == <<x, t>>
  <2>1. own[1] = x /\ own[2] = t /\ own \in (1..made) \X Tool
    BY <1>5
  <2>2. ApprovedState(t)' = observed'[t]
    BY <1>1, <1>5 DEF Seen
  <2>3. new = pairs \cup {own}
    BY <1>5
  <2> HIDE DEF own
  <2>4. QED
    BY <1>3, <1>5, <2>1, <2>2, <2>3
<1>6. QED
  BY <1>4, <1>5 DEF AddsOwn

(* The steps of a call keep its bounds; what it removes it leaves a trace of.*)
LEMMA CallStep ==
    ASSUME ToolsInv, NEW t \in Tool, Advances(t), UNCHANGED <<approved, observed>>,
           AddsOwn(t, replaced, replaced'), AddsOwn(t, uploaded, uploaded'),
           AddsOwn(t, trash, trash'), phase'[t] # "checked",
           made' \in made..MaxState, disk' \in [ToolFile -> 0..made'],
           outside' \subseteq 1..made', Accounted'
    PROVE  ToolsInv'
<1>1. /\ FilesTypeOK /\ Seen(t) /\ Over(replaced) /\ Over(uploaded) /\ Over(trash)
      /\ ApprovedOrNewer(replaced) /\ ApprovedOrNewer(uploaded) /\ ApprovedOrNewer(trash)
  BY DEF ToolsInv, OnlyApprovedContent
<1>2. /\ replaced \subseteq (1..made) \X Tool /\ uploaded \subseteq (1..made) \X Tool
      /\ trash \subseteq (1..made) \X Tool
  BY <1>1 DEF FilesTypeOK
<1>3. /\ Over(replaced)' /\ ApprovedOrNewer(replaced)' /\ replaced' \subseteq (1..made) \X Tool
      /\ Over(uploaded)' /\ ApprovedOrNewer(uploaded)' /\ uploaded' \subseteq (1..made) \X Tool
      /\ Over(trash)' /\ ApprovedOrNewer(trash)' /\ trash' \subseteq (1..made) \X Tool
  BY <1>1, <1>2, OwnPairs DEF Over, ApprovedOrNewer
<1>4. 1..made \subseteq 1..made'
  BY <1>1 DEF FilesTypeOK
<1>5. (1..made) \X Tool \subseteq (1..made') \X Tool
  BY <1>4
<1>6. FilesTypeOK'
  <2>1. made' \in 0..MaxState
    BY <1>1 DEF FilesTypeOK
  <2>2. /\ trash' \subseteq (1..made') \X Tool
        /\ replaced' \subseteq (1..made') \X Tool
        /\ uploaded' \subseteq (1..made') \X Tool
    BY <1>3, <1>5
  <2>3. phase' \in [Tool -> {"new", "prepared", "checked", "done", "failed"}] /\ job' \in [Tool -> Jobs]
    BY <1>1 DEF FilesTypeOK, Advances
  <2>4. QED
    BY <1>1, <2>1, <2>2, <2>3 DEF FilesTypeOK
<1>7. ASSUME NEW u \in Tool
      PROVE  Seen(u)'
  BY <1>1 DEF ToolsInv, FilesTypeOK, Seen, Advances, ApprovedState
<1>8. OnlyApprovedContent'
  BY <1>3 DEF OnlyApprovedContent, Accounted
<1>9. QED
  BY <1>3, <1>6, <1>7, <1>8 DEF ToolsInv

LEMMA FilesStep ==
    ASSUME ToolsInv, [FilesNext]_fileVars
    PROVE  ToolsInv'
<1> USE DEF Nothing
<1>0. /\ FilesTypeOK /\ \A t \in Tool : Seen(t)
      /\ Over(replaced) /\ Over(uploaded) /\ Over(trash) /\ OnlyApprovedContent
      /\ Accounted /\ made \in 0..MaxState /\ MaxState \in Nat
      /\ disk \in [ToolFile -> 0..made]
  BY ToolFileAssumption DEF ToolsInv, OnlyApprovedContent, Accounted, FilesTypeOK
<1>a. \A j \in Jobs : j.from \in ToolFile /\ (j.what = "move" => j.to \in ToolFile)
  BY DEF Jobs
<1>b. \A t \in Tool : job[t] \in Jobs
  BY <1>0 DEF FilesTypeOK
<1>1. ASSUME NEW t \in Tool, PrepareDelete(t)
      PROVE  ToolsInv'
  <2>1. approved' \in [Tool -> [from : 0..MaxState, to : 0..MaxState]]
    <3>1. CASE Prepares(job[t])
      <4> DEFINE seen == [from |-> disk[job[t].from],
                          to |-> IF job[t].what = "move" THEN disk[job[t].to] ELSE Nothing]
      <4>1. disk[job[t].from] \in 0..MaxState
        BY <1>0, <1>a, <1>b
      <4>2. job[t].what = "move" => disk[job[t].to] \in 0..MaxState
        BY <1>0, <1>a, <1>b
      <4>3. seen \in [from : 0..MaxState, to : 0..MaxState]
        BY <1>0, <4>1, <4>2
      <4>4. approved' = [approved EXCEPT ![t] = seen]
        BY <1>1, <3>1 DEF PrepareDelete
      <4> HIDE DEF seen
      <4>5. QED
        BY <1>0, <4>3, <4>4 DEF FilesTypeOK
    <3>2. CASE ~Prepares(job[t])
      BY <1>0, <1>1, <3>2 DEF PrepareDelete, FilesTypeOK
    <3>3. QED
      BY <3>1, <3>2
  <2>2. phase[t] = "new" /\ \E s \in {"prepared", "failed"} : phase' = [phase EXCEPT ![t] = s]
    BY <1>1 DEF PrepareDelete, Reached
  <2>3. UNCHANGED <<job, disk, made, observed, trash, replaced, uploaded, outside>>
    BY <1>1 DEF PrepareDelete
  <2>4. \A u \in Tool \ {t} : approved'[u] = approved[u]
    BY <1>0, <1>1 DEF PrepareDelete, FilesTypeOK
  <2>5. FilesTypeOK'
    BY <1>0, <2>1, <2>2, <2>3 DEF FilesTypeOK
  <2>6. ASSUME NEW u \in Tool
        PROVE  Seen(u)'
    BY <1>0, <2>2, <2>3, <2>4 DEF FilesTypeOK, Seen, ApprovedState
  <2>7. ASSUME NEW pairs \in {replaced, uploaded, trash}, NEW pair \in pairs
        PROVE  /\ phase'[pair[2]] \in {"done", "failed"}
               /\ pair[1] = ApprovedState(pair[2])' \/ pair[1] # observed'[pair[2]]
    <3>1. pair[2] \in Tool /\ phase[pair[2]] \in {"done", "failed"}
      BY <1>0, <2>7 DEF FilesTypeOK, Over
    <3>2. pair[2] # t /\ phase'[pair[2]] = phase[pair[2]]
      BY <1>0, <2>2, <3>1 DEF FilesTypeOK
    <3>3. pair[1] = ApprovedState(pair[2]) \/ pair[1] # observed[pair[2]]
      BY <1>0, <2>7 DEF OnlyApprovedContent, ApprovedOrNewer
    <3>4. ApprovedState(pair[2])' = ApprovedState(pair[2])
      BY <2>3, <2>4, <3>1, <3>2 DEF ApprovedState
    <3>5. QED
      BY <2>3, <3>1, <3>2, <3>3, <3>4
  <2>8. Over(replaced)' /\ Over(uploaded)' /\ Over(trash)'
    BY <2>3, <2>7 DEF Over
  <2>9. OnlyApprovedContent'
    BY <1>0, <2>3, <2>7 DEF OnlyApprovedContent, ApprovedOrNewer, Accounted
  <2>10. QED
    BY <2>5, <2>6, <2>8, <2>9 DEF ToolsInv
<1>2. ASSUME NEW t \in Tool, Check(t)
      PROVE  ToolsInv'
  <2>1. /\ phase[t] = "prepared"
        /\ phase' = [phase EXCEPT ![t] = IF Holds(t) THEN "checked" ELSE "failed"]
        /\ observed' = [observed EXCEPT ![t] = disk[Target(t)]]
        /\ UNCHANGED <<job, approved, disk, made, trash, replaced, uploaded, outside>>
    BY <1>2 DEF Check, Reached
  <2>2. Target(t) \in ToolFile /\ disk[Target(t)] \in 0..MaxState
    <3>1. Target(t) \in ToolFile
      BY <1>a, <1>b DEF Target
    <3>2. QED
      BY <1>0, <3>1
  <2>3. Holds(t) => disk[Target(t)] = ApprovedState(t)
    <3>1. CASE job[t].what = "move"
      BY <3>1 DEF Holds, MoveHolds, Target, ApprovedState
    <3>2. CASE job[t].what = "create"
      BY <3>2 DEF Holds, CreateHolds, Target, ApprovedState
    <3>3. CASE job[t].what \notin {"move", "create"}
      BY <3>3 DEF Holds, Unchanged, Target, ApprovedState
    <3>4. QED
      BY <3>1, <3>2, <3>3
  <2>4. FilesTypeOK'
    BY <1>0, <2>1, <2>2 DEF FilesTypeOK
  <2>5. ASSUME NEW u \in Tool
        PROVE  Seen(u)'
    <3>1. ApprovedState(u)' = ApprovedState(u)
      BY <2>1 DEF ApprovedState
    <3>2. QED
      BY <1>0, <2>1, <2>3, <3>1 DEF FilesTypeOK, Seen
  <2>6. ASSUME NEW pairs \in {replaced, uploaded, trash}, NEW pair \in pairs
        PROVE  /\ phase'[pair[2]] \in {"done", "failed"}
               /\ pair[1] = ApprovedState(pair[2])' \/ pair[1] # observed'[pair[2]]
    <3>1. pair[2] \in Tool /\ phase[pair[2]] \in {"done", "failed"}
      BY <1>0, <2>6 DEF FilesTypeOK, Over
    <3>2. pair[2] # t /\ phase'[pair[2]] = phase[pair[2]] /\ observed'[pair[2]] = observed[pair[2]]
      BY <1>0, <2>1, <3>1 DEF FilesTypeOK
    <3>3. pair[1] = ApprovedState(pair[2]) \/ pair[1] # observed[pair[2]]
      BY <1>0, <2>6 DEF OnlyApprovedContent, ApprovedOrNewer
    <3>4. ApprovedState(pair[2])' = ApprovedState(pair[2])
      BY <2>1 DEF ApprovedState
    <3>5. QED
      BY <3>1, <3>2, <3>3, <3>4
  <2>7. Over(replaced)' /\ Over(uploaded)' /\ Over(trash)'
    BY <2>1, <2>6 DEF Over
  <2>8. OnlyApprovedContent'
    BY <1>0, <2>1, <2>6 DEF OnlyApprovedContent, ApprovedOrNewer, Accounted
  <2>9. QED
    BY <2>4, <2>5, <2>7, <2>8 DEF ToolsInv
<1>3. ASSUME NEW t \in Tool, WriteText(t)
      PROVE  ToolsInv'
  <2> DEFINE path == job[t].from
  <2>1. /\ phase[t] = "checked" /\ made < MaxState /\ made' = made + 1
        /\ disk' = [disk EXCEPT ![path] = made']
        /\ replaced' = replaced \cup (IF disk[path] = 0 THEN {} ELSE {<<disk[path], t>>})
        /\ phase' = [phase EXCEPT ![t] = "done"]
        /\ UNCHANGED <<job, approved, observed, trash, uploaded, outside>>
    BY <1>3 DEF WriteText, Overwritten, Reached
  <2>2. path \in ToolFile
    BY <1>a, <1>b
  <2> HIDE DEF path
  <2>3. disk[path] \in 0..made
    BY <1>0, <2>2
  <2>4. made' \in made..MaxState /\ disk' \in [ToolFile -> 0..made'] /\ outside' \subseteq 1..made'
    BY <1>0, <2>1, <2>2 DEF FilesTypeOK
  <2>5. Advances(t) /\ phase'[t] = "done"
    BY <1>0, <2>1 DEF Advances, FilesTypeOK
  <2>6. AddsOwn(t, replaced, replaced')
    <3>1. disk[path] # 0 => disk[path] \in 1..made
      BY <1>0, <2>3
    <3>2. QED
      BY <2>1, <2>5, <3>1 DEF AddsOwn
  <2>7. AddsOwn(t, uploaded, uploaded') /\ AddsOwn(t, trash, trash')
    BY <2>1 DEF AddsOwn
  <2>8. Accounted'
    <3>1. SUFFICES ASSUME NEW x \in 1..made'
                   PROVE  x \in {disk'[p] : p \in ToolFile} \cup outside'
                                \cup {pair[1] : pair \in trash' \cup replaced'}
      BY DEF Accounted
    <3>2. CASE x = made'
      BY <1>0, <2>1, <2>2, <3>2
    <3>3. CASE x # made'
      <4>1. x \in 1..made
        BY <1>0, <2>1, <3>3
      <4>2. CASE \E p \in ToolFile : x = disk[p]
        <5>1. PICK p \in ToolFile : x = disk[p]
          BY <4>2
        <5>2. CASE p = path
          <6>1. <<x, t>> \in replaced'
            BY <2>1, <4>1, <5>1, <5>2
          <6>2. <<x, t>>[1] = x
            OBVIOUS
          <6>3. QED
            BY <6>1, <6>2
        <5>3. CASE p # path
          BY <1>0, <2>1, <5>1, <5>3
        <5>4. QED
          BY <5>2, <5>3
      <4>3. CASE x \in outside \/ \E pair \in trash \cup replaced : x = pair[1]
        BY <2>1, <4>3
      <4>4. QED
        BY <1>0, <4>1, <4>2, <4>3 DEF Accounted
    <3>4. QED
      BY <3>2, <3>3
  <2>9. QED
    BY <2>1, <2>4, <2>5, <2>6, <2>7, <2>8, CallStep
<1>4. ASSUME NEW t \in Tool, MoveFile(t)
      PROVE  ToolsInv'
  <2>1. CASE disk[job[t].from] = 0
    <3>1. /\ phase[t] = "checked"
          /\ phase' = [phase EXCEPT ![t] = "failed"]
          /\ UNCHANGED <<job, approved, disk, made, observed, trash, replaced, uploaded, outside>>
      BY <1>4, <2>1 DEF MoveFile, Reached
    <3>2. Advances(t) /\ phase'[t] = "failed"
      BY <1>0, <3>1 DEF Advances, FilesTypeOK
    <3>3. /\ AddsOwn(t, replaced, replaced') /\ AddsOwn(t, uploaded, uploaded')
          /\ AddsOwn(t, trash, trash')
      BY <3>1 DEF AddsOwn
    <3>4. /\ made' \in made..MaxState /\ disk' \in [ToolFile -> 0..made']
          /\ outside' \subseteq 1..made' /\ Accounted'
      BY <1>0, <3>1 DEF FilesTypeOK, Accounted
    <3>5. QED
      BY <3>1, <3>2, <3>3, <3>4, CallStep
  <2>2. CASE disk[job[t].from] # 0
    <3> DEFINE from == job[t].from
               to == job[t].to
    <3>1. /\ phase[t] = "checked" /\ job[t].what = "move"
          /\ disk' = [disk EXCEPT ![to] = disk[from], ![from] = 0]
          /\ replaced' = replaced \cup (IF disk[to] = 0 THEN {} ELSE {<<disk[to], t>>})
          /\ phase' = [phase EXCEPT ![t] = "done"]
          /\ UNCHANGED <<job, approved, made, observed, trash, uploaded, outside>>
      BY <1>4, <2>2 DEF MoveFile, Overwritten, Reached
    <3>2. from \in ToolFile /\ to \in ToolFile
      BY <1>a, <1>b, <3>1
    <3> HIDE DEF from, to
    <3>3. disk[from] \in 0..made /\ disk[to] \in 0..made
      BY <1>0, <3>2
    <3>4. /\ made' \in made..MaxState /\ disk' \in [ToolFile -> 0..made']
          /\ outside' \subseteq 1..made'
      BY <1>0, <3>1, <3>2, <3>3 DEF FilesTypeOK
    <3>5. Advances(t) /\ phase'[t] = "done"
      BY <1>0, <3>1 DEF Advances, FilesTypeOK
    <3>6. AddsOwn(t, replaced, replaced')
      <4>1. disk[to] # 0 => disk[to] \in 1..made
        BY <1>0, <3>3
      <4>2. QED
        BY <3>1, <3>5, <4>1 DEF AddsOwn
    <3>7. AddsOwn(t, uploaded, uploaded') /\ AddsOwn(t, trash, trash')
      BY <3>1 DEF AddsOwn
    <3>8. Accounted'
      <4>1. SUFFICES ASSUME NEW x \in 1..made
                     PROVE  x \in {disk'[p] : p \in ToolFile} \cup outside'
                                  \cup {pair[1] : pair \in trash' \cup replaced'}
        BY <3>1 DEF Accounted
      <4>2. CASE \E p \in ToolFile : x = disk[p]
        <5>1. PICK p \in ToolFile : x = disk[p]
          BY <4>2
        <5>2. CASE p = to
          <6>1. <<x, t>> \in replaced'
            BY <1>0, <3>1, <4>1, <5>1, <5>2
          <6>2. <<x, t>>[1] = x
            OBVIOUS
          <6>3. QED
            BY <6>1, <6>2
        <5>3. CASE p = from /\ p # to
          BY <1>0, <3>1, <3>2, <5>1, <5>3
        <5>4. CASE p \notin {from, to}
          BY <1>0, <3>1, <5>1, <5>4
        <5>5. QED
          BY <5>2, <5>3, <5>4
      <4>3. CASE x \in outside \/ \E pair \in trash \cup replaced : x = pair[1]
        BY <3>1, <4>3
      <4>4. QED
        BY <1>0, <4>2, <4>3 DEF Accounted
    <3>9. QED
      BY <3>1, <3>4, <3>5, <3>6, <3>7, <3>8, CallStep
  <2>3. QED
    BY <2>1, <2>2
<1>5. ASSUME NEW t \in Tool, DeleteFile(t)
      PROVE  ToolsInv'
  <2> DEFINE path == job[t].from
  <2>1. PICK s \in {"done", "failed"} : phase' = [phase EXCEPT ![t] = s]
    BY <1>5 DEF DeleteFile, Reached
  <2>2. /\ phase[t] = "checked"
        /\ UNCHANGED <<job, approved, made, observed, replaced, uploaded, outside>>
        /\ \/ /\ disk[path] # 0
              /\ disk' = [disk EXCEPT ![path] = 0]
              /\ trash' = trash \cup {<<disk[path], t>>}
           \/ UNCHANGED <<disk, trash>>
    BY <1>5 DEF DeleteFile, Trash
  <2>3. path \in ToolFile
    BY <1>a, <1>b
  <2> HIDE DEF path
  <2>4. disk[path] \in 0..made
    BY <1>0, <2>3
  <2>5. Advances(t) /\ phase'[t] \in {"done", "failed"}
    BY <1>0, <2>1, <2>2 DEF Advances, FilesTypeOK
  <2>6. /\ made' \in made..MaxState /\ disk' \in [ToolFile -> 0..made']
        /\ outside' \subseteq 1..made'
    BY <1>0, <2>2, <2>3 DEF FilesTypeOK
  <2>7. AddsOwn(t, trash, trash')
    <3>1. disk[path] # 0 => disk[path] \in 1..made
      BY <1>0, <2>4
    <3>2. QED
      BY <2>2, <2>5, <3>1 DEF AddsOwn
  <2>8. AddsOwn(t, uploaded, uploaded') /\ AddsOwn(t, replaced, replaced')
    BY <2>2 DEF AddsOwn
  <2>9. Accounted'
    <3>1. SUFFICES ASSUME NEW x \in 1..made
                   PROVE  x \in {disk'[p] : p \in ToolFile} \cup outside'
                                \cup {pair[1] : pair \in trash' \cup replaced'}
      BY <2>2 DEF Accounted
    <3>2. CASE \E p \in ToolFile : x = disk[p]
      <4>1. PICK p \in ToolFile : x = disk[p]
        BY <3>2
      <4>2. CASE p = path /\ disk' # disk
        <5>1. <<x, t>> \in trash'
          BY <2>2, <4>1, <4>2
        <5>2. <<x, t>>[1] = x
          OBVIOUS
        <5>3. QED
          BY <5>1, <5>2
      <4>3. CASE p # path \/ disk' = disk
        BY <1>0, <2>2, <4>1, <4>3
      <4>4. QED
        BY <4>2, <4>3
    <3>3. CASE x \in outside \/ \E pair \in trash \cup replaced : x = pair[1]
      BY <2>2, <3>3
    <3>4. QED
      BY <1>0, <3>2, <3>3 DEF Accounted
  <2>10. QED
    BY <2>2, <2>5, <2>6, <2>7, <2>8, <2>9, CallStep
<1>6. ASSUME NEW t \in Tool, SendFile(t)
      PROVE  ToolsInv'
  <2> DEFINE path == job[t].from
  <2>1. PICK s \in {"done", "failed"} : phase' = [phase EXCEPT ![t] = s]
    BY <1>6 DEF SendFile, Reached
  <2>2. /\ phase[t] = "checked"
        /\ UNCHANGED <<job, approved, disk, made, observed, trash, replaced, outside>>
        /\ \/ disk[path] # 0 /\ uploaded' = uploaded \cup {<<disk[path], t>>}
           \/ UNCHANGED uploaded
    BY <1>6 DEF SendFile
  <2>3. path \in ToolFile
    BY <1>a, <1>b
  <2> HIDE DEF path
  <2>4. disk[path] \in 0..made
    BY <1>0, <2>3
  <2>5. Advances(t) /\ phase'[t] \in {"done", "failed"}
    BY <1>0, <2>1, <2>2 DEF Advances, FilesTypeOK
  <2>6. /\ made' \in made..MaxState /\ disk' \in [ToolFile -> 0..made']
        /\ outside' \subseteq 1..made' /\ Accounted'
    BY <1>0, <2>2 DEF FilesTypeOK, Accounted
  <2>7. AddsOwn(t, uploaded, uploaded')
    <3>1. disk[path] # 0 => disk[path] \in 1..made
      BY <1>0, <2>4
    <3>2. QED
      BY <2>2, <2>5, <3>1 DEF AddsOwn
  <2>8. AddsOwn(t, trash, trash') /\ AddsOwn(t, replaced, replaced')
    BY <2>2 DEF AddsOwn
  <2>9. QED
    BY <2>2, <2>5, <2>6, <2>7, <2>8, CallStep
<1>7. ASSUME NEW p \in ToolFile, ChangeOutside(p)
      PROVE  ToolsInv'
  <2>1. /\ \/ made < MaxState /\ made' = made + 1 /\ disk' = [disk EXCEPT ![p] = made']
           \/ disk' = [disk EXCEPT ![p] = 0] /\ made' = made
        /\ outside' = outside \cup ({disk[p]} \ {0})
        /\ UNCHANGED <<job, phase, approved, observed, trash, replaced, uploaded>>
    BY <1>7 DEF ChangeOutside
  <2>2. disk[p] \in 0..made
    BY <1>0
  <2>3. /\ made' \in made..MaxState /\ 1..made \subseteq 1..made'
        /\ disk' \in [ToolFile -> 0..made']
    BY <1>0, <2>1
  <2>4. outside' \subseteq 1..made'
    <3>1. {disk[p]} \ {0} \subseteq 1..made /\ outside \subseteq 1..made
      BY <1>0, <2>2 DEF FilesTypeOK
    <3>2. QED
      BY <2>1, <2>3, <3>1
  <2>5. (1..made) \X Tool \subseteq (1..made') \X Tool
    BY <2>3
  <2>6. FilesTypeOK'
    <3>1. /\ trash \subseteq (1..made') \X Tool /\ replaced \subseteq (1..made') \X Tool
          /\ uploaded \subseteq (1..made') \X Tool
      BY <1>0, <2>5 DEF FilesTypeOK
    <3>2. made' \in 0..MaxState
      BY <1>0, <2>3
    <3>3. QED
      BY <1>0, <2>1, <2>3, <2>4, <3>1, <3>2 DEF FilesTypeOK
  <2>7. (\A t \in Tool : Seen(t)') /\ Over(replaced)' /\ Over(uploaded)' /\ Over(trash)'
    BY <1>0, <2>1 DEF Seen, Over, ApprovedState
  <2>8. Accounted'
    <3>1. SUFFICES ASSUME NEW x \in 1..made'
                   PROVE  x \in {disk'[q] : q \in ToolFile} \cup outside'
                                \cup {pair[1] : pair \in trash' \cup replaced'}
      BY DEF Accounted
    <3>2. CASE x \notin 1..made
      BY <1>0, <2>1, <3>2
    <3>3. CASE \E q \in ToolFile : x = disk[q]
      <4>1. PICK q \in ToolFile : x = disk[q]
        BY <3>3
      <4>2. x # 0
        BY <2>3, <1>0
      <4>3. CASE q = p
        BY <2>1, <4>1, <4>2, <4>3
      <4>4. CASE q # p
        BY <1>0, <2>1, <4>1, <4>4
      <4>5. QED
        BY <4>3, <4>4
    <3>4. CASE x \in outside \/ \E pair \in trash \cup replaced : x = pair[1]
      BY <2>1, <3>4
    <3>5. QED
      BY <1>0, <3>2, <3>3, <3>4 DEF Accounted
  <2>9. OnlyApprovedContent'
    <3>1. /\ ApprovedOrNewer(replaced)' /\ ApprovedOrNewer(uploaded)' /\ ApprovedOrNewer(trash)'
      BY <1>0, <2>1 DEF OnlyApprovedContent, ApprovedOrNewer, ApprovedState
    <3>2. QED
      BY <2>8, <3>1 DEF OnlyApprovedContent, Accounted
  <2>10. QED
    BY <2>6, <2>7, <2>9 DEF ToolsInv
<1>8. CASE UNCHANGED fileVars
  BY <1>0, <1>8 DEF fileVars, ToolsInv, FilesTypeOK, Seen, Over, OnlyApprovedContent,
                    ApprovedOrNewer, ApprovedState
<1>9. QED
  BY <1>1, <1>2, <1>3, <1>4, <1>5, <1>6, <1>7, <1>8 DEF FilesNext

LEMMA FilesInductive == FilesSpec => []ToolsInv
BY FilesStart, FilesStep, PTL DEF FilesSpec
-----------------------------------------------------------------------------
(* The search of files. *)

(* The entries the search has looked at: those of the folders it has        *)
(* visited that are not waiting. As long as every folder could be read, the *)
(* matches are theirs.                                                      *)
LookedAt == {e \in Item : tree.at[e] \notin walk /\ e \notin current}
FindInv ==
    /\ FindTypeOK
    /\ \A e \in current : tree.at[e] \notin walk
    /\ ~errors => matches = UNION {MatchesWith(e) : e \in LookedAt}
    /\ SilentMeansComplete

LEMMA FindStart == FindInit => FindInv
<1> SUFFICES ASSUME FindInit
             PROVE  FindInv
  OBVIOUS
<1>1. FindTypeOK
  BY DEF FindInit, FindTypeOK, NoAnswer
<1>2. LookedAt = {}
  BY DEF FindInit, LookedAt, Trees
<1>3. QED
  BY <1>1, <1>2 DEF FindInit, FindInv, SilentMeansComplete, NoAnswer

(* What an entry matches is fixed by the tree and the question.             *)
LEMMA MatchesTyped ==
    ASSUME FindTypeOK, NEW e \in Item
    PROVE  MatchesWith(e) \subseteq Item \X Query \X {"exact", "fuzzy"}
<1>1. ASSUME NEW q \in asked.names, Resembles(e, q)
      PROVE  <<e, q, tree.like[<<e, q>>]>> \in Item \X Query \X {"exact", "fuzzy"}
  <2>1. q \in Query
    BY DEF FindTypeOK, Questions
  <2>2. tree.like[<<e, q>>] \in {"exact", "fuzzy"}
    BY <1>1 DEF Resembles
  <2>3. QED
    BY <2>1, <2>2
<1>2. QED
  BY <1>1 DEF MatchesWith

(* Of the matches counted for a name each is one of its own.                *)
LEMMA CountedIsOfItsName ==
    ASSUME NEW ms, NEW q, NEW m \in Counted(q, ms)
    PROVE  m \in ms /\ m[2] = q
BY DEF Counted, MatchesOf

LEMMA PathsAreItems ==
    ASSUME FindTypeOK
    PROVE  {m[1] : m \in AllCounted(matches)} \subseteq Item
<1>1. ASSUME NEW m \in AllCounted(matches)
      PROVE  m[1] \in Item
  <2>1. m \in matches
    BY <1>1, CountedIsOfItsName DEF AllCounted
  <2>2. QED
    BY <2>1 DEF FindTypeOK
<1>2. QED
  BY <1>1

(* A list that kept as many paths as there were kept them all, and a name   *)
(* that is credited with a path is matched.                                 *)
LEMMA SilentConclusion ==
    ASSUME FindInv, Conclude, ~result'.needs
    PROVE  /\ matches = Wanted
           /\ result'.paths = {m[1] : m \in AllCounted(matches)}
           /\ \A q \in asked.names : Counted(q, matches) # {}
<1> DEFINE paths == {m[1] : m \in AllCounted(matches)}
<1>1. PICK credit \in [paths -> matches], kept \in SUBSET paths :
          /\ \A e \in paths : credit[e] \in Best(e, matches)
          /\ Cardinality(kept) = (IF Cardinality(paths) > MaxFound THEN MaxFound
                                  ELSE Cardinality(paths))
          /\ LET partial == timedOut \/ errors \/ Cardinality(paths) > MaxFound
                 missed == {q \in asked.names : \A e \in kept : credit[e][2] # q}
             IN  result' = [paths |-> kept, partial |-> partial, given |-> TRUE,
                            needs |-> \/ Cardinality(kept) # asked.count
                                      \/ missed # {}
                                      \/ partial]
  BY DEF Conclude
<1>2. /\ ~timedOut /\ ~errors /\ ~(Cardinality(paths) > MaxFound)
      /\ result'.paths = kept
      /\ \A q \in asked.names : \E e \in kept : credit[e][2] = q
  BY <1>1
<1>3. matches = Wanted
  <2>1. walk = {} /\ current = {}
    BY <1>2 DEF Conclude
  <2>2. LookedAt = Item
    BY <2>1 DEF LookedAt
  <2>3. QED
    BY <1>2, <2>2 DEF FindInv, Wanted
<1>4. paths \subseteq Item
  BY PathsAreItems DEF FindInv
<1>5. IsFiniteSet(paths)
  BY <1>4, FindAssumption, FS_Subset
<1>6. kept = paths
  <2>1. Cardinality(kept) = Cardinality(paths) /\ kept \subseteq paths
    BY <1>1, <1>2
  <2> HIDE DEF paths
  <2>2. QED
    BY <1>5, <2>1, FS_Subset
<1>7. ASSUME NEW q \in asked.names
      PROVE  Counted(q, matches) # {}
  <2>1. PICK e \in kept : credit[e][2] = q
    BY <1>2
  <2>2. credit[e] \in AllCounted(matches)
    BY <1>1, <2>1 DEF Best
  <2>3. PICK p \in asked.names : credit[e] \in Counted(p, matches)
    BY <2>2 DEF AllCounted
  <2>4. p = q
    BY <2>1, <2>3, CountedIsOfItsName
  <2>5. QED
    BY <2>3, <2>4
<1>8. QED
  BY <1>2, <1>3, <1>6, <1>7

LEMMA FindStep ==
    ASSUME FindInv, [FindNext]_findVars
    PROVE  FindInv'
<1>0. /\ FindTypeOK /\ \A e \in current : tree.at[e] \notin walk
      /\ ~errors => matches = UNION {MatchesWith(e) : e \in LookedAt}
      /\ SilentMeansComplete
  BY DEF FindInv
<1>1. ASSUME UNCHANGED <<tree, asked>>
      PROVE  /\ \A e : MatchesWith(e)' = MatchesWith(e)
             /\ Wanted' = Wanted
             /\ \A q, ms : Counted(q, ms)' = Counted(q, ms)
             /\ \A ms : AllCounted(ms)' = AllCounted(ms)
  BY <1>1 DEF MatchesWith, Resembles, Wanted, Counted, MatchesOf, AllCounted
<1>2. ASSUME UNCHANGED <<tree, asked>>, UNCHANGED result
      PROVE  SilentMeansComplete'
  BY <1>0, <1>1, <1>2 DEF SilentMeansComplete
<1>3. ASSUME NEW d \in Folder, VisitFolder(d)
      PROVE  FindInv'
  <2>1. UNCHANGED <<tree, asked, matches, timedOut, result>> /\ current = {} /\ d \in walk
    BY <1>3 DEF VisitFolder
  <2>2. CASE d \in tree.readable
    <3>1. walk' = walk \ {d} /\ current' = {e \in Item : tree.at[e] = d} /\ errors' = errors
      BY <1>3, <2>2 DEF VisitFolder
    <3>2. FindTypeOK'
      BY <1>0, <2>1, <3>1 DEF FindTypeOK
    <3>3. \A e \in current' : tree'.at[e] \notin walk'
      BY <2>1, <3>1
    <3>4. LookedAt' = LookedAt
      BY <2>1, <3>1 DEF LookedAt
    <3>5. ~errors' => matches' = UNION {MatchesWith(e)' : e \in LookedAt'}
      BY <1>0, <1>1, <2>1, <3>1, <3>4
    <3>6. QED
      BY <1>2, <2>1, <3>2, <3>3, <3>5 DEF FindInv
  <2>3. CASE d \notin tree.readable
    <3>1. walk' = walk \ {d} /\ errors' /\ errors' = TRUE /\ current' = current
      BY <1>3, <2>3 DEF VisitFolder
    <3>2. FindTypeOK'
      BY <1>0, <2>1, <3>1 DEF FindTypeOK
    <3>3. \A e \in current' : tree'.at[e] \notin walk'
      BY <2>1, <3>1
    <3>4. QED
      BY <1>2, <2>1, <3>1, <3>2, <3>3 DEF FindInv
  <2>4. QED
    BY <2>2, <2>3
<1>4. ASSUME NEW e \in Item, LookAt(e)
      PROVE  FindInv'
  <2>1. /\ e \in current /\ current' = current \ {e}
        /\ matches' = matches \cup MatchesWith(e)
        /\ UNCHANGED <<tree, asked, walk, errors, timedOut, result>>
    BY <1>4 DEF LookAt
  <2>2. FindTypeOK'
    BY <1>0, <2>1, MatchesTyped DEF FindTypeOK
  <2>3. \A x \in current' : tree'.at[x] \notin walk'
    BY <1>0, <2>1
  <2>4. LookedAt' = LookedAt \cup {e}
    BY <1>0, <2>1 DEF LookedAt
  <2>5. ASSUME ~errors'
        PROVE  matches' = UNION {MatchesWith(x)' : x \in LookedAt'}
    <3>1. matches = UNION {MatchesWith(x) : x \in LookedAt}
      BY <1>0, <2>1, <2>5
    <3>2. \A x : MatchesWith(x)' = MatchesWith(x)
      BY <1>1, <2>1
    <3>3. QED
      BY <2>1, <2>4, <3>1, <3>2
  <2>6. QED
    BY <1>2, <2>1, <2>2, <2>3, <2>5 DEF FindInv
<1>5. CASE RunOutOfTime
  <2>1. timedOut' = TRUE /\ UNCHANGED <<tree, asked, walk, current, matches, errors, result>>
    BY <1>5 DEF RunOutOfTime
  <2>2. FindTypeOK'
    BY <1>0, <2>1 DEF FindTypeOK
  <2>3. LookedAt' = LookedAt
    BY <2>1 DEF LookedAt
  <2>4. ~errors' => matches' = UNION {MatchesWith(e)' : e \in LookedAt'}
    BY <1>0, <1>1, <2>1, <2>3
  <2>5. QED
    BY <1>0, <1>2, <2>1, <2>2, <2>4 DEF FindInv
<1>6. CASE Conclude
  <2>1. UNCHANGED <<tree, asked, walk, current, matches, errors, timedOut>>
    BY <1>6 DEF Conclude
  <2>2. result' \in [paths : SUBSET Item, needs : BOOLEAN, partial : BOOLEAN, given : BOOLEAN]
    <3> DEFINE paths == {m[1] : m \in AllCounted(matches)}
    <3>1. PICK credit \in [paths -> matches], kept \in SUBSET paths :
             LET partial == timedOut \/ errors \/ Cardinality(paths) > MaxFound
                 missed == {q \in asked.names : \A e \in kept : credit[e][2] # q}
             IN  result' = [paths |-> kept, partial |-> partial, given |-> TRUE,
                            needs |-> \/ Cardinality(kept) # asked.count
                                      \/ missed # {}
                                      \/ partial]
      BY <1>6 DEF Conclude
    <3>2. kept \in SUBSET Item
      BY <1>0, <3>1, PathsAreItems
    <3> DEFINE partial == timedOut \/ errors \/ Cardinality(paths) > MaxFound
               needs == \/ Cardinality(kept) # asked.count
                        \/ {q \in asked.names : \A e \in kept : credit[e][2] # q} # {}
                        \/ partial
    <3>3. partial \in BOOLEAN /\ needs \in BOOLEAN
      OBVIOUS
    <3>4. result' = [paths |-> kept, partial |-> partial, given |-> TRUE, needs |-> needs]
      BY <3>1
    <3> HIDE DEF paths, partial, needs
    <3>5. QED
      BY <3>2, <3>3, <3>4
  <2>3. FindTypeOK'
    BY <1>0, <2>1, <2>2 DEF FindTypeOK
  <2>4. LookedAt' = LookedAt
    BY <2>1 DEF LookedAt
  <2>5. ~errors' => matches' = UNION {MatchesWith(e)' : e \in LookedAt'}
    BY <1>0, <1>1, <2>1, <2>4
  <2>6. SilentMeansComplete'
    BY <1>1, <1>6, <2>1, SilentConclusion DEF SilentMeansComplete
  <2>7. QED
    BY <1>0, <2>1, <2>3, <2>5, <2>6 DEF FindInv
<1>7. CASE UNCHANGED findVars
  <2>1. UNCHANGED <<tree, asked>> /\ UNCHANGED result
    BY <1>7 DEF findVars
  <2>2. LookedAt' = LookedAt
    BY <1>7 DEF findVars, LookedAt
  <2>3. ~errors' => matches' = UNION {MatchesWith(e)' : e \in LookedAt'}
    BY <1>0, <1>1, <1>7, <2>1, <2>2 DEF findVars
  <2>4. QED
    BY <1>0, <1>2, <1>7, <2>1, <2>3 DEF findVars, FindInv, FindTypeOK
<1>8. QED
  BY <1>3, <1>4, <1>5, <1>6, <1>7 DEF FindNext

LEMMA FindInductive == FindSpec => []FindInv
BY FindStart, FindStep, PTL DEF FindSpec
-----------------------------------------------------------------------------
(* What the parts promise. *)

(* However messages and changes of the provider interleave, an approval     *)
(* that comes without an image or an attachment never goes to a model, only *)
(* an explicit request to Codex, nothing to a Hermes that is disabled, and  *)
(* an image only to a provider that sees (routing/engine.py, and            *)
(* agent/service.py up to the model).                                       *)
THEOREM RoutesStay == DispatchSpec => []MessagesStayWhereTheyBelong
<1>1. DispatchInv => MessagesStayWhereTheyBelong
  BY DEF DispatchInv
<1>2. QED
  BY DispatchInductive, <1>1, PTL

(* However a stream is cut into pieces and wherever it breaks off, what the *)
(* adapter for OpenAI gives to a turn is the whole of an answer that its    *)
(* server called complete, with every call intact (models/openai.py).       *)
THEOREM AnswersStayWhole == StreamSpec => []AnswersAreWhole
<1>1. StreamInv => AnswersAreWhole
  BY DEF StreamInv
<1>2. QED
  BY StreamInductive, <1>1, PTL

(* Whatever blocks are put in at whatever depth and however much is         *)
(* trimmed, what is pinned stays first, the constraints last, every block   *)
(* before as many of the newest messages as its depth says, the history in  *)
(* order with its newest part left and no more given up than the limit      *)
(* asks for, and a request that is sent fits (personality/compiler.py).     *)
THEOREM PromptsKeepTheirShape == PromptSpec => []PromptKeepsItsShape
<1>1. PromptInv /\ TrimInv /\ DepthInv => PromptKeepsItsShape
  <2> SUFFICES ASSUME PromptInv, TrimInv, DepthInv, assembly \in {"ready", "refused"}
               PROVE  PinsStay /\ HistoryIsNewest /\ EndsAsItFits /\ TrimIsForced /\ DepthsHold
    BY DEF PromptKeepsItsShape
  <2>1. DepthsHold
    BY DEF DepthInv, BlockHolds, DepthsHold
  <2>2. TrimIsForced
    BY DEF TrimInv
  <2>3. QED
    BY PromptProperty, <2>1, <2>2
<1>2. QED
  BY PromptInductive, TrimInductive, DepthInductive, <1>1, PTL

(* Whatever the entries' triggers, groups, timers and costs are, what is    *)
(* placed into a prompt is one entry of each group, none that still rests   *)
(* or waits, and of every book what its budget allows                       *)
(* (personality/worldbook.py).                                              *)
THEOREM LoreStaysBounded == WorldSpec => []LoreIsBounded
<1>1. WorldInv /\ BudgetInv => LoreIsBounded
  BY WorldProperty DEF BudgetInv, LoreIsBounded
<1>2. QED
  BY WorldInductive, BudgetInductive, <1>1, PTL

(* However often character, profile, persona and lorebook are edited and    *)
(* put back after a prompt was compiled, its trace names the revisions that *)
(* hold what it was compiled from (personality/store.py, compiler.py).      *)
THEOREM TracesStayTrue == PersonalitySpec => []TracesTellWhatWasUsed
<1>1. PersonInv => TracesTellWhatWasUsed
  BY PersonalityProperty
<1>2. QED
  BY PersonalityInductive, <1>1, PTL

(* Wherever a change of the provider breaks off, what runs and what would   *)
(* run after a restart is an endpoint with the key the owner gave for it    *)
(* (application/configuration.py).                                          *)
THEOREM KeysStayPut == ModelConfigSpec => []KeysStayWithTheirEndpoint
<1>1. ConfigInv => KeysStayWithTheirEndpoint
  BY PairsAreTheOwners
<1>2. QED
  BY ConfigInductive, <1>1, PTL

(* However uploads, messages and deletions of their sessions interleave,    *)
(* fail and crash, an upload refused for a deleted session has left no      *)
(* file, a kept one has its receipt as long as its session is there, and a  *)
(* stored message has all its attachments to itself (storage/receipts.py,   *)
(* storage/sessions.py).                                                    *)
THEOREM FilesStayOwned == SessionFilesSpec => []FilesHaveOwners
<1>1. SessionInv => FilesHaveOwners
  BY DEF SessionInv
<1>2. QED
  BY SessionInductive, <1>1, PTL

(* However the calls of the file tools interleave with each other and with  *)
(* changes from outside, what one replaced, trashed or sent is what was     *)
(* approved or came after the last check, and no content is removed for     *)
(* good (tools/files.py).                                                   *)
THEOREM ContentStaysApproved == FilesSpec => []OnlyApprovedContent
<1>1. ToolsInv => OnlyApprovedContent
  BY DEF ToolsInv
<1>2. QED
  BY FilesInductive, <1>1, PTL

(* Wherever a search runs out of time or of permissions, one that does not  *)
(* ask the owner to decide has found every match (tools/files.py).          *)
THEOREM SilenceStaysComplete == FindSpec => []SilentMeansComplete
<1>1. FindInv => SilentMeansComplete
  BY DEF FindInv
<1>2. QED
  BY FindInductive, <1>1, PTL
-----------------------------------------------------------------------------
(* The server: while one part runs the others keep still.                   *)

LEMMA PartsStart ==
    ServerInit => /\ part \in Parts
                  /\ Init /\ DispatchInit /\ StreamInit /\ PromptInit /\ WorldInit
                  /\ PersonalityInit /\ ModelConfigInit /\ SessionFilesInit
                  /\ FilesInit /\ FindInit
BY DEF ServerInit

LEMMA PartsStep ==
    ASSUME [ServerNext]_serverVars
    PROVE  /\ [Next]_vars /\ [DispatchNext]_dispatchVars /\ [StreamNext]_streamVars
           /\ [PromptNext]_promptVars /\ [WorldNext]_worldVars
           /\ [PersonalityNext]_personVars /\ [ModelConfigNext]_configVars
           /\ [SessionFilesNext]_sessionVars /\ [FilesNext]_fileVars
           /\ [FindNext]_findVars
           /\ part \in Parts => part' \in Parts
BY DEF ServerNext, serverVars, Runs

LEMMA PartsRun ==
    ServerSpec => /\ Spec /\ DispatchSpec /\ StreamSpec /\ PromptSpec /\ WorldSpec
                  /\ PersonalitySpec /\ ModelConfigSpec /\ SessionFilesSpec
                  /\ FilesSpec /\ FindSpec
                  /\ [](part \in Parts)
<1>1. [ServerNext]_serverVars =>
          /\ [Next]_vars /\ [DispatchNext]_dispatchVars /\ [StreamNext]_streamVars
          /\ [PromptNext]_promptVars /\ [WorldNext]_worldVars
          /\ [PersonalityNext]_personVars /\ [ModelConfigNext]_configVars
          /\ [SessionFilesNext]_sessionVars /\ [FilesNext]_fileVars
          /\ [FindNext]_findVars
          /\ part \in Parts => (part \in Parts)'
  BY PartsStep
<1>2. QED
  BY PartsStart, <1>1, PTL
     DEF ServerSpec, Spec, DispatchSpec, StreamSpec, PromptSpec, WorldSpec, PersonalitySpec,
         ModelConfigSpec, SessionFilesSpec, FilesSpec, FindSpec

(* For any sizes, the part that runs keeps its types.                       *)
THEOREM ServerTypeCorrect == ServerSpec => []ServerTypeOK
<1>1. /\ TypeOK /\ DispatchInv /\ StreamInv /\ PromptInv /\ WorldInv /\ PersonInv
      /\ ConfigInv /\ SessionInv /\ ToolsInv /\ FindInv /\ part \in Parts
      => ServerTypeOK
  BY DEF Parts, ServerTypeOK, DispatchInv, StreamInv, PromptInv, WorldInv, PersonInv, ConfigInv,
         SessionInv, ToolsInv, FindInv
<1>2. QED
  BY PartsRun, TypeCorrect, DispatchInductive, StreamInductive, PromptInductive,
     WorldInductive, PersonalityInductive, ConfigInductive, SessionInductive,
     FilesInductive, FindInductive, <1>1, PTL

(* Each part's promise holds for the server they make up: messages, answers *)
(* and prompts, traces, keys and files, and the tools that touch them.      *)
THEOREM ServerKeepsItsPromises ==
    ServerSpec => [](/\ RestoreIsWhole
                     /\ MessagesStayWhereTheyBelong
                     /\ AnswersAreWhole
                     /\ PromptIsInShape
                     /\ TracesTellWhatWasUsed
                     /\ KeysStayWithTheirEndpoint
                     /\ FilesHaveOwners
                     /\ FileToolsAreHonest)
<1>1. /\ LoreIsBounded /\ PromptKeepsItsShape => PromptIsInShape
      /\ OnlyApprovedContent /\ SilentMeansComplete => FileToolsAreHonest
  BY DEF PromptIsInShape, FileToolsAreHonest
<1>2. QED
  BY PartsRun, RestoresAreWhole, RoutesStay, AnswersStayWhole, LoreStaysBounded,
     PromptsKeepTheirShape, TracesStayTrue, KeysStayPut, FilesStayOwned,
     ContentStaysApproved, SilenceStaysComplete, <1>1, PTL

(* Every prompt of the server has the shape and the lore it should have.    *)
THEOREM PromptsStayInShape == ServerSpec => []PromptIsInShape
<1>1. LoreIsBounded /\ PromptKeepsItsShape => PromptIsInShape
  BY DEF PromptIsInShape
<1>2. QED
  BY PartsRun, LoreStaysBounded, PromptsKeepTheirShape, <1>1, PTL

(* Every file tool of the server acts on approved content only, and stays   *)
(* silent only when it saw everything.                                      *)
THEOREM ToolsStayHonest == ServerSpec => []FileToolsAreHonest
<1>1. OnlyApprovedContent /\ SilentMeansComplete => FileToolsAreHonest
  BY DEF FileToolsAreHonest
<1>2. QED
  BY PartsRun, ContentStaysApproved, SilenceStaysComplete, <1>1, PTL

=============================================================================
