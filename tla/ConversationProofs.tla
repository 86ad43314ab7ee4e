-------------------------- MODULE ConversationProofs --------------------------
(***************************************************************************)
(* Machine-checked proofs about the driver loop, for any agents, answers of*)
(* the model, folds and depths of the stack.                               *)
(*                                                                         *)
(* Messages: those not dropped or abandoned stand in one line, from the    *)
(* first one heard to the last one sent; every action moves a border in the*)
(* line, takes a block out of it or appends to it (LineOK).                *)
(*                                                                         *)
(* Transcripts: what GapsExplained and AnswersFollowCalls say of a frame   *)
(* holds because the calls still to be dispatched, and the one a child     *)
(* answers, are open in the history of their frame (TopOK, PausedOK), and  *)
(* because a new round or seed is newer than all there is (Recent).        *)
(***************************************************************************)
EXTENDS Conversation, Caffeinate, TLAPS, SequenceTheorems, FiniteSetTheorems

Messages == 1..MaxMessages
CallSet  == [round : Nat, index : Nat, tool : {Plain, "seed", "none"} \cup Structural]
Kinds    == {"none", "user", "brief", "assistant", "result", "guidance", "summary"}
Entries  ==
    {e \in [kind : Kinds, msgs : Seq(Messages), calls : Seq(CallSet)] :
        /\ e.kind # "user" => e.msgs = <<>>
        /\ e.kind = "result" => Len(e.calls) = 1
        /\ e.kind \notin {"assistant", "result"} => e.calls = <<>>}
Frames   == [agent : Agents \cup {Child}, history : Seq(Entries), answering : CallSet]

Undispatched == pc \in {"dispatching", "delegated"}

\* The types TypeOK leaves open, and which variables are empty where.
ShapeOK ==
    /\ prompt \in Entries /\ prompt.kind \in {"none", "user", "brief", "result"}
    /\ calls \in Seq(CallSet)
    /\ stack \in Seq(Frames)
    /\ heard \in Seq(Messages)
    /\ abandoned \subseteq Entries
    /\ rounds \in Nat
    /\ batch # <<>> => pc = "screening"
    /\ pc = "delegated" => calls # <<>> /\ calls = <<Next1>>
    /\ pc = "dispatching" /\ calls = <<>> =>
         Top.history # <<>> /\ Last(Top.history).kind = "result"

\* The messages that are neither dropped nor abandoned, in the order they are heard.
Line == heard \o (prompt.msgs \o (batch \o input))

Ascending(s) == \A i, j \in DOMAIN s : i < j => s[i] < s[j]

LineOK ==
    /\ Ascending(Line)
    /\ 1..sent = Range(Line) \cup refused \cup InPrompts
    /\ Range(Line) \cap refused = {} /\ Range(Line) \cap InPrompts = {}
    /\ refused \cap InPrompts = {}

\* What AnswersFollowCalls says of one transcript.
Good(es) ==
    \A i \in DOMAIN es : es[i].kind = "result" =>
        (Follows(es, i) \/ OutlivedItsCall(es, i)) /\ AnsweredOnce(es, i)

\* A summary with nothing but seeds after it.
Swallowed(h) ==
    \E k \in 1..Len(h) :
        /\ h[k].kind = "summary"
        /\ \A j \in k..Len(h) : \A c \in Range(h[j].calls) : c.tool = "seed"

MayAnswer(h, c) == (c \in CallsOf(h) \/ Swallowed(h)) /\ c \notin AnswersIn(h)

\* Calls without a result, and all calls a history speaks of.
Open(h)  == CallsOf(h) \ AnswersIn(h)
Known(h) == CallsOf(h) \cup AnswersIn(h)

\* Rounds are numbered upwards, and a round that is being dispatched has no seed yet.
Recent(c) ==
    /\ c.round <= rounds
    /\ Undispatched /\ c.tool = "seed" => c.round < rounds

\* The calls left of the last round come in order, and none is a seed.
InOrder ==
    /\ \A i \in DOMAIN calls : calls[i].round = rounds /\ calls[i].tool \in {Plain} \cup Structural
    /\ \A i, j \in DOMAIN calls : i < j => calls[i].index < calls[j].index

Explained(h, c) == Skipped(h, c) \/ Answer(c) \in abandoned \/ pc = "gone"

\* The frame on top: every open call is still to be dispatched, is answered by the
\* prompt, or is explained.
TopOK ==
    LET h == Top.history IN
    /\ Good(Append(h, prompt))
    /\ Range(calls) \subseteq Open(h) /\ InOrder
    /\ \A c \in Known(h) \cup Range(prompt.calls) : Recent(c)
    /\ \A c \in Open(h) :
         c \in Range(calls) \/ c \in Range(prompt.calls) \/ Explained(h, c)

\* A frame below: the call that the frame above answers is open.
PausedOK(d) ==
    LET h == stack[d].history
        a == stack[d + 1].answering
    IN  /\ Good(h) /\ a \in Open(h)
        /\ \A c \in Known(h) : Recent(c)
        /\ \A c \in Open(h) : c = a \/ Explained(h, c)

TranscriptsOK == TopOK /\ \A d \in 1..Len(stack) - 1 : PausedOK(d)

IInv == TypeOK /\ ShapeOK /\ LineOK /\ TranscriptsOK

-----------------------------------------------------------------------------
(***************************************************************************)
(* Sequences.                                                              *)
(***************************************************************************)
LEMMA RangeAppend ==
    ASSUME NEW S, NEW s \in Seq(S), NEW e \in S
    PROVE  Range(Append(s, e)) = Range(s) \cup {e}
<1>1. Append(s, e) \in Seq(S) /\ Len(Append(s, e)) = Len(s) + 1 /\ Len(s) \in Nat
  BY AppendProperties, LenProperties
<1>2. \A i \in 1..Len(s) : Append(s, e)[i] = s[i]
  BY AppendProperties
<1>3. Append(s, e)[Len(s) + 1] = e
  BY AppendProperties
<1>4. Range(Append(s, e)) = {Append(s, e)[i] : i \in 1..Len(s) + 1}
  BY <1>1, RangeEquality
<1>5. Range(s) = {s[i] : i \in 1..Len(s)}
  BY RangeEquality
<1>6. \A i \in 1..Len(s) + 1 : i \in 1..Len(s) \/ i = Len(s) + 1
  BY <1>1
<1>7. 1..Len(s) \subseteq 1..Len(s) + 1 /\ Len(s) + 1 \in 1..Len(s) + 1
  BY <1>1
<1> QED BY <1>2, <1>3, <1>4, <1>5, <1>6, <1>7

LEMMA RangeOfNone == Range(<<>>) = {}
<1>1. <<>> \in Seq({}) /\ Len(<<>>) = 0
  BY EmptySeq
<1>2. Range(<<>>) \in SUBSET {}
  BY <1>1, RangeOfSeq
<1> QED BY <1>2

LEMMA HeadAndTail ==
    ASSUME NEW S, NEW s \in Seq(S), s # <<>>
    PROVE  /\ Head(s) \in S /\ Tail(s) \in Seq(S)
           /\ Len(s) \in Nat \ {0} /\ Len(Tail(s)) = Len(s) - 1
           /\ s[1] = Head(s) /\ \A i \in DOMAIN Tail(s) : i + 1 \in DOMAIN s /\ Tail(s)[i] = s[i + 1]
           /\ Range(s) = {Head(s)} \cup Range(Tail(s))
<1>1. /\ Head(s) \in S /\ Tail(s) \in Seq(S) /\ Len(Tail(s)) = Len(s) - 1
      /\ \A i \in 1..Len(Tail(s)) : Tail(s)[i] = s[i + 1]
  BY HeadTailProperties
<1>2. Len(s) \in Nat \ {0} /\ DOMAIN s = 1..Len(s) /\ DOMAIN Tail(s) = 1..Len(Tail(s))
  BY <1>1, EmptySeq, LenProperties
<1>3. s[1] = Head(s)
  BY <1>2
<1>4. \A i \in DOMAIN Tail(s) : i + 1 \in DOMAIN s /\ Tail(s)[i] = s[i + 1]
  BY <1>1, <1>2
<1>5. \A i \in DOMAIN s : i = 1 \/ i - 1 \in DOMAIN Tail(s)
  BY <1>1, <1>2
<1>6. Range(s) = {Head(s)} \cup Range(Tail(s))
  <2>1. \A x \in Range(s) : x \in {Head(s)} \cup Range(Tail(s))
    <3> TAKE x \in Range(s)
    <3>1. PICK i \in DOMAIN s : x = s[i]
      BY DEF Range
    <3>2. CASE i = 1
      BY <1>3, <3>1, <3>2
    <3>3. CASE i - 1 \in DOMAIN Tail(s)
      <4>1. Tail(s)[i - 1] = s[(i - 1) + 1] /\ (i - 1) + 1 = i
        BY <1>2, <1>4, <3>3
      <4> QED BY <3>1, <3>3, <4>1 DEF Range
    <3> QED BY <1>5, <3>2, <3>3
  <2>2. Head(s) \in Range(s)
    BY <1>2, <1>3 DEF Range
  <2>3. Range(Tail(s)) \subseteq Range(s)
    BY <1>4 DEF Range
  <2> QED BY <2>1, <2>2, <2>3
<1> QED BY <1>1, <1>2, <1>3, <1>4, <1>6

LEMMA FrontAndLast ==
    ASSUME NEW S, NEW s \in Seq(S), s # <<>>
    PROVE  /\ Front(s) \in Seq(S) /\ Last(s) \in S
           /\ Len(s) \in Nat \ {0} /\ Len(Front(s)) = Len(s) - 1
           /\ \A i \in 1..Len(s) - 1 : Front(s)[i] = s[i]
           /\ s = Append(Front(s), Last(s))
<1>1. Len(s) \in Nat \ {0} /\ DOMAIN s = 1..Len(s)
  BY EmptySeq, LenProperties
<1>2. \A i \in 1..Len(s) : s[i] \in S
  BY ElementOfSeq
<1>3. /\ SubSeq(s, 1, Len(s) - 1) \in Seq(S)
      /\ Len(SubSeq(s, 1, Len(s) - 1)) = IF 1 <= Len(s) - 1 THEN (Len(s) - 1) - 1 + 1 ELSE 0
      /\ \A i \in 1..(Len(s) - 1) - 1 + 1 : SubSeq(s, 1, Len(s) - 1)[i] = s[1 + i - 1]
  <2>1. \A i \in 1..Len(s) - 1 : s[i] \in S
    BY <1>1, <1>2
  <2>2. 1 \in Int /\ Len(s) - 1 \in Int
    BY <1>1
  <2> QED BY <2>1, <2>2, SubSeqProperties
<1>4. Len(Front(s)) = Len(s) - 1
  BY <1>1, <1>3 DEF Front
<1>5. \A i \in 1..Len(s) - 1 : Front(s)[i] = s[i]
  <2> TAKE i \in 1..Len(s) - 1
  <2>1. i \in 1..(Len(s) - 1) - 1 + 1 /\ 1 + i - 1 = i
    BY <1>1
  <2> QED BY <1>3, <2>1 DEF Front
<1>6. Front(s) \in Seq(S) /\ Last(s) \in S
  BY <1>1, <1>2, <1>3 DEF Front, Last
<1>7. s = Append(Front(s), Last(s))
  <2>1. /\ Append(Front(s), Last(s)) \in Seq(S)
        /\ Len(Append(Front(s), Last(s))) = Len(Front(s)) + 1
        /\ \A i \in 1..Len(Front(s)) : Append(Front(s), Last(s))[i] = Front(s)[i]
        /\ Append(Front(s), Last(s))[Len(Front(s)) + 1] = Last(s)
    BY <1>6, AppendProperties
  <2>2. Len(Append(Front(s), Last(s))) = Len(s) /\ Len(Front(s)) + 1 = Len(s)
    BY <1>1, <1>4, <2>1
  <2>3. \A i \in 1..Len(s) : Append(Front(s), Last(s))[i] = s[i]
    <3> TAKE i \in 1..Len(s)
    <3>1. CASE i = Len(s)
      BY <1>4, <2>1, <2>2, <3>1 DEF Last
    <3>2. CASE i # Len(s)
      <4>1. Len(s) \in Nat
        BY <1>1
      <4>2. i \in 1..Len(s) - 1
        BY <3>2, <4>1
      <4> QED BY <1>4, <1>5, <2>1, <4>2
    <3> QED BY <3>1, <3>2
  <2> QED BY <2>1, <2>2, <2>3, SeqEqual
<1> QED BY <1>1, <1>4, <1>5, <1>6, <1>7

\* drain_queue cuts the input in two.
LEMMA FoldCuts ==
    ASSUME NEW S, input \in Seq(S), MaxFold \in Nat \ {0}
    PROVE  /\ Fold \in Seq(S) /\ Unfolded \in Seq(S)
           /\ Len(Fold) <= MaxFold
           /\ Fold \o Unfolded = input
           /\ input # <<>> => Fold # <<>>
           /\ input = <<>> => Fold = <<>> /\ Unfolded = <<>>
<1> DEFINE n == IF Len(input) < MaxFold THEN Len(input) ELSE MaxFold
<1>1. Len(input) \in Nat /\ n \in 0..Len(input) /\ n <= MaxFold
  BY LenProperties
<1>2. \A i \in 1..Len(input) : input[i] \in S
  BY ElementOfSeq
<1>3. SubSeq(input, 1, n) \in Seq(S) /\ Len(SubSeq(input, 1, n)) = n
  <2>1. \A i \in 1..n : input[i] \in S
    BY <1>1, <1>2
  <2>2. 1 \in Int /\ n \in Int
    BY <1>1
  <2> HIDE DEF n
  <2>3. /\ SubSeq(input, 1, n) \in Seq(S)
        /\ Len(SubSeq(input, 1, n)) = IF 1 <= n THEN n - 1 + 1 ELSE 0
    BY <2>1, <2>2, SubSeqProperties
  <2> QED BY <1>1, <2>3
<1>4. Fold = SubSeq(input, 1, n) /\ Len(Fold) = n
  BY <1>3 DEF Fold
<1>5. Unfolded = SubSeq(input, n + 1, Len(input))
  BY <1>4 DEF Unfolded
<1> HIDE DEF n
<1>6. Unfolded \in Seq(S)
  <2>1. \A i \in n + 1..Len(input) : input[i] \in S
    BY <1>1, <1>2
  <2> QED BY <1>1, <1>5, <2>1, SubSeqProperties
<1>7. Fold \o Unfolded = input
  <2>1. /\ 1 \in 1..Len(input) + 1 /\ n \in 1 - 1..Len(input)
        /\ Len(input) \in n..Len(input)
    BY <1>1
  <2>2. SubSeq(input, 1, n) \o SubSeq(input, n + 1, Len(input)) = SubSeq(input, 1, Len(input))
    BY <2>1, ConcatAdjacentSubSeq
  <2> QED BY <1>4, <1>5, <2>2, SubSeqFull
<1>8. input # <<>> => Fold # <<>>
  <2> SUFFICES ASSUME input # <<>> PROVE Fold # <<>>
    OBVIOUS
  <2>1. Len(input) > 0
    BY EmptySeq, <1>1
  <2>2. n > 0
    BY <2>1, <1>1 DEF n
  <2>3. Len(Fold) # 0 /\ Len(<<>>) = 0
    BY <1>1, <1>4, <2>2, EmptySeq
  <2> QED BY <2>3
<1>9. input = <<>> => Fold = <<>> /\ Unfolded = <<>>
  BY <1>6, <1>7, <1>3, <1>4, ConcatEqualIffEmpty
<1> QED BY <1>1, <1>3, <1>4, <1>6, <1>7, <1>8, <1>9

-----------------------------------------------------------------------------
(***************************************************************************)
(* Ascending sequences: a block taken out, a last element added, and how   *)
(* many elements there are.                                                *)
(***************************************************************************)
LEMMA Concatenated ==
    ASSUME NEW s \in Seq(Nat), NEW t \in Seq(Nat)
    PROVE  /\ s \o t \in Seq(Nat)
           /\ Len(s) \in Nat /\ Len(t) \in Nat
           /\ DOMAIN (s \o t) = 1..Len(s) + Len(t)
           /\ \A i \in 1..Len(s) : (s \o t)[i] = s[i]
           /\ \A i \in 1..Len(t) : (s \o t)[Len(s) + i] = t[i]
<1>1. Len(s) \in Nat /\ Len(t) \in Nat
  BY LenProperties
<1>2. /\ s \o t \in Seq(Nat) /\ Len(s \o t) = Len(s) + Len(t)
      /\ \A i \in 1..Len(s) + Len(t) : (s \o t)[i] = IF i <= Len(s) THEN s[i] ELSE t[i - Len(s)]
  BY ConcatProperties
<1>3. \A i \in 1..Len(s) : (s \o t)[i] = s[i]
  BY <1>1, <1>2
<1>4. \A i \in 1..Len(t) : (s \o t)[Len(s) + i] = t[i]
  <2> TAKE i \in 1..Len(t)
  <2>1. /\ Len(s) + i \in 1..Len(s) + Len(t) /\ ~(Len(s) + i <= Len(s))
        /\ (Len(s) + i) - Len(s) = i
    BY <1>1
  <2>2. (s \o t)[Len(s) + i] = t[(Len(s) + i) - Len(s)]
    BY <1>2, <2>1
  <2> QED BY <2>1, <2>2
<1>5. DOMAIN (s \o t) = 1..Len(s) + Len(t)
  BY <1>2, LenProperties
<1> QED BY <1>1, <1>2, <1>3, <1>4, <1>5

LEMMA AscendingParts ==
    ASSUME NEW s \in Seq(Nat), NEW t \in Seq(Nat)
    PROVE  Ascending(s \o t) <=> /\ Ascending(s) /\ Ascending(t)
                                 /\ \A x \in Range(s), y \in Range(t) : x < y
<1>1. /\ Len(s) \in Nat /\ Len(t) \in Nat /\ DOMAIN s = 1..Len(s) /\ DOMAIN t = 1..Len(t)
      /\ DOMAIN (s \o t) = 1..Len(s) + Len(t)
      /\ \A i \in 1..Len(s) : (s \o t)[i] = s[i]
      /\ \A i \in 1..Len(t) : (s \o t)[Len(s) + i] = t[i]
  BY Concatenated, LenProperties
<1>2. ASSUME Ascending(s \o t) PROVE Ascending(s)
  <2> SUFFICES ASSUME NEW i \in DOMAIN s, NEW j \in DOMAIN s, i < j PROVE s[i] < s[j]
    BY DEF Ascending
  <2>1. i \in DOMAIN (s \o t) /\ j \in DOMAIN (s \o t)
    BY <1>1
  <2>2. (s \o t)[i] < (s \o t)[j]
    BY <1>2, <2>1 DEF Ascending
  <2> QED BY <1>1, <2>2
<1>3. ASSUME Ascending(s \o t) PROVE Ascending(t)
  <2> SUFFICES ASSUME NEW i \in DOMAIN t, NEW j \in DOMAIN t, i < j PROVE t[i] < t[j]
    BY DEF Ascending
  <2>1. /\ Len(s) + i \in DOMAIN (s \o t) /\ Len(s) + j \in DOMAIN (s \o t)
        /\ Len(s) + i < Len(s) + j
    BY <1>1
  <2>2. (s \o t)[Len(s) + i] < (s \o t)[Len(s) + j]
    BY <1>3, <2>1 DEF Ascending
  <2> QED BY <1>1, <2>2
<1>4. ASSUME Ascending(s \o t), NEW x \in Range(s), NEW y \in Range(t) PROVE x < y
  <2>1. PICK i \in DOMAIN s : x = s[i]
    BY DEF Range
  <2>2. PICK j \in DOMAIN t : y = t[j]
    BY DEF Range
  <2>3. /\ i \in DOMAIN (s \o t) /\ Len(s) + j \in DOMAIN (s \o t) /\ i < Len(s) + j
    BY <1>1
  <2>4. (s \o t)[i] < (s \o t)[Len(s) + j]
    BY <1>4, <2>3 DEF Ascending
  <2> QED BY <1>1, <2>1, <2>2, <2>4
<1>5. ASSUME Ascending(s), Ascending(t), \A x \in Range(s), y \in Range(t) : x < y
      PROVE  Ascending(s \o t)
  <2> SUFFICES ASSUME NEW i \in DOMAIN (s \o t), NEW j \in DOMAIN (s \o t), i < j
               PROVE  (s \o t)[i] < (s \o t)[j]
    BY DEF Ascending
  <2>1. CASE j <= Len(s)
    <3>1. i \in DOMAIN s /\ j \in DOMAIN s
      BY <1>1, <2>1
    <3> QED BY <1>1, <1>5, <3>1 DEF Ascending
  <2>2. CASE i <= Len(s) /\ ~(j <= Len(s))
    <3>1. i \in DOMAIN s /\ j - Len(s) \in DOMAIN t /\ Len(s) + (j - Len(s)) = j
      BY <1>1, <2>2
    <3>2. (s \o t)[i] = s[i] /\ (s \o t)[j] = t[j - Len(s)]
      BY <1>1, <3>1
    <3>3. s[i] \in Range(s) /\ t[j - Len(s)] \in Range(t)
      BY <3>1 DEF Range
    <3> QED BY <1>5, <3>2, <3>3
  <2>3. CASE ~(i <= Len(s))
    <3>a. /\ Len(s) \in Nat /\ Len(t) \in Nat /\ DOMAIN t = 1..Len(t)
          /\ i \in 1..Len(s) + Len(t) /\ j \in 1..Len(s) + Len(t)
      BY <1>1
    <3>b. /\ i - Len(s) \in 1..Len(t) /\ Len(s) + (i - Len(s)) = i
          /\ j - Len(s) \in 1..Len(t) /\ Len(s) + (j - Len(s)) = j
          /\ i - Len(s) < j - Len(s)
      <4>1. i \in Int /\ j \in Int
        BY <3>a
      <4> QED BY <3>a, <2>3, <4>1
    <3>1. /\ i - Len(s) \in DOMAIN t /\ Len(s) + (i - Len(s)) = i
          /\ j - Len(s) \in DOMAIN t /\ Len(s) + (j - Len(s)) = j
          /\ i - Len(s) < j - Len(s)
      BY <3>a, <3>b
    <3>2. (s \o t)[i] = t[i - Len(s)] /\ (s \o t)[j] = t[j - Len(s)]
      BY <1>1, <3>1
    <3> QED BY <1>5, <3>1, <3>2 DEF Ascending
  <2> QED BY <2>1, <2>2, <2>3
<1> QED BY <1>2, <1>3, <1>4, <1>5

LEMMA BlockOut ==
    ASSUME NEW a \in Seq(Nat), NEW m \in Seq(Nat), NEW z \in Seq(Nat),
           Ascending(a \o (m \o z))
    PROVE  /\ Ascending(a \o z)
           /\ Range(a \o (m \o z)) = Range(a \o z) \cup Range(m)
           /\ Range(a \o z) \cap Range(m) = {}
<1>1. m \o z \in Seq(Nat) /\ Range(m \o z) = Range(m) \cup Range(z)
  BY ConcatProperties, RangeConcatenation
<1>a. \A w \in Seq(Nat) : Range(a \o w) = Range(a) \cup Range(w)
  BY RangeConcatenation
<1>2. /\ Range(a \o (m \o z)) = Range(a) \cup Range(m) \cup Range(z)
      /\ Range(a \o z) = Range(a) \cup Range(z)
  BY <1>1, <1>a
<1>3. /\ Ascending(a) /\ Ascending(m \o z) /\ \A x \in Range(a), y \in Range(m \o z) : x < y
  BY <1>1, AscendingParts
<1>4. /\ Ascending(m) /\ Ascending(z) /\ \A x \in Range(m), y \in Range(z) : x < y
  BY <1>3, AscendingParts
<1>5. Ascending(a \o z)
  BY <1>1, <1>3, <1>4, AscendingParts
<1>6. \A x \in Range(m) : x \in Nat /\ ~(x < x)
  BY RangeOfSeq
<1> QED BY <1>1, <1>2, <1>3, <1>4, <1>5, <1>6

LEMMA OneMore ==
    ASSUME NEW s \in Seq(Nat), NEW n \in Nat, Ascending(s), \A x \in Range(s) : x < n
    PROVE  Ascending(s \o <<n>>) /\ Range(s \o <<n>>) = Range(s) \cup {n}
<1>1. <<n>> \in Seq(Nat) /\ Len(<<n>>) = 1 /\ <<n>>[1] = n
  OBVIOUS
<1>2. DOMAIN <<n>> = {1}
  BY <1>1, LenProperties
<1>3. Range(<<n>>) = {n}
  BY <1>1, <1>2 DEF Range
<1>4. Ascending(<<n>>)
  BY <1>2 DEF Ascending
<1>5. \A x \in Range(s), y \in Range(<<n>>) : x < y
  BY <1>3
<1>6. Ascending(s \o <<n>>)
  BY <1>1, <1>4, <1>5, AscendingParts
<1>7. Range(s \o <<n>>) = Range(s) \cup Range(<<n>>)
  BY ZenonT(40), <1>1, RangeConcatenation
<1> QED BY <1>3, <1>6, <1>7

LEMMA AscendingCount ==
    ASSUME NEW s \in Seq(Nat), Ascending(s)
    PROVE  IsFiniteSet(Range(s)) /\ Cardinality(Range(s)) = Len(s)
<1>1. Len(s) \in Nat /\ DOMAIN s = 1..Len(s) /\ s \in [1..Len(s) -> Nat]
  BY LenProperties
<1>2. IsFiniteSet(1..Len(s)) /\ Cardinality(1..Len(s)) = Len(s)
  <2>1. 1 \in Int /\ Len(s) \in Int
    BY <1>1
  <2>2. IsFiniteSet(1..Len(s)) /\ Cardinality(1..Len(s)) = IF 1 > Len(s) THEN 0 ELSE Len(s) - 1 + 1
    BY <2>1, FS_Interval
  <2> QED BY <1>1, <2>2
<1>3. s \in [1..Len(s) -> Range(s)]
  BY <1>1 DEF Range
<1>4. \A i, j \in 1..Len(s) : i # j => s[i] # s[j]
  <2> TAKE i, j \in 1..Len(s)
  <2> HAVE i # j
  <2>1. i < j \/ j < i
    BY <1>1
  <2>2. s[i] < s[j] \/ s[j] < s[i]
    BY <1>1, <2>1 DEF Ascending
  <2>3. s[i] \in Nat /\ s[j] \in Nat
    BY <1>1
  <2> QED BY <2>2, <2>3
<1>5. \A x \in Range(s) : \E i \in 1..Len(s) : s[i] = x
  BY <1>1 DEF Range
<1>6. s \in Injection(1..Len(s), Range(s))
  BY <1>1, <1>3, <1>4 DEF Injection, IsInjective
<1>7. s \in Surjection(1..Len(s), Range(s))
  BY <1>3, <1>5 DEF Surjection
<1>8. ExistsBijection(1..Len(s), Range(s))
  BY <1>6, <1>7 DEF Bijection, ExistsBijection
<1> QED BY <1>2, <1>8, FS_Bijection

-----------------------------------------------------------------------------
(***************************************************************************)
(* Transcripts.                                                            *)
(***************************************************************************)
LEMMA EntryTypes ==
    /\ {Nothing, Brief, Guidance, Summary} \subseteq Entries
    /\ \A ms \in Seq(Messages) : UserTurn(ms) \in Entries
    /\ \A cs \in Seq(CallSet) : Assistant(cs) \in Entries
    /\ \A c \in CallSet : Answer(c) \in Entries
<1>1. <<>> \in Seq(Messages) /\ <<>> \in Seq(CallSet)
  OBVIOUS
<1>2. \A c \in CallSet : <<c>> \in Seq(CallSet) /\ Len(<<c>>) = 1
  OBVIOUS
<1> QED BY <1>1, <1>2 DEF Entries, Kinds, Entry, Nothing, Brief, Guidance, Summary, UserTurn,
             Assistant, Answer

LEMMA EntryFields ==
    ASSUME NEW e \in Entries
    PROVE  /\ e.kind \in Kinds /\ e.msgs \in Seq(Messages) /\ e.calls \in Seq(CallSet)
           /\ e.kind # "user" => e.msgs = <<>>
           /\ e.kind \notin {"assistant", "result"} => e.calls = <<>>
           /\ e.kind = "none" => e = Nothing
           /\ Range(e.calls) \subseteq CallSet
<1>1. /\ e.kind \in Kinds /\ e.msgs \in Seq(Messages) /\ e.calls \in Seq(CallSet)
      /\ e.kind # "user" => e.msgs = <<>>
      /\ e.kind \notin {"assistant", "result"} => e.calls = <<>>
  BY DEF Entries
<1>2. e = [kind |-> e.kind, msgs |-> e.msgs, calls |-> e.calls]
  BY DEF Entries
<1>3. ASSUME e.kind = "none" PROVE e = Nothing
  BY <1>1, <1>2, <1>3 DEF Nothing, Entry
<1> QED BY <1>1, <1>3, RangeOfSeq

\* A result is the answer to one call.
LEMMA ResultEntry ==
    ASSUME NEW e \in Entries, e.kind = "result"
    PROVE  /\ e.calls[1] \in CallSet /\ e.calls = <<e.calls[1]>> /\ e = Answer(e.calls[1])
           /\ Range(e.calls) = {e.calls[1]}
<1>1. e.calls \in Seq(CallSet) /\ Len(e.calls) = 1 /\ e.msgs = <<>>
  BY DEF Entries
<1>2. e = [kind |-> e.kind, msgs |-> e.msgs, calls |-> e.calls]
  BY DEF Entries
<1>3. e.calls[1] \in CallSet
  BY <1>1, ElementOfSeq
<1>4. e.calls = <<e.calls[1]>>
  <2>1. <<e.calls[1]>> \in Seq(CallSet) /\ Len(<<e.calls[1]>>) = 1
    BY <1>3
  <2>2. \A i \in 1..Len(e.calls) : e.calls[i] = <<e.calls[1]>>[i]
    BY <1>1
  <2> QED BY <1>1, <2>1, <2>2, SeqEqual
<1>5. e = Answer(e.calls[1])
  BY <1>1, <1>2, <1>4 DEF Answer, Entry
<1>6. Range(e.calls) = {e.calls[1]}
  BY <1>1, RangeEquality
<1> QED BY <1>3, <1>4, <1>5, <1>6

LEMMA AnswerFields ==
    \A c : /\ Answer(c).kind = "result" /\ Answer(c).calls = <<c>> /\ Answer(c).calls[1] = c
           /\ Answer(c).msgs = <<>>
  BY DEF Answer, Entry

LEMMA CallsElem ==
    ASSUME NEW es \in Seq(Entries), NEW c
    PROVE  c \in CallsOf(es) <=>
             \E i \in 1..Len(es) : es[i].kind = "assistant" /\ c \in Range(es[i].calls)
<1>1. DOMAIN es = 1..Len(es)
  BY LenProperties
<1> QED BY <1>1 DEF CallsOf

LEMMA AnswersElem ==
    ASSUME NEW es \in Seq(Entries), NEW c
    PROVE  c \in AnswersIn(es) <=>
             \E i \in 1..Len(es) : es[i].kind = "result" /\ es[i].calls[1] = c
<1>1. DOMAIN es = 1..Len(es)
  BY LenProperties
<1> QED BY <1>1 DEF AnswersIn

LEMMA Appended ==
    ASSUME NEW h \in Seq(Entries), NEW e \in Entries
    PROVE  /\ Append(h, e) \in Seq(Entries)
           /\ Len(h) \in Nat /\ Len(Append(h, e)) = Len(h) + 1
           /\ DOMAIN h = 1..Len(h) /\ DOMAIN Append(h, e) = 1..Len(h) + 1
           /\ \A i \in 1..Len(h) : Append(h, e)[i] = h[i]
           /\ Append(h, e)[Len(h) + 1] = e
           /\ \A i \in 1..Len(h) + 1 : i \in 1..Len(h) \/ i = Len(h) + 1
<1>1. Len(h) \in Nat /\ DOMAIN h = 1..Len(h)
  BY LenProperties
<1>2. /\ Append(h, e) \in Seq(Entries) /\ Len(Append(h, e)) = Len(h) + 1
      /\ \A i \in 1..Len(h) : Append(h, e)[i] = h[i]
      /\ Append(h, e)[Len(h) + 1] = e
  BY AppendProperties
<1>3. DOMAIN Append(h, e) = 1..Len(h) + 1
  BY <1>2, LenProperties
<1>4. \A i \in 1..Len(h) + 1 : i \in 1..Len(h) \/ i = Len(h) + 1
  BY <1>1
<1> QED BY <1>1, <1>2, <1>3, <1>4

LEMMA CallsAppend ==
    ASSUME NEW h \in Seq(Entries), NEW e \in Entries
    PROVE  CallsOf(Append(h, e)) =
             CallsOf(h) \cup (IF e.kind = "assistant" THEN Range(e.calls) ELSE {})
<1> DEFINE g == Append(h, e)
           new == IF e.kind = "assistant" THEN Range(e.calls) ELSE {}
<1>1. /\ g \in Seq(Entries) /\ Len(h) \in Nat /\ Len(g) = Len(h) + 1
      /\ \A i \in 1..Len(h) : g[i] = h[i]
      /\ g[Len(h) + 1] = e
      /\ \A i \in 1..Len(h) + 1 : i \in 1..Len(h) \/ i = Len(h) + 1
  BY Appended
<1>2. 1..Len(h) \subseteq 1..Len(h) + 1 /\ Len(h) + 1 \in 1..Len(h) + 1
  BY <1>1
<1> HIDE DEF g
<1>3. ASSUME NEW c \in CallsOf(g) PROVE c \in CallsOf(h) \cup new
  <2>1. PICK i \in 1..Len(h) + 1 : g[i].kind = "assistant" /\ c \in Range(g[i].calls)
    BY <1>1, <1>3, CallsElem
  <2> QED BY <1>1, <2>1, CallsElem
<1>4. ASSUME NEW c \in CallsOf(h) \cup new PROVE c \in CallsOf(g)
  <2>1. CASE c \in CallsOf(h)
    <3>1. PICK i \in 1..Len(h) : h[i].kind = "assistant" /\ c \in Range(h[i].calls)
      BY <2>1, CallsElem
    <3>2. i \in 1..Len(g) /\ g[i] = h[i]
      BY <1>1, <1>2
    <3> QED BY <1>1, <3>1, <3>2, CallsElem
  <2>2. CASE c \in new
    <3>1. Len(h) + 1 \in 1..Len(g) /\ e.kind = "assistant" /\ c \in Range(e.calls)
      BY <1>1, <1>2, <2>2
    <3> QED BY <1>1, <3>1, CallsElem
  <2> QED BY <1>4, <2>1, <2>2
<1> QED BY <1>3, <1>4 DEF g

LEMMA AnswersAppend ==
    ASSUME NEW h \in Seq(Entries), NEW e \in Entries
    PROVE  AnswersIn(Append(h, e)) =
             AnswersIn(h) \cup (IF e.kind = "result" THEN {e.calls[1]} ELSE {})
<1> DEFINE g == Append(h, e)
           new == IF e.kind = "result" THEN {e.calls[1]} ELSE {}
<1>1. /\ g \in Seq(Entries) /\ Len(h) \in Nat /\ Len(g) = Len(h) + 1
      /\ \A i \in 1..Len(h) : g[i] = h[i]
      /\ g[Len(h) + 1] = e
      /\ \A i \in 1..Len(h) + 1 : i \in 1..Len(h) \/ i = Len(h) + 1
  BY Appended
<1>2. 1..Len(h) \subseteq 1..Len(h) + 1 /\ Len(h) + 1 \in 1..Len(h) + 1
  BY <1>1
<1> HIDE DEF g
<1>3. ASSUME NEW c \in AnswersIn(g) PROVE c \in AnswersIn(h) \cup new
  <2>1. PICK i \in 1..Len(h) + 1 : g[i].kind = "result" /\ g[i].calls[1] = c
    BY <1>1, <1>3, AnswersElem
  <2> QED BY <1>1, <2>1, AnswersElem
<1>4. ASSUME NEW c \in AnswersIn(h) \cup new PROVE c \in AnswersIn(g)
  <2>1. CASE c \in AnswersIn(h)
    <3>1. PICK i \in 1..Len(h) : h[i].kind = "result" /\ h[i].calls[1] = c
      BY <2>1, AnswersElem
    <3>2. i \in 1..Len(g) /\ g[i] = h[i]
      BY <1>1, <1>2
    <3> QED BY <1>1, <3>1, <3>2, AnswersElem
  <2>2. CASE c \in new
    <3>1. Len(h) + 1 \in 1..Len(g) /\ e.kind = "result" /\ e.calls[1] = c
      BY <1>1, <1>2, <2>2
    <3> QED BY <1>1, <3>1, AnswersElem
  <2> QED BY <1>4, <2>1, <2>2
<1> QED BY <1>3, <1>4 DEF g

LEMMA NoEntries == CallsOf(<<>>) = {} /\ AnswersIn(<<>>) = {}
<1>1. <<>> \in Seq(Entries) /\ Len(<<>>) = 0
  BY EmptySeq
<1>2. \A i : i \notin 1..Len(<<>>)
  BY <1>1
<1>3. \A c : c \notin CallsOf(<<>>)
  BY <1>1, <1>2, CallsElem
<1>4. \A c : c \notin AnswersIn(<<>>)
  BY <1>1, <1>2, AnswersElem
<1> QED BY <1>3, <1>4

LEMMA KnownTyped ==
    ASSUME NEW h \in Seq(Entries)
    PROVE  CallsOf(h) \subseteq CallSet /\ AnswersIn(h) \subseteq CallSet
<1>1. ASSUME NEW c \in CallsOf(h) PROVE c \in CallSet
  <2>1. PICK i \in 1..Len(h) : h[i].kind = "assistant" /\ c \in Range(h[i].calls)
    BY CallsElem
  <2>2. h[i] \in Entries
    BY ElementOfSeq
  <2> QED BY <2>1, <2>2, EntryFields
<1>2. ASSUME NEW c \in AnswersIn(h) PROVE c \in CallSet
  <2>1. PICK i \in 1..Len(h) : h[i].kind = "result" /\ h[i].calls[1] = c
    BY AnswersElem
  <2>2. h[i] \in Entries
    BY ElementOfSeq
  <2> QED BY <2>1, <2>2, ResultEntry
<1> QED BY <1>1, <1>2

LEMMA FollowsElem ==
    ASSUME NEW es \in Seq(Entries), NEW i \in 1..Len(es)
    PROVE  Follows(es, i) <=>
             \E j \in 1..i - 1 : es[j].kind = "assistant" /\ es[i].calls[1] \in Range(es[j].calls)
<1>1. Len(es) \in Nat /\ \A j \in 1..Len(es) : es[j] \in Entries
  BY LenProperties, ElementOfSeq
<1>2. i \in Nat /\ i - 1 \in Nat /\ \A j \in 1..i - 1 : j \in 1..Len(es)
  BY <1>1
<1> DEFINE p == SubSeq(es, 1, i - 1)
<1>3. p \in Seq(Entries) /\ Len(p) = i - 1 /\ \A j \in 1..i - 1 : p[j] = es[j]
  <2>1. \A j \in 1..i - 1 : es[j] \in Entries
    BY <1>1, <1>2
  <2>2. 1 \in Int /\ i - 1 \in Int
    BY <1>2
  <2>3. /\ SubSeq(es, 1, i - 1) \in Seq(Entries)
        /\ Len(SubSeq(es, 1, i - 1)) = IF 1 <= i - 1 THEN (i - 1) - 1 + 1 ELSE 0
        /\ \A j \in 1..(i - 1) - 1 + 1 : SubSeq(es, 1, i - 1)[j] = es[1 + j - 1]
    BY <2>1, <2>2, SubSeqProperties
  <2>4. Len(SubSeq(es, 1, i - 1)) = i - 1
    BY <1>2, <2>3
  <2>5. ASSUME NEW j \in 1..i - 1 PROVE SubSeq(es, 1, i - 1)[j] = es[j]
    <3>1. j \in 1..(i - 1) - 1 + 1 /\ 1 + j - 1 = j
      BY <1>2
    <3> QED BY <2>3, <3>1
  <2> QED BY <2>3, <2>4, <2>5
<1> HIDE DEF p
<1>4. es[i].calls[1] \in CallsOf(p) <=>
        \E j \in 1..i - 1 : es[j].kind = "assistant" /\ es[i].calls[1] \in Range(es[j].calls)
  <2>1. es[i].calls[1] \in CallsOf(p) <=>
          \E j \in 1..Len(p) : p[j].kind = "assistant" /\ es[i].calls[1] \in Range(p[j].calls)
    BY <1>3, CallsElem
  <2> QED BY <1>3, <2>1
<1> QED BY <1>4 DEF Follows, p

\* A new last entry changes nothing for those before it, but that none of them is
\* answered by it.
LEMMA EarlierEntries ==
    ASSUME NEW h \in Seq(Entries), NEW e \in Entries, NEW i \in 1..Len(h)
    PROVE  LET g == Append(h, e) IN
           /\ Follows(g, i) <=> Follows(h, i)
           /\ OutlivedItsCall(g, i) <=> OutlivedItsCall(h, i)
           /\ AnsweredOnce(g, i) <=>
                AnsweredOnce(h, i) /\ ~(e.kind = "result" /\ e.calls = h[i].calls)
<1> DEFINE g == Append(h, e)
<1>1. /\ g \in Seq(Entries) /\ Len(h) \in Nat /\ Len(g) = Len(h) + 1
      /\ DOMAIN h = 1..Len(h) /\ DOMAIN g = 1..Len(h) + 1
      /\ \A j \in 1..Len(h) : g[j] = h[j]
      /\ g[Len(h) + 1] = e
      /\ \A j \in 1..Len(h) + 1 : j \in 1..Len(h) \/ j = Len(h) + 1
  BY Appended
<1>2. /\ 1..Len(h) \subseteq 1..Len(h) + 1 /\ Len(h) + 1 \in 1..Len(h) + 1 /\ i # Len(h) + 1
      /\ \A j \in 1..i - 1 : j \in 1..Len(h)
      /\ \A k \in 1..i - 1 : \A j \in k..i - 1 : j \in 1..Len(h)
  BY <1>1
<1>3. i \in 1..Len(g) /\ g[i] = h[i]
  BY <1>1, <1>2
<1> HIDE DEF g
<1>4. Follows(g, i) <=> Follows(h, i)
  <2>1. Follows(g, i) <=>
          \E j \in 1..i - 1 : g[j].kind = "assistant" /\ g[i].calls[1] \in Range(g[j].calls)
    BY <1>1, <1>3, FollowsElem
  <2>2. Follows(h, i) <=>
          \E j \in 1..i - 1 : h[j].kind = "assistant" /\ h[i].calls[1] \in Range(h[j].calls)
    BY FollowsElem
  <2> QED BY <1>1, <1>2, <1>3, <2>1, <2>2
<1>5. OutlivedItsCall(g, i) <=> OutlivedItsCall(h, i)
  <2>1. \A j \in 1..i - 1 : g[j] = h[j]
    BY <1>1, <1>2
  <2>2. \A k \in 1..i - 1 : \A j \in k..i - 1 : g[j] = h[j]
    BY <1>1, <1>2
  <2> QED BY <2>1, <2>2 DEF OutlivedItsCall
<1>6. AnsweredOnce(g, i) <=>
        AnsweredOnce(h, i) /\ ~(e.kind = "result" /\ e.calls = h[i].calls)
  <2>1. ASSUME AnsweredOnce(g, i)
        PROVE  AnsweredOnce(h, i) /\ ~(e.kind = "result" /\ e.calls = h[i].calls)
    BY <1>1, <1>2, <1>3, <2>1 DEF AnsweredOnce
  <2>2. ASSUME AnsweredOnce(h, i), ~(e.kind = "result" /\ e.calls = h[i].calls)
        PROVE  AnsweredOnce(g, i)
    <3> SUFFICES ASSUME NEW j \in DOMAIN g, g[j].kind = "result", g[j].calls = g[i].calls
                 PROVE  i = j
      BY DEF AnsweredOnce
    <3>1. j # Len(h) + 1
      BY <1>1, <1>3, <2>2
    <3>2. j \in DOMAIN h /\ g[j] = h[j]
      BY <1>1, <3>1
    <3> QED BY <1>3, <2>2, <3>2 DEF AnsweredOnce
  <2> QED BY <2>1, <2>2
<1> QED BY <1>4, <1>5, <1>6 DEF g

LEMMA LastEntry ==
    ASSUME NEW h \in Seq(Entries), NEW e \in Entries, e.kind = "result"
    PROVE  LET g == Append(h, e)
               i == Len(h) + 1
           IN  /\ Follows(g, i) <=> e.calls[1] \in CallsOf(h)
               /\ OutlivedItsCall(g, i) <=> Swallowed(h)
               /\ AnsweredOnce(g, i) <=> e.calls[1] \notin AnswersIn(h)
<1> DEFINE g == Append(h, e)
           i == Len(h) + 1
<1>1. /\ g \in Seq(Entries) /\ Len(h) \in Nat /\ Len(g) = i
      /\ DOMAIN h = 1..Len(h) /\ DOMAIN g = 1..i
      /\ \A j \in 1..Len(h) : g[j] = h[j]
      /\ g[i] = e
      /\ \A j \in 1..i : j \in 1..Len(h) \/ j = i
  BY Appended
<1>2. /\ i - 1 = Len(h) /\ i \in 1..i /\ \A j \in 1..Len(h) : j \in 1..i /\ j # i
      /\ \A k \in 1..Len(h) : \A j \in k..Len(h) : j \in 1..Len(h)
  BY <1>1
<1> HIDE DEF g, i
<1>3. Follows(g, i) <=> e.calls[1] \in CallsOf(h)
  <2>1. i \in 1..Len(g)
    BY <1>1, <1>2
  <2>2. Follows(g, i) <=>
          \E j \in 1..i - 1 : g[j].kind = "assistant" /\ g[i].calls[1] \in Range(g[j].calls)
    BY <1>1, <2>1, FollowsElem
  <2>3. e.calls[1] \in CallsOf(h) <=>
          \E j \in 1..Len(h) : h[j].kind = "assistant" /\ e.calls[1] \in Range(h[j].calls)
    BY CallsElem
  <2> QED BY <1>1, <1>2, <2>2, <2>3
<1>4. OutlivedItsCall(g, i) <=> Swallowed(h)
  <2>1. \A k \in 1..Len(h) : \A j \in k..Len(h) : g[j] = h[j]
    BY <1>1, <1>2
  <2> QED BY <1>1, <1>2, <2>1 DEF OutlivedItsCall, Swallowed
<1>5. AnsweredOnce(g, i) <=> e.calls[1] \notin AnswersIn(h)
  <2>1. \A j \in 1..Len(h) : h[j].kind = "result" => (h[j].calls = e.calls <=> h[j].calls[1] = e.calls[1])
    <3> SUFFICES ASSUME NEW j \in 1..Len(h), h[j].kind = "result"
                 PROVE  h[j].calls = e.calls <=> h[j].calls[1] = e.calls[1]
      OBVIOUS
    <3>1. h[j] \in Entries
      BY ElementOfSeq
    <3>2. h[j].calls = <<h[j].calls[1]>> /\ e.calls = <<e.calls[1]>>
      BY <3>1, ResultEntry
    <3> QED BY <3>2
  <2>2. ASSUME AnsweredOnce(g, i), e.calls[1] \in AnswersIn(h) PROVE FALSE
    <3>1. PICK j \in 1..Len(h) : h[j].kind = "result" /\ h[j].calls[1] = e.calls[1]
      BY <2>2, AnswersElem
    <3>2. g[j].kind = "result" /\ g[j].calls = g[i].calls /\ j \in DOMAIN g /\ j # i
      BY <1>1, <1>2, <2>1, <3>1
    <3> QED BY <2>2, <3>2 DEF AnsweredOnce
  <2>3. ASSUME e.calls[1] \notin AnswersIn(h) PROVE AnsweredOnce(g, i)
    <3> SUFFICES ASSUME NEW j \in DOMAIN g, g[j].kind = "result", g[j].calls = g[i].calls, j # i
                 PROVE  FALSE
      BY DEF AnsweredOnce
    <3>1. j \in 1..Len(h) /\ g[j] = h[j]
      BY <1>1
    <3>2. h[j].calls[1] = e.calls[1] /\ h[j].kind = "result"
      BY <1>1, <2>1, <3>1
    <3> QED BY <2>3, <3>1, <3>2, AnswersElem
  <2> QED BY <2>2, <2>3
<1> QED BY <1>3, <1>4, <1>5 DEF g, i

\* A transcript stays good if its new last entry may answer what it answers.
LEMMA GoodAppend ==
    ASSUME NEW h \in Seq(Entries), NEW e \in Entries
    PROVE  Good(Append(h, e)) <=>
             Good(h) /\ (e.kind = "result" => MayAnswer(h, e.calls[1]))
<1> DEFINE g == Append(h, e)
           i == Len(h) + 1
           Fine(es, j) == (Follows(es, j) \/ OutlivedItsCall(es, j)) /\ AnsweredOnce(es, j)
<1>1. /\ g \in Seq(Entries) /\ Len(h) \in Nat
      /\ DOMAIN h = 1..Len(h) /\ DOMAIN g = 1..i
      /\ \A j \in 1..Len(h) : g[j] = h[j]
      /\ g[i] = e
      /\ \A j \in 1..i : j \in 1..Len(h) \/ j = i
  BY Appended
<1>2. i \in 1..i /\ \A j \in 1..Len(h) : j \in 1..i
  BY <1>1
<1>3. \A j \in 1..Len(h) :
        Fine(g, j) <=> Fine(h, j) /\ ~(e.kind = "result" /\ e.calls = h[j].calls)
  BY EarlierEntries
<1>4. e.kind = "result" => (Fine(g, i) <=> MayAnswer(h, e.calls[1]))
  BY LastEntry DEF MayAnswer
<1>5. ASSUME e.kind = "result", MayAnswer(h, e.calls[1]), NEW j \in 1..Len(h),
             h[j].kind = "result"
      PROVE  e.calls # h[j].calls
  BY <1>5, AnswersElem DEF MayAnswer
<1>6. Good(g) <=> \A j \in 1..i : g[j].kind = "result" => Fine(g, j)
  BY <1>1 DEF Good
<1>7. Good(h) <=> \A j \in 1..Len(h) : h[j].kind = "result" => Fine(h, j)
  BY <1>1 DEF Good
<1> HIDE DEF g, i, Fine
<1>8. ASSUME Good(g) PROVE Good(h) /\ (e.kind = "result" => MayAnswer(h, e.calls[1]))
  BY <1>1, <1>2, <1>3, <1>4, <1>6, <1>7, <1>8
<1>9. ASSUME Good(h), e.kind = "result" => MayAnswer(h, e.calls[1]) PROVE Good(g)
  <2> SUFFICES ASSUME NEW j \in 1..i, g[j].kind = "result" PROVE Fine(g, j)
    BY <1>6
  <2>1. CASE j = i
    BY <1>1, <1>4, <1>9, <2>1
  <2>2. CASE j \in 1..Len(h)
    BY <1>1, <1>3, <1>5, <1>7, <1>9, <2>2
  <2> QED BY <1>1, <2>1, <2>2
<1> QED BY <1>8, <1>9 DEF g

-----------------------------------------------------------------------------
(***************************************************************************)
(* The stack.                                                              *)
(***************************************************************************)
LEMMA StackFacts ==
    ASSUME TypeOK, ShapeOK
    PROVE  /\ Len(stack) \in Nat /\ 1 <= Len(stack) /\ Len(stack) <= MaxDepth
           /\ DOMAIN stack = 1..Len(stack) /\ Len(stack) \in 1..Len(stack)
           /\ \A d \in 1..Len(stack) :
                /\ stack[d] \in Frames
                /\ stack[d].history \in Seq(Entries) /\ stack[d].answering \in CallSet
           /\ Top.history \in Seq(Entries) /\ Top.answering \in CallSet
<1>1. stack \in Seq(Frames) /\ Len(stack) \in 1..MaxDepth
  BY DEF TypeOK, ShapeOK
<1>2. Len(stack) \in Nat /\ DOMAIN stack = 1..Len(stack) /\ MaxDepth \in Nat
  BY <1>1, LenProperties, BoundsAssumption
<1>3. 1 <= Len(stack) /\ Len(stack) <= MaxDepth /\ Len(stack) \in 1..Len(stack)
  BY <1>1, <1>2
<1>4. \A d \in 1..Len(stack) : stack[d] \in Frames
  BY <1>1, ElementOfSeq
<1>5. \A f \in Frames : f.history \in Seq(Entries) /\ f.answering \in CallSet
  BY DEF Frames
<1> QED BY <1>2, <1>3, <1>4, <1>5 DEF Top

LEMMA Replaced ==
    ASSUME TypeOK, ShapeOK, NEW h \in Seq(Entries), NEW n \in 1..Len(stack),
           stack' = [stack EXCEPT ![n].history = h]
    PROVE  /\ stack' \in Seq(Frames) /\ Len(stack') = Len(stack)
           /\ \A d \in 1..Len(stack) :
                /\ stack'[d].answering = stack[d].answering
                /\ d # n => stack'[d].history = stack[d].history
           /\ stack'[n].history = h
<1>1. stack \in Seq(Frames) /\ stack[n] \in Frames
  BY StackFacts DEF ShapeOK
<1>2. [stack[n] EXCEPT !.history = h] \in Frames
  BY <1>1 DEF Frames
<1>3. stack' = [stack EXCEPT ![n] = [stack[n] EXCEPT !.history = h]]
  BY Zenon
<1>4. /\ stack' \in Seq(Frames) /\ Len(stack') = Len(stack)
      /\ \A d \in 1..Len(stack) :
           stack'[d] = IF d = n THEN [stack[n] EXCEPT !.history = h] ELSE stack[d]
  BY <1>1, <1>2, <1>3, ExceptSeq
<1>5. /\ [stack[n] EXCEPT !.history = h].history = h
      /\ [stack[n] EXCEPT !.history = h].answering = stack[n].answering
  BY <1>1 DEF Frames
<1> QED BY <1>4, <1>5

LEMMA PushedOne ==
    ASSUME TypeOK, ShapeOK, NEW e \in Entries, stack' = Pushed(<<e>>)
    PROVE  stack' = [stack EXCEPT ![Len(stack)].history = Append(Top.history, e)]
<1>1. Top.history \in Seq(Entries)
  BY StackFacts
<1>2. Top.history \o <<e>> = Append(Top.history, e)
  BY <1>1, AppendIsConcat
<1> QED BY <1>2 DEF Pushed, Top

LEMMA PairConcat ==
    ASSUME NEW e \in Entries, NEW f \in Entries
    PROVE  <<e>> \in Seq(Entries) /\ <<f>> \in Seq(Entries) /\ <<e>> \o <<f>> = <<e, f>>
<1>1. <<e>> \in Seq(Entries) /\ <<f>> \in Seq(Entries)
  OBVIOUS
<1>2. Append(<<e>>, f) = <<e>> \o <<f>>
  BY <1>1, AppendIsConcat
<1>3. Append(<<e>>, f) = <<e, f>>
  <2>1. /\ Append(<<e>>, f) \in Seq(Entries) /\ Len(Append(<<e>>, f)) = Len(<<e>>) + 1
        /\ \A i \in 1..Len(<<e>>) : Append(<<e>>, f)[i] = <<e>>[i]
        /\ Append(<<e>>, f)[Len(<<e>>) + 1] = f
    BY <1>1, AppendProperties
  <2>2. Len(<<e>>) = 1 /\ <<e>>[1] = e
    OBVIOUS
  <2>3. Len(Append(<<e>>, f)) = 2 /\ Append(<<e>>, f)[1] = e /\ Append(<<e>>, f)[2] = f
    BY <2>1, <2>2
  <2>4. /\ <<e, f>> \in Seq(Entries) /\ Len(<<e, f>>) = 2
        /\ <<e, f>>[1] = e /\ <<e, f>>[2] = f
    OBVIOUS
  <2>5. \A i \in 1..Len(Append(<<e>>, f)) : Append(<<e>>, f)[i] = <<e, f>>[i]
    BY <2>3, <2>4
  <2> QED BY <2>1, <2>3, <2>4, <2>5, SeqEqual
<1> QED BY <1>1, <1>2, <1>3

LEMMA PushedTwo ==
    ASSUME TypeOK, ShapeOK, NEW e \in Entries, NEW f \in Entries, stack' = Pushed(<<e, f>>)
    PROVE  stack' = [stack EXCEPT ![Len(stack)].history = Append(Append(Top.history, e), f)]
<1>1. Top.history \in Seq(Entries)
  BY StackFacts
<1>2. <<e>> \in Seq(Entries) /\ <<f>> \in Seq(Entries) /\ <<e>> \o <<f>> = <<e, f>>
  BY PairConcat
<1>3. Append(Top.history, e) = Top.history \o <<e>> /\ Append(Top.history, e) \in Seq(Entries)
  BY <1>1, AppendIsConcat, AppendProperties
<1>4. Append(Append(Top.history, e), f) = (Top.history \o <<e>>) \o <<f>>
  BY <1>3, AppendIsConcat
<1>5. (Top.history \o <<e>>) \o <<f>> = Top.history \o (<<e>> \o <<f>>)
  BY <1>1, <1>2, ConcatAssociative
<1>6. Top.history \o <<e, f>> = Append(Append(Top.history, e), f)
  BY <1>2, <1>4, <1>5
<1> QED BY <1>6 DEF Pushed, Top

\* A swap of the primary changes no history.
LEMMA Swapped ==
    ASSUME TypeOK, ShapeOK, NEW a \in Agents, stack' = SwapPrimary(a)
    PROVE  /\ stack' \in Seq(Frames) /\ Len(stack') = Len(stack)
           /\ \A d \in 1..Len(stack) :
                /\ stack'[d].answering = stack[d].answering
                /\ stack'[d].history = stack[d].history
<1>1. CASE IsRoot
  <2>1. 1 \in 1..Len(stack) /\ stack[1] \in Frames /\ stack \in Seq(Frames)
    BY <1>1, StackFacts DEF IsRoot, ShapeOK
  <2>2. [stack[1] EXCEPT !.agent = a] \in Frames
    BY <2>1 DEF Frames
  <2>3. stack' = [stack EXCEPT ![1] = [stack[1] EXCEPT !.agent = a]]
    BY <1>1 DEF SwapPrimary
  <2>4. /\ stack' \in Seq(Frames) /\ Len(stack') = Len(stack)
        /\ \A d \in 1..Len(stack) :
             stack'[d] = IF d = 1 THEN [stack[1] EXCEPT !.agent = a] ELSE stack[d]
    BY <2>1, <2>2, <2>3, ExceptSeq
  <2>5. /\ [stack[1] EXCEPT !.agent = a].history = stack[1].history
        /\ [stack[1] EXCEPT !.agent = a].answering = stack[1].answering
    BY <2>1 DEF Frames
  <2> QED BY <2>4, <2>5
<1>2. CASE ~IsRoot
  BY <1>2 DEF SwapPrimary, ShapeOK
<1> QED BY <1>1, <1>2

LEMMA Spawned ==
    ASSUME TypeOK, ShapeOK, NEW c \in CallSet, stack' = Append(stack, Frame(Child, c))
    PROVE  /\ stack' \in Seq(Frames) /\ Len(stack') = Len(stack) + 1
           /\ \A d \in 1..Len(stack) : stack'[d] = stack[d]
           /\ stack'[Len(stack) + 1].history = <<>> /\ stack'[Len(stack) + 1].answering = c
<1>1. Frame(Child, c) \in Frames
  <2>1. <<>> \in Seq(Entries)
    OBVIOUS
  <2> QED BY <2>1 DEF Frame, Frames
<1>2. Frame(Child, c).history = <<>> /\ Frame(Child, c).answering = c
  BY DEF Frame
<1>3. stack \in Seq(Frames)
  BY DEF ShapeOK
<1> QED BY <1>1, <1>2, <1>3, AppendProperties

\* The frame on top is dropped and the one below it gets history h.
LEMMA Popped ==
    ASSUME TypeOK, ShapeOK, ~IsRoot, NEW h \in Seq(Entries),
           stack' = [Front(stack) EXCEPT ![Len(stack) - 1].history = h]
    PROVE  /\ stack' \in Seq(Frames) /\ Len(stack) - 1 \in 1..Len(stack)
           /\ Len(stack') = Len(stack) - 1
           /\ \A d \in 1..Len(stack) - 1 :
                /\ stack'[d].answering = stack[d].answering
                /\ d # Len(stack) - 1 => stack'[d].history = stack[d].history
           /\ stack'[Len(stack) - 1].history = h
<1> DEFINE n == Len(stack) - 1
           f == Front(stack)
           r == [f[n] EXCEPT !.history = h]
<1>1. /\ Len(stack) \in Nat /\ n \in Nat /\ 1 <= n /\ n \in 1..n /\ n \in 1..Len(stack)
      /\ \A d \in 1..n : d \in 1..Len(stack)
  BY StackFacts DEF IsRoot
<1>2. stack \in Seq(Frames) /\ stack # <<>>
  <2>1. Len(stack) # 0 /\ Len(<<>>) = 0
    BY <1>1, EmptySeq
  <2> QED BY <2>1 DEF ShapeOK
<1>3. f \in Seq(Frames) /\ Len(f) = n /\ \A d \in 1..n : f[d] = stack[d]
  BY <1>2, FrontAndLast
<1>4. f[n] \in Frames
  BY <1>1, <1>3, StackFacts
<1>5. r \in Frames /\ r.history = h /\ r.answering = f[n].answering
  BY <1>4 DEF Frames
<1>6. stack' = [f EXCEPT ![n] = r]
  BY Zenon
<1> HIDE DEF n, f, r
<1>7. /\ stack' \in Seq(Frames) /\ Len(stack') = n
      /\ \A d \in 1..n : stack'[d] = IF d = n THEN r ELSE f[d]
  <2>1. n \in 1..Len(f)
    BY <1>1, <1>3
  <2>2. /\ stack' \in Seq(Frames) /\ Len(stack') = Len(f)
        /\ \A d \in 1..Len(f) : stack'[d] = IF d = n THEN r ELSE f[d]
    <3>1. f \in Seq(Frames) /\ r \in Frames
      BY <1>3, <1>5
    <3>2. /\ [f EXCEPT ![n] = r] \in Seq(Frames) /\ Len([f EXCEPT ![n] = r]) = Len(f)
          /\ \A d \in 1..Len(f) : [f EXCEPT ![n] = r][d] = IF d = n THEN r ELSE f[d]
      BY <2>1, <3>1, ExceptSeq
    <3> QED BY <1>6, <3>2
  <2> QED BY <1>3, <2>2
<1>9. \A d \in 1..n : /\ stack'[d].answering = stack[d].answering
                      /\ d # n => stack'[d].history = stack[d].history
  BY <1>3, <1>5, <1>7
<1>10. stack'[n].history = h
  BY <1>1, <1>5, <1>7
<1> QED BY <1>1, <1>7, <1>9, <1>10 DEF n

-----------------------------------------------------------------------------
(***************************************************************************)
(* The types.                                                              *)
(***************************************************************************)
Shape == TypeOK /\ ShapeOK

LEMMA FoldTypes ==
    ASSUME TypeOK
    PROVE  /\ Fold \in Seq(Messages) /\ Unfolded \in Seq(Messages) /\ Len(Fold) <= MaxFold
           /\ input = <<>> => Fold = <<>> /\ Unfolded = <<>>
<1>1. input \in Seq(Messages) /\ MaxFold \in Nat \ {0}
  BY BoundsAssumption DEF TypeOK, Messages
<1> QED BY <1>1, FoldCuts

LEMMA PlacedTypes ==
    ASSUME Shape, NEW kinds \in Offered
    PROVE  /\ Placed(kinds) \in Seq(CallSet)
           /\ kinds # <<>> => Placed(kinds) # <<>>
           /\ \A i \in DOMAIN Placed(kinds) :
                /\ Placed(kinds)[i].round = rounds + 1 /\ Placed(kinds)[i].index = i
                /\ Placed(kinds)[i].tool \in {Plain} \cup Structural
<1>1. kinds \in Seq({Plain} \cup Structural) /\ rounds \in Nat
  BY AnswersAssumption DEF Offered, Shape, ShapeOK
<1>2. Len(kinds) \in Nat /\ DOMAIN kinds = 1..Len(kinds)
  BY <1>1, LenProperties
<1>3. \A i \in 1..Len(kinds) : kinds[i] \in {Plain} \cup Structural
  BY <1>1, ElementOfSeq
<1>4. \A i \in 1..Len(kinds) : [round |-> rounds + 1, index |-> i, tool |-> kinds[i]] \in CallSet
  BY <1>1, <1>2, <1>3 DEF CallSet
<1>5. Placed(kinds) = [i \in 1..Len(kinds) |-> [round |-> rounds + 1, index |-> i, tool |-> kinds[i]]]
  BY <1>2 DEF Placed
<1>6. Placed(kinds) \in Seq(CallSet)
  <2>1. Placed(kinds) \in [1..Len(kinds) -> CallSet]
    BY <1>4, <1>5
  <2> QED BY <1>2, <2>1
<1>7. kinds # <<>> => Placed(kinds) # <<>>
  <2> SUFFICES ASSUME kinds # <<>> PROVE Placed(kinds) # <<>>
    OBVIOUS
  <2>1. Len(kinds) \in Nat \ {0}
    BY <1>1, EmptySeq
  <2>2. 1 \in DOMAIN Placed(kinds)
    BY <1>5, <2>1
  <2> QED BY <2>2
<1>8. \A i \in DOMAIN Placed(kinds) :
        /\ Placed(kinds)[i].round = rounds + 1 /\ Placed(kinds)[i].index = i
        /\ Placed(kinds)[i].tool \in {Plain} \cup Structural
  BY <1>3, <1>5
<1> QED BY <1>6, <1>7, <1>8

\* What inject_seeds makes of a history.
LEMMA SeedTypes ==
    ASSUME NEW c \in CallSet
    PROVE  /\ Seed(c) \in CallSet /\ Seed(c).round = c.round /\ Seed(c).tool = "seed"
           /\ Assistant(<<Seed(c)>>) \in Entries /\ Answer(Seed(c)) \in Entries
<1>1. Seed(c) \in CallSet /\ Seed(c).round = c.round /\ Seed(c).tool = "seed"
  <2> DEFINE T == {Plain, "seed", "none"} \cup Structural
  <2>1. c \in [round : Nat, index : Nat, tool : T] /\ "seed" \in T
    BY DEF CallSet
  <2> HIDE DEF T
  <2>2. c.round \in Nat /\ c.index \in Nat /\ c.index + 10 \in Nat
    BY <2>1
  <2>3. [c EXCEPT !.index = c.index + 10, !.tool = "seed"] \in [round : Nat, index : Nat, tool : T]
    BY <2>1, <2>2
  <2>4. Seed(c) = [c EXCEPT !.index = c.index + 10, !.tool = "seed"]
    BY DEF Seed
  <2>5. Seed(c).round = c.round /\ Seed(c).tool = "seed"
    BY <2>1, <2>4
  <2> QED BY <2>3, <2>4, <2>5 DEF T, CallSet
<1>2. <<Seed(c)>> \in Seq(CallSet)
  BY <1>1
<1> QED BY <1>1, <1>2, EntryTypes

\* The call under way joins the last assistant turn, if that is the one it is from.
Joins(h, c) == h # <<>> /\ Contains(Last(h).calls, c) /\ Last(h).kind = "assistant"

LEMMA SeededForm ==
    ASSUME NEW h \in Seq(Entries), NEW c \in CallSet
    PROVE  /\ Joins(h, c) =>
                /\ Front(h) \in Seq(Entries) /\ Last(h) \in Entries
                /\ h = Append(Front(h), Last(h))
                /\ Assistant(Append(Last(h).calls, Seed(c))) \in Entries
                /\ Seeded(h, c) = Append(Append(Front(h),
                                     Assistant(Append(Last(h).calls, Seed(c)))), Answer(Seed(c)))
           /\ ~Joins(h, c) =>
                Seeded(h, c) = Append(Append(h, Assistant(<<Seed(c)>>)), Answer(Seed(c)))
           /\ Seeded(h, c) \in Seq(Entries)
<1>1. Seed(c) \in CallSet /\ Assistant(<<Seed(c)>>) \in Entries /\ Answer(Seed(c)) \in Entries
  BY SeedTypes
<1>2. ASSUME NEW g \in Seq(Entries), NEW e \in Entries
      PROVE  g \o <<e>> = Append(g, e) /\ Append(g, e) \in Seq(Entries)
  BY AppendIsConcat, AppendProperties
<1>3. CASE Joins(h, c)
  <2>1. Front(h) \in Seq(Entries) /\ Last(h) \in Entries /\ h = Append(Front(h), Last(h))
    BY <1>3, FrontAndLast DEF Joins
  <2>2. Assistant(Append(Last(h).calls, Seed(c))) \in Entries
    <3>1. Last(h).calls \in Seq(CallSet)
      BY <2>1, EntryFields
    <3>2. Append(Last(h).calls, Seed(c)) \in Seq(CallSet)
      BY <1>1, <3>1, AppendProperties
    <3> QED BY <3>2, EntryTypes
  <2> DEFINE g == Append(Front(h), Assistant(Append(Last(h).calls, Seed(c))))
  <2>3. g \in Seq(Entries)
    BY <1>2, <2>1, <2>2
  <2>4. Seeded(h, c) = g \o <<Answer(Seed(c))>>
    BY <1>3 DEF Seeded, Joins
  <2>5. Seeded(h, c) = Append(g, Answer(Seed(c))) /\ Seeded(h, c) \in Seq(Entries)
    BY <1>1, <1>2, <2>3, <2>4
  <2> QED BY <1>3, <2>1, <2>2, <2>5
<1>4. CASE ~Joins(h, c)
  <2> DEFINE e == Assistant(<<Seed(c)>>)
             f == Answer(Seed(c))
  <2>1. Seeded(h, c) = h \o <<e, f>>
    BY <1>4 DEF Seeded, Joins
  <2> HIDE DEF e, f
  <2>2. e \in Entries /\ f \in Entries
    BY <1>1 DEF e, f
  <2>3. <<e>> \in Seq(Entries) /\ <<f>> \in Seq(Entries) /\ <<e>> \o <<f>> = <<e, f>>
    BY <2>2, PairConcat
  <2>4. (h \o <<e>>) \o <<f>> = h \o (<<e>> \o <<f>>)
    BY <2>3, ConcatAssociative
  <2>5. Append(h, e) \in Seq(Entries) /\ Append(h, e) = h \o <<e>>
    BY <1>2, <2>2
  <2>6. Append(Append(h, e), f) = Append(h, e) \o <<f>> /\ Append(Append(h, e), f) \in Seq(Entries)
    BY <1>2, <2>2, <2>5
  <2>7. Seeded(h, c) = Append(Append(h, e), f)
    BY <2>1, <2>3, <2>4, <2>5, <2>6
  <2> QED BY <1>4, <2>6, <2>7 DEF e, f
<1> QED BY <1>3, <1>4

\* A cold cache finds the summary, any other the history as it was.
LEMMA ResumedForm ==
    ASSUME Shape, NEW d \in 1..Len(stack), NEW cold
    PROVE  /\ Resumed(d, cold) \in {stack[d].history, <<Summary>>}
           /\ Resumed(d, cold) \in Seq(Entries)
<1>1. Resumed(d, cold) \in {stack[d].history, <<Summary>>}
  BY DEF Resumed
<1>2. stack[d].history \in Seq(Entries)
  BY StackFacts DEF Shape
<1>3. <<Summary>> \in Seq(Entries)
  BY EntryTypes
<1> QED BY <1>1, <1>2, <1>3

\* A history that ends in the result just pushed.
LEMMA EndsWithResult ==
    ASSUME NEW h \in Seq(Entries), NEW c \in CallSet
    PROVE  /\ Append(h, Answer(c)) \in Seq(Entries) /\ Append(h, Answer(c)) # <<>>
           /\ Last(Append(h, Answer(c))) = Answer(c)
<1>1. Answer(c) \in Entries
  BY EntryTypes
<1>2. /\ Append(h, Answer(c)) \in Seq(Entries) /\ Append(h, Answer(c)) # <<>>
      /\ Len(Append(h, Answer(c))) = Len(h) + 1
      /\ Append(h, Answer(c))[Len(h) + 1] = Answer(c)
  BY <1>1, AppendProperties
<1> QED BY <1>2 DEF Last

LEMMA TypeStep ==
    ASSUME Shape, [Next]_vars
    PROVE  Shape'
<1>a. /\ sent \in 0..MaxMessages /\ swaps \in 0..MaxSwaps /\ cancels \in 0..MaxCancels
      /\ input \in Seq(Messages) /\ control \in Seq(Agents)
      /\ persisted \in Agents
      /\ pc \in {"idle", "screening", "ready", "requesting", "backoff", "dispatching",
                 "delegated", "finished", "gone"}
      /\ batch \in Seq(Messages) /\ Len(batch) <= MaxFold
      /\ Len(stack) \in 1..MaxDepth
      /\ token \in {"none", "live", "cancelled"} /\ (token # "none" <=> Busy)
      /\ (prompt # Nothing) <=> (pc \in {"ready", "requesting", "backoff"})
      /\ calls # <<>> => pc \in {"dispatching", "delegated"}
      /\ shrink \in [1..MaxDepth -> {"none", "running", "drafted", "failed"}]
      /\ edited \in {"none", "pending", "injected"}
      /\ refused \subseteq Messages
  BY DEF Shape, TypeOK, Messages
<1>b. /\ prompt \in Entries /\ prompt.kind \in {"none", "user", "brief", "result"}
      /\ calls \in Seq(CallSet)
      /\ stack \in Seq(Frames)
      /\ heard \in Seq(Messages)
      /\ abandoned \subseteq Entries
      /\ rounds \in Nat
      /\ batch # <<>> => pc = "screening"
      /\ pc = "delegated" => calls # <<>> /\ calls = <<Next1>>
      /\ pc = "dispatching" /\ calls = <<>> =>
           Top.history # <<>> /\ Last(Top.history).kind = "result"
  BY DEF Shape, ShapeOK
<1>c. /\ Len(stack) \in Nat /\ 1 <= Len(stack) /\ Len(stack) <= MaxDepth
      /\ DOMAIN stack = 1..Len(stack) /\ Len(stack) \in 1..Len(stack)
      /\ Top.history \in Seq(Entries) /\ Top.answering \in CallSet
      /\ Len(stack) \in 1..MaxDepth /\ MaxDepth \in Nat /\ First \in Agents
  BY StackFacts, BoundsAssumption, AgentsAssumption DEF Shape, TypeOK
<1>d. /\ Nothing \in Entries /\ Brief \in Entries /\ Guidance \in Entries
      /\ \A ms \in Seq(Messages) : UserTurn(ms) \in Entries
      /\ \A cs \in Seq(CallSet) : Assistant(cs) \in Entries
      /\ \A c \in CallSet : Answer(c) \in Entries
  BY EntryTypes
<1>e. /\ Nothing.kind = "none" /\ Brief.kind = "brief"
      /\ \A ms : UserTurn(ms).kind = "user" /\ UserTurn(ms) # Nothing
      /\ \A c : Answer(c).kind = "result" /\ Answer(c) # Nothing
      /\ Brief # Nothing
  BY DEF Nothing, Brief, UserTurn, Answer, Entry
<1>f. /\ Fold \in Seq(Messages) /\ Unfolded \in Seq(Messages) /\ Len(Fold) <= MaxFold
      /\ <<>> \in Seq(Messages) /\ <<>> \in Seq(CallSet) /\ Len(<<>>) <= MaxFold
  <2>1. Len(<<>>) = 0 /\ MaxFold \in Nat
    BY BoundsAssumption
  <2> QED BY <2>1, FoldTypes DEF Shape
<1>g. calls # <<>> => Next1 \in CallSet /\ Tail(calls) \in Seq(CallSet)
  BY <1>b, HeadTailProperties DEF Next1
<1>h. \A c \in CallSet : <<c>> \in Seq(CallSet) /\ <<c>> # <<>> /\ Head(<<c>>) = c
  OBVIOUS
<1> DEFINE TypeGoal ==
             /\ sent' \in 0..MaxMessages /\ swaps' \in 0..MaxSwaps /\ cancels' \in 0..MaxCancels
             /\ input' \in Seq(Messages) /\ control' \in Seq(Agents)
             /\ persisted' \in Agents
             /\ pc' \in {"idle", "screening", "ready", "requesting", "backoff", "dispatching",
                         "delegated", "finished", "gone"}
             /\ batch' \in Seq(Messages) /\ Len(batch') <= MaxFold
             /\ Len(stack') \in 1..MaxDepth
             /\ token' \in {"none", "live", "cancelled"} /\ (token' # "none" <=> Busy')
             /\ (prompt' # Nothing) <=> (pc' \in {"ready", "requesting", "backoff"})
             /\ calls' # <<>> => pc' \in {"dispatching", "delegated"}
             /\ shrink' \in [1..MaxDepth -> {"none", "running", "drafted", "failed"}]
             /\ edited' \in {"none", "pending", "injected"}
             /\ refused' \subseteq Messages
           ShapeGoal ==
             /\ prompt' \in Entries /\ prompt'.kind \in {"none", "user", "brief", "result"}
             /\ calls' \in Seq(CallSet)
             /\ stack' \in Seq(Frames)
             /\ heard' \in Seq(Messages)
             /\ abandoned' \subseteq Entries
             /\ rounds' \in Nat
             /\ batch' # <<>> => pc' = "screening"
             /\ pc' = "delegated" => calls' # <<>> /\ calls' = <<Head(calls')>>
             /\ pc' = "dispatching" /\ calls' = <<>> =>
                  /\ stack'[Len(stack')].history # <<>>
                  /\ Last(stack'[Len(stack')].history).kind = "result"
<1>z. TypeGoal /\ ShapeGoal => Shape'
  BY DEF Shape, TypeOK, ShapeOK, Messages, Top, Next1
<1> USE DEF Busy, Top
<1>1. CASE Send
  <2>1. sent \in Nat /\ MaxMessages \in Nat /\ sent + 1 \in Messages /\ sent + 1 \in 0..MaxMessages
    BY <1>1, <1>a, BoundsAssumption DEF Send, Messages
  <2>2. input' \in Seq(Messages)
    BY <1>1, <1>a, <2>1, AppendProperties DEF Send
  <2>3. TypeGoal
    BY <1>1, <1>a, <2>1, <2>2 DEF Send, driverOnly, fate
  <2>4. ShapeGoal
    BY <1>1, <1>b DEF Send, driverOnly, fate
  <2> QED BY <1>z, <2>3, <2>4
<1>2. ASSUME NEW a \in Agents, SetAgent(a) PROVE Shape'
  <2>1. control' \in Seq(Agents)
    BY <1>2, <1>a, AppendProperties DEF SetAgent
  <2>2. TypeGoal
    BY <1>2, <1>a, <2>1, BoundsAssumption DEF SetAgent, driverOnly, fate
  <2>3. ShapeGoal
    BY <1>2, <1>b DEF SetAgent, driverOnly, fate
  <2> QED BY <1>z, <2>2, <2>3
<1>3. CASE CancelRun
  <2>1. TypeGoal
    BY <1>3, <1>a, BoundsAssumption DEF CancelRun, driverOnly, fate, channels
  <2>2. ShapeGoal
    BY <1>3, <1>b DEF CancelRun, driverOnly, fate
  <2> QED BY <1>z, <2>1, <2>2
<1>4. CASE Drain \/ EditGuidance
  <2>1. TypeGoal
    BY <1>4, <1>a DEF Drain, EditGuidance, driverOnly, fate, channels, human
  <2>2. ShapeGoal
    BY <1>4, <1>b DEF Drain, EditGuidance, driverOnly, fate
  <2> QED BY <1>z, <2>1, <2>2
<1>5. CASE TakeInput
  <2>1. TypeGoal
    BY <1>5, <1>a, <1>f DEF TakeInput, outside, human, fate
  <2>2. ShapeGoal
    BY <1>5, <1>b, <1>f DEF TakeInput, fate
  <2> QED BY <1>z, <2>1, <2>2
<1>6. CASE Admit
  <2>1. TypeGoal
    BY <1>6, <1>a, <1>e, <1>f DEF Admit, outside, human, fate, channels
  <2>2. ShapeGoal
    BY <1>6, <1>a, <1>b, <1>d, <1>e DEF Admit, fate
  <2> QED BY <1>z, <2>1, <2>2
<1>7. CASE Refuse
  <2>1. Range(batch) \subseteq Messages
    BY <1>a, RangeOfSeq
  <2>2. TypeGoal
    BY <1>7, <1>a, <1>f, <2>1 DEF Refuse, outside, human, channels
  <2>3. ShapeGoal
    BY <1>7, <1>b DEF Refuse
  <2> QED BY <1>z, <2>2, <2>3
<1>8. CASE TakeControl
  <2>1. Head(control) \in Agents /\ Tail(control) \in Seq(Agents)
    BY <1>8, <1>a, HeadTailProperties DEF TakeControl
  <2>2. stack' \in Seq(Frames) /\ Len(stack') = Len(stack)
    BY <1>8, <2>1, Swapped DEF TakeControl, Shape
  <2>3. TypeGoal
    BY <1>8, <1>a, <2>1, <2>2 DEF TakeControl, outside, human, fate
  <2>4. ShapeGoal
    BY <1>8, <1>b, <2>2 DEF TakeControl, fate
  <2> QED BY <1>z, <2>3, <2>4
<1>9. CASE Request
  <2>1. stack' \in Seq(Frames) /\ Len(stack') = Len(stack)
    <3>1. CASE stack' = Pushed(<<Guidance>>)
      <4>1. Append(Top.history, Guidance) \in Seq(Entries)
        BY <1>c, <1>d, AppendProperties
      <4>2. stack' = [stack EXCEPT ![Len(stack)].history = Append(Top.history, Guidance)]
        BY <1>d, <3>1, PushedOne DEF Shape
      <4> QED BY <1>c, <4>1, <4>2, Replaced DEF Shape
    <3>2. CASE UNCHANGED stack
      BY <1>b, <3>2
    <3> QED BY <1>9, <3>1, <3>2 DEF Request
  <2>2. TypeGoal
    BY <1>9, <1>a, <2>1 DEF Request, Unwind, human, channels
  <2>3. ShapeGoal
    BY <1>9, <1>b, <1>d, <1>e, <2>1 DEF Request, Unwind
  <2> QED BY <1>z, <2>2, <2>3
<1>10. CASE Retry \/ Reattempt
  <2>1. TypeGoal
    BY <1>10, <1>a DEF Retry, Reattempt, outside, human, fate, channels
  <2>2. ShapeGoal
    BY <1>10, <1>b DEF Retry, Reattempt, fate
  <2> QED BY <1>z, <2>1, <2>2
<1>11. CASE Abort
  <2>1. TypeGoal
    BY <1>11, <1>a DEF Abort, Unwind, outside, human, channels
  <2>2. ShapeGoal
    BY <1>11, <1>b, <1>d, <1>e DEF Abort, Unwind
  <2> QED BY <1>z, <2>1, <2>2
<1>12. ASSUME NEW kinds \in Offered, Respond(kinds) PROVE Shape'
  <2>1. Placed(kinds) \in Seq(CallSet) /\ (kinds # <<>> => Placed(kinds) # <<>>)
    BY PlacedTypes
  <2>2. Placed(<<>>) = <<>>
    BY DEF Placed
  <2>3. stack' \in Seq(Frames) /\ Len(stack') = Len(stack)
    <3>1. /\ prompt \in Entries /\ Assistant(Placed(kinds)) \in Entries
          /\ stack' = Pushed(<<prompt, Assistant(Placed(kinds))>>)
      BY <1>12, <1>b, <1>d, <2>1 DEF Respond
    <3>2. stack' = [stack EXCEPT ![Len(stack)].history =
                      Append(Append(Top.history, prompt), Assistant(Placed(kinds)))]
      BY <3>1, PushedTwo DEF Shape
    <3>3. Append(Append(Top.history, prompt), Assistant(Placed(kinds))) \in Seq(Entries)
      BY <1>c, <3>1, Appended
    <3> QED BY <1>c, <3>2, <3>3, Replaced DEF Shape
  <2>4. heard' \in Seq(Messages)
    <3>1. prompt.msgs \in Seq(Messages)
      BY <1>b, EntryFields
    <3> QED BY <1>12, <1>b, <3>1, ConcatProperties DEF Respond
  <2>5. TypeGoal
    BY <1>12, <1>a, <2>1, <2>2, <2>3 DEF Respond, Answered, outside, human, channels
  <2>6. ShapeGoal
    BY <1>12, <1>b, <1>d, <1>e, <2>1, <2>3, <2>4 DEF Respond, Answered
  <2> QED BY <1>z, <2>5, <2>6
<1>13. CASE Fail
  <2>1. TypeGoal
    BY <1>13, <1>a DEF Fail, Answered, outside, human, channels
  <2>2. ShapeGoal
    BY <1>13, <1>b, <1>d, <1>e, <1>f DEF Fail, Answered
  <2> QED BY <1>z, <2>1, <2>2
<1>14. CASE Dispatch
  <2>1. Next1 \in CallSet /\ Tail(calls) \in Seq(CallSet) /\ Answer(Next1) \in Entries
    BY <1>14, <1>d, <1>g DEF Dispatch, AtCall
  <2> DEFINE h == Append(Top.history, Answer(Next1))
  <2>2. h \in Seq(Entries) /\ h # <<>> /\ Last(h).kind = "result"
    BY <1>c, <1>e, <2>1, EndsWithResult
  <2>3. stack' = [stack EXCEPT ![Len(stack)].history = h]
    BY <1>14, <2>1, PushedOne DEF Shape, Dispatch
  <2>4. /\ stack' \in Seq(Frames) /\ Len(stack') = Len(stack)
        /\ stack'[Len(stack)].history = h
    BY <1>c, <2>2, <2>3, Replaced DEF Shape
  <2> HIDE DEF h
  <2>5. TypeGoal
    BY <1>14, <1>a, <2>4 DEF Dispatch, AtCall, outside, human, fate, channels
  <2>6. ShapeGoal
    BY <1>14, <1>b, <2>1, <2>2, <2>4 DEF Dispatch, AtCall, fate
  <2> QED BY <1>z, <2>5, <2>6
<1>15. CASE Continue
  <2>1. Top.history # <<>> /\ Last(Top.history).kind = "result"
    BY <1>15, <1>b DEF Continue
  <2>2. Front(Top.history) \in Seq(Entries) /\ Last(Top.history) \in Entries
    BY <1>c, <2>1, FrontAndLast
  <2>3. stack' \in Seq(Frames) /\ Len(stack') = Len(stack)
    <3>1. CASE input = <<>>
      <4>1. stack' = [stack EXCEPT ![Len(stack)].history = Front(Top.history)]
        BY <1>15, <3>1 DEF Continue
      <4> QED BY <1>c, <2>2, <4>1, Replaced DEF Shape
    <3>2. CASE input # <<>>
      BY <1>15, <1>b, <3>2 DEF Continue
    <3> QED BY <3>1, <3>2
  <2>4. prompt' \in Entries /\ prompt'.kind \in {"user", "result"} /\ prompt' # Nothing
    BY <1>15, <1>d, <1>e, <1>f, <2>1, <2>2 DEF Continue
  <2>5. TypeGoal
    BY <1>15, <1>a, <1>f, <2>3, <2>4 DEF Continue, outside, human, fate
  <2>6. ShapeGoal
    BY <1>15, <1>b, <2>3, <2>4 DEF Continue, fate
  <2> QED BY <1>z, <2>5, <2>6
<1>16. CASE SpawnSubagent
  <2>1. Next1 \in CallSet
    BY <1>16, <1>g DEF SpawnSubagent, AtCall
  <2>2. stack' \in Seq(Frames) /\ Len(stack') = Len(stack) + 1
    BY <1>16, <2>1, Spawned DEF SpawnSubagent, Shape
  <2>3. Len(stack') \in 1..MaxDepth
    BY <1>16, <1>c, <2>2 DEF SpawnSubagent
  <2>4. TypeGoal
    BY <1>16, <1>a, <1>e, <2>3 DEF SpawnSubagent, AtCall, outside, human, fate, channels
  <2>5. ShapeGoal
    BY <1>16, <1>b, <1>d, <1>e, <1>f, <2>2 DEF SpawnSubagent, AtCall, fate
  <2> QED BY <1>z, <2>4, <2>5
<1>17. CASE Delegate
  <2>1. Next1 \in CallSet
    BY <1>17, <1>g DEF Delegate, AtCall
  <2>2. TypeGoal
    BY <1>17, <1>a, <1>h, <2>1 DEF Delegate, AtCall, outside, human, fate, channels
  <2>3. ShapeGoal
    BY <1>17, <1>b, <1>h, <2>1 DEF Delegate, AtCall, fate
  <2> QED BY <1>z, <2>2, <2>3
<1>18. CASE JobAction
  <2>1. Next1 \in CallSet
    BY <1>18, <1>g DEF JobAction, AtCall
  <2>2. TypeGoal
    BY <1>18, <1>a, <1>e DEF JobAction, AtCall, outside, human, fate, channels
  <2>3. ShapeGoal
    BY <1>18, <1>b, <1>d, <1>e, <1>f, <2>1 DEF JobAction, AtCall, fate
  <2> QED BY <1>z, <2>2, <2>3
<1>19. ASSUME NEW a \in Agents, Handoff(a) PROVE Shape'
  <2>1. Next1 \in CallSet
    BY <1>19, <1>g DEF Handoff, AtCall
  <2>2. stack' \in Seq(Frames) /\ Len(stack') = Len(stack)
    BY <1>19, Swapped DEF Handoff, Shape
  <2>3. TypeGoal
    BY <1>19, <1>a, <1>e, <2>2 DEF Handoff, AtCall, outside, human, fate, channels
  <2>4. ShapeGoal
    BY <1>19, <1>b, <1>d, <1>e, <1>f, <2>1, <2>2 DEF Handoff, AtCall, fate
  <2> QED BY <1>z, <2>3, <2>4
<1>20. ASSUME NEW cold \in BOOLEAN, NEW seeds \in BOOLEAN, DelegateReturns(cold, seeds)
       PROVE  Shape'
  <2> DEFINE d == Len(stack)
             h == Resumed(d, cold)
             g == IF seeds THEN Seeded(h, Next1) ELSE h
  <2>1. Next1 \in CallSet
    BY <1>20, <1>b, <1>g DEF DelegateReturns
  <2>2. g \in Seq(Entries)
    BY <1>c, <2>1, ResumedForm, SeededForm
  <2>3. stack' = [stack EXCEPT ![d].history = g]
    BY <1>20 DEF DelegateReturns
  <2>4. stack' \in Seq(Frames) /\ Len(stack') = Len(stack)
    BY <1>c, <2>2, <2>3, Replaced DEF Shape
  <2> HIDE DEF g, h, d
  <2>5. TypeGoal
    BY <1>20, <1>a, <1>e, <2>4 DEF DelegateReturns, outside, human, fate, channels
  <2>6. ShapeGoal
    BY <1>20, <1>b, <1>d, <1>e, <1>f, <2>1, <2>4 DEF DelegateReturns, fate
  <2> QED BY <1>z, <2>5, <2>6
<1>21. ASSUME NEW cold \in BOOLEAN, PopChild(cold) PROVE Shape'
  <2> DEFINE d == Len(stack) - 1
             h == Resumed(d, cold)
  <2>1. d \in 1..Len(stack) /\ d \in Nat /\ 1 <= d
    BY <1>21, <1>c DEF PopChild, IsRoot
  <2>2. h \in Seq(Entries)
    BY <2>1, ResumedForm
  <2>3. stack' = [Front(stack) EXCEPT ![d].history = h]
    BY <1>21 DEF PopChild
  <2> HIDE DEF h
  <2>4. stack' \in Seq(Frames) /\ Len(stack') = d
    BY <1>21, <2>2, <2>3, Popped DEF Shape, PopChild
  <2>5. Len(stack') \in 1..MaxDepth
    BY <1>c, <2>1, <2>4
  <2> HIDE DEF d
  <2>6. TypeGoal
    BY <1>21, <1>a, <1>e, <2>5 DEF PopChild, outside, human, fate, channels
  <2>7. ShapeGoal
    BY <1>21, <1>b, <1>c, <1>d, <1>e, <2>4 DEF PopChild, fate
  <2> QED BY <1>z, <2>6, <2>7
<1>22. CASE Finish
  <2>1. TypeGoal
    BY <1>22, <1>a, <1>e, <1>f DEF Finish, outside, human, fate
  <2>2. ShapeGoal
    BY <1>22, <1>b, <1>d, <1>e, <1>f DEF Finish, fate
  <2> QED BY <1>z, <2>1, <2>2
<1>23. ASSUME NEW d \in 1..MaxDepth, Draft(d) PROVE Shape'
  <2>1. TypeGoal
    BY <1>23, <1>a DEF Draft, outside, human, fate, channels
  <2>2. ShapeGoal
    BY <1>23, <1>b DEF Draft, fate
  <2> QED BY <1>z, <2>1, <2>2
<1>24. CASE UNCHANGED vars
  <2>1. TypeGoal
    BY <1>24, <1>a DEF vars, outside, human, fate, channels
  <2>2. ShapeGoal
    BY <1>24, <1>b DEF vars, fate
  <2> QED BY <1>z, <2>1, <2>2
<1> HIDE DEF TypeGoal, ShapeGoal
<1> QED BY <1>1, <1>2, <1>3, <1>4, <1>5, <1>6, <1>7, <1>8, <1>9, <1>10, <1>11, <1>12, <1>13,
           <1>14, <1>15, <1>16, <1>17, <1>18, <1>19, <1>20, <1>21, <1>22, <1>23, <1>24
           DEF Next, World, Driver

-----------------------------------------------------------------------------
(***************************************************************************)
(* The line of the messages.                                               *)
(***************************************************************************)
LEMMA Assoc ==
    ASSUME NEW r \in Seq(Nat), NEW s \in Seq(Nat), NEW t \in Seq(Nat)
    PROVE  (r \o s) \o t = r \o (s \o t)
  BY SMTT(20), ConcatAssociative

LEMMA LineTypes ==
    ASSUME Shape
    PROVE  /\ heard \in Seq(Nat) /\ prompt.msgs \in Seq(Nat) /\ batch \in Seq(Nat)
           /\ input \in Seq(Nat) /\ Line \in Seq(Nat)
           /\ Fold \in Seq(Nat) /\ Unfolded \in Seq(Nat) /\ Fold \o Unfolded = input
           /\ input = <<>> => Fold = <<>> /\ Unfolded = <<>>
           /\ \A s \in Seq(Nat) : s \o <<>> = s /\ <<>> \o s = s
           /\ <<>> \in Seq(Nat)
<1>1. Messages \subseteq Nat
  BY BoundsAssumption DEF Messages
<1>2. \A s \in Seq(Messages) : s \in Seq(Nat)
  BY <1>1, SeqMonotonic
<1>3. /\ heard \in Seq(Messages) /\ prompt.msgs \in Seq(Messages)
      /\ batch \in Seq(Messages) /\ input \in Seq(Messages)
  BY EntryFields DEF Shape, ShapeOK, TypeOK, Messages
<1>4. /\ heard \in Seq(Nat) /\ prompt.msgs \in Seq(Nat) /\ batch \in Seq(Nat)
      /\ input \in Seq(Nat)
  BY <1>2, <1>3
<1>5. /\ Fold \in Seq(Nat) /\ Unfolded \in Seq(Nat) /\ Fold \o Unfolded = input
      /\ input = <<>> => Fold = <<>> /\ Unfolded = <<>>
  BY <1>4, FoldCuts, BoundsAssumption
<1>6. batch \o input \in Seq(Nat)
  BY <1>4, ConcatProperties
<1>7. prompt.msgs \o (batch \o input) \in Seq(Nat)
  BY <1>4, <1>6, ConcatProperties
<1>8. Line \in Seq(Nat)
  BY <1>4, <1>7, ConcatProperties DEF Line
<1>9. \A s \in Seq(Nat) : s \o <<>> = s /\ <<>> \o s = s
  BY ConcatEmptySeq
<1> QED BY <1>4, <1>5, <1>8, <1>9

\* Without a batch, or without a prompt, the line is shorter.
LEMMA LineForms ==
    ASSUME Shape
    PROVE  /\ batch = <<>> => Line = heard \o (prompt.msgs \o input)
           /\ prompt.msgs = <<>> => Line = heard \o (batch \o input)
           /\ batch = <<>> /\ prompt.msgs = <<>> => Line = heard \o input
           /\ prompt = Nothing => prompt.msgs = <<>>
           /\ pc # "screening" => batch = <<>>
           /\ pc \notin {"ready", "requesting", "backoff"} => prompt = Nothing
<1>1. batch \o input \in Seq(Nat)
  BY LineTypes, ConcatProperties
<1>2. Nothing.msgs = <<>>
  BY DEF Nothing, Entry
<1>3. /\ pc # "screening" => batch = <<>>
      /\ pc \notin {"ready", "requesting", "backoff"} => prompt = Nothing
  BY DEF Shape, ShapeOK, TypeOK
<1>4. batch = <<>> => batch \o input = input
  BY LineTypes
<1>5. prompt.msgs = <<>> => prompt.msgs \o (batch \o input) = batch \o input
  BY <1>1, LineTypes
<1> QED BY <1>2, <1>3, <1>4, <1>5 DEF Line

LEMMA NextForms ==
    ASSUME Shape'
    PROVE  /\ batch' = <<>> => Line' = heard' \o (prompt'.msgs \o input')
           /\ prompt'.msgs = <<>> => Line' = heard' \o (batch' \o input')
           /\ batch' = <<>> /\ prompt'.msgs = <<>> => Line' = heard' \o input'
<1>1. Messages \subseteq Nat
  BY BoundsAssumption DEF Messages
<1>2. \A s \in Seq(Messages) : s \in Seq(Nat)
  BY <1>1, SeqMonotonic
<1>3. /\ heard' \in Seq(Messages) /\ prompt' \in Entries
      /\ batch' \in Seq(Messages) /\ input' \in Seq(Messages)
  BY DEF Shape, ShapeOK, TypeOK, Messages
<1>4. prompt'.msgs \in Seq(Messages)
  BY <1>3, EntryFields
<1>5. prompt'.msgs \in Seq(Nat) /\ batch' \in Seq(Nat) /\ input' \in Seq(Nat)
  BY <1>2, <1>3, <1>4
<1>6. \A s \in Seq(Nat) : <<>> \o s = s
  BY ConcatEmptySeq
<1>7. batch' \o input' \in Seq(Nat)
  BY <1>5, ConcatProperties
<1>8. batch' = <<>> => batch' \o input' = input'
  BY <1>5, <1>6
<1>9. prompt'.msgs = <<>> => prompt'.msgs \o (batch' \o input') = batch' \o input'
  BY <1>6, <1>7
<1> QED BY <1>8, <1>9 DEF Line

LEMMA SameLine ==
    ASSUME LineOK, Line' = Line, UNCHANGED <<sent, refused, abandoned>>
    PROVE  LineOK'
  BY DEF LineOK, InPrompts

\* The messages of a prompt that is given up leave the line.
LEMMA PromptOut ==
    ASSUME Shape, Shape', LineOK, batch = <<>>, abandoned' = abandoned \cup {prompt},
           prompt' = Nothing, UNCHANGED <<sent, refused, heard, batch, input>>
    PROVE  LineOK'
<1>1. Line = heard \o (prompt.msgs \o input)
  BY LineForms
<1>2. Line' = heard \o input
  <2>1. batch' = <<>> /\ prompt'.msgs = <<>>
    BY DEF Nothing, Entry
  <2> QED BY <2>1, NextForms
<1>3. /\ heard \in Seq(Nat) /\ prompt.msgs \in Seq(Nat) /\ input \in Seq(Nat)
  BY LineTypes
<1>4. Ascending(heard \o (prompt.msgs \o input))
  BY <1>1 DEF LineOK
<1>5. /\ Ascending(heard \o input)
      /\ Range(heard \o (prompt.msgs \o input)) = Range(heard \o input) \cup Range(prompt.msgs)
      /\ Range(heard \o input) \cap Range(prompt.msgs) = {}
  BY <1>3, <1>4, BlockOut
<1>6. /\ Ascending(Line') /\ Range(Line) = Range(Line') \cup Range(prompt.msgs)
      /\ Range(Line') \cap Range(prompt.msgs) = {}
  BY <1>1, <1>2, <1>5
<1>7. InPrompts' = InPrompts \cup Range(prompt.msgs)
  BY DEF InPrompts
<1>8. /\ 1..sent = Range(Line) \cup refused \cup InPrompts
      /\ Range(Line) \cap refused = {} /\ Range(Line) \cap InPrompts = {}
      /\ refused \cap InPrompts = {}
  BY DEF LineOK
<1> DEFINE A == Ascending(Line')
           R == Range(Line)
           T == Range(Line')
           M == Range(prompt.msgs)
           P == InPrompts'
<1>9. /\ 1..sent' = T \cup refused' \cup P
      /\ T \cap refused' = {} /\ T \cap P = {} /\ refused' \cap P = {}
  <2>1. sent' = sent /\ refused' = refused
    OBVIOUS
  <2> HIDE DEF R, T, M, P
  <2>2. R = T \cup M /\ T \cap M = {} /\ P = InPrompts \cup M
    BY <1>6, <1>7 DEF R, T, M, P
  <2>3. 1..sent = R \cup refused \cup InPrompts /\ R \cap refused = {} /\ R \cap InPrompts = {}
    BY <1>8 DEF R
  <2> QED BY <1>8, <2>1, <2>2, <2>3
<1> QED BY <1>6, <1>9 DEF LineOK

LEMMA LineStep ==
    ASSUME Shape, Shape', LineOK, Next
    PROVE  LineOK'
<1>a. Nothing.msgs = <<>> /\ Brief.msgs = <<>> /\ (\A c : Answer(c).msgs = <<>>)
      /\ \A ms : UserTurn(ms).msgs = ms
  BY DEF Nothing, Brief, Answer, UserTurn, Entry
\* Where no message waits in a batch or in a prompt.
<1>b. ASSUME pc \notin {"screening", "ready", "requesting", "backoff"}
      PROVE  prompt = Nothing /\ prompt.msgs = <<>> /\ batch = <<>> /\ Line = heard \o input
  BY <1>b, LineForms
\* A prompt that holds what was folded, or nothing.
<1>c. ASSUME pc \notin {"screening", "ready", "requesting", "backoff"},
             UNCHANGED <<heard, batch>>,
             \/ prompt'.msgs = Fold /\ input' = Unfolded
             \/ prompt'.msgs = <<>> /\ input' = input
      PROVE  Line' = Line
  <2>1. batch' = <<>> /\ Line = heard \o input /\ heard' = heard
    BY <1>b, <1>c
  <2>2. Line' = heard \o (prompt'.msgs \o input')
    BY <2>1, NextForms
  <2>3. prompt'.msgs \o input' = input
    BY <1>c, LineTypes
  <2> QED BY <2>1, <2>2, <2>3
<1>1. CASE Send
  <2>1. sent \in Nat /\ sent + 1 \in Nat
    BY BoundsAssumption DEF Shape, TypeOK
  <2> DEFINE n == <<sent + 1>>
  <2>a. n \in Seq(Nat)
    BY <2>1
  <2> HIDE DEF n
  <2>2. input' = input \o n /\ UNCHANGED <<heard, prompt, batch, refused, abandoned>>
    <3>1. input' = Append(input, sent + 1)
      BY <1>1 DEF Send
    <3>2. Append(input, sent + 1) = input \o n
      <4>1. input \in Seq(Nat)
        BY LineTypes
      <4> QED BY <2>1, <4>1, AppendIsConcat DEF n
    <3> QED BY <1>1, <3>1, <3>2 DEF Send, driverOnly, fate
  <2>3. Line' = Line \o n
    <3>1. batch \in Seq(Nat) /\ input \in Seq(Nat) /\ prompt.msgs \in Seq(Nat) /\ heard \in Seq(Nat)
      BY LineTypes
    <3>2. input' = input \o n /\ heard' = heard /\ prompt' = prompt /\ batch' = batch
      BY <2>2
    <3>a. batch \o input \in Seq(Nat)
      BY <3>1, ConcatProperties
    <3>b. prompt.msgs \o (batch \o input) \in Seq(Nat)
      BY <3>1, <3>a, ConcatProperties
    <3>3. (batch \o input) \o n = batch \o (input \o n)
      BY SMTT(20), <2>a, <3>1, Assoc
    <3>4. (prompt.msgs \o (batch \o input)) \o n = prompt.msgs \o ((batch \o input) \o n)
      BY ZenonT(40), <2>a, <3>1, <3>a, Assoc
    <3>5. (heard \o (prompt.msgs \o (batch \o input))) \o n
            = heard \o ((prompt.msgs \o (batch \o input)) \o n)
      BY ZenonT(40), <2>a, <3>1, <3>b, Assoc
    <3>6. Line' = heard \o (prompt.msgs \o (batch \o (input \o n)))
      BY <3>2 DEF Line
    <3> QED BY <3>3, <3>4, <3>5, <3>6 DEF Line
  <2>4. InPrompts' = InPrompts
    BY <2>2 DEF InPrompts
  <2>5. sent + 1 \notin 1..sent /\ 1..sent + 1 = (1..sent) \cup {sent + 1}
        /\ \A x \in 1..sent : x < sent + 1
    BY <2>1
  <2>6. \A x \in Range(Line) : x < sent + 1
    BY <2>5 DEF LineOK
  <2>7. Ascending(Line \o n) /\ Range(Line \o n) = Range(Line) \cup {sent + 1}
    BY <2>1, <2>6, LineTypes, OneMore DEF LineOK, n
  <2>8. sent' = sent + 1
    BY <1>1 DEF Send
  <2> QED BY <2>2, <2>3, <2>4, <2>5, <2>7, <2>8 DEF LineOK
<1>2. CASE \/ \E a \in Agents : SetAgent(a)
           \/ CancelRun \/ Drain \/ EditGuidance \/ TakeControl \/ Retry \/ Reattempt
           \/ Dispatch \/ Delegate \/ \E d \in 1..MaxDepth : Draft(d)
  <2>1. UNCHANGED <<sent, refused, abandoned, heard, prompt, batch, input>>
    BY <1>2 DEF SetAgent, CancelRun, Drain, EditGuidance, TakeControl, Retry, Reattempt, Dispatch,
                Delegate, Draft, driverOnly, fate, channels, outside, human
  <2>2. Line' = Line
    BY <2>1 DEF Line
  <2> QED BY <2>1, <2>2, SameLine
<1>3. CASE TakeInput
  <2>1. batch = <<>> /\ Line = heard \o input
    BY <1>3, <1>b DEF TakeInput
  <2>2. /\ batch' = Fold /\ input' = Unfolded /\ prompt' = prompt /\ prompt.msgs = <<>>
        /\ UNCHANGED <<sent, refused, abandoned, heard>>
    BY <1>3, <1>b DEF TakeInput, fate, outside, human
  <2>3. Line' = heard' \o (batch' \o input')
    BY <2>2, NextForms
  <2>4. Line' = Line
    BY <2>1, <2>2, <2>3, LineTypes
  <2> QED BY <2>2, <2>4, SameLine
<1>4. CASE Admit
  <2>1. prompt.msgs = <<>> /\ Line = heard \o (batch \o input)
    BY <1>4, LineForms DEF Admit
  <2>2. /\ batch' = <<>> /\ prompt'.msgs = batch
        /\ UNCHANGED <<sent, refused, abandoned, heard, input>>
    BY <1>4, <1>a DEF Admit, fate, outside, human, channels
  <2>3. Line' = heard' \o (prompt'.msgs \o input')
    BY <2>2, NextForms
  <2>4. Line' = Line
    BY <2>1, <2>2, <2>3
  <2> QED BY <2>2, <2>4, SameLine
<1>5. CASE Refuse
  <2>1. prompt.msgs = <<>> /\ Line = heard \o (batch \o input)
    BY <1>5, LineForms DEF Refuse
  <2>2. /\ batch' = <<>> /\ prompt' = prompt /\ refused' = refused \cup Range(batch)
        /\ UNCHANGED <<sent, abandoned, heard, input>>
    BY <1>5 DEF Refuse, outside, human, channels
  <2>3. Line' = heard \o input
    BY <2>1, <2>2, NextForms
  <2>4. /\ Ascending(heard \o input)
        /\ Range(heard \o (batch \o input)) = Range(heard \o input) \cup Range(batch)
        /\ Range(heard \o input) \cap Range(batch) = {}
    <3>1. Ascending(heard \o (batch \o input))
      BY <2>1 DEF LineOK
    <3> QED BY <3>1, LineTypes, BlockOut
  <2> DEFINE T == Range(Line')
             M == Range(batch)
  <2>5. Ascending(Line') /\ Range(Line) = T \cup M /\ T \cap M = {}
    BY <2>1, <2>3, <2>4
  <2>6. InPrompts' = InPrompts
    BY <2>2 DEF InPrompts
  <2>7. /\ 1..sent' = T \cup refused' \cup InPrompts'
        /\ T \cap refused' = {} /\ T \cap InPrompts' = {} /\ refused' \cap InPrompts' = {}
    <3> HIDE DEF T, M
    <3>1. refused' = refused \cup M /\ sent' = sent
      BY <2>2 DEF M
    <3>2. /\ 1..sent = Range(Line) \cup refused \cup InPrompts
          /\ Range(Line) \cap refused = {} /\ Range(Line) \cap InPrompts = {}
          /\ refused \cap InPrompts = {}
      BY DEF LineOK
    <3> QED BY <2>5, <2>6, <3>1, <3>2
  <2> QED BY <2>5, <2>7 DEF LineOK
<1>6. CASE Request
  <2>1. UNCHANGED <<sent, refused, heard, batch, input>> /\ batch = <<>>
    BY <1>6, LineForms DEF Request, human, channels
  <2>2. CASE Unwind
    BY <2>1, <2>2, PromptOut DEF Unwind
  <2>3. CASE UNCHANGED <<prompt, abandoned>>
    <3>1. Line' = Line
      BY <2>1, <2>3 DEF Line
    <3> QED BY <2>1, <2>3, <3>1, SameLine
  <2> QED BY <1>6, <2>2, <2>3 DEF Request
<1>7. CASE Abort
  <2>1. UNCHANGED <<sent, refused, heard, batch, input>> /\ batch = <<>>
    BY <1>7, LineForms DEF Abort, outside, human, channels
  <2>2. Unwind
    BY <1>7 DEF Abort
  <2> QED BY <2>1, <2>2, PromptOut DEF Unwind
<1>8. ASSUME NEW kinds \in Offered, Respond(kinds) PROVE LineOK'
  <2>1. /\ batch = <<>> /\ Line = heard \o (prompt.msgs \o input)
        /\ heard' = heard \o prompt.msgs /\ prompt' = Nothing
        /\ UNCHANGED <<sent, refused, abandoned, batch, input>>
    BY <1>8, LineForms DEF Respond, Answered, outside, human, channels
  <2>2. Line' = heard' \o input'
    BY <1>a, <2>1, NextForms
  <2>3. (heard \o prompt.msgs) \o input = heard \o (prompt.msgs \o input)
    <3>1. heard \in Seq(Nat) /\ prompt.msgs \in Seq(Nat) /\ input \in Seq(Nat)
      BY LineTypes
    <3> QED BY <3>1, Assoc
  <2>4. Line' = Line
    BY <2>1, <2>2, <2>3
  <2> QED BY <2>1, <2>4, SameLine
<1>9. CASE Fail
  <2>1. UNCHANGED <<sent, refused, heard, batch, input>> /\ batch = <<>> /\ prompt' = Nothing
    BY <1>9, LineForms DEF Fail, Answered, outside, human, channels
  <2>2. CASE prompt = Nothing
    <3>1. UNCHANGED <<prompt, abandoned>>
      BY <1>9, <2>2 DEF Fail
    <3>2. Line' = Line
      BY <2>1, <3>1 DEF Line
    <3> QED BY <2>1, <3>1, <3>2, SameLine
  <2>3. CASE prompt # Nothing
    <3>1. abandoned' = abandoned \cup {prompt}
      BY <1>9, <2>3 DEF Fail
    <3> QED BY <2>1, <3>1, PromptOut
  <2> QED BY <2>2, <2>3
<1>10. CASE Continue
  <2>1. prompt'.msgs = Fold /\ input' = Unfolded
    <3>1. CASE input = <<>>
      <4>1. Top.history # <<>> /\ Last(Top.history).kind = "result" /\ Top.history \in Seq(Entries)
        BY <1>10, StackFacts DEF Continue, Shape, ShapeOK
      <4>2. Last(Top.history) \in Entries
        BY <4>1, FrontAndLast
      <4>3. Last(Top.history).msgs = <<>>
        BY <4>1, <4>2, EntryFields
      <4>4. prompt' = Last(Top.history) /\ input' = Unfolded
        BY <1>10, <3>1 DEF Continue
      <4> QED BY <3>1, <4>3, <4>4, LineTypes
    <3>2. CASE input # <<>>
      BY <1>10, <1>a, <3>2 DEF Continue
    <3> QED BY <3>1, <3>2
  <2>2. UNCHANGED <<sent, refused, abandoned, heard, batch>> /\ pc = "dispatching"
    BY <1>10 DEF Continue, fate, outside, human
  <2>3. Line' = Line
    BY <1>c, <2>1, <2>2
  <2> QED BY <2>2, <2>3, SameLine
<1>11. CASE \/ SpawnSubagent \/ JobAction \/ (\E a \in Agents : Handoff(a))
            \/ (\E cold, seeds \in BOOLEAN : DelegateReturns(cold, seeds))
            \/ (\E cold \in BOOLEAN : PopChild(cold))
  <2>1. /\ pc \in {"dispatching", "delegated", "finished"}
        /\ UNCHANGED <<sent, refused, abandoned, heard, batch, input>>
        /\ prompt' = Brief \/ \E c : prompt' = Answer(c)
    BY <1>11 DEF SpawnSubagent, JobAction, Handoff, DelegateReturns, PopChild, AtCall, fate, outside,
                 human, channels
  <2>2. prompt'.msgs = <<>>
    BY <1>a, <2>1
  <2>3. Line' = Line
    BY <1>c, <2>1, <2>2
  <2> QED BY <2>1, <2>3, SameLine
<1>12. CASE Finish
  <2>1. /\ prompt'.msgs = Fold /\ input' = Unfolded
        /\ UNCHANGED <<sent, refused, abandoned, heard, batch>> /\ pc = "finished"
    <3>1. CASE input = <<>>
      <4>1. prompt.msgs = <<>> /\ prompt' = prompt
        BY <1>12, <1>b, <3>1 DEF Finish
      <4> QED BY <1>12, <3>1, <4>1, LineTypes DEF Finish, fate, outside, human
    <3>2. CASE input # <<>>
      BY <1>12, <1>a, <3>2 DEF Finish, fate, outside, human
    <3> QED BY <3>1, <3>2
  <2>2. Line' = Line
    BY <1>c, <2>1
  <2> QED BY <2>1, <2>2, SameLine
<1> QED BY <1>1, <1>2, <1>3, <1>4, <1>5, <1>6, <1>7, <1>8, <1>9, <1>10, <1>11, <1>12
           DEF Next, World, Driver

-----------------------------------------------------------------------------
(***************************************************************************)
(* What every action keeps of the transcripts.                             *)
(***************************************************************************)
Later ==
    /\ abandoned \subseteq abandoned'
    /\ pc = "gone" => pc' = "gone"
    /\ rounds <= rounds'
    /\ Undispatched' => Undispatched \/ rounds < rounds'

LEMMA StepIsLater ==
    ASSUME Shape, Next
    PROVE  Later
<1>1. rounds \in Nat /\ rounds <= rounds /\ rounds < rounds + 1
  BY DEF Shape, ShapeOK
<1>2. CASE World \/ \E d \in 1..MaxDepth : Draft(d)
  BY <1>1, <1>2 DEF World, Send, SetAgent, CancelRun, Drain, EditGuidance, Draft, driverOnly, fate,
                    Later, Undispatched
<1>3. CASE TakeInput \/ Admit \/ Refuse \/ TakeControl
  BY <1>1, <1>3 DEF TakeInput, Admit, Refuse, TakeControl, fate, Later, Undispatched
<1>4. CASE Request \/ Retry \/ Reattempt \/ Abort \/ Fail
  BY <1>1, <1>4 DEF Request, Retry, Reattempt, Abort, Fail, Unwind, Answered, fate, Later,
                    Undispatched
<1>5. CASE \E kinds \in Offered : Respond(kinds)
  BY <1>1, <1>5 DEF Respond, Answered, Later, Undispatched
<1>6. CASE Dispatch \/ Continue \/ SpawnSubagent \/ Delegate \/ JobAction
  BY <1>1, <1>6 DEF Dispatch, Continue, SpawnSubagent, Delegate, JobAction, AtCall, fate, Later,
                    Undispatched
<1>7. CASE \/ \E a \in Agents : Handoff(a)
           \/ \E cold, seeds \in BOOLEAN : DelegateReturns(cold, seeds)
           \/ \E cold \in BOOLEAN : PopChild(cold)
           \/ Finish
  BY <1>1, <1>7 DEF Handoff, DelegateReturns, PopChild, Finish, AtCall, fate, Later, Undispatched
<1> QED BY <1>2, <1>3, <1>4, <1>5, <1>6, <1>7 DEF Next, Driver

LEMMA StaysRecent ==
    ASSUME Shape, Shape', Later, NEW c \in CallSet, Recent(c)
    PROVE  Recent(c)'
<1>1. c.round \in Nat /\ rounds \in Nat /\ rounds' \in Nat
  BY DEF CallSet, Shape, ShapeOK
<1> QED BY <1>1 DEF Later, Recent

LEMMA StaysExplained ==
    ASSUME Later, NEW h, NEW g, NEW c, Explained(h, c), CallsOf(h) \subseteq CallsOf(g)
    PROVE  Explained(g, c)'
  BY DEF Later, Explained, Skipped

LEMMA PausedRule ==
    ASSUME NEW d, NEW h, NEW a, stack'[d].history = h, stack'[d + 1].answering = a,
           Good(h), a \in Open(h),
           \A c \in Known(h) : Recent(c)',
           \A c \in Open(h) : c = a \/ Explained(h, c)'
    PROVE  PausedOK(d)'
  BY DEF PausedOK

LEMMA StaysPaused ==
    ASSUME Shape, Shape', Later, NEW d \in 1..Len(stack) - 1, PausedOK(d),
           stack'[d].history = stack[d].history,
           stack'[d + 1].answering = stack[d + 1].answering
    PROVE  PausedOK(d)'
<1>1. stack[d].history \in Seq(Entries)
  BY StackFacts DEF Shape
<1>2. PICK h, a :
         /\ h \in Seq(Entries) /\ h = stack[d].history /\ stack'[d].history = h
         /\ a = stack[d + 1].answering /\ stack'[d + 1].answering = a
  BY <1>1
<1>3. /\ Good(h) /\ a \in Open(h)
      /\ \A c \in Known(h) : Recent(c)
      /\ \A c \in Open(h) : c = a \/ Explained(h, c)
  BY <1>2 DEF PausedOK
<1>4. Known(h) \subseteq CallSet
  BY <1>2, KnownTyped DEF Known
<1>5. \A c \in Known(h) : Recent(c)'
  BY <1>3, <1>4, StaysRecent
<1>6. \A c \in Open(h) : c = a \/ Explained(h, c)'
  BY <1>3, StaysExplained
<1> QED BY <1>2, <1>3, <1>5, <1>6, PausedRule

\* The frames below an unchanged number of frames.
LEMMA SameBelow ==
    ASSUME Shape, Shape', Later, TranscriptsOK, Len(stack') = Len(stack),
           \A d \in 1..Len(stack) : stack'[d].answering = stack[d].answering
                                    /\ (d # Len(stack) => stack'[d].history = stack[d].history)
    PROVE  \A d \in 1..Len(stack') - 1 : PausedOK(d)'
<1> SUFFICES ASSUME NEW d \in 1..Len(stack) - 1
             PROVE  PausedOK(d)'
  OBVIOUS
<1>1. Len(stack) \in Nat
  BY StackFacts DEF Shape
<1>2. d \in 1..Len(stack) /\ d + 1 \in 1..Len(stack) /\ d # Len(stack)
  BY <1>1
<1>3. stack'[d].history = stack[d].history /\ stack'[d + 1].answering = stack[d + 1].answering
  BY <1>2
<1>4. PausedOK(d)
  BY DEF TranscriptsOK
<1> QED BY <1>3, <1>4, StaysPaused

-----------------------------------------------------------------------------
(***************************************************************************)
(* The frame on top.                                                       *)
(***************************************************************************)
LEMMA TopRule ==
    ASSUME NEW g, stack'[Len(stack')].history = g,
           Good(Append(g, prompt')), Range(calls') \subseteq Open(g), InOrder',
           \A c \in Known(g) \cup Range(prompt'.calls) : Recent(c)',
           \A c \in Open(g) :
              c \in Range(calls') \/ c \in Range(prompt'.calls) \/ Explained(g, c)'
    PROVE  TopOK'
  BY DEF TopOK, Top

LEMMA NoneLeft ==
    ASSUME calls' = <<>>
    PROVE  Range(calls') = {} /\ InOrder'
<1>1. DOMAIN <<>> = {}
  OBVIOUS
<1> QED BY <1>1, RangeOfNone DEF InOrder

\* What is known of the frame on top.
LEMMA TopFacts ==
    ASSUME Shape, TopOK
    PROVE  LET h == Top.history IN
           /\ h \in Seq(Entries) /\ Good(h) /\ Good(Append(h, prompt))
           /\ prompt.kind = "result" => MayAnswer(h, prompt.calls[1])
           /\ Known(h) \cup Range(prompt.calls) \subseteq CallSet
           /\ Range(calls) \subseteq Open(h)
           /\ \A c \in Known(h) \cup Range(prompt.calls) : Recent(c)
           /\ \A c \in Open(h) :
                c \in Range(calls) \/ c \in Range(prompt.calls) \/ Explained(h, c)
           /\ Open(h) \subseteq CallsOf(h) /\ CallsOf(h) \subseteq Known(h)
           /\ Range(Nothing.calls) = {}
<1> DEFINE h == Top.history
<1>1. h \in Seq(Entries) /\ prompt \in Entries
  BY StackFacts DEF Shape, ShapeOK
<1>2. /\ Good(Append(h, prompt)) /\ Range(calls) \subseteq Open(h)
      /\ \A c \in Known(h) \cup Range(prompt.calls) : Recent(c)
      /\ \A c \in Open(h) :
           c \in Range(calls) \/ c \in Range(prompt.calls) \/ Explained(h, c)
  BY DEF TopOK
<1> HIDE DEF h
<1>3. Good(h) /\ (prompt.kind = "result" => MayAnswer(h, prompt.calls[1]))
  BY <1>1, <1>2, GoodAppend
<1>4. Known(h) \cup Range(prompt.calls) \subseteq CallSet
  BY <1>1, KnownTyped, EntryFields DEF Known
<1>5. Open(h) \subseteq CallsOf(h) /\ CallsOf(h) \subseteq Known(h)
  BY DEF Open, Known
<1>6. Range(Nothing.calls) = {}
  BY RangeOfNone DEF Nothing, Entry
<1> QED BY <1>1, <1>2, <1>3, <1>4, <1>5, <1>6 DEF h

\* The calls and results in the history stay, and what was still to come has been
\* dealt with.
LEMMA SameCalls ==
    ASSUME Shape, Shape', Later, TopOK, NEW g \in Seq(Entries),
           stack'[Len(stack')].history = g,
           CallsOf(g) = CallsOf(Top.history), AnswersIn(g) = AnswersIn(Top.history),
           Good(Append(g, prompt')), Range(calls') \subseteq Range(calls), InOrder',
           Range(prompt'.calls) \subseteq Range(calls) \cup Range(prompt.calls),
           \A c \in Range(calls) \cup Range(prompt.calls) :
              c \in Range(calls') \/ c \in Range(prompt'.calls) \/ Explained(g, c)'
    PROVE  TopOK'
<1>1. PICK h \in Seq(Entries) : h = Top.history
  BY TopFacts
<1>2. /\ Known(h) \cup Range(prompt.calls) \subseteq CallSet
      /\ Range(calls) \subseteq Open(h)
      /\ \A c \in Known(h) \cup Range(prompt.calls) : Recent(c)
      /\ \A c \in Open(h) :
           c \in Range(calls) \/ c \in Range(prompt.calls) \/ Explained(h, c)
      /\ Open(h) \subseteq CallsOf(h) /\ CallsOf(h) \subseteq Known(h)
  BY <1>1, TopFacts
<1>3. Open(g) = Open(h) /\ Known(g) = Known(h) /\ CallsOf(g) = CallsOf(h)
  BY <1>1 DEF Open, Known
<1>4. \A c \in Known(h) \cup Range(prompt.calls) : Recent(c)'
  BY <1>2, StaysRecent
<1>5. \A c \in Known(g) \cup Range(prompt'.calls) : Recent(c)'
  BY <1>2, <1>3, <1>4
<1>6. \A c \in Open(h) : Explained(h, c) => Explained(g, c)'
  BY <1>3, StaysExplained
<1>7. \A c \in Open(g) :
        c \in Range(calls') \/ c \in Range(prompt'.calls) \/ Explained(g, c)'
  BY <1>2, <1>3, <1>6
<1>8. Range(calls') \subseteq Open(g)
  BY <1>2, <1>3
<1> QED BY <1>5, <1>7, <1>8, TopRule

\* The frame on top is left alone.
LEMMA SameTop ==
    ASSUME Shape, Shape', Later, TopOK, stack'[Len(stack')].history = Top.history,
           UNCHANGED <<prompt, calls, rounds>>
    PROVE  TopOK'
<1>1. PICK g \in Seq(Entries) : g = Top.history
  BY TopFacts
<1>2. Good(Append(g, prompt'))
  BY <1>1, TopFacts
<1>3. InOrder'
  BY DEF TopOK, InOrder
<1>4. /\ Range(calls') = Range(calls)
      /\ Range(prompt'.calls) = Range(prompt.calls)
  OBVIOUS
<1> QED BY <1>1, <1>2, <1>3, <1>4, SameCalls

\* A prompt is taken up or given up.
LEMMA NewPrompt ==
    ASSUME Shape, Shape', Later, TopOK, NEW g \in Seq(Entries),
           stack'[Len(stack')].history = g,
           CallsOf(g) = CallsOf(Top.history), AnswersIn(g) = AnswersIn(Top.history), Good(g),
           prompt'.kind # "result", calls' = <<>>,
           \A c \in Range(calls) \cup Range(prompt.calls) :
              Answer(c) \in abandoned' \/ pc' = "gone"
    PROVE  TopOK'
<1>1. prompt' \in Entries /\ prompt'.kind \in {"none", "user", "brief", "result"}
  BY DEF Shape, ShapeOK
<1>2. Good(Append(g, prompt'))
  BY <1>1, GoodAppend
<1>3. Range(prompt'.calls) = {}
  BY <1>1, EntryFields, RangeOfNone
<1>4. Range(calls') = {} /\ InOrder'
  BY NoneLeft
<1>5. \A c : Answer(c) \in abandoned' \/ pc' = "gone" => Explained(g, c)'
  BY DEF Explained
<1> QED BY <1>2, <1>3, <1>4, <1>5, SameCalls

\* The prompt answers call c.
LEMMA Answering ==
    ASSUME Shape, Shape', NEW g \in Seq(Entries), NEW c \in CallSet,
           stack'[Len(stack')].history = g, prompt' = Answer(c), calls' = <<>>,
           Good(g), MayAnswer(g, c),
           \A k \in Known(g) \cup {c} : Recent(k)',
           \A k \in Open(g) : k = c \/ Explained(g, k)'
    PROVE  TopOK'
<1>1. Answer(c) \in Entries /\ Answer(c).kind = "result" /\ Answer(c).calls[1] = c
  BY EntryTypes, AnswerFields
<1>2. Good(Append(g, Answer(c)))
  BY <1>1, GoodAppend
<1>3. Range(Answer(c).calls) = {c}
  BY <1>1, ResultEntry
<1>4. Range(calls') = {} /\ InOrder'
  BY NoneLeft
<1> QED BY <1>2, <1>3, <1>4, TopRule

\* The calls of the last answer that are not dispatched yet.
LEMMA CallFacts ==
    ASSUME Shape, TopOK, calls # <<>>
    PROVE  LET h == Top.history IN
           /\ Next1 \in CallSet /\ Next1 \in Open(h) /\ MayAnswer(h, Next1)
           /\ Next1.round = rounds /\ Next1.tool # "seed"
           /\ Range(calls) = {Next1} \cup Range(Tail(calls))
           /\ Next1 \notin Range(Tail(calls))
           /\ Next1.tool \in Structural => \A c \in Range(Tail(calls)) : Skipped(h, c)
           /\ prompt = Nothing /\ Range(prompt.calls) = {}
<1> DEFINE h == Top.history
<1>1. /\ Next1 \in CallSet /\ Tail(calls) \in Seq(CallSet)
      /\ Len(calls) \in Nat \ {0} /\ Len(Tail(calls)) = Len(calls) - 1
      /\ calls[1] = Next1
      /\ \A i \in DOMAIN Tail(calls) : i + 1 \in DOMAIN calls /\ Tail(calls)[i] = calls[i + 1]
      /\ Range(calls) = {Next1} \cup Range(Tail(calls))
  BY HeadAndTail DEF Shape, ShapeOK, Next1
<1>2. calls \in Seq(CallSet) /\ DOMAIN calls = 1..Len(calls) /\ 1 \in DOMAIN calls
  BY <1>1 DEF Shape, ShapeOK
<1>3. Range(calls) \subseteq Open(h) /\ InOrder
  BY DEF TopOK
<1>4. Next1 \in Open(h) /\ MayAnswer(h, Next1)
  BY <1>1, <1>3 DEF Open, MayAnswer
<1>5. Next1.round = rounds /\ Next1.tool \in {Plain} \cup Structural
  BY <1>1, <1>2, <1>3 DEF InOrder
<1>6. Next1.tool # "seed"
  BY <1>5 DEF Structural, Plain, Interactive, Delegation
<1>7. ASSUME NEW c \in Range(Tail(calls))
      PROVE  c \in Open(h) /\ c.round = rounds /\ Next1.index < c.index
  <2>1. PICK i \in DOMAIN Tail(calls) : Tail(calls)[i] = c
    BY DEF Range
  <2>2. i + 1 \in DOMAIN calls /\ calls[i + 1] = c
    BY <1>1, <2>1
  <2>3. i \in 1..Len(calls) - 1
    BY <1>1, <2>1, LenProperties
  <2>4. 1 < i + 1
    BY <1>1, <2>3
  <2>5. c.round = rounds /\ calls[1].index < c.index
    BY <1>2, <1>3, <2>2, <2>4 DEF InOrder
  <2> QED BY <1>1, <1>3, <2>5
<1>8. Next1 \notin Range(Tail(calls))
  <2>1. Next1.index \in Nat
    BY <1>1 DEF CallSet
  <2> QED BY <1>7, <2>1
<1>9. Next1.tool \in Structural => \A c \in Range(Tail(calls)) : Skipped(h, c)
  BY <1>4, <1>5, <1>7 DEF Skipped, Open
<1>10. prompt = Nothing
  BY DEF Shape, TypeOK
<1>11. Range(prompt.calls) = {}
  BY <1>10, RangeOfNone DEF Nothing, Entry
<1> QED BY <1>1, <1>4, <1>5, <1>6, <1>8, <1>9, <1>10, <1>11

-----------------------------------------------------------------------------
(***************************************************************************)
(* What a child leaves behind in the history of its parent.                *)
(***************************************************************************)
LEMMA OneSummary ==
    /\ <<Summary>> \in Seq(Entries)
    /\ CallsOf(<<Summary>>) = {} /\ AnswersIn(<<Summary>>) = {}
    /\ Good(<<Summary>>) /\ Swallowed(<<Summary>>)
<1>1. Summary \in Entries /\ Summary.kind = "summary" /\ Summary.calls = <<>>
  BY EntryTypes DEF Summary, Entry
<1>2. <<>> \in Seq(Entries) /\ Append(<<>>, Summary) = <<Summary>>
  BY <1>1, AppendIsConcat, ConcatEmptySeq
<1>3. CallsOf(<<Summary>>) = {} /\ AnswersIn(<<Summary>>) = {}
  BY <1>1, <1>2, CallsAppend, AnswersAppend, NoEntries
<1>4. Good(<<>>)
  BY DEF Good
<1>5. Good(<<Summary>>)
  BY <1>1, <1>2, <1>4, GoodAppend
<1>6. Swallowed(<<Summary>>)
  <2>1. Len(<<Summary>>) = 1 /\ <<Summary>>[1] = Summary /\ 1 \in 1..1 /\ 1..1 = {1}
    OBVIOUS
  <2>2. \A j \in 1..1 : \A c \in Range(<<Summary>>[j].calls) : c.tool = "seed"
    BY <1>1, <2>1, RangeOfNone
  <2> QED BY <1>1, <2>1, <2>2 DEF Swallowed
<1>7. <<Summary>> \in Seq(Entries)
  BY <1>1
<1> QED BY <1>3, <1>5, <1>6, <1>7

\* The history a parent comes back to can take the answer to its open call.
LEMMA ResumedGood ==
    ASSUME NEW h \in Seq(Entries), NEW g \in {h, <<Summary>>}, NEW c, Good(h), c \in Open(h)
    PROVE  /\ g \in Seq(Entries) /\ Good(g) /\ MayAnswer(g, c) /\ Known(g) \subseteq Known(h)
           /\ g = h \/ Open(g) = {}
<1>1. CASE g = h
  BY <1>1 DEF Open, MayAnswer
<1>2. CASE g = <<Summary>>
  BY <1>2, OneSummary DEF Open, MayAnswer, Known
<1> QED BY <1>1, <1>2

LEMMA SwallowedAppend ==
    ASSUME NEW h \in Seq(Entries), NEW e \in Entries, Swallowed(h),
           \A c \in Range(e.calls) : c.tool = "seed"
    PROVE  Swallowed(Append(h, e))
<1>1. /\ Len(h) \in Nat /\ Len(Append(h, e)) = Len(h) + 1
      /\ \A i \in 1..Len(h) : Append(h, e)[i] = h[i]
      /\ Append(h, e)[Len(h) + 1] = e
      /\ \A i \in 1..Len(h) + 1 : i \in 1..Len(h) \/ i = Len(h) + 1
  BY Appended
<1>2. PICK k \in 1..Len(h) : /\ h[k].kind = "summary"
                             /\ \A j \in k..Len(h) : \A c \in Range(h[j].calls) : c.tool = "seed"
  BY DEF Swallowed
<1> DEFINE g == Append(h, e)
<1>3. k \in 1..Len(g) /\ g[k].kind = "summary"
  BY <1>1, <1>2
<1>4. ASSUME NEW j \in k..Len(g) PROVE \A c \in Range(g[j].calls) : c.tool = "seed"
  <2>1. j \in k..Len(h) \/ j = Len(h) + 1
    BY <1>1, <1>2
  <2>2. j \in k..Len(h) => j \in 1..Len(h)
    BY <1>1, <1>2
  <2>3. CASE j \in k..Len(h)
    BY <1>1, <1>2, <2>2, <2>3
  <2>4. CASE j = Len(h) + 1
    BY <1>1, <2>4
  <2> QED BY <2>1, <2>3, <2>4
<1> HIDE DEF g
<1>5. Swallowed(g)
  BY <1>3, <1>4 DEF Swallowed
<1> QED BY <1>5 DEF g

\* A seed that is new gets its call and its result, and the call under way can still
\* be answered.
LEMMA SeedsIn ==
    ASSUME NEW h \in Seq(Entries), NEW c \in CallSet, c.tool # "seed",
           Good(h), MayAnswer(h, c), Seed(c) \notin Known(h)
    PROVE  LET g == Seeded(h, c) IN
           /\ g \in Seq(Entries) /\ Good(g) /\ MayAnswer(g, c)
           /\ CallsOf(g) = CallsOf(h) \cup {Seed(c)}
           /\ AnswersIn(g) = AnswersIn(h) \cup {Seed(c)}
<1> DEFINE s == Seed(c)
<1>1. /\ s \in CallSet /\ s.tool = "seed"
      /\ Assistant(<<s>>) \in Entries /\ Answer(s) \in Entries
  BY SeedTypes
<1>2. s \notin CallsOf(h) /\ s \notin AnswersIn(h) /\ c # s /\ c \notin AnswersIn(h)
  BY <1>1 DEF Known, MayAnswer
<1>3. /\ Answer(s).kind = "result" /\ Answer(s).calls = <<s>> /\ Answer(s).calls[1] = s
      /\ \A cs : Assistant(cs).kind = "assistant" /\ Assistant(cs).calls = cs
  BY AnswerFields DEF Assistant, Entry
<1> HIDE DEF s
\* The seed's call is in p, which is the history but for that call.
<1>4. ASSUME NEW p \in Seq(Entries), Good(p), CallsOf(p) = CallsOf(h) \cup {s},
             AnswersIn(p) = AnswersIn(h),
             c \in CallsOf(p) \/ Swallowed(Append(p, Answer(s)))
      PROVE  LET g == Append(p, Answer(s)) IN
             /\ g \in Seq(Entries) /\ Good(g) /\ MayAnswer(g, c)
             /\ CallsOf(g) = CallsOf(h) \cup {s} /\ AnswersIn(g) = AnswersIn(h) \cup {s}
  <2> DEFINE g == Append(p, Answer(s))
  <2>1. g \in Seq(Entries)
    BY <1>1, Appended
  <2>2. MayAnswer(p, s)
    BY <1>2, <1>4 DEF MayAnswer
  <2>3. Good(g)
    BY <1>1, <1>3, <1>4, <2>2, GoodAppend
  <2>4. CallsOf(g) = CallsOf(p)
    BY <1>1, <1>3, CallsAppend
  <2>5. AnswersIn(g) = AnswersIn(p) \cup {s}
    BY <1>1, <1>3, AnswersAppend
  <2>6. MayAnswer(g, c)
    BY <1>2, <1>4, <2>4, <2>5 DEF MayAnswer
  <2> QED BY <1>4, <2>1, <2>3, <2>4, <2>5, <2>6
<1>5. CASE Joins(h, c)
  <2> DEFINE F == Front(h)
             L == Last(h)
             A == Assistant(Append(L.calls, s))
  <2>1. /\ F \in Seq(Entries) /\ L \in Entries /\ h = Append(F, L)
        /\ A \in Entries /\ L.kind = "assistant"
        /\ Seeded(h, c) = Append(Append(F, A), Answer(s))
    BY <1>5, SeededForm DEF Joins, s
  <2>2. L.calls \in Seq(CallSet) /\ c \in Range(L.calls)
    <3>1. L.calls \in Seq(CallSet)
      BY <2>1, EntryFields
    <3>2. Contains(L.calls, c)
      BY <1>5 DEF Joins
    <3> QED BY <3>1, <3>2 DEF Contains, Range
  <2>3. A.kind = "assistant" /\ Range(A.calls) = Range(L.calls) \cup {s}
    BY <1>1, <1>3, <2>2, RangeAppend
  <2> HIDE DEF F, L, A
  <2>4. CallsOf(h) = CallsOf(F) \cup Range(L.calls) /\ AnswersIn(h) = AnswersIn(F)
    <3>1. F \in Seq(Entries) /\ L \in Entries /\ L.kind = "assistant"
      BY <2>1
    <3>2. /\ CallsOf(Append(F, L)) = CallsOf(F) \cup Range(L.calls)
          /\ AnswersIn(Append(F, L)) = AnswersIn(F)
      BY <3>1, CallsAppend, AnswersAppend
    <3> QED BY <2>1, <3>2
  <2>5. /\ CallsOf(Append(F, A)) = CallsOf(F) \cup Range(A.calls)
        /\ AnswersIn(Append(F, A)) = AnswersIn(F)
    BY ZenonT(40), <2>1, <2>3, CallsAppend, AnswersAppend
  <2>6. Good(F)
    BY <2>1, GoodAppend
  <2>7. Good(Append(F, A)) /\ Append(F, A) \in Seq(Entries)
    BY <2>1, <2>3, <2>6, GoodAppend, Appended
  <2>8. c \in CallsOf(Append(F, A))
    BY <2>2, <2>3, <2>5
  <2>9. CallsOf(Append(F, A)) = CallsOf(h) \cup {s} /\ AnswersIn(Append(F, A)) = AnswersIn(h)
    BY <2>3, <2>4, <2>5
  <2> QED BY <1>4, <2>1, <2>7, <2>8, <2>9 DEF s
<1>6. CASE ~Joins(h, c)
  <2> DEFINE A == Assistant(<<s>>)
  <2>1. Seeded(h, c) = Append(Append(h, A), Answer(s)) /\ A \in Entries
    BY <1>1, <1>6, SeededForm DEF s
  <2>2. A.kind = "assistant" /\ Range(A.calls) = {s}
    <3>1. Range(<<s>>) = {s}
      BY <1>1, <1>3, ResultEntry
    <3> QED BY <1>3, <3>1
  <2> HIDE DEF A
  <2>3. /\ CallsOf(Append(h, A)) = CallsOf(h) \cup {s}
        /\ AnswersIn(Append(h, A)) = AnswersIn(h)
    BY <2>1, <2>2, CallsAppend, AnswersAppend
  <2>4. Good(Append(h, A)) /\ Append(h, A) \in Seq(Entries)
    BY <2>1, <2>2, GoodAppend, Appended
  <2>5. c \in CallsOf(Append(h, A)) \/ Swallowed(Append(Append(h, A), Answer(s)))
    <3>1. CASE c \in CallsOf(h)
      BY <2>3, <3>1
    <3>2. CASE Swallowed(h)
      <4>1. Swallowed(Append(h, A))
        BY <1>1, <2>1, <2>2, <3>2, SwallowedAppend
      <4>2. \A k \in Range(Answer(s).calls) : k.tool = "seed"
        BY <1>1, <1>3, ResultEntry
      <4> QED BY <1>1, <2>4, <4>1, <4>2, SwallowedAppend
    <3> QED BY <3>1, <3>2 DEF MayAnswer
  <2> QED BY <1>4, <2>1, <2>3, <2>4, <2>5 DEF s
<1> QED BY <1>5, <1>6

-----------------------------------------------------------------------------
(***************************************************************************)
(* The step, action by action.                                             *)
(***************************************************************************)
\* The steps of the driver that leave every history alone.
LEMMA QuietStep ==
    ASSUME Shape, Shape', Later, TranscriptsOK,
           \/ UNCHANGED <<stack, prompt, calls, rounds>>
           \/ TakeControl \/ Admit \/ Abort \/ Fail \/ Finish
    PROVE  TranscriptsOK'
<1>1. /\ Top.history \in Seq(Entries) /\ Len(stack) \in 1..Len(stack) /\ TopOK
      /\ Good(Top.history)
  BY StackFacts, TopFacts DEF Shape, TranscriptsOK
<1>2. CASE UNCHANGED <<stack, prompt, calls, rounds>>
  <2>1. stack'[Len(stack')].history = Top.history
    BY <1>2 DEF Top
  <2>2. TopOK'
    BY <1>1, <1>2, <2>1, SameTop
  <2>3. \A d \in 1..Len(stack') - 1 : PausedOK(d)'
    BY <1>2, SameBelow
  <2> QED BY <2>2, <2>3 DEF TranscriptsOK
<1>3. CASE TakeControl
  <2>1. Head(control) \in Agents
    BY <1>3, HeadTailProperties DEF TakeControl, Shape, TypeOK
  <2>2. /\ Len(stack') = Len(stack)
        /\ \A d \in 1..Len(stack) : /\ stack'[d].answering = stack[d].answering
                                    /\ stack'[d].history = stack[d].history
    BY <1>3, <2>1, Swapped DEF TakeControl, Shape
  <2>3. stack'[Len(stack')].history = Top.history /\ UNCHANGED <<prompt, calls, rounds>>
    BY <1>1, <1>3, <2>2 DEF Top, TakeControl
  <2>4. TopOK'
    BY <1>1, <2>3, SameTop
  <2>5. \A d \in 1..Len(stack') - 1 : PausedOK(d)'
    BY <2>2, SameBelow
  <2> QED BY <2>4, <2>5 DEF TranscriptsOK
<1>4. CASE Admit \/ Abort \/ Fail \/ Finish
  <2>1. UNCHANGED <<stack, rounds>>
    BY <1>4 DEF Admit, Abort, Fail, Finish
  <2>2. PICK g \in Seq(Entries) : g = Top.history
    BY <1>1
  <2>3. stack'[Len(stack')].history = g
    BY <2>1, <2>2 DEF Top
  <2>4. calls' = <<>>
    BY <1>4 DEF Admit, Abort, Fail, Finish, Shape, TypeOK
  <2>5. prompt'.kind # "result"
    <3>1. Nothing.kind = "none" /\ \A ms : UserTurn(ms).kind = "user"
      BY DEF Nothing, UserTurn, Entry
    <3> QED BY <1>4, <3>1 DEF Admit, Abort, Unwind, Fail, Finish, Shape, TypeOK
  <2>6. ASSUME NEW c \in Range(calls) \cup Range(prompt.calls)
        PROVE  Answer(c) \in abandoned' \/ pc' = "gone"
    <3>1. CASE Fail
      BY <3>1 DEF Fail
    <3>2. CASE Abort
      <4>1. calls = <<>> /\ prompt \in abandoned' /\ prompt \in Entries
            /\ prompt.kind \in {"none", "user", "brief", "result"}
        BY <3>2 DEF Abort, Unwind, Shape, TypeOK, ShapeOK
      <4>2. c \in Range(prompt.calls)
        BY <4>1, RangeOfNone
      <4>3. prompt.kind = "result"
        BY <4>1, <4>2, EntryFields, RangeOfNone
      <4> QED BY <4>1, <4>2, <4>3, ResultEntry
    <3>3. CASE Admit \/ Finish
      <4>1. calls = <<>> /\ prompt = Nothing
        BY <3>3 DEF Admit, Finish, Shape, TypeOK
      <4> QED BY <4>1, RangeOfNone DEF Nothing, Entry
    <3> QED BY <1>4, <3>1, <3>2, <3>3
  <2>7. TopOK'
    BY <1>1, <2>2, <2>3, <2>4, <2>5, <2>6, NewPrompt
  <2>8. \A d \in 1..Len(stack') - 1 : PausedOK(d)'
    BY <2>1, SameBelow
  <2> QED BY <2>7, <2>8 DEF TranscriptsOK
<1> QED BY <1>2, <1>3, <1>4

\* The guidance goes in before the prompt; a run that is cancelled or gated gives the
\* prompt up.
LEMMA RequestStep ==
    ASSUME Shape, Shape', Later, TranscriptsOK, Request
    PROVE  TranscriptsOK'
<1>1. /\ Top.history \in Seq(Entries) /\ Len(stack) \in 1..Len(stack) /\ TopOK
      /\ Good(Top.history) /\ (prompt.kind = "result" => MayAnswer(Top.history, prompt.calls[1]))
      /\ Good(Append(Top.history, prompt))
  BY StackFacts, TopFacts DEF Shape, TranscriptsOK
<1>2. Guidance \in Entries /\ Guidance.kind = "guidance" /\ Guidance.calls = <<>>
  BY EntryTypes DEF Guidance, Entry
<1>3. /\ calls = <<>> /\ calls' = <<>> /\ rounds' = rounds /\ prompt \in Entries
      /\ prompt.kind \in {"none", "user", "brief", "result"}
  BY DEF Request, Shape, TypeOK, ShapeOK
\* The history grows by the guidance, or not at all.
<1>4. PICK g \in Seq(Entries) :
         /\ stack'[Len(stack')].history = g
         /\ CallsOf(g) = CallsOf(Top.history) /\ AnswersIn(g) = AnswersIn(Top.history)
         /\ Good(g) /\ Good(Append(g, prompt))
         /\ Len(stack') = Len(stack)
         /\ \A d \in 1..Len(stack) : stack'[d].answering = stack[d].answering
                                     /\ (d # Len(stack) => stack'[d].history = stack[d].history)
  <2>1. CASE stack' = stack
    BY <1>1, <2>1 DEF Top
  <2>2. CASE stack' = Pushed(<<Guidance>>)
    <3> DEFINE g == Append(Top.history, Guidance)
    <3>1. g \in Seq(Entries)
      BY <1>1, <1>2, Appended
    <3>2. stack' = [stack EXCEPT ![Len(stack)].history = g]
      BY <1>2, <2>2, PushedOne DEF Shape
    <3>3. CallsOf(g) = CallsOf(Top.history) /\ AnswersIn(g) = AnswersIn(Top.history)
      BY <1>1, <1>2, CallsAppend, AnswersAppend
    <3>4. Good(g)
      BY <1>1, <1>2, GoodAppend
    <3>5. prompt.kind = "result" => MayAnswer(g, prompt.calls[1])
      <4>1. Swallowed(Top.history) => Swallowed(g)
        BY <1>1, <1>2, RangeOfNone, SwallowedAppend
      <4> QED BY <1>1, <3>3, <4>1 DEF MayAnswer
    <3> HIDE DEF g
    <3>6. Good(Append(g, prompt))
      BY <1>3, <3>1, <3>4, <3>5, GoodAppend
    <3>7. /\ Len(stack') = Len(stack) /\ stack'[Len(stack)].history = g
          /\ \A d \in 1..Len(stack) :
                /\ stack'[d].answering = stack[d].answering
                /\ d # Len(stack) => stack'[d].history = stack[d].history
      BY <1>1, <3>1, <3>2, Replaced DEF Shape
    <3> QED BY <3>1, <3>3, <3>4, <3>6, <3>7
  <2> QED BY <2>1, <2>2 DEF Request
<1>5. TopOK'
  <2>1. CASE Unwind
    <3>1. prompt'.kind # "result" /\ prompt \in abandoned'
      BY <2>1 DEF Unwind, Nothing, Entry
    <3>2. ASSUME NEW c \in Range(calls) \cup Range(prompt.calls)
          PROVE  Answer(c) \in abandoned'
      <4>1. c \in Range(prompt.calls)
        BY <1>3, RangeOfNone
      <4>2. prompt.kind = "result"
        BY <1>3, <4>1, EntryFields, RangeOfNone
      <4> QED BY <1>3, <3>1, <4>1, <4>2, ResultEntry
    <3> QED BY <1>1, <1>3, <1>4, <3>1, <3>2, NewPrompt
  <2>2. CASE UNCHANGED prompt
    <3>1. Range(calls') = {} /\ InOrder'
      BY <1>3, NoneLeft
    <3>2. Range(calls) = {}
      BY <1>3, RangeOfNone
    <3>3. Good(Append(g, prompt')) /\ Range(prompt'.calls) = Range(prompt.calls)
      BY <1>4, <2>2
    <3> QED BY <1>1, <1>4, <3>1, <3>2, <3>3, SameCalls
  <2> QED BY <2>1, <2>2 DEF Request
<1>6. \A d \in 1..Len(stack') - 1 : PausedOK(d)'
  BY <1>4, SameBelow
<1> QED BY <1>5, <1>6 DEF TranscriptsOK

\* A new round is newer than every call there is.
LEMMA RespondStep ==
    ASSUME Shape, Shape', Later, TranscriptsOK, NEW kinds \in Offered, Respond(kinds)
    PROVE  TranscriptsOK'
<1>1. PICK h \in Seq(Entries) : h = Top.history
  BY StackFacts DEF Shape
<1>2. /\ Len(stack) \in 1..Len(stack) /\ TopOK
      /\ Good(h) /\ Good(Append(h, prompt))
      /\ Known(h) \cup Range(prompt.calls) \subseteq CallSet
      /\ \A c \in Known(h) \cup Range(prompt.calls) : Recent(c)
      /\ \A c \in Open(h) :
           c \in Range(calls) \/ c \in Range(prompt.calls) \/ Explained(h, c)
  BY <1>1, StackFacts, TopFacts DEF Shape, TranscriptsOK
<1>3. PICK P \in Seq(CallSet) :
         /\ P = Placed(kinds)
         /\ \A i \in DOMAIN P : /\ P[i].round = rounds + 1 /\ P[i].index = i
                                /\ P[i].tool \in {Plain} \cup Structural
  BY PlacedTypes
<1>4. /\ stack' = Pushed(<<prompt, Assistant(P)>>)
      /\ calls' = P /\ prompt' = Nothing /\ rounds' = rounds + 1
      /\ calls = <<>> /\ prompt \in Entries /\ rounds \in Nat
      /\ prompt.kind \in {"none", "user", "brief", "result"}
  BY <1>3 DEF Respond, Answered, Shape, TypeOK, ShapeOK
<1>5. Assistant(P) \in Entries /\ Assistant(P).kind = "assistant" /\ Assistant(P).calls = P
  BY EntryTypes DEF Assistant, Entry
<1>6. PICK p \in Seq(Entries) : p = Append(h, prompt)
  BY <1>4, Appended
<1>7. PICK g \in Seq(Entries) : g = Append(p, Assistant(P))
  BY <1>5, Appended
<1>8. /\ stack'[Len(stack')].history = g /\ Len(stack') = Len(stack)
      /\ \A d \in 1..Len(stack) :
           /\ stack'[d].answering = stack[d].answering
           /\ d # Len(stack) => stack'[d].history = stack[d].history
  <2>1. stack' = [stack EXCEPT ![Len(stack)].history = g]
    BY <1>1, <1>4, <1>5, <1>6, <1>7, PushedTwo DEF Shape
  <2> QED BY <1>2, <2>1, Replaced DEF Shape
<1>9. /\ CallsOf(p) = CallsOf(h)
      /\ AnswersIn(p) = AnswersIn(h) \cup (IF prompt.kind = "result" THEN {prompt.calls[1]} ELSE {})
  BY <1>4, <1>6, CallsAppend, AnswersAppend
<1>10. AnswersIn(p) = AnswersIn(h) \cup Range(prompt.calls)
  <2>1. CASE prompt.kind = "result"
    BY <1>4, <1>9, <2>1, ResultEntry
  <2>2. CASE prompt.kind # "result"
    BY <1>4, <1>9, <2>2, EntryFields, RangeOfNone
  <2> QED BY <2>1, <2>2
<1>11. CallsOf(g) = CallsOf(h) \cup Range(P) /\ AnswersIn(g) = AnswersIn(h) \cup Range(prompt.calls)
  BY <1>5, <1>7, <1>9, <1>10, CallsAppend, AnswersAppend
<1>12. \A c \in Range(P) :
          c \in CallSet /\ c.round = rounds + 1 /\ c.tool \in {Plain} \cup Structural
  BY <1>3, RangeOfSeq DEF Range
<1>13. Range(P) \subseteq Open(g)
  <2>1. ASSUME NEW c \in Range(P) PROVE c \notin AnswersIn(g)
    <3>1. c \notin Known(h) \cup Range(prompt.calls)
      <4>1. \A k \in Known(h) \cup Range(prompt.calls) : k.round \in Nat /\ k.round <= rounds
        BY <1>2 DEF CallSet, Recent
      <4>2. c.round = rounds + 1
        BY <1>12
      <4> QED BY <1>4, <4>1, <4>2
    <3> QED BY <1>11, <3>1 DEF Known
  <2> QED BY <1>11, <2>1 DEF Open
<1>14. \A c \in Known(g) \cup Range(prompt'.calls) : Recent(c)'
  <2>1. ASSUME NEW c \in Known(h) \cup Range(prompt.calls) PROVE Recent(c)'
    BY <1>2, StaysRecent
  <2>2. ASSUME NEW c \in Range(P) PROVE Recent(c)'
    <3>1. c.tool # "seed"
      BY <1>12 DEF Structural, Plain, Interactive, Delegation
    <3> QED BY <1>4, <1>12, <3>1 DEF Recent
  <2>3. Range(prompt'.calls) = {}
    BY <1>4, RangeOfNone DEF Nothing, Entry
  <2> QED BY <1>11, <2>1, <2>2, <2>3 DEF Known
<1>15. ASSUME NEW c \in Open(g) PROVE c \in Range(calls') \/ Explained(g, c)'
  <2>1. CASE c \in Range(P)
    BY <1>4, <2>1
  <2>2. CASE c \notin Range(P)
    <3>1. c \in Open(h) /\ c \notin Range(prompt.calls)
      BY <1>11, <2>2 DEF Open
    <3>2. Explained(h, c)
      BY <1>2, <1>4, <3>1, RangeOfNone
    <3>3. CallsOf(h) \subseteq CallsOf(g)
      BY <1>11
    <3> QED BY <3>2, <3>3, StaysExplained
  <2> QED BY <2>1, <2>2
<1>16. InOrder'
  <2>1. \A i \in DOMAIN P : i \in Int
    BY <1>3, LenProperties
  <2> QED BY <1>3, <1>4, <2>1 DEF InOrder
<1>17. Good(Append(g, prompt'))
  <2>1. Good(g)
    BY <1>2, <1>5, <1>6, <1>7, GoodAppend
  <2>2. Nothing \in Entries /\ Nothing.kind = "none"
    BY EntryTypes DEF Nothing, Entry
  <2> QED BY <1>4, <2>1, <2>2, GoodAppend
<1>18. TopOK'
  BY <1>4, <1>8, <1>13, <1>14, <1>15, <1>16, <1>17, TopRule
<1>19. \A d \in 1..Len(stack') - 1 : PausedOK(d)'
  BY <1>8, SameBelow
<1> QED BY <1>18, <1>19 DEF TranscriptsOK

\* A call is answered once it is dispatched.
LEMMA DispatchStep ==
    ASSUME Shape, Shape', Later, TranscriptsOK, Dispatch
    PROVE  TranscriptsOK'
<1>1. PICK h \in Seq(Entries) : h = Top.history
  BY StackFacts DEF Shape
<1>2. calls # <<>> /\ calls' = Tail(calls) /\ UNCHANGED <<prompt, rounds>> /\ calls \in Seq(CallSet)
  BY DEF Dispatch, AtCall, Shape, ShapeOK
<1>3. /\ Len(stack) \in 1..Len(stack) /\ TopOK
      /\ Good(h)
      /\ Known(h) \cup Range(prompt.calls) \subseteq CallSet
      /\ Range(calls) \subseteq Open(h)
      /\ \A c \in Known(h) \cup Range(prompt.calls) : Recent(c)
      /\ \A c \in Open(h) :
           c \in Range(calls) \/ c \in Range(prompt.calls) \/ Explained(h, c)
  BY <1>1, StackFacts, TopFacts DEF Shape, TranscriptsOK
<1>4. PICK n \in CallSet :
         /\ n = Next1 /\ n \in Open(h) /\ MayAnswer(h, n)
         /\ Range(calls) = {n} \cup Range(Tail(calls)) /\ n \notin Range(Tail(calls))
         /\ prompt = Nothing /\ Range(prompt.calls) = {}
  BY <1>1, <1>2, <1>3, CallFacts
<1>5. Answer(n) \in Entries /\ Answer(n).kind = "result" /\ Answer(n).calls[1] = n
      /\ Nothing \in Entries /\ Nothing.kind = "none"
  BY EntryTypes, AnswerFields DEF Nothing, Entry
<1>6. PICK g \in Seq(Entries) : g = Append(h, Answer(n))
  BY <1>5, Appended
<1>7. /\ stack'[Len(stack')].history = g /\ Len(stack') = Len(stack)
      /\ \A d \in 1..Len(stack) :
           /\ stack'[d].answering = stack[d].answering
           /\ d # Len(stack) => stack'[d].history = stack[d].history
  <2>1. stack' = Pushed(<<Answer(n)>>)
    BY <1>4 DEF Dispatch
  <2>2. stack' = [stack EXCEPT ![Len(stack)].history = g]
    BY <1>1, <1>5, <1>6, <2>1, PushedOne DEF Shape
  <2> QED BY <1>3, <2>2, Replaced DEF Shape
<1>8. CallsOf(g) = CallsOf(h) /\ AnswersIn(g) = AnswersIn(h) \cup {n}
  BY ZenonT(40), <1>5, <1>6, CallsAppend, AnswersAppend
<1>9. Open(g) = Open(h) \ {n} /\ Known(g) = Known(h)
  BY <1>4, <1>8 DEF Open, Known
<1>10. Good(Append(g, prompt'))
  <2>1. Good(g)
    BY <1>3, <1>4, <1>5, <1>6, GoodAppend
  <2> QED BY <1>2, <1>4, <1>5, <2>1, GoodAppend
<1>11. Range(calls') \subseteq Open(g)
  BY <1>2, <1>3, <1>4, <1>9
<1>12. InOrder'
  <2>1. /\ Len(calls) \in Nat \ {0} /\ Len(Tail(calls)) = Len(calls) - 1
        /\ Tail(calls) \in Seq(CallSet)
        /\ \A i \in DOMAIN Tail(calls) : i + 1 \in DOMAIN calls /\ Tail(calls)[i] = calls[i + 1]
    BY <1>2, HeadAndTail
  <2>2. \A i \in DOMAIN Tail(calls) : i \in Int
    BY <2>1, LenProperties
  <2>3. \A i, j \in DOMAIN Tail(calls) : i < j => i + 1 < j + 1
    BY <2>2
  <2>4. InOrder
    BY <1>3 DEF TopOK
  <2>5. \A i \in DOMAIN Tail(calls) :
           Tail(calls)[i].round = rounds /\ Tail(calls)[i].tool \in {Plain} \cup Structural
    BY <2>1, <2>4 DEF InOrder
  <2>6. \A i, j \in DOMAIN Tail(calls) : i < j => Tail(calls)[i].index < Tail(calls)[j].index
    BY <2>1, <2>3, <2>4 DEF InOrder
  <2> QED BY <1>2, <2>5, <2>6 DEF InOrder
<1>13. \A c \in Known(g) \cup Range(prompt'.calls) : Recent(c)'
  BY <1>2, <1>3, <1>9, StaysRecent
<1>14. ASSUME NEW c \in Open(g) PROVE c \in Range(calls') \/ Explained(g, c)'
  <2>1. c \in Open(h) /\ c # n
    BY <1>9
  <2>2. c \in Range(Tail(calls)) \/ Explained(h, c)
    BY <1>3, <1>4, <2>1
  <2>3. CallsOf(h) \subseteq CallsOf(g)
    BY <1>8
  <2> QED BY <1>2, <2>2, <2>3, StaysExplained
<1>15. TopOK'
  BY <1>7, <1>10, <1>11, <1>12, <1>13, <1>14, TopRule
<1>16. \A d \in 1..Len(stack') - 1 : PausedOK(d)'
  BY <1>7, SameBelow
<1> QED BY <1>15, <1>16 DEF TranscriptsOK

\* The last result leaves the history to be the prompt, or stays and a new prompt
\* follows it.
LEMMA ContinueStep ==
    ASSUME Shape, Shape', Later, TranscriptsOK, Continue
    PROVE  TranscriptsOK'
<1>1. PICK h \in Seq(Entries) : h = Top.history
  BY StackFacts DEF Shape
<1>2. /\ calls = <<>> /\ calls' = <<>> /\ prompt = Nothing /\ Range(calls) = {}
      /\ h # <<>> /\ Last(h).kind = "result"
  BY <1>1, RangeOfNone DEF Continue, Shape, TypeOK, ShapeOK
<1>3. /\ Len(stack) \in 1..Len(stack) /\ TopOK
      /\ Good(h)
      /\ Known(h) \cup Range(prompt.calls) \subseteq CallSet
      /\ \A c \in Known(h) : Recent(c)
      /\ \A c \in Open(h) :
           c \in Range(calls) \/ c \in Range(prompt.calls) \/ Explained(h, c)
      /\ Range(prompt.calls) = {}
  BY <1>1, <1>2, StackFacts, TopFacts DEF Shape, TranscriptsOK
<1>4. CASE input = <<>>
  <2>1. PICK F \in Seq(Entries), L \in Entries : F = Front(h) /\ L = Last(h) /\ h = Append(F, L)
    BY <1>2, FrontAndLast
  <2>2. PICK c \in CallSet : L.kind = "result" /\ L = Answer(c) /\ L.calls[1] = c
    BY <1>2, <2>1, ResultEntry
  <2>3. prompt' = Answer(c)
    BY <1>1, <1>4, <2>1, <2>2 DEF Continue
  <2>4. /\ stack'[Len(stack')].history = F /\ Len(stack') = Len(stack)
        /\ \A d \in 1..Len(stack) :
             /\ stack'[d].answering = stack[d].answering
             /\ d # Len(stack) => stack'[d].history = stack[d].history
    <3>1. stack' = [stack EXCEPT ![Len(stack)].history = F]
      BY <1>1, <1>4, <2>1 DEF Continue, Top
    <3> QED BY <1>3, <3>1, Replaced DEF Shape
  <2>5. CallsOf(h) = CallsOf(F) /\ AnswersIn(h) = AnswersIn(F) \cup {c}
    <3>1. /\ CallsOf(Append(F, L)) = CallsOf(F)
          /\ AnswersIn(Append(F, L)) = AnswersIn(F) \cup {c}
      BY <2>2, CallsAppend, AnswersAppend
    <3> QED BY <2>1, <3>1
  <2>6. Good(F) /\ MayAnswer(F, c)
    <3>1. Good(Append(F, L))
      BY <1>3, <2>1
    <3> QED BY <2>2, <3>1, GoodAppend
  <2>7. \A k \in Known(F) \cup {c} : Recent(k)'
    <3>1. Known(F) \cup {c} \subseteq Known(h)
      BY <2>5 DEF Known
    <3> QED BY <1>3, <3>1, StaysRecent
  <2>8. ASSUME NEW k \in Open(F) PROVE k = c \/ Explained(F, k)'
    <3>1. k = c \/ k \in Open(h)
      BY <2>5 DEF Open
    <3>2. k = c \/ Explained(h, k)
      BY <1>2, <1>3, <3>1
    <3>3. CallsOf(h) \subseteq CallsOf(F)
      BY <2>5
    <3> QED BY <3>2, <3>3, StaysExplained
  <2>9. TopOK'
    BY <1>2, <2>3, <2>4, <2>6, <2>7, <2>8, Answering
  <2>10. \A d \in 1..Len(stack') - 1 : PausedOK(d)'
    BY <2>4, SameBelow
  <2> QED BY <2>9, <2>10 DEF TranscriptsOK
<1>5. CASE input # <<>>
  <2>1. stack' = stack /\ prompt' = UserTurn(Fold)
    BY <1>5 DEF Continue
  <2>2. prompt'.kind # "result" /\ stack'[Len(stack')].history = h
    BY <1>1, <2>1 DEF UserTurn, Entry, Top
  <2>3. TopOK'
    BY <1>1, <1>2, <1>3, <2>2, NewPrompt
  <2>4. \A d \in 1..Len(stack') - 1 : PausedOK(d)'
    BY <2>1, SameBelow
  <2> QED BY <2>3, <2>4 DEF TranscriptsOK
<1> QED BY <1>4, <1>5

\* A structural call is the last of its turn that is worked on: those behind it are
\* skipped.
LEMMA TurnEnds ==
    ASSUME Shape, TopOK, calls # <<>>, Next1.tool \in Structural, NEW h, h = Top.history
    PROVE  /\ \A c \in Open(h) : c = Next1 \/ Explained(h, c)
           /\ Good(h) /\ MayAnswer(h, Next1) /\ Next1 \in Open(h) /\ Next1 \in CallSet
           /\ \A c \in Known(h) : Recent(c)
           /\ Known(h) \subseteq CallSet /\ Open(h) \subseteq Known(h)
<1>1. /\ Good(h) /\ Known(h) \subseteq CallSet
      /\ \A c \in Known(h) : Recent(c)
      /\ \A c \in Open(h) :
           c \in Range(calls) \/ c \in Range(prompt.calls) \/ Explained(h, c)
  BY TopFacts
<1>2. /\ Next1 \in CallSet /\ Next1 \in Open(h) /\ MayAnswer(h, Next1)
      /\ Range(calls) = {Next1} \cup Range(Tail(calls))
      /\ \A c \in Range(Tail(calls)) : Skipped(h, c)
      /\ Range(prompt.calls) = {}
  BY CallFacts
<1> QED BY <1>1, <1>2 DEF Explained, Open, Known

LEMMA DelegateStep ==
    ASSUME Shape, Shape', Later, TranscriptsOK, Delegate
    PROVE  TranscriptsOK'
<1>1. PICK h \in Seq(Entries) : h = Top.history
  BY StackFacts DEF Shape
<1>2. /\ calls # <<>> /\ Next1.tool \in Structural /\ calls' = <<Next1>>
      /\ UNCHANGED <<stack, prompt, rounds>>
  BY DEF Delegate, AtCall, Structural
<1>3. /\ TopOK /\ Good(Append(h, prompt))
      /\ Next1 \in CallSet /\ Next1 \in Range(calls) /\ Next1.round = rounds
      /\ Range(prompt.calls) = {}
      /\ \A c \in Range(calls) : c = Next1 \/ Skipped(h, c)
  BY <1>1, <1>2, TopFacts, CallFacts DEF TranscriptsOK
<1>4. stack'[Len(stack')].history = h
  BY <1>1, <1>2 DEF Top
<1>5. PICK n : n = Next1
  OBVIOUS
<1>6. calls' = <<n>> /\ Range(calls') = {n}
  <2>1. DOMAIN <<n>> = {1} /\ <<n>>[1] = n
    OBVIOUS
  <2> QED BY <1>2, <1>5, <2>1 DEF Range
<1>7. InOrder'
  <2>1. DOMAIN <<n>> = {1} /\ <<n>>[1] = n /\ ~(1 < 1)
    OBVIOUS
  <2> QED BY <1>2, <1>3, <1>5, <1>6, <2>1 DEF InOrder
<1>8. ASSUME NEW c \in Range(calls) \cup Range(prompt.calls)
      PROVE  c \in Range(calls') \/ Explained(h, c)'
  BY <1>3, <1>5, <1>6 DEF Explained, Skipped
<1>9. TopOK'
  <2>1. Range(calls') \subseteq Range(calls)
    BY <1>3, <1>5, <1>6
  <2>2. Range(prompt'.calls) = Range(prompt.calls) /\ Good(Append(h, prompt'))
    BY <1>2, <1>3
  <2> QED BY <1>1, <1>3, <1>4, <1>7, <1>8, <2>1, <2>2, SameCalls
<1>10. \A d \in 1..Len(stack') - 1 : PausedOK(d)'
  BY <1>2, SameBelow
<1> QED BY <1>9, <1>10 DEF TranscriptsOK

\* The driver itself answers the call.
LEMMA ActionStep ==
    ASSUME Shape, Shape', Later, TranscriptsOK, JobAction \/ \E a \in Agents : Handoff(a)
    PROVE  TranscriptsOK'
<1>1. PICK h \in Seq(Entries), n \in CallSet : h = Top.history /\ n = Next1 /\ calls # <<>>
  <2>1. calls # <<>>
    BY DEF JobAction, Handoff, AtCall
  <2> QED BY <2>1, StackFacts, CallFacts DEF Shape, TranscriptsOK
<1>2. /\ \A c \in Open(h) : c = n \/ Explained(h, c)
      /\ Good(h) /\ MayAnswer(h, n) /\ n \in Known(h)
      /\ \A c \in Known(h) : Recent(c)
      /\ Known(h) \subseteq CallSet
  <2>1. Next1.tool \in Structural /\ TopOK
    BY DEF JobAction, Handoff, AtCall, Structural, TranscriptsOK
  <2> QED BY <1>1, <2>1, TurnEnds
<1>3. prompt' = Answer(n) /\ calls' = <<>>
  BY <1>1 DEF JobAction, Handoff
<1>4. /\ stack'[Len(stack')].history = h /\ Len(stack') = Len(stack)
      /\ \A d \in 1..Len(stack) :
           /\ stack'[d].answering = stack[d].answering
           /\ d # Len(stack) => stack'[d].history = stack[d].history
  <2>1. /\ Len(stack') = Len(stack)
        /\ \A d \in 1..Len(stack) : /\ stack'[d].answering = stack[d].answering
                                    /\ stack'[d].history = stack[d].history
    <3>1. CASE JobAction
      BY <3>1 DEF JobAction
    <3>2. CASE \E a \in Agents : Handoff(a)
      BY <3>2, Swapped DEF Handoff, Shape
    <3> QED BY <3>1, <3>2
  <2>2. Len(stack) \in 1..Len(stack)
    BY StackFacts DEF Shape
  <2> QED BY <1>1, <2>1, <2>2 DEF Top
<1>5. \A c \in Known(h) \cup {n} : Recent(c)'
  BY <1>2, StaysRecent
<1>6. \A c \in Open(h) : c = n \/ Explained(h, c)'
  BY <1>2, StaysExplained
<1>7. TopOK'
  BY <1>1, <1>2, <1>3, <1>4, <1>5, <1>6, Answering
<1>8. \A d \in 1..Len(stack') - 1 : PausedOK(d)'
  BY <1>4, SameBelow
<1> QED BY <1>7, <1>8 DEF TranscriptsOK

\* The parent keeps its open call, and the child starts with nothing.
LEMMA SpawnStep ==
    ASSUME Shape, Shape', Later, TranscriptsOK, SpawnSubagent
    PROVE  TranscriptsOK'
<1>1. PICK h \in Seq(Entries), n \in CallSet : h = Top.history /\ n = Next1 /\ calls # <<>>
  <2>1. calls # <<>>
    BY DEF SpawnSubagent, AtCall
  <2> QED BY <2>1, StackFacts, CallFacts DEF Shape, TranscriptsOK
<1>2. /\ \A c \in Open(h) : c = n \/ Explained(h, c)
      /\ Good(h) /\ n \in Open(h)
      /\ \A c \in Known(h) : Recent(c)
      /\ Known(h) \subseteq CallSet
  <2>1. Next1.tool \in Structural /\ TopOK
    BY DEF SpawnSubagent, AtCall, Structural, TranscriptsOK
  <2> QED BY <1>1, <2>1, TurnEnds
<1>3. PICK m \in Nat : m = Len(stack) /\ 1 <= m
  BY StackFacts DEF Shape
<1>4. /\ Len(stack') = m + 1
      /\ \A d \in 1..m : stack'[d] = stack[d]
      /\ stack'[m + 1].history = <<>> /\ stack'[m + 1].answering = n
  BY <1>1, <1>3, Spawned DEF SpawnSubagent, Shape
<1>5. prompt' = Brief /\ calls' = <<>>
  BY DEF SpawnSubagent
<1>6. TopOK'
  <2>1. PICK g \in Seq(Entries) : g = <<>>
    <3>1. <<>> \in Seq(Entries)
      OBVIOUS
    <3> QED BY <3>1
  <2>2. Brief \in Entries /\ Brief.kind = "brief" /\ Range(Brief.calls) = {}
    BY EntryTypes, RangeOfNone DEF Brief, Entry
  <2>3. Good(g)
    BY <2>1 DEF Good
  <2>4. Good(Append(g, Brief))
    BY <2>2, <2>3, GoodAppend
  <2>5. Known(g) = {} /\ Open(g) = {}
    BY <2>1, NoEntries DEF Known, Open
  <2>6. Range(calls') = {} /\ InOrder'
    BY <1>5, NoneLeft
  <2>7. stack'[Len(stack')].history = g
    BY <1>4, <2>1
  <2> QED BY <1>5, <2>2, <2>4, <2>5, <2>6, <2>7, TopRule
<1>7. ASSUME NEW d \in 1..Len(stack') - 1 PROVE PausedOK(d)'
  <2>1. d \in 1..m
    BY <1>3, <1>4
  <2>2. CASE d = m
    <3>1. stack'[d].history = h /\ stack'[d + 1].answering = n
      BY <1>1, <1>3, <1>4, <2>1, <2>2 DEF Top
    <3>2. \A c \in Known(h) : Recent(c)'
      BY <1>2, StaysRecent
    <3>3. \A c \in Open(h) : c = n \/ Explained(h, c)'
      BY <1>2, StaysExplained
    <3> QED BY <1>2, <3>1, <3>2, <3>3, PausedRule
  <2>3. CASE d # m
    <3>1. d \in 1..Len(stack) - 1 /\ d + 1 \in 1..m
      BY <1>3, <2>1, <2>3
    <3>2. PausedOK(d)
      BY <3>1 DEF TranscriptsOK
    <3>3. stack'[d].history = stack[d].history /\ stack'[d + 1].answering = stack[d + 1].answering
      BY <1>4, <2>1, <3>1
    <3> QED BY <3>1, <3>2, <3>3, StaysPaused
  <2> QED BY <2>2, <2>3
<1> QED BY <1>6, <1>7 DEF TranscriptsOK

\* The child's report, and its seeds if it has any, go to the frame on top.
LEMMA DelegateReturnsStep ==
    ASSUME Shape, Shape', Later, TranscriptsOK,
           NEW cold \in BOOLEAN, NEW seeds \in BOOLEAN, DelegateReturns(cold, seeds)
    PROVE  TranscriptsOK'
<1>1. PICK h \in Seq(Entries), n \in CallSet :
         /\ h = Top.history /\ n = Next1 /\ calls = <<n>> /\ calls # <<>>
         /\ n \in Open(h) /\ n.round = rounds /\ n.tool # "seed"
  <2>1. calls # <<>> /\ calls = <<Next1>>
    BY DEF DelegateReturns, Shape, ShapeOK
  <2> QED BY <2>1, StackFacts, CallFacts DEF Shape, TranscriptsOK
<1>2. /\ Good(h) /\ Known(h) \subseteq CallSet
      /\ \A c \in Known(h) : Recent(c)
      /\ \A c \in Open(h) : c = n \/ Explained(h, c)
      /\ n \in Known(h) /\ Len(stack) \in 1..Len(stack)
  <2>1. Range(calls) = {n}
    <3>1. Tail(<<n>>) = <<>>
      OBVIOUS
    <3> QED BY <1>1, <3>1, CallFacts, RangeOfNone DEF TranscriptsOK
  <2>2. Range(prompt.calls) = {}
    BY <1>1, CallFacts DEF TranscriptsOK
  <2> QED BY <1>1, <2>1, <2>2, TopFacts, StackFacts DEF Shape, TranscriptsOK, Open, Known
\* The seed of this call was not there before.
<1>3. Seed(n) \in CallSet /\ Seed(n).tool = "seed" /\ Seed(n).round = rounds /\ Seed(n) \notin Known(h)
  <2>1. Seed(n) \in CallSet /\ Seed(n).tool = "seed" /\ Seed(n).round = rounds
    BY <1>1, SeedTypes
  <2>2. \A c \in Known(h) : c.tool = "seed" => c.round < rounds
    BY <1>2 DEF Recent, Undispatched, DelegateReturns
  <2>3. rounds \in Nat
    BY DEF Shape, ShapeOK
  <2> QED BY <2>1, <2>2, <2>3
<1>4. PICK r \in Seq(Entries) :
         /\ r = Resumed(Len(stack), cold) /\ Good(r) /\ MayAnswer(r, n)
         /\ Known(r) \subseteq Known(h) /\ (r = h \/ Open(r) = {})
  <2>1. Resumed(Len(stack), cold) \in {h, <<Summary>>}
    BY <1>1, <1>2, ResumedForm DEF Top
  <2> QED BY <1>1, <1>2, <2>1, ResumedGood
<1>5. PICK g \in Seq(Entries) :
         /\ g = IF seeds THEN Seeded(r, n) ELSE r
         /\ Good(g) /\ MayAnswer(g, n)
         /\ Known(g) \subseteq Known(h) \cup {Seed(n)}
         /\ Open(g) \subseteq Open(r) /\ CallsOf(r) \subseteq CallsOf(g)
  <2>1. CASE seeds
    <3>1. Seed(n) \notin Known(r)
      BY <1>3, <1>4
    <3>2. /\ Seeded(r, n) \in Seq(Entries) /\ Good(Seeded(r, n)) /\ MayAnswer(Seeded(r, n), n)
          /\ CallsOf(Seeded(r, n)) = CallsOf(r) \cup {Seed(n)}
          /\ AnswersIn(Seeded(r, n)) = AnswersIn(r) \cup {Seed(n)}
      BY <1>1, <1>4, <3>1, SeedsIn
    <3>3. /\ Known(Seeded(r, n)) = Known(r) \cup {Seed(n)}
          /\ Open(Seeded(r, n)) \subseteq Open(r)
      BY <3>2 DEF Known, Open
    <3> QED BY <1>4, <2>1, <3>2, <3>3
  <2>2. CASE ~seeds
    BY <1>4, <2>2
  <2> QED BY <2>1, <2>2
<1>6. /\ stack'[Len(stack')].history = g /\ Len(stack') = Len(stack)
      /\ \A d \in 1..Len(stack) :
           /\ stack'[d].answering = stack[d].answering
           /\ d # Len(stack) => stack'[d].history = stack[d].history
  <2>1. stack' = [stack EXCEPT ![Len(stack)].history = g]
    BY <1>1, <1>4, <1>5 DEF DelegateReturns
  <2> QED BY <1>2, <2>1, Replaced DEF Shape
<1>7. prompt' = Answer(n) /\ calls' = <<>>
  BY <1>1 DEF DelegateReturns
<1>8. \A c \in Known(g) \cup {n} : Recent(c)'
  <2>1. \A c \in Known(h) : Recent(c)'
    BY <1>2, StaysRecent
  <2>2. PICK s \in CallSet : s = Seed(n)
    BY <1>3
  <2>3. Recent(s)'
    <3>1. rounds \in Nat /\ rounds' = rounds /\ pc' = "ready"
      BY DEF DelegateReturns, Shape, ShapeOK
    <3> QED BY <1>3, <2>2, <3>1 DEF Recent, Undispatched
  <2> QED BY <1>2, <1>5, <2>1, <2>2, <2>3
<1>9. ASSUME NEW c \in Open(g) PROVE c = n \/ Explained(g, c)'
  <2>1. c \in Open(h) /\ r = h
    BY <1>4, <1>5
  <2>2. c = n \/ Explained(h, c)
    BY <1>2, <2>1
  <2>3. CallsOf(h) \subseteq CallsOf(g)
    BY <1>5, <2>1
  <2> QED BY <2>2, <2>3, StaysExplained
<1>10. TopOK'
  BY <1>5, <1>6, <1>7, <1>8, <1>9, Answering
<1>11. \A d \in 1..Len(stack') - 1 : PausedOK(d)'
  BY <1>6, SameBelow
<1> QED BY <1>10, <1>11 DEF TranscriptsOK

\* The report goes to the frame below, which is then on top.
LEMMA PopChildStep ==
    ASSUME Shape, Shape', Later, TranscriptsOK, NEW cold \in BOOLEAN, PopChild(cold)
    PROVE  TranscriptsOK'
<1>1. PICK m \in Nat : m = Len(stack) - 1 /\ 1 <= m /\ m + 1 = Len(stack)
  <2>1. PICK k \in Nat : k = Len(stack) /\ 1 <= k /\ k # 1
    BY StackFacts DEF Shape, PopChild, IsRoot
  <2>2. k - 1 \in Nat /\ 1 <= k - 1 /\ (k - 1) + 1 = k
    BY <2>1
  <2> QED BY <2>1, <2>2
<1>2. m \in 1..Len(stack) /\ m + 1 \in 1..Len(stack) /\ m \in 1..Len(stack) - 1
  BY <1>1
<1>3. PICK h \in Seq(Entries), a \in CallSet :
         h = stack[m].history /\ a = stack[m + 1].answering
  BY <1>2, StackFacts DEF Shape
<1>4. /\ Good(h) /\ a \in Open(h)
      /\ \A c \in Known(h) : Recent(c)
      /\ \A c \in Open(h) : c = a \/ Explained(h, c)
      /\ Known(h) \subseteq CallSet /\ a \in Known(h)
  <2>1. PausedOK(m)
    BY <1>2 DEF TranscriptsOK
  <2>2. /\ Good(h) /\ a \in Open(h)
        /\ \A c \in Known(h) : Recent(c)
        /\ \A c \in Open(h) : c = a \/ Explained(h, c)
    BY <1>3, <2>1 DEF PausedOK
  <2> QED BY <1>3, <2>2, KnownTyped DEF Known, Open
<1>5. PICK g \in Seq(Entries) :
         /\ g = Resumed(m, cold) /\ Good(g) /\ MayAnswer(g, a)
         /\ Known(g) \subseteq Known(h) /\ (g = h \/ Open(g) = {})
  <2>1. Resumed(m, cold) \in {h, <<Summary>>}
    BY <1>2, <1>3, ResumedForm
  <2> QED BY <1>3, <1>4, <2>1, ResumedGood
<1>6. /\ Len(stack') = m
      /\ \A d \in 1..m :
           /\ stack'[d].answering = stack[d].answering
           /\ d # m => stack'[d].history = stack[d].history
      /\ stack'[Len(stack')].history = g
  <2>1. ~IsRoot /\ stack' = [Front(stack) EXCEPT ![Len(stack) - 1].history = g]
    BY <1>1, <1>5 DEF PopChild
  <2> QED BY <1>1, <2>1, Popped DEF Shape
<1>7. prompt' = Answer(a) /\ calls' = <<>>
  <2>1. Top.answering = a
    BY <1>1, <1>3 DEF Top
  <2> QED BY <2>1 DEF PopChild, Shape, TypeOK
<1>8. \A c \in Known(g) \cup {a} : Recent(c)'
  BY <1>4, <1>5, StaysRecent
<1>9. ASSUME NEW c \in Open(g) PROVE c = a \/ Explained(g, c)'
  <2>1. c \in Open(h) /\ g = h
    BY <1>5
  <2>2. c = a \/ Explained(h, c)
    BY <1>4, <2>1
  <2>3. CallsOf(h) \subseteq CallsOf(g)
    BY <2>1
  <2> QED BY <2>2, <2>3, StaysExplained
<1>10. TopOK'
  BY <1>5, <1>6, <1>7, <1>8, <1>9, Answering
<1>11. ASSUME NEW d \in 1..Len(stack') - 1 PROVE PausedOK(d)'
  <2>1. d \in 1..Len(stack) - 1 /\ d \in 1..m /\ d + 1 \in 1..m /\ d # m
    <3>1. d \in 1..m - 1 /\ Len(stack) - 1 = m
      BY <1>1, <1>6
    <3>2. d \in 1..m /\ d + 1 \in 1..m /\ d # m
      BY <1>1, <3>1
    <3> QED BY <3>1, <3>2
  <2>2. PausedOK(d)
    BY <2>1 DEF TranscriptsOK
  <2>3. stack'[d].history = stack[d].history /\ stack'[d + 1].answering = stack[d + 1].answering
    BY <1>6, <2>1
  <2> QED BY <2>1, <2>2, <2>3, StaysPaused
<1> QED BY <1>10, <1>11 DEF TranscriptsOK

LEMMA TranscriptStep ==
    ASSUME Shape, Shape', TranscriptsOK, Next
    PROVE  TranscriptsOK'
<1>1. Later
  BY StepIsLater
<1>2. CASE World \/ \E d \in 1..MaxDepth : Draft(d)
  <2>1. UNCHANGED <<stack, prompt, calls, rounds>>
    BY <1>2 DEF World, Send, SetAgent, CancelRun, Drain, EditGuidance, Draft, driverOnly
  <2> QED BY <1>1, <2>1, QuietStep
<1>3. CASE TakeInput \/ Refuse \/ Retry \/ Reattempt
  <2>1. UNCHANGED <<stack, prompt, calls, rounds>>
    BY <1>3 DEF TakeInput, Refuse, Retry, Reattempt
  <2> QED BY <1>1, <2>1, QuietStep
<1>4. CASE TakeControl \/ Admit \/ Abort \/ Fail \/ Finish
  BY <1>1, <1>4, QuietStep
<1>5. CASE Request
  BY <1>1, <1>5, RequestStep
<1>6. CASE \E kinds \in Offered : Respond(kinds)
  BY <1>1, <1>6, RespondStep
<1>7. CASE Dispatch
  BY <1>1, <1>7, DispatchStep
<1>8. CASE Continue
  BY <1>1, <1>8, ContinueStep
<1>9. CASE SpawnSubagent
  BY <1>1, <1>9, SpawnStep
<1>10. CASE Delegate
  BY <1>1, <1>10, DelegateStep
<1>11. CASE JobAction \/ \E a \in Agents : Handoff(a)
  BY <1>1, <1>11, ActionStep
<1>12. CASE \E cold, seeds \in BOOLEAN : DelegateReturns(cold, seeds)
  BY <1>1, <1>12, DelegateReturnsStep
<1>13. CASE \E cold \in BOOLEAN : PopChild(cold)
  BY <1>1, <1>13, PopChildStep
<1> QED BY <1>2, <1>3, <1>4, <1>5, <1>6, <1>7, <1>8, <1>9, <1>10, <1>11, <1>12, <1>13
           DEF Next, Driver

-----------------------------------------------------------------------------
(***************************************************************************)
(* The theorems.                                                           *)
(***************************************************************************)
LEMMA InitIInv == Init => IInv
<1> SUFFICES ASSUME Init PROVE IInv
  OBVIOUS
<1>1. /\ Nothing \in Entries /\ Nothing.kind = "none" /\ Nothing.msgs = <<>> /\ Nothing.calls = <<>>
  BY EntryTypes DEF Nothing, Entry
<1>2. NoCall \in CallSet
  BY DEF NoCall, CallSet
<1>3. /\ stack = <<Frame(First, NoCall)>> /\ Frame(First, NoCall) \in Frames
      /\ Len(stack) = 1 /\ Top = Frame(First, NoCall) /\ Top.history = <<>>
  <2>1. Frame(First, NoCall) \in Frames /\ Frame(First, NoCall).history = <<>>
    <3>1. <<>> \in Seq(Entries) /\ First \in Agents \cup {Child}
      BY AgentsAssumption
    <3> QED BY <1>2, <3>1 DEF Frame, Frames
  <2> QED BY <2>1 DEF Init, Top
<1>4. TypeOK
  <2>1. 0 \in 0..MaxMessages /\ 0 \in 0..MaxSwaps /\ 0 \in 0..MaxCancels /\ 1 \in 1..MaxDepth
    BY BoundsAssumption
  <2>2. Len(<<>>) <= MaxFold
    BY BoundsAssumption
  <2> QED BY <1>1, <1>3, <2>1, <2>2, AgentsAssumption DEF Init, TypeOK, Busy
<1>5. ShapeOK
  BY <1>1, <1>3 DEF Init, ShapeOK
<1>6. LineOK
  <2>1. Line = <<>>
    <3>1. <<>> \o <<>> = <<>>
      BY ConcatEmptySeq
    <3> QED BY <1>1, <3>1 DEF Line, Init
  <2>2. Range(<<>>) = {} /\ DOMAIN <<>> = {}
    BY RangeOfNone
  <2>3. InPrompts = {} /\ refused = {} /\ 1..sent = {}
    BY DEF Init, InPrompts
  <2> QED BY <2>1, <2>2, <2>3 DEF LineOK, Ascending
<1>7. TopOK
  <2>1. calls = <<>> /\ prompt = Nothing
    BY DEF Init
  <2>2. <<>> \in Seq(Entries) /\ Good(<<>>)
    BY DEF Good
  <2>3. Good(Append(<<>>, Nothing))
    BY <1>1, <2>2, GoodAppend
  <2>4. Known(<<>>) = {} /\ Open(<<>>) = {}
    BY NoEntries DEF Known, Open
  <2>5. Range(calls) = {} /\ Range(prompt.calls) = {} /\ DOMAIN calls = {}
    BY <1>1, <2>1, RangeOfNone
  <2> QED BY <1>3, <2>1, <2>3, <2>4, <2>5 DEF TopOK, InOrder
<1>8. 1..Len(stack) - 1 = {}
  BY <1>3
<1> QED BY <1>4, <1>5, <1>6, <1>7, <1>8 DEF IInv, TranscriptsOK

LEMMA NextIInv == IInv /\ [Next]_vars => IInv'
<1> SUFFICES ASSUME IInv, [Next]_vars PROVE IInv'
  OBVIOUS
<1>1. Shape /\ LineOK /\ TranscriptsOK
  BY DEF IInv, Shape
<1>2. Shape'
  BY <1>1, TypeStep
<1>3. CASE Next
  BY <1>1, <1>2, <1>3, LineStep, TranscriptStep DEF IInv, Shape
<1>4. CASE UNCHANGED vars
  <2>1. UNCHANGED <<stack, prompt, calls, rounds, pc, abandoned, sent, refused, heard, batch, input>>
    BY <1>4 DEF vars, channels, outside, human, fate
  <2>2. Line' = Line
    BY <2>1 DEF Line
  <2>3. LineOK'
    BY <1>1, <2>1, <2>2, SameLine
  <2>4. Later
    BY <1>1, <2>1 DEF Later, Undispatched, Shape, ShapeOK
  <2>5. TranscriptsOK'
    BY <1>1, <1>2, <2>1, <2>4, QuietStep
  <2> QED BY <1>2, <2>3, <2>5 DEF IInv, Shape
<1> QED BY <1>3, <1>4

\* What the driver keeps from step to step: the shape of the state, the one line of
\* the messages and the transcripts of all frames (run_main_loop, run_user_input).
THEOREM Invariance == Spec => []IInv
BY InitIInv, NextIInv, PTL DEF Spec

\* The state keeps its shape: a prompt exists only on the way to a request, undispatched
\* calls only within a turn, and a cancellation token exactly while a run goes on.
THEOREM TypeCorrect == Spec => []TypeOK
<1>1. IInv => TypeOK
  BY DEF IInv
<1> QED BY <1>1, Invariance, PTL

-----------------------------------------------------------------------------
LEMMA DisjointUnion ==
    ASSUME NEW S, NEW T, IsFiniteSet(S), IsFiniteSet(T), S \cap T = {}
    PROVE  /\ IsFiniteSet(S \cup T)
           /\ Cardinality(S \cup T) = Cardinality(S) + Cardinality(T)
<1>1. /\ IsFiniteSet(S \cup T)
      /\ Cardinality(S \cup T) = Cardinality(S) + Cardinality(T) - Cardinality(S \cap T)
  BY FS_Union
<1>2. Cardinality(S \cap T) = 0 /\ Cardinality(S) \in Nat /\ Cardinality(T) \in Nat
  BY FS_EmptySet, FS_CardinalityType
<1> QED BY <1>1, <1>2

\* A line that ascends has as many messages as it has numbers.
LEMMA LineIsKept ==
    ASSUME Shape, LineOK
    PROVE  MessagesKept
<1>1. /\ heard \in Seq(Nat) /\ prompt.msgs \in Seq(Nat) /\ batch \in Seq(Nat)
      /\ input \in Seq(Nat) /\ Line \in Seq(Nat)
  BY LineTypes
<1>2. PICK v \in Seq(Nat) : v = batch \o input
  BY <1>1, ConcatProperties
<1>3. PICK w \in Seq(Nat) : w = prompt.msgs \o v
  BY <1>1, <1>2, ConcatProperties
<1>4. /\ Range(v) = Range(batch) \cup Range(input) /\ Len(v) = Len(batch) + Len(input)
      /\ Range(w) = Range(prompt.msgs) \cup Range(v) /\ Len(w) = Len(prompt.msgs) + Len(v)
      /\ Range(Line) = Range(heard) \cup Range(w) /\ Len(Line) = Len(heard) + Len(w)
  <2>1. Range(v) = Range(batch) \cup Range(input) /\ Len(v) = Len(batch) + Len(input)
    BY <1>1, <1>2, RangeConcatenation, Concatenated
  <2>2. Range(w) = Range(prompt.msgs) \cup Range(v) /\ Len(w) = Len(prompt.msgs) + Len(v)
    BY <1>1, <1>3, RangeConcatenation, Concatenated
  <2>3. Line = heard \o w
    BY <1>2, <1>3 DEF Line
  <2>4. Range(heard \o w) = Range(heard) \cup Range(w) /\ Len(heard \o w) = Len(heard) + Len(w)
    BY <1>1, RangeConcatenation, Concatenated
  <2> QED BY <2>1, <2>2, <2>3, <2>4
<1>5. /\ 1..sent = Range(input) \cup Range(batch) \cup Range(prompt.msgs) \cup Range(heard)
                     \cup refused \cup InPrompts
  BY <1>4 DEF LineOK
<1>6. sent \in Nat
  BY BoundsAssumption DEF Shape, TypeOK
<1> DEFINE L == Range(Line)
           P == InPrompts
<1>7. /\ 1..sent = L \cup refused \cup P
      /\ L \cap refused = {} /\ L \cap P = {} /\ refused \cap P = {}
      /\ IsFiniteSet(L) /\ Cardinality(L) = Len(Line)
  BY <1>1, AscendingCount DEF LineOK
<1> HIDE DEF L, P
<1>8. IsFiniteSet(1..sent) /\ Cardinality(1..sent) = sent
  <2>1. 0 \in Int /\ 1 \in Int /\ sent \in Int
    BY <1>6
  <2> QED BY <1>6, <2>1, FS_Interval
<1>9. IsFiniteSet(refused) /\ IsFiniteSet(P)
  <2>1. refused \subseteq 1..sent /\ P \subseteq 1..sent
    BY <1>7
  <2> QED BY <1>8, <2>1, FS_Subset
<1>10. sent = Len(Line) + Cardinality(refused) + Cardinality(P)
  <2>1. /\ IsFiniteSet(L \cup refused)
        /\ Cardinality(L \cup refused) = Cardinality(L) + Cardinality(refused)
    BY <1>7, <1>9, DisjointUnion
  <2>2. (L \cup refused) \cap P = {} /\ (L \cup refused) \cup P = 1..sent
    BY <1>7
  <2>3. Cardinality(1..sent) = Cardinality(L \cup refused) + Cardinality(P)
    BY <1>9, <2>1, <2>2, DisjointUnion
  <2> QED BY <1>7, <1>8, <2>1, <2>3
<1>11. sent = Len(input) + Len(batch) + Len(prompt.msgs) + Len(heard)
              + Cardinality(refused) + Cardinality(InPrompts)
  <2>1. PICK i \in Nat, b \in Nat, q \in Nat, h \in Nat, r \in Nat, p \in Nat :
           /\ i = Len(input) /\ b = Len(batch) /\ q = Len(prompt.msgs) /\ h = Len(heard)
           /\ r = Cardinality(refused) /\ p = Cardinality(InPrompts)
    BY <1>1, <1>9, LenProperties, FS_CardinalityType DEF P
  <2>2. Len(v) = b + i /\ Len(w) = q + (b + i) /\ Len(Line) = h + (q + (b + i))
    BY <1>4, <2>1
  <2>3. sent = (h + (q + (b + i))) + r + p
    BY <1>10, <2>1, <2>2 DEF P
  <2>4. sent = i + b + q + h + r + p
    BY <2>3
  <2> QED BY <2>1, <2>4
<1>12. \A i, j \in DOMAIN heard : i < j => heard[i] < heard[j]
  <2>1. Ascending(heard \o w)
    BY <1>2, <1>3 DEF LineOK, Line
  <2>2. Ascending(heard)
    BY <1>1, <1>3, <2>1, AscendingParts
  <2> QED BY <2>2 DEF Ascending
<1> QED BY <1>5, <1>11, <1>12 DEF MessagesKept

\* Each message is in exactly one place, and models hear them in the order the
\* human sent them, whichever frame is on top (drain_queue, run_main_loop).
THEOREM NoMessageLost == Spec => []MessagesKept
<1>1. IInv => MessagesKept
  BY LineIsKept DEF IInv, Shape
<1> QED BY <1>1, Invariance, PTL

\* Every result in a transcript, the prompt included, follows the call it answers or
\* the summary that swallowed it, and no call is answered twice, through handoffs,
\* child frames, seeds and shrunken parents (inject_seeds, finish_delegation_shrink).
THEOREM EveryAnswerHasItsCall == Spec => []AnswersFollowCalls
<1>1. ASSUME IInv PROVE AnswersFollowCalls
  <2>1. ASSUME NEW d \in DOMAIN stack PROVE Good(Transcript(d))
    <3>1. Len(stack) \in Nat /\ d \in 1..Len(stack)
      BY <1>1, StackFacts DEF IInv
    <3>2. CASE d = Len(stack)
      BY <1>1, <3>2 DEF IInv, TranscriptsOK, TopOK, Transcript, Top
    <3>3. CASE d # Len(stack)
      <4>1. d \in 1..Len(stack) - 1
        BY <3>1, <3>3
      <4> QED BY <1>1, <3>3, <4>1 DEF IInv, TranscriptsOK, PausedOK, Transcript
    <3> QED BY <3>2, <3>3
  <2> QED BY <2>1 DEF AnswersFollowCalls, Good
<1> QED BY <1>1, Invariance, PTL

\* A call without a result is one the driver or a child still works on, stands behind a
\* structural call of its turn, or lost its result with a run that ended early
\* (run_user_input).
THEOREM NoCallForgotten == Spec => []GapsExplained
<1>1. ASSUME IInv PROVE GapsExplained
  <2>1. ASSUME NEW d \in DOMAIN stack,
               NEW c \in CallsOf(stack[d].history) \ AnswersIn(stack[d].history)
        PROVE  \/ d = Len(stack) /\ (c \in Range(calls) \/ c \in Range(prompt.calls))
               \/ d < Len(stack) /\ stack[d + 1].answering = c
               \/ Explained(stack[d].history, c)
    <3>1. Len(stack) \in Nat /\ d \in 1..Len(stack) /\ c \in Open(stack[d].history)
      BY <1>1, StackFacts DEF IInv, Open
    <3>2. CASE d = Len(stack)
      BY <1>1, <3>1, <3>2 DEF IInv, TranscriptsOK, TopOK, Top
    <3>3. CASE d # Len(stack)
      <4>1. d \in 1..Len(stack) - 1 /\ d < Len(stack)
        BY <3>1, <3>3
      <4> QED BY <1>1, <3>1, <4>1 DEF IInv, TranscriptsOK, PausedOK
    <3> QED BY <3>2, <3>3
  <2> QED BY <2>1 DEF GapsExplained, Explained
<1> QED BY <1>1, Invariance, PTL
-----------------------------------------------------------------------------
(***************************************************************************)
(* What the drivers tell beside a conversation is whether they are at work;*)
(* /caffeinate waits for it.  What the clients show of /caffeinate, for any*)
(* clients and sessions and any number of requests, connections and turns. *)
(*                                                                         *)
(* The last word a connection has been given, if it was not overtaken and  *)
(* its author is not about to speak, is the mode.  Nobody's announcement   *)
(* is lost: a request is armed once, so that a watcher that is about to    *)
(* tell is not started again before it has told.                           *)
(***************************************************************************)
Connections ==
    [link : {"down", "hello", "up"}, bus : Seq(BOOLEAN), glyph : BOOLEAN,
     step : {"none", "tell"}, told : Modes, request : 0 .. MaxRequests]

\* The change announced next is the one that was made last.
NewestDue ==
    \/ newest \in Clients /\ client[newest].step = "tell"
    \/ newest \in Watchers /\ watcher[newest].step = "tell"

DueKnowsMode ==
    /\ newest \in Clients /\ client[newest].step = "tell" => client[newest].told = mode
    /\ newest \in Watchers /\ watcher[newest].step = "tell" => mode = "off"

\* A request that has not been announced has no watcher yet, and is one client's.
ArmedOnce ==
    /\ requests \in 0 .. MaxRequests
    /\ \A c \in Clients : client[c].step = "tell" =>
          /\ client[c].link = "up" /\ client[c].request \in 1 .. requests
          /\ watcher[client[c].request].step = "none"
    /\ \A c, d \in Clients :
          client[c].step = "tell" /\ client[d].step = "tell"
              /\ client[c].request = client[d].request => c = d
    /\ \A n \in Watchers : n > requests => watcher[n].step = "none"

\* The end of what connection k has been given; with nothing left, the glyph.
Told(k) == IF k.bus = <<>> THEN k.glyph ELSE k.bus[Len(k.bus)]

LastWord ==
    inOrder /\ ~ NewestDue =>
        \A c \in Clients :
            \/ client[c].link = "down"
            \/ client[c].link = "hello" /\ client[c].bus = <<>>
            \/ Told(client[c]) = Active(mode)

GlyphInv == CaffeinateTypeOK /\ ArmedOnce /\ DueKnowsMode /\ LastWord

\* What stands at the end of a sequence after one more ...
LEMMA EndOfLonger ==
    ASSUME NEW S, NEW q \in Seq(S), NEW e \in S
    PROVE  /\ Append(q, e) \in Seq(S) /\ Append(q, e) # <<>>
           /\ Len(Append(q, e)) = Len(q) + 1 /\ Append(q, e)[Len(q) + 1] = e
BY AppendProperties, EmptySeq, LenProperties

\* ... and after one less.
LEMMA EndOfShorter ==
    ASSUME NEW S, NEW q \in Seq(S), q # <<>>
    PROVE  /\ Tail(q) \in Seq(S) /\ Head(q) \in S /\ Len(q) \in Nat
           /\ Len(Tail(q)) = Len(q) - 1
           /\ Tail(q) = <<>> => Head(q) = q[Len(q)]
           /\ Tail(q) # <<>> => Tail(q)[Len(Tail(q))] = q[Len(q)]
BY HeadTailProperties, EmptySeq, LenProperties

\* Broadcast: of a connection only the bus changes, which ends with the news.
LEMMA BroadcastTells ==
    ASSUME CaffeinateTypeOK, NEW m \in Modes,
           NEW c \in Clients
    PROVE  LET k == client[c]  b == Broadcast(client, m)[c] IN
           /\ b \in Connections /\ Len(b.bus) <= BusCap
           /\ <<b.link, b.glyph, b.step, b.told, b.request>>
                = <<k.link, k.glyph, k.step, k.told, k.request>>
           /\ k.link = "down" => b = k
           /\ k.link # "down" => b.bus # <<>> /\ Told(b) = Active(m)
<1> DEFINE k == client[c]  b == Broadcast(client, m)[c]
           base == IF Len(k.bus) = BusCap THEN Tail(k.bus) ELSE k.bus
           bus == Append(base, Active(m))
<1>1. k \in Connections /\ Len(k.bus) <= BusCap /\ k.bus \in Seq(BOOLEAN)
      /\ BusCap \in Nat \ {0} /\ Len(k.bus) \in Nat
  BY LenProperties, CaffeinateAssumption DEF CaffeinateTypeOK, Connections
<1>2. b = IF k.link = "down" THEN k ELSE [k EXCEPT !.bus = bus]
  BY DEF Broadcast
<1>3. Active(m) \in BOOLEAN
  BY DEF Active
<1>4. base \in Seq(BOOLEAN) /\ Len(base) < BusCap
  <2>1. CASE Len(k.bus) = BusCap
    <3>1. k.bus # <<>>
      BY <1>1, <2>1, EmptySeq
    <3>2. Tail(k.bus) \in Seq(BOOLEAN) /\ Len(Tail(k.bus)) = Len(k.bus) - 1
      BY <1>1, <3>1, EndOfShorter
    <3> QED BY <1>1, <2>1, <3>2
  <2> QED BY <1>1, <2>1
<1>5. bus \in Seq(BOOLEAN) /\ bus # <<>> /\ Len(bus) <= BusCap /\ Len(bus) = Len(base) + 1
      /\ bus[Len(bus)] = Active(m)
  BY <1>1, <1>3, <1>4, EndOfLonger, LenProperties
<1> HIDE DEF bus, base
<1>6. CASE k.link = "down"
  BY <1>1, <1>2, <1>6
<1>7. CASE k.link # "down"
  <2>1. b = [k EXCEPT !.bus = bus]
    BY <1>2, <1>7
  <2> HIDE DEF b
  <2>2. b \in Connections /\ b.bus = bus
        /\ <<b.link, b.glyph, b.step, b.told, b.request>>
             = <<k.link, k.glyph, k.step, k.told, k.request>>
    BY <1>1, <1>5, <2>1 DEF Connections
  <2> QED BY <1>5, <1>7, <2>2 DEF Told, b
<1> QED BY <1>6, <1>7

LEMMA GlyphInit == CaffeinateInit => GlyphInv
<1> SUFFICES ASSUME CaffeinateInit PROVE GlyphInv
  OBVIOUS
<1> USE CaffeinateAssumption DEF CaffeinateInit, Away, Modes, NoWatcher, Quiet, Watchers
<1>1. CaffeinateTypeOK
  BY DEF CaffeinateTypeOK
<1>2. ArmedOnce /\ DueKnowsMode
  BY DEF ArmedOnce, DueKnowsMode
<1>3. LastWord
  BY DEF LastWord
<1> QED BY <1>1, <1>2, <1>3 DEF GlyphInv

\* What an action of the connections does to them and to the watchers, typed.
LEMMA ConnectionsTyped ==
    ASSUME CaffeinateTypeOK, ArmedOnce, [CaffeinateNext]_caffeinateVars
    PROVE  /\ client' \in [Clients -> Connections]
           /\ \A c \in Clients : Len(client'[c].bus) <= BusCap
<1>a. /\ client \in [Clients -> Connections] /\ mode \in Modes
      /\ \A c \in Clients : Len(client[c].bus) <= BusCap
      /\ BusCap \in Nat \ {0} /\ requests \in 0 .. MaxRequests /\ MaxRequests \in Nat
  BY CaffeinateAssumption DEF CaffeinateTypeOK, Connections, ArmedOnce
<1>b. Away \in Connections /\ Len(Away.bus) <= BusCap /\ "off" \in Modes
  BY <1>a DEF Away, Connections, Modes
<1>c. ASSUME NEW c \in Clients, NEW k \in Connections, Len(k.bus) <= BusCap,
             client' = [client EXCEPT ![c] = k]
      PROVE  /\ client' \in [Clients -> Connections]
             /\ \A d \in Clients : Len(client'[d].bus) <= BusCap
  BY <1>a, <1>c
<1>d. ASSUME NEW m \in Modes
      PROVE  /\ Broadcast(client, m) \in [Clients -> Connections]
             /\ \A d \in Clients : Len(Broadcast(client, m)[d].bus) <= BusCap
  <2>1. \A d \in Clients : /\ Broadcast(client, m)[d] \in Connections
                           /\ Len(Broadcast(client, m)[d].bus) <= BusCap
    BY BroadcastTells
  <2>2. \E F : Broadcast(client, m) = [d \in Clients |-> F[d]]
    <3> DEFINE G == Broadcast(client, m)
    <3>1. G = [d \in Clients |-> G[d]]
      BY DEF Broadcast
    <3> QED BY <3>1
  <2> QED BY <2>1, <2>2
<1>1. ASSUME NEW c \in Clients, Connect(c)
      PROVE  \E k \in Connections : Len(k.bus) <= BusCap /\ client' = [client EXCEPT ![c] = k]
  <2> DEFINE k == [Away EXCEPT !.link = "hello"]
  <2>1. k \in Connections /\ k.bus = Away.bus
    BY <1>b DEF Connections, Away
  <2> QED BY <1>1, <1>b, <2>1 DEF Connect
<1>2. ASSUME NEW c \in Clients, Hello(c)
      PROVE  \E k \in Connections : Len(k.bus) <= BusCap /\ client' = [client EXCEPT ![c] = k]
  <2> DEFINE k == [client[c] EXCEPT !.link = "up", !.glyph = Active(mode)]
  <2>1. k \in Connections /\ k.bus = client[c].bus
    BY <1>a DEF Connections, Active
  <2> QED BY <1>2, <1>a, <2>1 DEF Hello
<1>3. ASSUME NEW c \in Clients, Receive(c)
      PROVE  \E k \in Connections : Len(k.bus) <= BusCap /\ client' = [client EXCEPT ![c] = k]
  <2> DEFINE k == [client[c] EXCEPT !.glyph = Head(client[c].bus), !.bus = Tail(client[c].bus)]
  <2>1. client[c].bus \in Seq(BOOLEAN) /\ client[c].bus # <<>>
    BY <1>a, <1>3 DEF Connections, Receive
  <2>2. /\ Head(client[c].bus) \in BOOLEAN /\ Tail(client[c].bus) \in Seq(BOOLEAN)
        /\ Len(client[c].bus) \in Nat /\ Len(Tail(client[c].bus)) = Len(client[c].bus) - 1
    BY <2>1, EndOfShorter
  <2>3. k \in Connections /\ k.bus = Tail(client[c].bus)
    BY <1>a, <2>2 DEF Connections
  <2>4. client' = [client EXCEPT ![c] = k]
    BY <1>3 DEF Receive
  <2>5. Len(Tail(client[c].bus)) <= BusCap
    BY <1>a, <2>2
  <2> QED BY <2>3, <2>4, <2>5
<1>4. ASSUME NEW c \in Clients, Disconnect(c)
      PROVE  \E k \in Connections : Len(k.bus) <= BusCap /\ client' = [client EXCEPT ![c] = k]
  BY <1>4, <1>b DEF Disconnect
<1>5. ASSUME NEW c \in Clients, NEW ask \in Asks, Apply(c, ask)
      PROVE  /\ client' \in [Clients -> Connections]
             /\ \A d \in Clients : Len(client'[d].bus) <= BusCap
  <2>1. CASE UNCHANGED client
    BY <1>a, <2>1
  <2>2. CASE client' # client
    <3> DEFINE k == [client[c] EXCEPT !.step = "tell", !.told = mode', !.request = requests']
    <3>1. client' = [client EXCEPT ![c] = k] /\ mode' = NextMode(ask)
          /\ requests < MaxRequests /\ requests' = requests + 1
      BY <1>5, <2>2 DEF Apply
    <3>2. mode' \in Modes /\ requests' \in 0 .. MaxRequests
      BY <1>a, <3>1 DEF NextMode, Target, Asks, Modes
    <3>3. k \in Connections /\ k.bus = client[c].bus
      BY <1>a, <3>2 DEF Connections
    <3> HIDE DEF k
    <3> QED BY <1>a, <1>c, <3>1, <3>3
  <2> QED BY <2>1, <2>2
<1>6. ASSUME NEW c \in Clients, Announce(c)
      PROVE  /\ client' \in [Clients -> Connections]
             /\ \A d \in Clients : Len(client'[d].bus) <= BusCap
  <2> DEFINE G == Broadcast(client, client[c].told)
             k == [G[c] EXCEPT !.step = "none", !.told = "off", !.request = 0]
  <2>1. client[c].told \in Modes
    BY <1>a DEF Connections
  <2>2. G \in [Clients -> Connections] /\ \A d \in Clients : Len(G[d].bus) <= BusCap
    BY <1>d, <2>1
  <2>3. client' = [G EXCEPT ![c] = k]
    BY <1>6 DEF Announce
  <2> HIDE DEF G
  <2>4. /\ k.link = G[c].link /\ k.bus = G[c].bus /\ k.glyph = G[c].glyph
        /\ k.step = "none" /\ k.told = "off" /\ k.request = 0
        /\ G[c] \in Connections /\ 0 \in 0 .. MaxRequests
    BY <1>a, <2>2 DEF Connections
  <2>5. k \in Connections
    BY <1>b, <2>4 DEF Connections
  <2> QED BY <2>2, <2>3, <2>4, <2>5
<1>7. ASSUME NEW n \in Watchers, TellOff(n)
      PROVE  /\ client' \in [Clients -> Connections]
             /\ \A d \in Clients : Len(client'[d].bus) <= BusCap
  BY <1>7, <1>b, <1>d DEF TellOff
<1>8. CASE UNCHANGED client
  BY <1>8, <1>a
<1>9. CASE client' # client
  <2>1. \/ \E c \in Clients : \/ Connect(c) \/ Hello(c) \/ Receive(c)
                              \/ Disconnect(c) \/ Announce(c)
                              \/ \E ask \in Asks : Apply(c, ask)
        \/ \E n \in Watchers : TellOff(n)
    BY <1>9 DEF CaffeinateNext, caffeinateVars, serverVars, WatcherStep, Look, Count, Decide,
       SessionStep, Begin, End, Die, StartJob, EndJob,
       Forward, Forget
  <2> QED BY <2>1, <1>c, <1>1, <1>2, <1>3, <1>4, <1>5, <1>6, <1>7
<1> QED BY <1>8, <1>9

WatcherStates == [step : {"none", "sleep", "count", "decide", "tell"}, running : BOOLEAN]

LEMMA SessionsTyped ==
    ASSUME CaffeinateTypeOK, [CaffeinateNext]_caffeinateVars
    PROVE  /\ agent' \in [Sessions -> {"idle", "working", "dead"}]
           /\ job' \in [Sessions -> BOOLEAN]
           /\ news' \in [Sessions -> Seq({"thinking", "idle", "started", "completed"})]
           /\ live' \in [Sessions -> [processing : BOOLEAN, jobs : BOOLEAN]]
           /\ listed' \subseteq Sessions
<1> DEFINE Events == {"thinking", "idle", "started", "completed"}
<1> USE DEF CaffeinateTypeOK, SessionStep, Say
<1>a. \A s \in Sessions, e \in Events : Append(news[s], e) \in Seq(Events)
  BY AppendProperties
<1>1. ASSUME NEW s \in Sessions, Begin(s) PROVE UNCHANGED <<job, live, listed>>
        /\ agent' \in [Sessions -> {"idle", "working", "dead"}]
        /\ news' \in [Sessions -> Seq(Events)]
  BY <1>1, <1>a DEF Begin
<1>2. ASSUME NEW s \in Sessions, End(s) PROVE UNCHANGED <<job, live, listed>>
        /\ agent' \in [Sessions -> {"idle", "working", "dead"}]
        /\ news' \in [Sessions -> Seq(Events)]
  BY <1>2, <1>a DEF End
<1>3. ASSUME NEW s \in Sessions, Die(s) PROVE UNCHANGED <<job, live, listed, news>>
        /\ agent' \in [Sessions -> {"idle", "working", "dead"}]
  BY <1>3 DEF Die
<1>4. ASSUME NEW s \in Sessions, StartJob(s) PROVE UNCHANGED <<agent, live, listed>>
        /\ job' \in [Sessions -> BOOLEAN] /\ news' \in [Sessions -> Seq(Events)]
  BY <1>4, <1>a DEF StartJob
<1>5. ASSUME NEW s \in Sessions, EndJob(s) PROVE UNCHANGED <<live, listed>>
        /\ agent' \in [Sessions -> {"idle", "working", "dead"}]
        /\ job' \in [Sessions -> BOOLEAN] /\ news' \in [Sessions -> Seq(Events)]
  <2>1. <<"completed", "thinking">> \in Seq(Events)
    OBVIOUS
  <2>2. news[s] \o <<"completed", "thinking">> \in Seq(Events)
    BY <2>1, ConcatProperties
  <2> QED BY <1>5, <2>2 DEF EndJob
<1>6. ASSUME NEW s \in Sessions, Forward(s) PROVE UNCHANGED <<agent, job, listed>>
        /\ news' \in [Sessions -> Seq(Events)]
        /\ live' \in [Sessions -> [processing : BOOLEAN, jobs : BOOLEAN]]
  <2>1. news[s] \in Seq(Events) /\ news[s] # <<>>
    BY <1>6 DEF Forward
  <2>2. Tail(news[s]) \in Seq(Events) /\ Head(news[s]) \in Events
    BY <2>1, EndOfShorter
  <2>3. news' \in [Sessions -> Seq(Events)]
    BY <1>6, <2>2 DEF Forward
  <2>4. live[s] \in [processing : BOOLEAN, jobs : BOOLEAN]
    OBVIOUS
  <2>5. live' \in [Sessions -> [processing : BOOLEAN, jobs : BOOLEAN]]
    BY <1>6, <2>2, <2>4 DEF Forward
  <2> QED BY <1>6, <2>3, <2>5 DEF Forward
<1>7. ASSUME NEW s \in Sessions, Forget(s) PROVE UNCHANGED <<agent, job, news, live>>
        /\ listed' \subseteq Sessions
  BY <1>7 DEF Forget
<1>8. CASE UNCHANGED sessionVars
  BY <1>8 DEF sessionVars
<1>9. CASE ~ UNCHANGED sessionVars
  <2>1. \E s \in Sessions : \/ Begin(s) \/ End(s) \/ Die(s) \/ StartJob(s)
                            \/ EndJob(s) \/ Forward(s) \/ Forget(s)
    BY <1>9 DEF CaffeinateNext, caffeinateVars, WatcherStep, Look, Count,
       Decide, TellOff, Watch, Connect, Hello, Receive,
       Disconnect, Apply, Announce
  <2> HIDE DEF CaffeinateTypeOK, SessionStep, Say
  <2>2. /\ agent \in [Sessions -> {"idle", "working", "dead"}]
        /\ job \in [Sessions -> BOOLEAN] /\ news \in [Sessions -> Seq(Events)]
        /\ live \in [Sessions -> [processing : BOOLEAN, jobs : BOOLEAN]]
        /\ listed \subseteq Sessions
    BY DEF CaffeinateTypeOK
  <2> HIDE DEF Events
  <2>3. /\ news' \in [Sessions -> Seq(Events)]
    BY <2>1, <2>2, <1>1, <1>2, <1>3, <1>4, <1>5, <1>6, <1>7
  <2>4. agent' \in [Sessions -> {"idle", "working", "dead"}] /\ job' \in [Sessions -> BOOLEAN]
    BY <2>1, <2>2, <1>1, <1>2, <1>3, <1>4, <1>5, <1>6, <1>7
  <2>5. live' \in [Sessions -> [processing : BOOLEAN, jobs : BOOLEAN]] /\ listed' \subseteq Sessions
    BY <2>1, <2>2, <1>1, <1>2, <1>3, <1>4, <1>5, <1>6, <1>7
  <2> QED BY <2>3, <2>4, <2>5 DEF Events
<1> QED BY <1>8, <1>9

LEMMA WatchersTyped ==
    ASSUME CaffeinateTypeOK, ArmedOnce, [CaffeinateNext]_caffeinateVars
    PROVE  /\ watcher' \in [Watchers -> WatcherStates]
           /\ mode' \in Modes /\ asked' \in Modes
           /\ newest' \in Clients \cup Watchers \cup {0} /\ inOrder' \in BOOLEAN
<1>a. /\ watcher \in [Watchers -> WatcherStates] /\ NoWatcher \in WatcherStates
      /\ mode \in Modes /\ asked \in Modes
      /\ newest \in Clients \cup Watchers \cup {0} /\ inOrder \in BOOLEAN
      /\ requests \in Nat /\ MaxRequests \in Nat
  BY CaffeinateAssumption DEF CaffeinateTypeOK, WatcherStates, NoWatcher, ArmedOnce
<1>b. ASSUME NEW n \in Watchers,
             NEW step \in {"none", "sleep", "count", "decide", "tell"},
             watcher' = [watcher EXCEPT ![n].step = step]
      PROVE  watcher' \in [Watchers -> WatcherStates]
  <2>1. [watcher[n] EXCEPT !.step = step] \in WatcherStates
    BY <1>a DEF WatcherStates
  <2> QED BY <1>a, <1>b, <2>1
<1>1. ASSUME NEW c \in Clients, NEW ask \in Asks, Apply(c, ask)
      PROVE  /\ mode' \in Modes /\ asked' \in Modes /\ newest' \in Clients \cup {newest}
             /\ UNCHANGED <<watcher, inOrder>>
  BY <1>1, <1>a DEF Apply, NextMode, Target, Asks, Modes
<1>2. ASSUME NEW c \in Clients, Announce(c)
      PROVE  /\ watcher' \in [Watchers -> WatcherStates] /\ inOrder' \in BOOLEAN
             /\ UNCHANGED <<mode, newest, asked>>
  <2>1. client[c].request \in Watchers
    BY <1>2, <1>a DEF Announce, ArmedOnce, Watchers
  <2>2. watcher' \in [Watchers -> WatcherStates]
    BY <1>2, <1>a, <1>b, <2>1 DEF Announce
  <2> QED BY <1>2, <2>2 DEF Announce
<1>3. ASSUME NEW n \in Watchers, WatcherStep(n)
      PROVE  /\ watcher' \in [Watchers -> WatcherStates]
             /\ mode' \in {mode, "off"} /\ newest' \in {newest, n} /\ inOrder' \in BOOLEAN
             /\ UNCHANGED asked
  <2>1. CASE Look(n)
    <3>1. [watcher[n] EXCEPT !.step = "count"] \in WatcherStates
      BY <1>a DEF WatcherStates
    <3> QED BY <1>a, <2>1, <3>1 DEF Look, Watch
  <2>2. CASE Count(n)
    <3>1. [step |-> "decide", running |-> \E s \in Sessions : Running(s)] \in WatcherStates
      BY DEF WatcherStates
    <3> QED BY <1>a, <2>2, <3>1 DEF Count, Watch
  <2>3. CASE Decide(n)
    <3>1. [NoWatcher EXCEPT !.step = "sleep"] \in WatcherStates
      BY DEF WatcherStates, NoWatcher
    <3>2. [watcher[n] EXCEPT !.step = "tell"] \in WatcherStates
      BY <1>a DEF WatcherStates
    <3> QED BY <1>a, <2>3, <3>1, <3>2 DEF Decide, Watch
  <2>4. CASE TellOff(n)
    BY <1>a, <2>4 DEF TellOff, Watch
  <2> QED BY <1>3, <2>1, <2>2, <2>3, <2>4 DEF WatcherStep
<1>4. CASE UNCHANGED <<mode, watcher, newest, inOrder, asked>>
  BY <1>4, <1>a
<1>5. CASE ~ UNCHANGED <<mode, watcher, newest, inOrder, asked>>
  <2>1. \/ \E c \in Clients : Announce(c) \/ \E ask \in Asks : Apply(c, ask)
        \/ \E n \in Watchers : WatcherStep(n)
    BY <1>5 DEF CaffeinateNext, caffeinateVars, serverVars, Connect, Hello, Receive, Disconnect,
       SessionStep, Begin, End, Die, StartJob, EndJob,
       Forward, Forget
  <2>2. "off" \in Modes
    BY DEF Modes
  <2> QED BY <2>1, <2>2, <1>1, <1>2, <1>3, <1>a
<1> QED BY <1>4, <1>5

\* The steps of the sessions touch neither connections nor watchers.
LEMMA GlyphSteps ==
    ASSUME [CaffeinateNext]_caffeinateVars
    PROVE  \/ \E c \in Clients : \/ Connect(c) \/ Hello(c) \/ Receive(c)
                                 \/ Disconnect(c) \/ Announce(c)
                                 \/ \E ask \in Asks : Apply(c, ask)
           \/ \E n \in Watchers : Look(n) \/ Count(n) \/ Decide(n)
                                \/ TellOff(n)
           \/ UNCHANGED <<mode, client, watcher, newest, inOrder, requests>>
BY DEF CaffeinateNext, caffeinateVars, serverVars, WatcherStep, SessionStep, Begin,
   End, Die, StartJob, EndJob, Forward, Forget

LEMMA ArmedOnceKept ==
    ASSUME CaffeinateTypeOK, ArmedOnce, [CaffeinateNext]_caffeinateVars
    PROVE  ArmedOnce'
<1>a. /\ client \in [Clients -> Connections]
      /\ watcher \in [Watchers -> WatcherStates]
      /\ requests \in 0 .. MaxRequests /\ MaxRequests \in Nat
      /\ Watchers = 1 .. MaxRequests
  BY CaffeinateAssumption DEF CaffeinateTypeOK, Connections, WatcherStates, ArmedOnce, Watchers
<1> USE DEF ArmedOnce
<1>1. ASSUME NEW c \in Clients, Connect(c) \/ Hello(c) \/ Receive(c) \/ Disconnect(c)
      PROVE  ArmedOnce'
  <2>1. \E k : /\ client' = [client EXCEPT ![c] = k]
               /\ k.step = "tell" => /\ client[c].step = "tell" /\ k.link = "up"
                                     /\ k.request = client[c].request
    <3>1. CASE Connect(c)
      <4>1. client' = [client EXCEPT ![c] = [Away EXCEPT !.link = "hello"]]
        BY <3>1 DEF Connect
      <4>2. [Away EXCEPT !.link = "hello"].step = "none"
        BY DEF Away
      <4> QED BY <4>1, <4>2
    <3>2. CASE Hello(c)
      <4>1. client' = [client EXCEPT
              ![c] = [client[c] EXCEPT !.link = "up", !.glyph = Active(mode)]]
        BY <3>2 DEF Hello
      <4>2. client[c].step # "tell"
        BY <3>2 DEF Hello
      <4>3. [client[c] EXCEPT !.link = "up", !.glyph = Active(mode)].step = client[c].step
        BY <1>a DEF Connections
      <4> QED BY <4>1, <4>2, <4>3
    <3>3. CASE Receive(c)
      <4>1. client' = [client EXCEPT
              ![c] = [client[c] EXCEPT !.glyph = Head(client[c].bus), !.bus = Tail(client[c].bus)]]
        BY <3>3 DEF Receive
      <4>2. client[c].step # "tell"
        BY <3>3 DEF Receive
      <4>3. [client[c] EXCEPT !.glyph = Head(client[c].bus), !.bus = Tail(client[c].bus)].step
              = client[c].step
        BY <1>a DEF Connections
      <4> QED BY <4>1, <4>2, <4>3
    <3>4. CASE Disconnect(c)
      <4>1. client' = [client EXCEPT ![c] = Away]
        BY <3>4 DEF Disconnect
      <4>2. Away.step = "none"
        BY DEF Away
      <4> QED BY <4>1, <4>2
    <3> QED BY <1>1, <3>1, <3>2, <3>3, <3>4
  <2>2. UNCHANGED <<watcher, requests>>
    BY <1>1 DEF Connect, Hello, Receive, Disconnect
  <2> QED BY <1>a, <2>1, <2>2
<1>2. ASSUME NEW c \in Clients, NEW ask \in Asks, Apply(c, ask) PROVE ArmedOnce'
  <2>a. /\ requests' = requests + 1 /\ requests < MaxRequests /\ watcher' = watcher
        /\ client[c].link = "up" /\ client[c].step = "none"
        /\ \/ client' = client
           \/ client' = [client EXCEPT ![c] = [client[c] EXCEPT
                  !.step = "tell", !.told = mode', !.request = requests']]
    BY <1>2 DEF Apply
  <2>1. /\ \A d \in Clients \ {c} : client'[d] = client[d]
        /\ \/ client'[c] = client[c]
           \/ client'[c].link = "up" /\ client'[c].request = requests + 1
    <3> DEFINE k == [client[c] EXCEPT !.step = "tell", !.told = mode', !.request = requests']
    <3>1. k.link = client[c].link /\ k.request = requests'
      BY <1>a DEF Connections
    <3> HIDE DEF k
    <3>2. client' = client \/ client' = [client EXCEPT ![c] = k]
      BY <2>a DEF k
    <3> QED BY <1>a, <2>a, <3>1, <3>2
  <2>2. requests + 1 \in Watchers /\ requests + 1 \in 1 .. requests'
        /\ watcher[requests + 1].step = "none"
    BY <1>a, <2>a, <2>1
  <2>3. requests' \in 0 .. MaxRequests
    BY <1>a, <2>a, <2>1
  <2>4. \A d \in Clients : client'[d].step = "tell" =>
          /\ client'[d].link = "up" /\ client'[d].request \in 1 .. requests'
          /\ watcher'[client'[d].request].step = "none"
    <3> SUFFICES ASSUME NEW d \in Clients, client'[d].step = "tell"
                 PROVE  /\ client'[d].link = "up" /\ client'[d].request \in 1 .. requests'
                        /\ watcher'[client'[d].request].step = "none"
      OBVIOUS
    <3>1. CASE d = c
      BY <2>a, <2>1, <2>2, <3>1
    <3>2. CASE d # c
      BY <1>a, <2>a, <2>1, <3>2
    <3> QED BY <3>1, <3>2
  <2>5. \A d, e \in Clients :
          client'[d].step = "tell" /\ client'[e].step = "tell"
              /\ client'[d].request = client'[e].request => d = e
    <3>1. \A d \in Clients \ {c} : client'[d].step = "tell" => client'[d].request # requests + 1
      BY <1>a, <2>a, <2>1
    <3> QED BY <2>a, <2>1, <3>1
  <2>6. \A n \in Watchers : n > requests' => watcher'[n].step = "none"
    BY <1>a, <2>a, <2>1
  <2> QED BY <2>3, <2>4, <2>5, <2>6 DEF Watchers
<1>3. ASSUME NEW c \in Clients, Announce(c) PROVE ArmedOnce'
  <2> DEFINE G == Broadcast(client, client[c].told)
  <2>1. client[c].told \in Modes /\ client[c].step = "tell" /\ requests' = requests
    BY <1>3, <1>a DEF Connections, Announce
  <2>2. \A d \in Clients : /\ G[d].step = client[d].step /\ G[d].link = client[d].link
                           /\ G[d].request = client[d].request
    BY <2>1, BroadcastTells
  <2>3. client' = [G EXCEPT ![c].step = "none", ![c].told = "off", ![c].request = 0]
    BY <1>3 DEF Announce
  <2>4. DOMAIN G = Clients
    BY DEF Broadcast
  <2> HIDE DEF G
  <2>5. client'[c].step = "none" /\ \A d \in Clients \ {c} : client'[d] = G[d]
    <3>1. c \in DOMAIN G
      BY <2>4
    <3> QED BY <2>3, <2>4, <3>1
  <2>6. \A n \in Watchers : n # client[c].request => watcher'[n] = watcher[n]
    BY <1>3, <1>a DEF Announce
  <2>7. client[c].request \in 1 .. requests
    BY <2>1
  <2>8. \A d \in Clients : client'[d].step = "tell" =>
          /\ d # c /\ client[d].step = "tell" /\ client'[d].link = "up"
          /\ client'[d].request = client[d].request /\ client[d].request # client[c].request
          /\ client[d].request \in Watchers
    BY <1>a, <2>1, <2>2, <2>5
  <2> QED BY <1>a, <2>1, <2>6, <2>7, <2>8
<1>4. ASSUME NEW n \in Watchers, Look(n) \/ Count(n) \/ Decide(n)
      PROVE  ArmedOnce'
  <2>1. /\ client' = client /\ requests' = requests /\ watcher[n].step # "none"
        /\ \A m \in Watchers \ {n} : watcher'[m] = watcher[m]
    BY <1>4, <1>a DEF Look, Count, Decide, Watch
  <2>2. \A c \in Clients : client[c].step = "tell" =>
            client[c].request \in Watchers /\ client[c].request # n
    BY <1>a, <2>1
  <2> QED BY <1>a, <2>1, <2>2
<1>5. ASSUME NEW n \in Watchers, TellOff(n) PROVE ArmedOnce'
  <2>1. /\ client' = Broadcast(client, "off") /\ requests' = requests
        /\ watcher[n].step # "none"
        /\ \A m \in Watchers \ {n} : watcher'[m] = watcher[m]
    BY <1>5, <1>a DEF TellOff, Watch
  <2>2. "off" \in Modes
    BY DEF Modes
  <2>3. \A d \in Clients : /\ client'[d].step = client[d].step /\ client'[d].link = client[d].link
                           /\ client'[d].request = client[d].request
    BY <2>1, <2>2, BroadcastTells
  <2>4. \A c \in Clients : client[c].step = "tell" =>
            client[c].request \in Watchers /\ client[c].request # n
    BY <1>a, <2>1
  <2> QED BY <1>a, <2>1, <2>3, <2>4
<1>6. CASE UNCHANGED <<mode, client, watcher, newest, inOrder, requests>>
  BY <1>6
<1> HIDE DEF ArmedOnce
<1> QED BY <1>1, <1>2, <1>3, <1>4, <1>5, <1>6, GlyphSteps

LEMMA DueKept ==
    ASSUME GlyphInv, [CaffeinateNext]_caffeinateVars
    PROVE  DueKnowsMode' /\ LastWord'
<1>a. /\ client \in [Clients -> Connections] /\ mode \in Modes
      /\ watcher \in [Watchers -> WatcherStates]
      /\ Clients \cap Watchers = {} /\ ArmedOnce /\ CaffeinateTypeOK
      /\ "off" \in Modes
  BY CaffeinateAssumption DEF GlyphInv, CaffeinateTypeOK, Connections, WatcherStates, Watchers,
       Modes
<1>b. DueKnowsMode /\ LastWord
  BY DEF GlyphInv
\* A connection that does not tell changes what it shows or has been told.
<1>c. ASSUME NEW c \in Clients, NEW k, client' = [client EXCEPT ![c] = k],
             client[c].step # "tell", k.step # "tell",
             UNCHANGED <<mode, watcher, newest, inOrder>>,
             LastWord => \/ ~ (inOrder /\ ~ NewestDue)
                         \/ k.link = "down" \/ (k.link = "hello" /\ k.bus = <<>>)
                         \/ Told(k) = Active(mode)
      PROVE  DueKnowsMode' /\ LastWord'
  <2>1. DueKnowsMode' /\ (NewestDue' <=> NewestDue)
    BY <1>a, <1>b, <1>c DEF DueKnowsMode, NewestDue
  <2>2. LastWord'
    BY <1>a, <1>b, <1>c, <2>1 DEF LastWord
  <2> QED BY <2>1, <2>2
<1>1. ASSUME NEW c \in Clients, Connect(c) PROVE DueKnowsMode' /\ LastWord'
  <2> DEFINE k == [Away EXCEPT !.link = "hello"]
  <2>1. client' = [client EXCEPT ![c] = k] /\ UNCHANGED <<mode, watcher, newest, inOrder>>
        /\ client[c].link = "down"
    BY <1>1 DEF Connect
  <2>2. k.step = "none" /\ k.link = "hello" /\ k.bus = <<>>
    BY DEF Away
  <2>3. client[c].step # "tell"
    BY <1>a, <2>1 DEF ArmedOnce
  <2> HIDE DEF k
  <2> QED BY <1>c, <2>1, <2>2, <2>3
<1>2. ASSUME NEW c \in Clients, Hello(c) PROVE DueKnowsMode' /\ LastWord'
  <2> DEFINE k == [client[c] EXCEPT !.link = "up", !.glyph = Active(mode)]
  <2>1. client' = [client EXCEPT ![c] = k] /\ UNCHANGED <<mode, watcher, newest, inOrder>>
        /\ client[c].link = "hello"
    BY <1>2 DEF Hello
  <2>2. k.step = client[c].step /\ k.bus = client[c].bus /\ k.glyph = Active(mode)
    BY <1>a DEF Connections
  <2>3. client[c].step # "tell"
    BY <1>a, <2>1 DEF ArmedOnce
  <2> HIDE DEF k
  <2>4. LastWord /\ inOrder /\ ~ NewestDue => Told(k) = Active(mode)
    BY <2>1, <2>2 DEF LastWord, Told
  <2> QED BY <1>c, <2>1, <2>2, <2>3, <2>4
<1>3. ASSUME NEW c \in Clients, Receive(c) PROVE DueKnowsMode' /\ LastWord'
  <2> DEFINE q == client[c].bus
             k == [client[c] EXCEPT !.glyph = Head(q), !.bus = Tail(q)]
  <2>1. client' = [client EXCEPT ![c] = k] /\ UNCHANGED <<mode, watcher, newest, inOrder>>
        /\ client[c].link = "up" /\ client[c].step = "none" /\ q # <<>>
    BY <1>3 DEF Receive
  <2>2. k.step = client[c].step /\ k.bus = Tail(q) /\ k.glyph = Head(q) /\ q \in Seq(BOOLEAN)
    BY <1>a DEF Connections
  <2> HIDE DEF k
  <2>3. Told(k) = Told(client[c])
    BY <2>1, <2>2, EndOfShorter DEF Told
  <2>4. LastWord /\ inOrder /\ ~ NewestDue => Told(k) = Active(mode)
    BY <2>1, <2>3 DEF LastWord
  <2> QED BY <1>c, <2>1, <2>2, <2>4
<1>4. ASSUME NEW c \in Clients, Disconnect(c) PROVE DueKnowsMode' /\ LastWord'
  <2> DEFINE k == Away
  <2>1. client' = [client EXCEPT ![c] = k] /\ UNCHANGED <<mode, watcher, newest, inOrder>>
        /\ client[c].step = "none"
    BY <1>4 DEF Disconnect
  <2>2. k.step = "none" /\ k.link = "down"
    BY DEF Away
  <2> HIDE DEF k
  <2> QED BY <1>c, <2>1, <2>2
\* Who changes the mode owes the next announcement.
<1>5. ASSUME NEW c \in Clients, NEW ask \in Asks, Apply(c, ask)
      PROVE  DueKnowsMode' /\ LastWord'
  <2>1. CASE client' = client
    <3> DEFINE k == [client[c] EXCEPT !.step = "tell", !.told = mode', !.request = requests']
    <3>1. k.step = "tell" /\ client[c].step = "none"
      BY <1>a, <1>5 DEF Connections, Apply
    <3>2. client' # [client EXCEPT ![c] = k]
      BY <1>a, <2>1, <3>1
    <3>3. UNCHANGED <<mode, client, newest, watcher, inOrder>>
      BY <1>5, <3>2 DEF Apply
    <3> QED BY <1>b, <3>3 DEF DueKnowsMode, LastWord, NewestDue
  <2>2. CASE client' # client
    <3> DEFINE k == [client[c] EXCEPT !.step = "tell", !.told = mode', !.request = requests']
    <3>1. k.step = "tell" /\ k.told = mode'
      BY <1>a DEF Connections
    <3>2. client' = [client EXCEPT ![c] = k] /\ newest' = c
      BY <1>5, <2>2 DEF Apply
    <3> HIDE DEF k
    <3>3. client'[newest'].step = "tell" /\ client'[newest'].told = mode' /\ newest' \notin Watchers
      BY <1>a, <3>1, <3>2
    <3> QED BY <3>2, <3>3 DEF DueKnowsMode, LastWord, NewestDue
  <2> QED BY <2>1, <2>2
<1>6. ASSUME NEW c \in Clients, Announce(c) PROVE DueKnowsMode' /\ LastWord'
  <2> DEFINE G == Broadcast(client, client[c].told)
  <2>1. client[c].told \in Modes /\ client[c].step = "tell" /\ newest' = newest /\ mode' = mode
        /\ inOrder' = (newest = c) /\ client[c].link = "up"
    BY <1>6, <1>a DEF Connections, Announce, ArmedOnce
  <2>2. client' = [G EXCEPT ![c].step = "none", ![c].told = "off", ![c].request = 0]
    BY <1>6 DEF Announce
  <2>3. DOMAIN G = Clients
    BY DEF Broadcast
  <2>4. \A d \in Clients : /\ G[d].step = client[d].step /\ G[d].link = client[d].link
                           /\ G[d].told = client[d].told
                           /\ G[d].link # "down" => Told(G[d]) = Active(client[c].told)
                           /\ G[d] \in Connections
    <3> SUFFICES ASSUME NEW d \in Clients
                 PROVE /\ G[d].step = client[d].step /\ G[d].link = client[d].link
                       /\ G[d].told = client[d].told
                       /\ G[d].link # "down" => Told(G[d]) = Active(client[c].told)
                       /\ G[d] \in Connections
      OBVIOUS
    <3> DEFINE m == client[c].told
    <3>1. m \in Modes
      BY <2>1
    <3> HIDE DEF m
    <3>2. LET k == client[d]  b == Broadcast(client, m)[d] IN
           /\ b \in Connections
           /\ <<b.link, b.glyph, b.step, b.told, b.request>>
                = <<k.link, k.glyph, k.step, k.told, k.request>>
           /\ k.link # "down" => Told(b) = Active(m)
      BY <1>a, <3>1, BroadcastTells
    <3> QED BY <3>2 DEF m
  <2> HIDE DEF G
  <2>5. \A d \in Clients \ {c} : client'[d] = G[d]
    BY <2>2, <2>3
  <2>6. client'[c].step = "none" /\ client'[c].link = G[c].link /\ client'[c].bus = G[c].bus
        /\ client'[c].glyph = G[c].glyph
    BY <2>2, <2>3, <2>4 DEF Connections
  <2>7. \A n \in Watchers : watcher'[n].step = "tell" => watcher[n].step = "tell"
    <3>1. client[c].request \in Watchers
      BY <1>a, <2>1, CaffeinateAssumption DEF ArmedOnce, Watchers
    <3> QED BY <1>6, <1>a, <3>1 DEF Announce, WatcherStates
  <2>8. DueKnowsMode'
    BY <1>a, <1>b, <2>1, <2>4, <2>5, <2>6, <2>7 DEF DueKnowsMode
  <2>9. LastWord'
    <3> SUFFICES ASSUME inOrder', NEW d \in Clients
                 PROVE client'[d].link = "down" \/ Told(client'[d]) = Active(mode')
      BY DEF LastWord
    <3>1. newest = c /\ client[c].told = mode
      BY <1>b, <2>1 DEF DueKnowsMode
    <3>2. Told(client'[c]) = Told(G[c])
      BY <2>6 DEF Told
    <3> QED BY <2>1, <2>4, <2>5, <2>6, <3>1, <3>2
  <2> QED BY <2>8, <2>9
<1>7. ASSUME NEW n \in Watchers, Look(n) \/ Count(n) \/ Decide(n)
      PROVE  DueKnowsMode' /\ LastWord'
  <2>1. CASE newest' = newest /\ mode' = mode
    <3>1. /\ UNCHANGED <<client, inOrder>> /\ watcher[n].step # "tell" /\ watcher'[n].step # "tell"
          /\ \A m \in Watchers \ {n} : watcher'[m] = watcher[m]
      <4>1. CASE Look(n)
        BY <4>1, <1>a DEF Look, Watch, NoWatcher, WatcherStates
      <4>2. CASE Count(n)
        BY <4>2, <1>a DEF Count, Watch, WatcherStates
      <4>3. CASE Decide(n)
        <5>1. watcher' = [watcher EXCEPT ![n] = [NoWatcher EXCEPT !.step = "sleep"]]
              /\ watcher[n].step = "decide" /\ UNCHANGED <<client, inOrder>>
          BY <2>1, <4>3 DEF Decide, Watch
        <5>2. [NoWatcher EXCEPT !.step = "sleep"].step = "sleep"
          BY DEF NoWatcher
        <5> QED BY <1>a, <5>1, <5>2
      <4> QED BY <1>7, <4>1, <4>2, <4>3
    <3> QED BY <1>a, <1>b, <2>1, <3>1 DEF DueKnowsMode, LastWord, NewestDue
  <2>2. CASE ~ (newest' = newest /\ mode' = mode)
    <3>1. newest' = n /\ mode' = "off" /\ watcher'[n].step = "tell" /\ n \notin Clients
      BY <1>7, <1>a, <2>2 DEF Look, Count, Decide, Watch, WatcherStates
    <3> QED BY <3>1 DEF DueKnowsMode, LastWord, NewestDue
  <2> QED BY <2>1, <2>2
<1>8. ASSUME NEW n \in Watchers, TellOff(n) PROVE DueKnowsMode' /\ LastWord'
  <2>1. /\ client' = Broadcast(client, "off") /\ watcher[n].step = "tell"
        /\ newest' = newest /\ mode' = mode /\ inOrder' = (newest = n)
        /\ watcher' = [watcher EXCEPT ![n] = NoWatcher]
    BY <1>8 DEF TellOff, Watch
  <2>2. \A d \in Clients : /\ client'[d].step = client[d].step /\ client'[d].told = client[d].told
                           /\ \/ client'[d].link = "down"
                              \/ Told(client'[d]) = Active("off")
    BY <1>a, <2>1, BroadcastTells
  <2>3. DueKnowsMode'
    BY <1>a, <1>b, <2>1, <2>2 DEF DueKnowsMode, NoWatcher
  <2>4. inOrder' => mode = "off"
    BY <1>b, <2>1 DEF DueKnowsMode
  <2>5. LastWord'
    BY <2>1, <2>2, <2>4 DEF LastWord
  <2> QED BY <2>3, <2>5
<1>9. CASE UNCHANGED <<mode, client, watcher, newest, inOrder, requests>>
  BY <1>b, <1>9 DEF DueKnowsMode, LastWord, NewestDue
<1> QED BY <1>1, <1>2, <1>3, <1>4, <1>5, <1>6, <1>7, <1>8, <1>9, GlyphSteps

\* The invariant of the glyph.
THEOREM GlyphInvariance ==
    CaffeinateSpec => []GlyphInv
<1>1. CaffeinateInit => GlyphInv
  BY GlyphInit
<1>2. GlyphInv /\ [CaffeinateNext]_caffeinateVars => GlyphInv'
  <2> SUFFICES ASSUME GlyphInv, [CaffeinateNext]_caffeinateVars PROVE GlyphInv'
    OBVIOUS
  <2>1. CaffeinateTypeOK /\ ArmedOnce
    BY DEF GlyphInv
  <2>2. CaffeinateTypeOK'
    BY <2>1, ConnectionsTyped, WatchersTyped, SessionsTyped
      DEF CaffeinateTypeOK, Connections, WatcherStates
  <2>3. ArmedOnce'
    BY <2>1, ArmedOnceKept
  <2> QED BY <2>2, <2>3, DueKept DEF GlyphInv
<1> QED BY <1>1, <1>2, PTL DEF CaffeinateSpec

\* "On connect, sync the client's caffeinate glyph to the daemon's current state" and
\* "re-synced on the next change" (server.rs:285, 331): with nothing under way, a client
\* shows the mode, unless two announcements overtook each other.
THEOREM GlyphShowsMode ==
    CaffeinateSpec => []GlyphFollows
<1>1. GlyphInv => GlyphFollows
  BY DEF GlyphInv, LastWord, NewestDue, Told, GlyphFollows, Settled
<1>2. CaffeinateSpec => []GlyphInv
  BY GlyphInvariance
<1> QED BY <1>1, <1>2, PTL
=============================================================================
