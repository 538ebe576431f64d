------------------------------ MODULE RespReply ------------------------------
(***************************************************************************)
(* ReadReplyRaw: how the proxy finds the end of a reply in what Redis      *)
(* sends.  That ProxySession passes replies on one by one rests on it.     *)
(*                                                                         *)
(* Redis sends tokens: the line that begins a reply or an element of one,  *)
(* with the count or length it announces, and the payload of a bulk.  The  *)
(* buffers between the two are FIFO and nobody else reads them, so a token *)
(* is sent in the step that reads it.  The recursion of readReplyRawDepth  *)
(* is a stack of frames, one for each call that waits for elements.        *)
(*                                                                         *)
(* Redis, which is external, keeps its own account of what it owes: it     *)
(* takes an attribute for an annotation of the element that follows it,    *)
(* the reader for an aggregate with that element inside.                   *)
(***************************************************************************)
EXTENDS Integers, Sequences, FiniteSetsExt

CONSTANTS
    maxReplyDepth,         \* calls of readReplyRawDepth inside one another
    maxAggregateElements,  \* elements of an aggregate
    MaxTokens              \* bound: tokens of Redis

ASSUME LimitsAssumption ==
    /\ maxReplyDepth \in Nat /\ maxAggregateElements \in Nat
    /\ MaxTokens \in Nat

\* A bulk is null (-1), fits (0), or is longer than maxBulkBytes (1).
simple == [kind : {"simple", "error"}, n : {0}]
bulk == [kind : {"bulk"}, n : {-1, 0, 1}]
payload == [kind |-> "payload", n |-> 0]

\* Sets and pushes are read as arrays are.
array == [kind : {"array"}, n : -1..(maxAggregateElements + 1)]
pairs == [kind : {"map", "attribute"}, n : 0..(maxAggregateElements \div 2 + 1)]

Header == simple \cup bulk \cup array \cup pairs
Token == Header \cup {payload}
Kinds == {"simple", "error", "bulk", "array", "map", "attribute"}

VARIABLES
    sent,       \* history: the tokens Redis sent
    ends,       \* history: where its replies end, and their kinds
    owed,       \* Redis: elements yet to begin, innermost aggregate last
    pays,       \* Redis: the payload of a bulk is next
    says,       \* Redis: the kind of the reply it is sending
    stack,      \* the reader: calls that wait for elements
    inPayload,  \* the reader: the payload of a bulk is next
    raw, kind,  \* the reader: what it has of a reply, and the kind of it
    forwarded,  \* the tokens passed on to the app
    answers,    \* history: where replies passed on end, and their kinds
    failed      \* the reader returned an error, or the connection ended

redis == <<sent, ends, owed, pays, says>>
reader == <<stack, inPayload, raw, kind>>
vars == <<redis, reader, forwarded, answers, failed>>

\* A call waits for "left" elements; with "attr" it returns the last one's kind.
Frame == [left : 1..(maxAggregateElements + 1), attr : BOOLEAN]
Ending == [at : Nat, kind : Kinds]

\* Types, the depth of the recursion included.
TypeOK ==
    /\ sent \in Seq(Token) /\ Len(sent) <= MaxTokens
    /\ ends \in Seq(Ending)
    /\ owed \in Seq(1..(maxAggregateElements + 2))
    /\ pays \in BOOLEAN
    /\ says \in Kinds \cup {"none"}
    /\ stack \in Seq(Frame) /\ Len(stack) <= maxReplyDepth + 1
    /\ inPayload \in BOOLEAN
    /\ raw \in Seq(Token)
    /\ kind \in Kinds
    /\ forwarded \in Seq(Token)
    /\ answers \in Seq(Ending)
    /\ failed \in BOOLEAN

Init ==
    /\ sent = <<>> /\ ends = <<>> /\ owed = <<1>>
    /\ pays = FALSE /\ says = "none"
    /\ stack = <<>> /\ inPayload = FALSE /\ raw = <<>> /\ kind = "simple"
    /\ forwarded = <<>> /\ answers = <<>> /\ failed = FALSE

-----------------------------------------------------------------------------
(* Redis.  It owes one reply at a time; an attribute is owed to nobody and *)
(* takes nothing off what is owed.                                         *)

Paid == IF owed[Len(owed)] > 1 THEN [owed EXCEPT ![Len(owed)] = @ - 1]
        ELSE SubSeq(owed, 1, Len(owed) - 1)

\* What is owed after a token; <<>> when the reply is whole.
Owing(t) ==
    CASE t.kind = "payload" -> owed
      [] t.kind = "attribute" -> IF t.n > 0 THEN Append(owed, 2 * t.n) ELSE owed
      [] t.kind = "map" -> IF t.n > 0 THEN Append(Paid, 2 * t.n) ELSE Paid
      [] t.kind = "array" -> IF t.n > 0 THEN Append(Paid, t.n) ELSE Paid
      [] OTHER -> Paid

Send(t) ==
    /\ Len(sent) < MaxTokens
    /\ t.kind = "payload" <=> pays
    /\ sent' = Append(sent, t)
    /\ pays' = (t.kind = "bulk" /\ t.n >= 0)
    /\ LET owing == Owing(t)
           whole == owing = <<>> /\ ~pays'
           said == IF says = "none" /\ Len(owed) = 1 /\ ~pays /\ t.kind # "attribute"
                   THEN t.kind ELSE says
       IN  /\ owed' = IF whole THEN <<1>> ELSE owing
           /\ ends' = IF whole THEN Append(ends, [at |-> Len(sent) + 1, kind |-> said])
                      ELSE ends
           /\ says' = IF whole THEN "none" ELSE said

-----------------------------------------------------------------------------
(* readReplyRawDepth. *)

\* Mutant: one call too many.
TooDeepByOne == Len(stack) > maxReplyDepth + 1

TooDeep == Len(stack) > maxReplyDepth

\* validateBulkLength, validateAggregateCount and validateAggregatePairCount.
TooMany(t) ==
    \/ t.kind = "bulk" /\ t.n > 0
    \/ t.kind = "array" /\ t.n > maxAggregateElements
    \/ t.kind \in {"map", "attribute"} /\ t.n > maxAggregateElements \div 2

\* Mutant: the reply an attribute annotates is left to the next call.
ElementsOfPairs(t) ==
    CASE t.kind = "array" /\ t.n > 0 -> t.n
      [] t.kind \in {"map", "attribute"} -> 2 * t.n
      [] OTHER -> 0

\* How many calls of itself a call makes after its line.
Elements(t) ==
    CASE t.kind = "array" /\ t.n > 0 -> t.n
      [] t.kind = "map" -> 2 * t.n
      [] t.kind = "attribute" -> 2 * t.n + 1
      [] OTHER -> 0

\* What is left of the calls when one returns: those that wait for its result
\* only return as well.
Return(calls) ==
    LET waiting == {i \in DOMAIN calls : calls[i].left > 1}
        top == Max(waiting)
    IN  IF waiting = {} THEN <<>>
        ELSE [SubSeq(calls, 1, top) EXCEPT ![top].left = @ - 1]

\* Whether ReadReplyRaw returns the kind of the call that reads a token now.
AnswersKind == \A i \in DOMAIN stack : stack[i].attr /\ stack[i].left = 1

\* Mutant: a null bulk is read as an empty one.
HasPayloadAlways(t) == t.kind = "bulk"

HasPayload(t) == t.kind = "bulk" /\ t.n >= 0

Fail ==
    /\ failed' = TRUE
    /\ UNCHANGED <<reader, forwarded, answers>>

\* ReadReplyRaw returns, and forwardCommand writes the reply to the app.
Deliver(t, calls, answer) ==
    /\ raw' = <<>>
    /\ forwarded' = forwarded \o Append(raw, t)
    /\ answers' = Append(answers, [at |-> Len(forwarded) + Len(raw) + 1, kind |-> answer])

\* A token is kept; these calls wait on, or none does and the reply is whole.
Continue(t, calls, answer) ==
    /\ stack' = calls
    /\ kind' = answer
    /\ \/ /\ calls = <<>> /\ ~inPayload'
          /\ Deliver(t, calls, answer)
       \/ /\ calls # <<>> \/ inPayload'
          /\ raw' = Append(raw, t)
          /\ UNCHANGED <<forwarded, answers>>
    /\ UNCHANGED failed

ReadPayload(t) ==
    /\ inPayload
    /\ inPayload' = FALSE
    /\ Continue(t, Return(stack), kind)

ReadLine(t) ==
    /\ ~inPayload
    /\ ~TooDeep /\ ~TooMany(t) /\ t.kind # "payload"
    /\ inPayload' = HasPayload(t)
    /\ Continue(t,
                IF HasPayload(t) THEN stack
                ELSE IF Elements(t) = 0 THEN Return(stack)
                ELSE Append(stack, [left |-> Elements(t), attr |-> t.kind = "attribute"]),
                IF AnswersKind THEN t.kind ELSE kind)

\* A limit is met, or the byte at hand begins no line.
ReadFails(t) ==
    /\ ~inPayload
    /\ TooDeep \/ TooMany(t) \/ t.kind = "payload"
    /\ Fail

Step(t) ==
    /\ ~failed
    /\ Send(t)
    /\ ReadPayload(t) \/ ReadLine(t) \/ ReadFails(t)

\* The connection ends, or a line is too long.
Lost ==
    /\ ~failed
    /\ UNCHANGED redis
    /\ Fail

Next == Lost \/ \E t \in Token : Step(t)

Spec == Init /\ [][Next]_vars

-----------------------------------------------------------------------------
LastEnd(replies) == IF replies = <<>> THEN 0 ELSE replies[Len(replies)].at

\* The app gets the replies of Redis whole, unchanged and one at a time, and
\* forwardCommand is told the kind of each, attributes notwithstanding.
WholeReplies ==
    /\ Len(answers) <= Len(ends)
    /\ \A i \in DOMAIN answers : answers[i] = ends[i]
    /\ forwarded = SubSeq(sent, 1, Len(forwarded))
    /\ Len(forwarded) = LastEnd(answers)

\* No reply waits for tokens of the next one: when Redis has sent a reply
\* whole, the handler has passed it on and is not blocked in a read of more.
NothingHeldBack ==
    Len(sent) = LastEnd(ends) /\ ~failed => Len(answers) = Len(ends)
=============================================================================
