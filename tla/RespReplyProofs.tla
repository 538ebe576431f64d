---------------------------- MODULE RespReplyProofs ----------------------------
(***************************************************************************)
(* That the reader finds the ends of the replies, for any limits and any   *)
(* number of tokens.                                                       *)
(*                                                                         *)
(* Redis and the reader keep different accounts of one reply.  Redis       *)
(* strikes an element off when it begins and drops what is paid; a call of *)
(* the reader counts it until it returns, and waits on beyond the last.    *)
(* Account is what Redis must owe, read off the stack of calls, call 0     *)
(* being the one ReadReplyRaw makes; Mirror says that it does.             *)
(***************************************************************************)
EXTENDS RespReply, SequenceTheorems, WellFoundedInduction, TLAPS

\* This call waits for the last element of an attribute: what it annotates.
Done(calls, i) == calls[i].attr /\ calls[i].left = 1

\* Redis began the element that call i waits for: an aggregate inside it, or
\* the line of a bulk whose payload is next (busy), with attributes before.
Within(calls, i) ==
    \E j \in (i + 1)..Len(calls) :
        ~calls[j].attr /\ \A k \in (i + 1)..(j - 1) : Done(calls, k)

Begun(calls, busy, i) ==
    \/ busy /\ \A k \in (i + 1)..Len(calls) : Done(calls, k)
    \/ Within(calls, i)

\* The elements of call i that have not returned.
Left(calls, i) ==
    IF i = 0 THEN 1
    ELSE IF calls[i].attr THEN calls[i].left - 1 ELSE calls[i].left

Account(calls, busy) ==
    [i \in 0..Len(calls) |->
        IF Begun(calls, busy, i) /\ Left(calls, i) > 0
        THEN Left(calls, i) - 1 ELSE Left(calls, i)]

\* The d debts are the entries of account that are not 0, in order.
InOrder(debts, d, account, n, m) ==
    /\ m \in [1..d -> 0..n]
    /\ \A j, k \in 1..d : j < k => m[j] < m[k]
    /\ \A j \in 1..d : debts[j] = account[m[j]] /\ account[m[j]] > 0
    /\ \A i \in 0..n : account[i] > 0 => \E j \in 1..d : m[j] = i

Agrees(debts, account, n) ==
    \E m \in [1..Len(debts) -> 0..n] : InOrder(debts, Len(debts), account, n, m)

Mirror ==
    /\ owed = <<>> => pays
    /\ ~failed =>
        /\ inPayload = pays
        /\ Agrees(owed, Account(stack, inPayload), Len(stack))
        /\ sent = forwarded \o raw
        /\ answers = ends
        /\ says = "none" <=> ~Begun(stack, inPayload, 0)
        /\ says # "none" => kind = says

IInv == TypeOK /\ WholeReplies /\ Mirror

-----------------------------------------------------------------------------
(* Numbers and sequences. *)

\* A set of naturals has a least element, and a bounded one a greatest.
LEMMA LeastOf ==
    ASSUME NEW S, S \subseteq Nat, S # {}
    PROVE  \E q \in S : \A i \in S : q <= i
<1>1. PICK q \in S : \A i \in S : ~(<<i, q>> \in OpToRel(<, Nat))
    BY NatLessThanWellFounded, WFMin, Zenon
<1>2. ASSUME NEW i \in S PROVE ~(i < q)
    <2>1. i \in Nat /\ q \in Nat
        OBVIOUS
    <2>2. QED
        BY <2>1, <1>1, Zenon DEF OpToRel
<1>3. QED
    BY <1>2

LEMMA GreatestOf ==
    ASSUME NEW n \in Nat, NEW S, S \subseteq 0..n, S # {}
    PROVE  \E q \in S : \A i \in S : i <= q
<1> DEFINE T == {j \in 0..n : n - j \in S}
<1>1. T \subseteq Nat
    OBVIOUS
<1>2. \A i \in S : n - i \in T
    OBVIOUS
<1>3. T # {}
    BY <1>2
<1> HIDE DEF T
<1>4. PICK t \in T : \A u \in T : t <= u
    BY <1>1, <1>3, LeastOf
<1>5. n - t \in S /\ t \in 0..n
    BY <1>4 DEF T
<1>6. ASSUME NEW i \in S PROVE i <= n - t
    BY <1>2, <1>4, <1>5
<1>7. QED
    BY <1>5, <1>6

LEMMA MaxFacts ==
    ASSUME NEW n \in Nat, NEW S, S \subseteq 0..n, S # {}
    PROVE  Max(S) \in S /\ \A i \in S : i <= Max(S)
<1>1. \E q \in S : \A i \in S : q >= i
    BY GreatestOf
<1>2. QED
    BY <1>1 DEF Max

-----------------------------------------------------------------------------
(* Debts and accounts. *)

LEMMA DebtFacts ==
    ASSUME NEW debts \in Seq(Nat)
    PROVE  Len(debts) \in Nat /\ debts \in [1..Len(debts) -> Nat]
OBVIOUS

\* What is paid is taken off the last entry that is not 0.
LEMMA AgreesPaid ==
    ASSUME NEW n \in Nat, NEW f \in [0..n -> Nat], NEW g \in [0..n -> Nat],
           owed \in Seq(Nat), Agrees(owed, f, n),
           NEW q \in 0..n, f[q] > 0, \A i \in (q + 1)..n : f[i] = 0,
           g[q] = f[q] - 1, \A i \in 0..n : i # q => g[i] = f[i]
    PROVE  owed # <<>> /\ Agrees(Paid, g, n)
<1> DEFINE d == Len(owed)
<1>1. PICK m \in [1..d -> 0..n] : InOrder(owed, d, f, n, m)
    BY DEF Agrees
<1>2. d \in Nat /\ owed \in [1..d -> Nat]
    BY DebtFacts
<1>3. d = Len(owed)
    OBVIOUS
<1> HIDE DEF d
<1>4. /\ d > 0 /\ m[d] = q /\ owed[d] = f[q]
      /\ \A k \in 1..(d - 1) : m[k] \in 0..n /\ m[k] # q
    <2>1. PICK j \in 1..d : m[j] = q
        BY <1>1 DEF InOrder
    <2>2. ASSUME j < d PROVE FALSE
        <3>1. d \in 1..d /\ j \in 1..d
            BY <2>2, <1>2
        <3>2. m[d] \in 0..n /\ m[j] < m[d] /\ f[m[d]] > 0
            BY <3>1, <2>2, <1>1 DEF InOrder
        <3>3. m[d] \in (q + 1)..n
            BY <3>2, <2>1
        <3>4. QED
            BY <3>2, <3>3
    <2>3. j = d /\ d \in 1..d
        BY <2>2, <1>2
    <2>4. ASSUME NEW k \in 1..(d - 1) PROVE m[k] \in 0..n /\ m[k] # q
        <3>1. k \in 1..d /\ k < d
            BY <1>2
        <3>2. m[k] < m[d] /\ m[k] \in 0..n
            BY <3>1, <2>3, <1>1 DEF InOrder
        <3>3. QED
            BY <3>2, <2>1, <2>3
    <2>5. m[d] = q /\ d > 0
        BY <2>1, <2>3, <1>2
    <2>6. owed[d] = f[m[d]]
        BY <2>3, <1>1 DEF InOrder
    <2>7. QED
        BY <2>4, <2>5, <2>6
<1>5. /\ \A j \in 1..d : m[j] \in 0..n /\ owed[j] = f[m[j]] /\ f[m[j]] > 0
      /\ \A j, k \in 1..d : j < k => m[j] < m[k]
      /\ \A i \in 0..n : f[i] > 0 => \E j \in 1..d : m[j] = i
    BY <1>1 DEF InOrder
<1>6. ASSUME NEW k \in 1..(d - 1) PROVE k \in 1..d /\ g[m[k]] = f[m[k]]
    <2>1. k \in 1..d
        BY <1>2
    <2>2. m[k] \in 0..n /\ m[k] # q
        BY <1>4
    <2>3. QED
        BY <2>1, <2>2
<1>7. CASE f[q] > 1
    <2>1. Paid = [owed EXCEPT ![d] = owed[d] - 1]
        BY <1>3, <1>4, <1>7 DEF Paid
    <2>2. Paid[d] = f[q] - 1 /\ \A k \in 1..(d - 1) : Paid[k] = owed[k]
        <3>1. d \in 1..d /\ d \in DOMAIN owed
            BY <1>2, <1>4
        <3>2. Paid[d] = owed[d] - 1
            BY <2>1, <3>1
        <3>3. ASSUME NEW k \in 1..(d - 1) PROVE Paid[k] = owed[k]
            <4>1. k # d /\ k \in DOMAIN owed
                BY <1>2
            <4>2. QED
                BY <2>1, <4>1
        <3>4. owed[d] = f[q]
            BY <1>4
        <3>5. QED
            BY <3>2, <3>3, <3>4
    <2>3. Paid \in Seq(Nat) /\ Len(Paid) = d
        BY <2>1, <1>3, <1>4, <1>2, <1>7, ExceptSeq
    <2>4. \A k \in 1..d : Paid[k] = g[m[k]] /\ g[m[k]] > 0
        <3>1. Paid[d] = g[m[d]] /\ g[m[d]] > 0
            BY <2>2, <1>4, <1>7
        <3>2. ASSUME NEW k \in 1..(d - 1) PROVE Paid[k] = g[m[k]] /\ g[m[k]] > 0
            BY <1>5, <1>6, <2>2
        <3>3. \A k \in 1..d : k = d \/ k \in 1..(d - 1)
            BY <1>2
        <3>4. QED
            BY <3>1, <3>2, <3>3
    <2>5. \A i \in 0..n : g[i] > 0 => f[i] > 0
        BY <1>7
    <2>6. InOrder(Paid, d, g, n, m)
        BY <2>4, <2>5, <1>1, <1>5 DEF InOrder
    <2>7. Agrees(Paid, g, n)
        BY <2>3, <2>6, <1>1 DEF Agrees
    <2>8. owed # <<>>
        BY <1>3, <1>4
    <2>9. QED
        BY <2>7, <2>8
<1>8. CASE f[q] = 1
    <2> DEFINE l == [k \in 1..(d - 1) |-> m[k]]
    <2>1. Paid = SubSeq(owed, 1, d - 1)
        BY <1>3, <1>4, <1>8 DEF Paid
    <2>2. Len(Paid) = d - 1 /\ \A k \in 1..(d - 1) : Paid[k] = owed[k]
        <3>1. ASSUME NEW k \in 1..(d - 1) PROVE owed[k] \in Nat
            <4>1. k \in 1..d
                BY <1>2
            <4>2. QED
                BY <4>1, <1>2
        <3>2. 1 \in Int /\ d - 1 \in Int /\ d - 1 >= 0
            BY <1>2, <1>4
        <3>3. /\ Len(SubSeq(owed, 1, d - 1)) = IF 1 <= d - 1 THEN d - 1 - 1 + 1 ELSE 0
              /\ \A k \in 1..(d - 1 - 1 + 1) : SubSeq(owed, 1, d - 1)[k] = owed[1 + k - 1]
            BY <3>1, <3>2, SubSeqProperties
        <3>4. QED
            BY <2>1, <3>2, <3>3
    <2>3. l \in [1..(d - 1) -> 0..n] /\ \A k \in 1..(d - 1) : l[k] = m[k]
        BY <1>4
    <2> HIDE DEF l
    <2>4. ASSUME NEW k \in 1..(d - 1) PROVE Paid[k] = g[l[k]] /\ g[l[k]] > 0
        BY <1>5, <1>6, <2>2, <2>3
    <2>5. ASSUME NEW i \in 0..n, g[i] > 0 PROVE \E k \in 1..(d - 1) : l[k] = i
        <3>1. i # q /\ f[i] > 0
            BY <2>5, <1>8
        <3>2. PICK k \in 1..d : m[k] = i
            BY <3>1, <1>5
        <3>3. k # d
            BY <3>1, <3>2, <1>4
        <3>4. k \in 1..(d - 1)
            BY <3>3, <1>2
        <3>5. QED
            BY <3>2, <3>4, <2>3
    <2>6. \A k, o \in 1..(d - 1) : k < o => l[k] < l[o]
        BY <2>3, <1>5, <1>6
    <2>7. InOrder(Paid, d - 1, g, n, l)
        BY <2>3, <2>4, <2>5, <2>6 DEF InOrder
    <2>8. owed # <<>>
        BY <1>3, <1>4
    <2>9. QED
        BY <2>2, <2>3, <2>7, <2>8 DEF Agrees
<1>9. QED
    BY <1>7, <1>8

\* What a call adds is owed last, if it is anything.
LEMMA AgreesMore ==
    ASSUME NEW n \in Nat, NEW f \in [0..n -> Nat], NEW g \in [0..(n + 1) -> Nat],
           NEW debts \in Seq(Nat), Agrees(debts, f, n),
           \A i \in 0..n : g[i] = f[i]
    PROVE  Agrees(IF g[n + 1] > 0 THEN Append(debts, g[n + 1]) ELSE debts, g, n + 1)
<1> DEFINE d == Len(debts)
<1>1. PICK m \in [1..d -> 0..n] : InOrder(debts, d, f, n, m)
    BY DEF Agrees
<1>2. d \in Nat
    BY DebtFacts
<1>3. d = Len(debts)
    OBVIOUS
<1> HIDE DEF d
<1>4. /\ \A j \in 1..d : m[j] \in 0..n /\ debts[j] = f[m[j]] /\ f[m[j]] > 0
      /\ \A j, k \in 1..d : j < k => m[j] < m[k]
      /\ \A i \in 0..n : f[i] > 0 => \E j \in 1..d : m[j] = i
    BY <1>1 DEF InOrder
<1>5. \A i \in 0..(n + 1) : i \in 0..n \/ i = n + 1
    OBVIOUS
<1>6. CASE g[n + 1] = 0
    <2>1. m \in [1..d -> 0..(n + 1)]
        BY <1>4
    <2>2. InOrder(debts, d, g, n + 1, m)
        <3>1. \A j \in 1..d : debts[j] = g[m[j]] /\ g[m[j]] > 0
            BY <1>4
        <3>2. \A i \in 0..(n + 1) : g[i] > 0 => \E j \in 1..d : m[j] = i
            BY <1>4, <1>5, <1>6
        <3>3. QED
            BY <1>4, <2>1, <3>1, <3>2 DEF InOrder
    <2>3. QED
        BY <2>1, <2>2, <1>3, <1>6 DEF Agrees
<1>7. CASE g[n + 1] > 0
    <2> DEFINE more == Append(debts, g[n + 1])
               l == [k \in 1..(d + 1) |-> IF k = d + 1 THEN n + 1 ELSE m[k]]
    <2>1. Len(more) = d + 1 /\ more[d + 1] = g[n + 1] /\ \A k \in 1..d : more[k] = debts[k]
        BY <1>3, AppendProperties
    <2>2. \A k \in 1..d : l[k] = m[k] /\ l[k] \in 0..n /\ k \in 1..(d + 1)
        BY <1>2, <1>4
    <2>3. l[d + 1] = n + 1 /\ d + 1 \in 1..(d + 1)
        BY <1>2
    <2>4. \A k \in 1..(d + 1) : k = d + 1 \/ k \in 1..d
        BY <1>2
    <2>5. l \in [1..(d + 1) -> 0..(n + 1)]
        BY <2>2, <2>3, <2>4
    <2> HIDE DEF l, more
    <2>6. ASSUME NEW j \in 1..(d + 1), NEW k \in 1..(d + 1), j < k PROVE l[j] < l[k]
        <3>1. j \in 1..d
            BY <2>6, <1>2
        <3>2. CASE k = d + 1
            BY <3>1, <3>2, <2>2, <2>3
        <3>3. CASE k \in 1..d
            BY <3>1, <3>3, <2>2, <2>6, <1>4
        <3>4. QED
            BY <3>2, <3>3, <2>4
    <2>7. ASSUME NEW j \in 1..(d + 1) PROVE more[j] = g[l[j]] /\ g[l[j]] > 0
        <3>1. CASE j = d + 1
            BY <3>1, <2>1, <2>3, <1>7
        <3>2. CASE j \in 1..d
            BY <3>2, <2>1, <2>2, <1>4
        <3>3. QED
            BY <3>1, <3>2, <2>4
    <2>8. ASSUME NEW i \in 0..(n + 1), g[i] > 0 PROVE \E j \in 1..(d + 1) : l[j] = i
        <3>1. CASE i = n + 1
            BY <3>1, <2>3
        <3>2. CASE i \in 0..n
            <4>1. PICK j \in 1..d : m[j] = i
                BY <3>2, <2>8, <1>4
            <4>2. QED
                BY <4>1, <2>2
        <3>3. QED
            BY <3>1, <3>2, <1>5
    <2>9. InOrder(more, d + 1, g, n + 1, l)
        BY <2>5, <2>6, <2>7, <2>8 DEF InOrder
    <2>10. Agrees(more, g, n + 1)
        BY <2>1, <2>5, <2>9 DEF Agrees
    <2>11. QED
        BY <2>10, <1>7 DEF more
<1>8. QED
    BY <1>6, <1>7

\* Calls to which nothing is owed may return.
LEMMA AgreesLess ==
    ASSUME NEW n \in Nat, NEW o \in 0..n, NEW f \in [0..n -> Nat], NEW g \in [0..o -> Nat],
           NEW debts \in Seq(Nat), Agrees(debts, f, n),
           \A i \in 0..o : g[i] = f[i], \A i \in (o + 1)..n : f[i] = 0
    PROVE  Agrees(debts, g, o)
<1> DEFINE d == Len(debts)
<1>1. PICK m \in [1..d -> 0..n] : InOrder(debts, d, f, n, m)
    BY DEF Agrees
<1>2. d \in Nat
    BY DebtFacts
<1>3. d = Len(debts)
    OBVIOUS
<1> HIDE DEF d
<1>4. /\ \A j \in 1..d : m[j] \in 0..n /\ debts[j] = f[m[j]] /\ f[m[j]] > 0
      /\ \A j, k \in 1..d : j < k => m[j] < m[k]
      /\ \A i \in 0..n : f[i] > 0 => \E j \in 1..d : m[j] = i
    BY <1>1 DEF InOrder
<1>5. \A i \in 0..n : i \in 0..o \/ i \in (o + 1)..n
    OBVIOUS
<1>6. \A j \in 1..d : m[j] \in 0..o
    BY <1>4, <1>5
<1>7. m \in [1..d -> 0..o]
    BY <1>6
<1>8. InOrder(debts, d, g, o, m)
    <2>1. \A j \in 1..d : debts[j] = g[m[j]] /\ g[m[j]] > 0
        BY <1>4, <1>6
    <2>2. \A i \in 0..o : i \in 0..n
        OBVIOUS
    <2>3. \A i \in 0..o : g[i] > 0 => \E j \in 1..d : m[j] = i
        BY <1>4, <2>2
    <2>4. QED
        BY <1>4, <1>7, <2>1, <2>3 DEF InOrder
<1>9. QED
    BY <1>3, <1>7, <1>8 DEF Agrees

\* Nothing is owed when no call has anything due, and only then.
LEMMA AgreesNothing ==
    ASSUME NEW n \in Nat, NEW f \in [0..n -> Nat], NEW debts \in Seq(Nat),
           Agrees(debts, f, n)
    PROVE  debts = <<>> <=> \A i \in 0..n : f[i] = 0
<1> DEFINE d == Len(debts)
<1>1. PICK m \in [1..d -> 0..n] : InOrder(debts, d, f, n, m)
    BY DEF Agrees
<1>2. d \in Nat
    BY DebtFacts
<1>3. debts = <<>> <=> d = 0
    OBVIOUS
<1> HIDE DEF d
<1>4. /\ \A j \in 1..d : m[j] \in 0..n /\ f[m[j]] > 0
      /\ \A i \in 0..n : f[i] > 0 => \E j \in 1..d : m[j] = i
    BY <1>1 DEF InOrder
<1>5. ASSUME d = 0, NEW i \in 0..n, f[i] > 0 PROVE FALSE
    BY <1>4, <1>5
<1>6. ASSUME \A i \in 0..n : f[i] = 0, d # 0 PROVE FALSE
    <2>1. 1 \in 1..d
        BY <1>2, <1>6
    <2>2. QED
        BY <2>1, <1>4, <1>6
<1>7. QED
    BY <1>2, <1>3, <1>5, <1>6

\* One entry is owed when one call has something due, and only then.
LEMMA AgreesOne ==
    ASSUME NEW n \in Nat, NEW f \in [0..n -> Nat], NEW debts \in Seq(Nat),
           Agrees(debts, f, n), f[0] > 0
    PROVE  Len(debts) = 1 <=> \A i \in 1..n : f[i] = 0
<1> DEFINE d == Len(debts)
<1>1. PICK m \in [1..d -> 0..n] : InOrder(debts, d, f, n, m)
    BY DEF Agrees
<1>2. d \in Nat
    BY DebtFacts
<1> HIDE DEF d
<1>3. /\ \A j \in 1..d : m[j] \in 0..n /\ f[m[j]] > 0
      /\ \A j, k \in 1..d : j < k => m[j] < m[k]
      /\ \A i \in 0..n : f[i] > 0 => \E j \in 1..d : m[j] = i
    BY <1>1 DEF InOrder
<1>4. PICK z \in 1..d : m[z] = 0
    BY <1>3
<1>5. ASSUME d = 1, NEW i \in 1..n, f[i] # 0 PROVE FALSE
    <2>1. i \in 0..n /\ f[i] > 0
        BY <1>5
    <2>2. PICK j \in 1..d : m[j] = i
        BY <2>1, <1>3
    <2>3. j = z
        BY <1>5
    <2>4. QED
        BY <2>2, <2>3, <1>4
<1>6. ASSUME \A i \in 1..n : f[i] = 0, d # 1 PROVE FALSE
    <2>1. PICK j \in 1..d : j # z
        <3>1. d > 1 /\ 1 \in 1..d /\ 2 \in 1..d
            BY <1>2, <1>6
        <3>2. QED
            BY <3>1
    <2>2. m[j] # m[z]
        BY <1>3, <2>1
    <2>3. m[j] \in 1..n
        BY <1>3, <1>4, <2>2
    <2>4. QED
        BY <2>3, <1>3, <1>6
<1>7. (d = 1) <=> \A i \in 1..n : f[i] = 0
    BY <1>5, <1>6
<1>8. QED
    BY <1>7 DEF d

\* Redis owes one reply to a call that has read nothing of it.
LEMMA AgreesFresh == Agrees(<<1>>, Account(<<>>, FALSE), 0)
<1> DEFINE m == [j \in 1..1 |-> 0]
           f == Account(<<>>, FALSE)
<1>1. Len(<<>>) = 0 /\ Len(<<1>>) = 1 /\ <<1>>[1] = 1
    OBVIOUS
<1>2. ~Begun(<<>>, FALSE, 0)
    BY <1>1 DEF Begun, Within
<1>3. f[0] = 1
    BY <1>1, <1>2 DEF Account, Left
<1>4. m \in [1..1 -> 0..0] /\ m[1] = 0
    OBVIOUS
<1> HIDE DEF m, f
<1>5. (\A j \in 1..1 : j = 1) /\ (\A i \in 0..0 : i = 0) /\ 1 \in 1..1
    OBVIOUS
<1>6. \A j \in 1..1 : <<1>>[j] = f[m[j]] /\ f[m[j]] > 0
    BY <1>1, <1>3, <1>4, <1>5
<1>7. \A j, k \in 1..1 : j < k => m[j] < m[k]
    BY <1>5
<1>8. \A i \in 0..0 : f[i] > 0 => \E j \in 1..1 : m[j] = i
    BY <1>4, <1>5
<1>9. InOrder(<<1>>, 1, f, 0, m)
    BY <1>4, <1>6, <1>7, <1>8 DEF InOrder
<1>10. Agrees(<<1>>, f, 0)
    BY <1>1, <1>4, <1>9 DEF Agrees
<1>11. QED
    BY <1>10 DEF f

-----------------------------------------------------------------------------
(* Calls that wait. *)

LEMMA FrameFacts ==
    ASSUME NEW calls \in Seq(Frame)
    PROVE  /\ Len(calls) \in Nat
           /\ \A i \in 1..Len(calls) :
                calls[i].left \in Nat /\ calls[i].left > 0 /\ calls[i].attr \in BOOLEAN
<1>1. maxAggregateElements \in Nat
    BY LimitsAssumption DEF LimitsAssumption
<1>2. \A i \in 1..Len(calls) : calls[i] \in Frame
    OBVIOUS
<1>3. \A frame \in Frame :
        frame.left \in Nat /\ frame.left > 0 /\ frame.attr \in BOOLEAN
    BY <1>1 DEF Frame
<1>4. QED
    BY <1>2, <1>3

LEMMA LeftFacts ==
    ASSUME NEW calls \in Seq(Frame)
    PROVE  \A i \in 0..Len(calls) : Left(calls, i) \in Nat
BY FrameFacts DEF Left

LEMMA AccountFacts ==
    ASSUME NEW calls \in Seq(Frame), NEW busy
    PROVE  Account(calls, busy) \in [0..Len(calls) -> Nat]
BY LeftFacts DEF Account

\* Some call is the last that is not done, the one ReadReplyRaw makes at worst.
LEMMA LastCall ==
    ASSUME NEW calls \in Seq(Frame)
    PROVE  \E q \in 0..Len(calls) :
            /\ q > 0 => ~Done(calls, q)
            /\ \A i \in (q + 1)..Len(calls) : Done(calls, i)
<1> DEFINE N == Len(calls)
           S == {i \in 0..N : i > 0 => ~Done(calls, i)}
<1>1. N \in Nat /\ S \subseteq 0..N /\ 0 \in S
    BY FrameFacts
<1> HIDE DEF N
<1>2. PICK q \in S : \A i \in S : i <= q
    BY <1>1, GreatestOf
<1>3. ASSUME NEW i \in (q + 1)..N, ~Done(calls, i) PROVE FALSE
    <2>1. i \in S
        BY <1>1, <1>3
    <2>2. QED
        BY <2>1, <1>2, <1>1
<1>4. QED
    BY <1>1, <1>2, <1>3 DEF N

\* From that call on, an element has begun only if a bulk's payload is next;
\* before it, that makes no difference.
LEMMA BegunAround ==
    ASSUME NEW calls \in Seq(Frame), NEW busy \in BOOLEAN, NEW q \in 0..Len(calls),
           q > 0 => ~Done(calls, q), \A i \in (q + 1)..Len(calls) : Done(calls, i),
           NEW i \in 0..Len(calls)
    PROVE  /\ i >= q => (Begun(calls, busy, i) <=> busy)
           /\ i < q => (Begun(calls, busy, i) <=> Within(calls, i))
<1>1. Len(calls) \in Nat
    BY FrameFacts
<1>2. ASSUME i >= q PROVE Begun(calls, busy, i) <=> busy
    <2>1. \A k \in (i + 1)..Len(calls) : Done(calls, k)
        BY <1>1, <1>2
    <2>2. ~Within(calls, i)
        BY <2>1 DEF Within, Done
    <2>3. QED
        BY <2>1, <2>2 DEF Begun
<1>3. ASSUME i < q PROVE Begun(calls, busy, i) <=> Within(calls, i)
    <2>1. q \in (i + 1)..Len(calls) /\ ~Done(calls, q)
        BY <1>1, <1>3
    <2>2. QED
        BY <2>1 DEF Begun
<1>4. QED
    BY <1>2, <1>3

\* What the line of an element changes in the account: the last call that is
\* not done has something due, those after it have nothing.
LEMMA LineBegins ==
    ASSUME NEW calls \in Seq(Frame), NEW q \in 0..Len(calls),
           q > 0 => ~Done(calls, q), \A i \in (q + 1)..Len(calls) : Done(calls, i)
    PROVE  /\ Account(calls, FALSE)[q] > 0
           /\ \A i \in (q + 1)..Len(calls) : Account(calls, FALSE)[i] = 0
           /\ Account(calls, TRUE)[q] = Account(calls, FALSE)[q] - 1
           /\ \A i \in 0..Len(calls) :
                i # q => Account(calls, TRUE)[i] = Account(calls, FALSE)[i]
<1>1. Len(calls) \in Nat
    BY FrameFacts
<1>2. q >= q /\ Left(calls, q) \in Nat /\ Left(calls, q) > 0
    BY FrameFacts DEF Left, Done
<1>3. ASSUME NEW i \in (q + 1)..Len(calls) PROVE Left(calls, i) = 0
    <2>1. Done(calls, i) /\ i # 0
        BY <1>1, <1>3
    <2>2. QED
        BY <2>1 DEF Left, Done
<1>4. \A i \in 0..Len(calls) :
        /\ i >= q => ~Begun(calls, FALSE, i) /\ Begun(calls, TRUE, i)
        /\ i < q => (Begun(calls, FALSE, i) <=> Begun(calls, TRUE, i))
    BY BegunAround
<1>5. /\ Account(calls, FALSE)[q] = Left(calls, q)
      /\ Account(calls, TRUE)[q] = Left(calls, q) - 1
    <2>1. ~Begun(calls, FALSE, q) /\ Begun(calls, TRUE, q)
        BY <1>2, <1>4
    <2>2. QED
        BY <2>1, <1>2 DEF Account
<1>6. ASSUME NEW i \in (q + 1)..Len(calls)
      PROVE  i \in 0..Len(calls) /\ Account(calls, FALSE)[i] = 0 /\ Account(calls, TRUE)[i] = 0
    <2>1. i \in 0..Len(calls) /\ i >= q
        BY <1>1
    <2>2. ~(Left(calls, i) > 0) /\ Left(calls, i) = 0
        BY <1>3
    <2>3. QED
        BY <2>1, <2>2 DEF Account
<1>7. ASSUME NEW i \in 0..Len(calls), i < q
      PROVE  Account(calls, TRUE)[i] = Account(calls, FALSE)[i]
    BY <1>4, <1>7 DEF Account
<1>8. \A i \in 0..Len(calls) : i = q \/ i < q \/ i \in (q + 1)..Len(calls)
    BY <1>1
<1>9. QED
    BY <1>2, <1>5, <1>6, <1>7, <1>8

\* What a call that returns changes in it, after its last token: nothing is due
\* to the calls that return as well, and the one that waits on counts it too.
LEMMA WaitsOn ==
    ASSUME NEW calls \in Seq(Frame), NEW top \in 0..Len(calls),
           \A i \in (top + 1)..Len(calls) : calls[i].left = 1
    PROVE  /\ \A i \in top..Len(calls) : Begun(calls, TRUE, i)
           /\ \A i \in (top + 1)..Len(calls) : Account(calls, TRUE)[i] = 0
<1>1. Len(calls) \in Nat
    BY FrameFacts
<1>2. ASSUME NEW i \in top..Len(calls) PROVE Begun(calls, TRUE, i)
    <2> DEFINE S == {k \in (i + 1)..Len(calls) : ~calls[k].attr}
    <2>1. CASE S = {}
        <3>1. \A k \in (i + 1)..Len(calls) : calls[k].attr /\ calls[k].left = 1
            BY <2>1, <1>1
        <3>2. QED
            BY <3>1 DEF Begun, Done
    <2>2. CASE S # {}
        <3>1. S \subseteq Nat
            BY <1>1
        <3>2. PICK j \in S : \A k \in S : j <= k
            BY <2>2, <3>1, LeastOf
        <3>3. ASSUME NEW k \in (i + 1)..(j - 1) PROVE Done(calls, k)
            <4>1. k \in (i + 1)..Len(calls) /\ k < j /\ k \in (top + 1)..Len(calls)
                BY <1>1
            <4>2. k \notin S
                BY <4>1, <3>2
            <4>3. QED
                BY <4>1, <4>2 DEF Done
        <3>4. j \in (i + 1)..Len(calls) /\ ~calls[j].attr
            OBVIOUS
        <3>5. QED
            BY <3>3, <3>4 DEF Begun, Within
    <2>3. QED
        BY <2>1, <2>2
<1>3. ASSUME NEW i \in (top + 1)..Len(calls) PROVE Account(calls, TRUE)[i] = 0
    <2>1. i \in 0..Len(calls) /\ i \in top..Len(calls) /\ i # 0
        BY <1>1
    <2>2. Left(calls, i) = 0 \/ Left(calls, i) = 1
        BY <2>1 DEF Left
    <2>3. Begun(calls, TRUE, i)
        BY <2>1, <1>2
    <2>4. QED
        BY <2>1, <2>2, <2>3 DEF Account
<1>4. QED
    BY <1>2, <1>3

\* What Return leaves when call "top" is the last that waits on.
Cut(calls, top) == [SubSeq(calls, 1, top) EXCEPT ![top].left = @ - 1]

LEMMA CutFacts ==
    ASSUME NEW calls \in Seq(Frame), NEW top \in 1..Len(calls), calls[top].left > 1
    PROVE  /\ Cut(calls, top) \in Seq(Frame) /\ Len(Cut(calls, top)) = top
           /\ Cut(calls, top)[top].left = calls[top].left - 1
           /\ Cut(calls, top)[top].attr = calls[top].attr
           /\ \A i \in 1..(top - 1) : Cut(calls, top)[i] = calls[i]
<1> DEFINE upto == SubSeq(calls, 1, top)
           frame == [calls[top] EXCEPT !.left = @ - 1]
<1>1. Len(calls) \in Nat /\ \A i \in 1..Len(calls) : calls[i] \in Frame
    BY FrameFacts
<1>2. /\ upto \in Seq(Frame) /\ Len(upto) = top
      /\ \A i \in 1..top : upto[i] = calls[i]
    <2>1. \A i \in 1..top : calls[i] \in Frame
        BY <1>1
    <2>2. 1 \in Int /\ top \in Int /\ top >= 1
        OBVIOUS
    <2>3. /\ upto \in Seq(Frame)
          /\ Len(upto) = IF 1 <= top THEN top - 1 + 1 ELSE 0
          /\ \A i \in 1..(top - 1 + 1) : upto[i] = calls[1 + i - 1]
        BY <2>1, <2>2, SubSeqProperties
    <2>4. QED
        BY <2>2, <2>3
<1>3. frame \in Frame /\ frame.left = calls[top].left - 1 /\ frame.attr = calls[top].attr
    <2>1. calls[top] \in Frame
        BY <1>1
    <2>2. maxAggregateElements \in Nat
        BY LimitsAssumption DEF LimitsAssumption
    <2>3. QED
        BY <2>1, <2>2 DEF Frame
<1>4. Cut(calls, top) = [upto EXCEPT ![top] = frame]
    <2>1. upto[top] = calls[top]
        BY <1>2
    <2>2. QED
        BY <2>1 DEF Cut
<1> HIDE DEF upto, frame
<1>5. Cut(calls, top) \in Seq(Frame) /\ Len(Cut(calls, top)) = top
    <2>1. top \in 1..Len(upto)
        BY <1>2
    <2>2. QED
        BY <2>1, <1>2, <1>3, <1>4
<1>6. /\ Cut(calls, top)[top] = frame
      /\ \A i \in 1..(top - 1) : Cut(calls, top)[i] = upto[i]
    BY <1>2, <1>4
<1>7. QED
    BY <1>2, <1>3, <1>5, <1>6

LEMMA CallReturns ==
    ASSUME NEW calls \in Seq(Frame), NEW top \in 1..Len(calls), calls[top].left > 1,
           \A i \in (top + 1)..Len(calls) : calls[i].left = 1
    PROVE  /\ Begun(Cut(calls, top), FALSE, 0) <=> Begun(calls, TRUE, 0)
           /\ \A i \in 0..top :
                Account(Cut(calls, top), FALSE)[i] = Account(calls, TRUE)[i]
<1> DEFINE waiting == Cut(calls, top)
<1>1. /\ Len(calls) \in Nat /\ Len(waiting) = top
      /\ waiting[top].left = calls[top].left - 1
      /\ waiting[top].attr = calls[top].attr
      /\ \A i \in 1..(top - 1) : waiting[i] = calls[i]
    BY FrameFacts, CutFacts
<1> HIDE DEF waiting
<1>2. ~Done(calls, top) /\ \A k \in 1..(top - 1) : Done(waiting, k) <=> Done(calls, k)
    BY <1>1 DEF Done
<1>3. ASSUME NEW i \in 0..(top - 1) PROVE Begun(waiting, FALSE, i) <=> Begun(calls, TRUE, i)
    <2>1. ASSUME NEW j \in (i + 1)..Len(calls),
                 ~calls[j].attr, \A k \in (i + 1)..(j - 1) : Done(calls, k)
          PROVE  Within(waiting, i)
        <3>1. j <= top
            BY <2>1, <1>2, <1>1
        <3>2. j \in (i + 1)..Len(waiting) /\ ~waiting[j].attr
            BY <3>1, <2>1, <1>1
        <3>3. \A k \in (i + 1)..(j - 1) : Done(waiting, k)
            BY <3>1, <2>1, <1>2
        <3>4. QED
            BY <3>2, <3>3 DEF Within
    <2>2. ASSUME NEW j \in (i + 1)..top,
                 ~waiting[j].attr, \A k \in (i + 1)..(j - 1) : Done(waiting, k)
          PROVE  Within(calls, i)
        <3>1. j \in (i + 1)..Len(calls) /\ ~calls[j].attr
            BY <2>2, <1>1
        <3>2. \A k \in (i + 1)..(j - 1) : Done(calls, k)
            BY <2>2, <1>2
        <3>3. QED
            BY <3>1, <3>2 DEF Within
    <2>3. top \in (i + 1)..Len(calls)
        BY <1>1
    <2>4. Begun(calls, TRUE, i) <=> Within(calls, i)
        BY <2>3, <1>2 DEF Begun
    <2>5. Begun(waiting, FALSE, i) <=> Within(waiting, i)
        BY DEF Begun
    <2>6. Within(waiting, i) <=> Within(calls, i)
        BY <2>1, <2>2, <1>1 DEF Within
    <2>7. QED
        BY <2>4, <2>5, <2>6
<1>4. ASSUME NEW i \in 0..(top - 1)
      PROVE  Account(waiting, FALSE)[i] = Account(calls, TRUE)[i]
    <2>1. i \in 0..Len(waiting) /\ i \in 0..Len(calls)
        BY <1>1
    <2>2. Left(waiting, i) = Left(calls, i)
        BY <1>1 DEF Left
    <2>3. QED
        BY <2>1, <2>2, <1>3 DEF Account
<1>5. Account(waiting, FALSE)[top] = Account(calls, TRUE)[top]
    <2>1. top \in 0..Len(waiting) /\ top \in 0..Len(calls)
        BY <1>1
    <2>2. ~Begun(waiting, FALSE, top)
        BY <1>1 DEF Begun, Within
    <2>3. Begun(calls, TRUE, top)
        <3>1. \A i \in top..Len(calls) : Begun(calls, TRUE, i)
            BY <2>1, WaitsOn
        <3>2. top \in top..Len(calls)
            BY <1>1
        <3>3. QED
            BY <3>1, <3>2
    <2>4. Left(calls, top) > 0 /\ Left(calls, top) \in Nat
          /\ Left(waiting, top) = Left(calls, top) - 1
        BY <1>1, FrameFacts DEF Left
    <2>5. QED
        BY <2>1, <2>2, <2>3, <2>4 DEF Account
<1>6. \A i \in 0..top : i = top \/ i \in 0..(top - 1)
    OBVIOUS
<1>7. Begun(waiting, FALSE, 0) <=> Begun(calls, TRUE, 0)
    <2>1. 0 \in 0..(top - 1)
        OBVIOUS
    <2>2. QED
        BY <2>1, <1>3
<1>8. \A i \in 0..top : Account(waiting, FALSE)[i] = Account(calls, TRUE)[i]
    BY <1>4, <1>5, <1>6
<1>9. QED
    BY <1>7, <1>8 DEF waiting

\* Return: the calls that wait on, and what is due to those that do not.
LEMMA ReturnFacts ==
    ASSUME NEW calls \in Seq(Frame)
    PROVE  \/ /\ Return(calls) = <<>>
              /\ \A i \in 0..Len(calls) : Account(calls, TRUE)[i] = 0
              /\ Begun(calls, TRUE, 0)
           \/ \E top \in 1..Len(calls) :
                /\ calls[top].left > 1
                /\ \A i \in (top + 1)..Len(calls) : calls[i].left = 1
                /\ Return(calls) = Cut(calls, top)
<1> DEFINE S == {i \in DOMAIN calls : calls[i].left > 1}
<1>1. Len(calls) \in Nat /\ DOMAIN calls = 1..Len(calls) /\ S \subseteq 0..Len(calls)
    BY FrameFacts
<1>2. \A i \in 1..Len(calls) : i \notin S => calls[i].left = 1
    BY FrameFacts
<1>3. CASE S = {}
    <2>1. Return(calls) = <<>>
        BY <1>3 DEF Return
    <2>2. 0 \in 0..Len(calls) /\ \A i \in (0 + 1)..Len(calls) : calls[i].left = 1
        BY <1>1, <1>2, <1>3
    <2>3. /\ \A i \in 0..Len(calls) : Begun(calls, TRUE, i)
          /\ \A i \in (0 + 1)..Len(calls) : Account(calls, TRUE)[i] = 0
        BY <2>2, WaitsOn
    <2>4. Left(calls, 0) = 1 /\ Begun(calls, TRUE, 0)
        BY <2>2, <2>3 DEF Left
    <2>5. Account(calls, TRUE)[0] = 0
        BY <2>2, <2>4 DEF Account
    <2>6. \A i \in 0..Len(calls) : i = 0 \/ i \in (0 + 1)..Len(calls)
        BY <1>1
    <2>7. \A i \in 0..Len(calls) : Account(calls, TRUE)[i] = 0
        BY <2>3, <2>5, <2>6
    <2>8. QED
        BY <2>1, <2>4, <2>7
<1>4. CASE S # {}
    <2> DEFINE top == Max(S)
    <2>1. top \in S /\ \A i \in S : i <= top
        BY <1>1, <1>4, MaxFacts
    <2>2. Return(calls) = Cut(calls, top)
        BY <1>4 DEF Return, Cut
    <2> HIDE DEF top
    <2>3. top \in 1..Len(calls) /\ calls[top].left > 1
        BY <1>1, <2>1
    <2>4. \A i \in (top + 1)..Len(calls) : calls[i].left = 1
        BY <1>1, <1>2, <2>1, <2>3
    <2>5. QED
        BY <2>2, <2>3, <2>4
<1>5. QED
    BY <1>3, <1>4

\* What a call of itself changes: an aggregate is an element that begins, an
\* attribute is none.
LEMMA CallMade ==
    ASSUME NEW calls \in Seq(Frame), NEW frame \in Frame
    PROVE  LET N == Len(calls)
               more == Append(calls, frame)
           IN  /\ more \in Seq(Frame) /\ Len(more) = N + 1
               /\ \A i \in 0..N :
                    /\ Account(more, FALSE)[i] = Account(calls, ~frame.attr)[i]
                    /\ Begun(more, FALSE, i) <=> Begun(calls, ~frame.attr, i)
               /\ Account(more, FALSE)[N + 1] =
                    IF frame.attr THEN frame.left - 1 ELSE frame.left
<1> DEFINE N == Len(calls)
           more == Append(calls, frame)
<1>1. /\ N \in Nat /\ more \in Seq(Frame) /\ Len(more) = N + 1
      /\ more[N + 1] = frame /\ \A i \in 1..N : more[i] = calls[i]
    BY FrameFacts, AppendProperties
<1>2. N = Len(calls)
    OBVIOUS
<1> HIDE DEF N, more
<1>3. frame.left > 0 /\ frame.left \in Nat /\ frame.attr \in BOOLEAN
    BY LimitsAssumption DEF Frame, LimitsAssumption
<1>4. \A k \in 1..N : Done(more, k) <=> Done(calls, k)
    BY <1>1 DEF Done
<1>5. ASSUME NEW i \in 0..N PROVE Begun(more, FALSE, i) <=> Begun(calls, ~frame.attr, i)
    <2>1. Begun(more, FALSE, i) <=> Within(more, i)
        BY DEF Begun
    <2>2. ASSUME NEW j \in (i + 1)..N
          PROVE  (~more[j].attr /\ \A k \in (i + 1)..(j - 1) : Done(more, k))
                    <=> (~calls[j].attr /\ \A k \in (i + 1)..(j - 1) : Done(calls, k))
        BY <1>1, <1>4
    <2>3. (~more[N + 1].attr /\ \A k \in (i + 1)..(N + 1 - 1) : Done(more, k))
            <=> (~frame.attr /\ \A k \in (i + 1)..N : Done(calls, k))
        BY <1>1, <1>4
    <2>4. /\ \A j \in (i + 1)..(N + 1) : j = N + 1 \/ j \in (i + 1)..N
          /\ \A j \in (i + 1)..N : j \in (i + 1)..(N + 1)
          /\ N + 1 \in (i + 1)..(N + 1)
        BY <1>1
    <2>5. Within(more, i) <=>
            \/ \E j \in (i + 1)..N :
                ~more[j].attr /\ \A k \in (i + 1)..(j - 1) : Done(more, k)
            \/ ~more[N + 1].attr /\ \A k \in (i + 1)..(N + 1 - 1) : Done(more, k)
        BY <2>4, <1>1 DEF Within
    <2>6. Within(calls, i) <=>
            \E j \in (i + 1)..N :
                ~calls[j].attr /\ \A k \in (i + 1)..(j - 1) : Done(calls, k)
        BY <1>2 DEF Within
    <2>7. Within(more, i) <=>
            Within(calls, i) \/ (~frame.attr /\ \A k \in (i + 1)..N : Done(calls, k))
        BY <2>2, <2>3, <2>5, <2>6
    <2>8. QED
        BY <2>1, <2>7, <1>2 DEF Begun
<1>6. ASSUME NEW i \in 0..N
      PROVE  Account(more, FALSE)[i] = Account(calls, ~frame.attr)[i]
    <2>1. Left(more, i) = Left(calls, i)
        BY <1>1 DEF Left
    <2>2. i \in 0..Len(more) /\ i \in 0..Len(calls)
        BY <1>1, <1>2
    <2>3. QED
        BY <2>1, <2>2, <1>5 DEF Account
<1>7. Account(more, FALSE)[N + 1] = IF frame.attr THEN frame.left - 1 ELSE frame.left
    <2>1. N + 1 \in 0..Len(more) /\ N + 1 # 0
        BY <1>1
    <2>2. ~Begun(more, FALSE, N + 1)
        BY <1>1 DEF Begun, Within
    <2>3. QED
        BY <2>1, <2>2, <1>1 DEF Account, Left
<1>8. QED
    BY <1>1, <1>5, <1>6, <1>7 DEF N, more

-----------------------------------------------------------------------------
(* Tokens. *)

\* Of what Redis owes and what the reader counts, once the line of an element
\* is sent: Paid, and the account with that element begun.
LEMMA LineAgrees ==
    ASSUME owed \in Seq(Nat), stack \in Seq(Frame),
           Agrees(owed, Account(stack, FALSE), Len(stack))
    PROVE  /\ owed # <<>> /\ Agrees(Paid, Account(stack, TRUE), Len(stack))
           /\ Begun(stack, TRUE, 0) <=> AnswersKind \/ Begun(stack, FALSE, 0)
           /\ ~Begun(stack, FALSE, 0) => (AnswersKind <=> Len(owed) = 1)
           /\ AnswersKind => ~Begun(stack, FALSE, 0)
<1>1. PICK q \in 0..Len(stack) :
        /\ q > 0 => ~Done(stack, q)
        /\ \A i \in (q + 1)..Len(stack) : Done(stack, i)
    BY LastCall
<1> DEFINE N == Len(stack)
           f == Account(stack, FALSE)
           g == Account(stack, TRUE)
<1>2. /\ f[q] > 0 /\ \A i \in (q + 1)..N : f[i] = 0
      /\ g[q] = f[q] - 1 /\ \A i \in 0..N : i # q => g[i] = f[i]
    BY <1>1, LineBegins
<1>3. N \in Nat /\ f \in [0..N -> Nat] /\ g \in [0..N -> Nat] /\ Agrees(owed, f, N)
    BY FrameFacts, AccountFacts
<1>4. AnswersKind <=> q = 0
    <2>1. AnswersKind <=> \A i \in 1..N : Done(stack, i)
        BY DEF AnswersKind, Done
    <2>2. QED
        BY <2>1, <1>1, <1>3
<1>5. /\ q = 0 => ~Begun(stack, FALSE, 0) /\ Begun(stack, TRUE, 0)
      /\ q > 0 => (Begun(stack, FALSE, 0) <=> Begun(stack, TRUE, 0))
    <2>1. 0 \in 0..N
        BY <1>3
    <2>2. ASSUME NEW busy \in BOOLEAN
          PROVE  /\ 0 >= q => (Begun(stack, busy, 0) <=> busy)
                 /\ 0 < q => (Begun(stack, busy, 0) <=> Within(stack, 0))
        BY <2>1, <1>1, BegunAround
    <2>3. (q = 0 => 0 >= q) /\ (q > 0 => 0 < q)
        OBVIOUS
    <2>4. QED
        BY <2>2, <2>3
<1>6. ASSUME ~Begun(stack, FALSE, 0) PROVE q = 0 <=> Len(owed) = 1
    <2>1. f[0] = 1
        BY <1>3, <1>6 DEF Account, Left
    <2> HIDE DEF f
    <2>2. Len(owed) = 1 <=> \A i \in 1..N : f[i] = 0
        <3>1. f[0] > 0 /\ owed \in Seq(Nat)
            BY <2>1
        <3> HIDE DEF N
        <3>2. N \in Nat /\ f \in [0..N -> Nat] /\ Agrees(owed, f, N)
            BY <1>3
        <3>3. QED
            BY <3>1, <3>2, AgreesOne
    <2>3. q \in 1..N => f[q] # 0
        BY <1>2
    <2>4. q = 0 => \A i \in 1..N : f[i] = 0
        BY <1>2
    <2>5. QED
        BY <2>2, <2>3, <2>4, <1>3
<1> HIDE DEF f, g, N
<1>7. owed # <<>> /\ Agrees(Paid, g, N)
    BY <1>1, <1>2, <1>3, AgreesPaid DEF N
<1>8. q = 0 \/ q > 0
    OBVIOUS
<1>9. /\ Begun(stack, TRUE, 0) <=> AnswersKind \/ Begun(stack, FALSE, 0)
      /\ ~Begun(stack, FALSE, 0) => (AnswersKind <=> Len(owed) = 1)
      /\ AnswersKind => ~Begun(stack, FALSE, 0)
    BY <1>4, <1>5, <1>6, <1>8
<1>10. QED
    BY <1>7, <1>9 DEF g, N

\* What is left when a call returns after its last token.
LEMMA ReturnAgrees ==
    ASSUME NEW debts \in Seq(Nat), stack \in Seq(Frame),
           Agrees(debts, Account(stack, TRUE), Len(stack))
    PROVE  \/ /\ Return(stack) = <<>> /\ debts = <<>>
              /\ Begun(stack, TRUE, 0)
           \/ /\ Return(stack) \in Seq(Frame) /\ Return(stack) # <<>>
              /\ Len(Return(stack)) <= Len(stack)
              /\ Agrees(debts, Account(Return(stack), FALSE), Len(Return(stack)))
              /\ Begun(Return(stack), FALSE, 0) <=> Begun(stack, TRUE, 0)
<1> DEFINE N == Len(stack)
           f == Account(stack, TRUE)
<1>1. N \in Nat /\ f \in [0..N -> Nat]
    BY FrameFacts, AccountFacts
<1>2. CASE /\ Return(stack) = <<>> /\ Begun(stack, TRUE, 0)
           /\ \A i \in 0..N : f[i] = 0
    BY <1>1, <1>2, AgreesNothing
<1>3. ASSUME NEW top \in 1..N, stack[top].left > 1, Return(stack) = Cut(stack, top),
             \A i \in (top + 1)..N : stack[i].left = 1
      PROVE  /\ Return(stack) \in Seq(Frame) /\ Len(Return(stack)) = top
             /\ Return(stack) # <<>> /\ top <= N
             /\ Agrees(debts, Account(Return(stack), FALSE), top)
             /\ Begun(Return(stack), FALSE, 0) <=> Begun(stack, TRUE, 0)
    <2> DEFINE calls == Cut(stack, top)
               g == Account(calls, FALSE)
    <2>1. calls \in Seq(Frame) /\ Len(calls) = top /\ calls # <<>>
        <3>1. calls \in Seq(Frame) /\ Len(calls) = top
            BY <1>3, CutFacts
        <3>2. QED
            BY <3>1
    <2>2. /\ Begun(calls, FALSE, 0) <=> Begun(stack, TRUE, 0)
          /\ \A i \in 0..top : g[i] = f[i]
        BY <1>3, CallReturns
    <2>3. top \in 0..Len(stack)
        BY <1>1
    <2>4. \A i \in (top + 1)..N : f[i] = 0
        BY <2>3, <1>3, WaitsOn
    <2> HIDE DEF calls
    <2>5. g \in [0..top -> Nat]
        BY <2>1, AccountFacts
    <2>6. top \in 0..N /\ Agrees(debts, f, N)
        BY <2>3
    <2> HIDE DEF g, f, N
    <2>7. Agrees(debts, g, top)
        BY <2>2, <2>4, <2>5, <2>6, <1>1, AgreesLess
    <2>8. top <= N
        BY <1>1
    <2>9. Return(stack) = calls
        BY <1>3 DEF calls
    <2>10. QED
        BY <2>1, <2>2, <2>7, <2>8, <2>9 DEF g
<1>4. QED
    BY <1>2, <1>3, ReturnFacts

LEMMA LastPaid ==
    ASSUME owed \in Seq(Nat), owed # <<>>, Paid = <<>>
    PROVE  Len(owed) = 1
<1> DEFINE last == Len(owed)
<1>1. /\ last \in Nat /\ last > 0 /\ last = Len(owed) /\ Len(<<>>) = 0
      /\ \A i \in 1..last : owed[i] \in Nat
    OBVIOUS
<1>2. CASE owed[last] > 1
    <2>1. Paid = [owed EXCEPT ![last] = owed[last] - 1]
        BY <1>2 DEF Paid
    <2>2. Len(Paid) = last
        BY <2>1, <1>1
    <2>3. QED
        BY <2>2, <1>1
<1>3. CASE ~(owed[last] > 1)
    <2>1. Paid = SubSeq(owed, 1, last - 1)
        BY <1>3 DEF Paid
    <2> HIDE DEF last
    <2>2. /\ 1 \in Int /\ last - 1 \in Int
          /\ \A i \in 1..(last - 1) : owed[i] \in Nat
        BY <1>1
    <2>3. Len(SubSeq(owed, 1, last - 1)) = IF 1 <= last - 1 THEN last - 1 - 1 + 1 ELSE 0
        BY <2>2, SubSeqProperties
    <2>4. IF 1 <= last - 1 THEN last - 1 - 1 + 1 = 0 ELSE TRUE
        BY <2>1, <2>3, <1>1
    <2>5. last = 1
        BY <2>4, <1>1
    <2>6. QED
        BY <2>5, <1>1
<1>4. QED
    BY <1>2, <1>3

LEMMA LimitFacts ==
    /\ maxReplyDepth \in Nat /\ maxAggregateElements \in Nat /\ MaxTokens \in Nat
    /\ maxAggregateElements \div 2 \in Nat
    /\ 2 * (maxAggregateElements \div 2) <= maxAggregateElements
BY LimitsAssumption DEF LimitsAssumption

LEMMA TokenFacts ==
    ASSUME NEW t \in Token
    PROVE  /\ t.kind \in Kinds \cup {"payload"} /\ t.n \in Int
           /\ t.kind = "bulk" => t.n \in {-1, 0, 1}
           /\ t.kind = "array" => t.n \in -1..(maxAggregateElements + 1)
           /\ t.kind \in {"map", "attribute"} =>
                t.n \in 0..(maxAggregateElements \div 2 + 1)
BY LimitFacts DEF Token, Header, simple, bulk, array, pairs, payload, Kinds

LEMMA OwedFacts ==
    ASSUME TypeOK
    PROVE  /\ owed \in Seq(Nat) /\ stack \in Seq(Frame)
           /\ owed # <<>> => Paid \in Seq(1..(maxAggregateElements + 2)) /\ Paid \in Seq(Nat)
<1> DEFINE M == 1..(maxAggregateElements + 2)
           last == Len(owed)
<1>1. owed \in Seq(M) /\ stack \in Seq(Frame)
    BY DEF TypeOK
<1>2. M \subseteq Nat
    BY LimitFacts
<1> HIDE DEF M
<1>3. ASSUME NEW s \in Seq(M) PROVE s \in Seq(Nat)
    <2>1. Len(s) \in Nat /\ s \in [1..Len(s) -> M]
        OBVIOUS
    <2>2. s \in [1..Len(s) -> Nat]
        BY <2>1, <1>2
    <2>3. QED
        BY <2>1, <2>2
<1>4. ASSUME owed # <<>> PROVE Paid \in Seq(M)
    <2>1. /\ last \in Nat /\ last > 0 /\ last \in 1..Len(owed)
          /\ \A i \in 1..last : owed[i] \in M
        BY <1>1, <1>4
    <2>2. CASE owed[last] > 1
        <3>1. owed[last] - 1 \in M
            BY <2>1, <2>2, LimitFacts DEF M
        <3>2. Paid = [owed EXCEPT ![last] = owed[last] - 1]
            BY <2>2 DEF Paid
        <3>3. QED
            BY <1>1, <2>1, <3>1, <3>2, ExceptSeq
    <2>3. CASE ~(owed[last] > 1)
        <3>1. Paid = SubSeq(owed, 1, last - 1)
            BY <2>3 DEF Paid
        <3>2. 1 \in Int /\ last - 1 \in Int /\ \A i \in 1..(last - 1) : owed[i] \in M
            BY <2>1
        <3>3. QED
            BY <3>1, <3>2, SubSeqProperties
    <2>4. QED
        BY <2>2, <2>3
<1>5. QED
    BY <1>1, <1>3, <1>4 DEF M

-----------------------------------------------------------------------------
(* A token that Redis sends and the reader keeps. *)

Said(t) ==
    IF says = "none" /\ Len(owed) = 1 /\ ~pays /\ t.kind # "attribute"
    THEN t.kind ELSE says

\* The two agree on these calls, or on that the reply is whole.
Together(debts, calls, busy, said) ==
    \/ /\ debts = <<>> /\ calls = <<>> /\ ~busy
       /\ said # "none"
    \/ /\ Agrees(debts, Account(calls, busy), Len(calls))
       /\ calls \in Seq(Frame) /\ (calls # <<>> \/ busy)
       /\ said = "none" <=> ~Begun(calls, busy, 0)

Steady == TypeOK /\ Mirror /\ ~failed

LEMMA SteadyFacts ==
    ASSUME Steady
    PROVE  /\ owed \in Seq(Nat) /\ stack \in Seq(Frame)
           /\ inPayload \in BOOLEAN /\ inPayload = pays
           /\ Agrees(owed, Account(stack, inPayload), Len(stack))
           /\ says = "none" <=> ~Begun(stack, inPayload, 0)
           /\ says # "none" => kind = says
BY OwedFacts DEF Steady, Mirror, TypeOK

\* The line of an element: its kind is the reply's for both, or for neither.
LEMMA LineSays ==
    ASSUME Steady, ~inPayload, NEW t \in Token, t.kind # "payload", t.kind # "attribute"
    PROVE  /\ owed # <<>> /\ Agrees(Paid, Account(stack, TRUE), Len(stack))
           /\ Said(t) = "none" <=> ~Begun(stack, TRUE, 0)
           /\ Said(t) # "none" => (IF AnswersKind THEN t.kind ELSE kind) = Said(t)
<1>1. inPayload = FALSE /\ ~pays
    BY SteadyFacts
<1>2. /\ owed # <<>> /\ Agrees(Paid, Account(stack, TRUE), Len(stack))
      /\ Begun(stack, TRUE, 0) <=> AnswersKind \/ Begun(stack, FALSE, 0)
      /\ ~Begun(stack, FALSE, 0) => (AnswersKind <=> Len(owed) = 1)
      /\ AnswersKind => ~Begun(stack, FALSE, 0)
    BY <1>1, SteadyFacts, LineAgrees
<1>3. /\ says = "none" <=> ~Begun(stack, FALSE, 0)
      /\ says # "none" => kind = says
    BY <1>1, SteadyFacts
<1>4. t.kind # "none"
    BY TokenFacts DEF Kinds
<1>5. Said(t) = IF AnswersKind THEN t.kind ELSE says
    BY <1>1, <1>2, <1>3 DEF Said
<1>6. QED
    BY <1>2, <1>3, <1>4, <1>5

\* The payload of a bulk.
LEMMA PayloadKept ==
    ASSUME Steady, inPayload, NEW t \in Token, t.kind = "payload"
    PROVE  /\ Together(owed, Return(stack), FALSE, Said(t))
           /\ Said(t) # "none" => kind = Said(t)
<1>1. inPayload = TRUE /\ pays
    BY SteadyFacts
<1>2. Said(t) = says
    BY <1>1 DEF Said
<1>3. Agrees(owed, Account(stack, TRUE), Len(stack)) /\ owed \in Seq(Nat)
    BY <1>1, SteadyFacts
<1>4. /\ says = "none" <=> ~Begun(stack, TRUE, 0)
      /\ says # "none" => kind = says
    BY <1>1, SteadyFacts
<1>5. \/ /\ Return(stack) = <<>> /\ owed = <<>> /\ Begun(stack, TRUE, 0)
      \/ /\ Return(stack) \in Seq(Frame) /\ Return(stack) # <<>>
         /\ Agrees(owed, Account(Return(stack), FALSE), Len(Return(stack)))
         /\ Begun(Return(stack), FALSE, 0) <=> Begun(stack, TRUE, 0)
    BY <1>3, SteadyFacts, ReturnAgrees
<1>6. QED
    BY <1>2, <1>4, <1>5 DEF Together

\* A line with nothing after it.
LEMMA ScalarKept ==
    ASSUME Steady, ~inPayload, NEW t \in Token, t.kind # "payload", t.kind # "attribute"
    PROVE  Together(Paid, Return(stack), FALSE, Said(t))
<1>1. /\ owed # <<>> /\ Agrees(Paid, Account(stack, TRUE), Len(stack))
      /\ Said(t) = "none" <=> ~Begun(stack, TRUE, 0)
    BY LineSays
<1>2. Paid \in Seq(Nat) /\ stack \in Seq(Frame)
    BY <1>1, OwedFacts DEF Steady
<1>3. \/ /\ Return(stack) = <<>> /\ Paid = <<>> /\ Begun(stack, TRUE, 0)
      \/ /\ Return(stack) \in Seq(Frame) /\ Return(stack) # <<>>
         /\ Agrees(Paid, Account(Return(stack), FALSE), Len(Return(stack)))
         /\ Begun(Return(stack), FALSE, 0) <=> Begun(stack, TRUE, 0)
    BY <1>1, <1>2, ReturnAgrees
<1>4. QED
    BY <1>1, <1>3 DEF Together

\* The line of a bulk that has a payload.
LEMMA BulkKept ==
    ASSUME Steady, ~inPayload, NEW t \in Token, t.kind = "bulk"
    PROVE  Together(Paid, stack, TRUE, Said(t))
BY LineSays, SteadyFacts DEF Together

\* The line of an aggregate with elements in it.
LEMMA AggregateKept ==
    ASSUME Steady, ~inPayload, NEW t \in Token, t.kind \in {"array", "map"},
           NEW n \in Nat, n > 0, n <= maxAggregateElements + 1
    PROVE  Together(Append(Paid, n), Append(stack, [left |-> n, attr |-> FALSE]),
                    FALSE, Said(t))
<1> DEFINE N == Len(stack)
           frame == [left |-> n, attr |-> FALSE]
           more == Append(stack, frame)
           f == Account(stack, TRUE)
           g == Account(more, FALSE)
<1>1. /\ owed # <<>> /\ Agrees(Paid, f, N)
      /\ Said(t) = "none" <=> ~Begun(stack, TRUE, 0)
    BY LineSays
<1>2. Paid \in Seq(Nat) /\ stack \in Seq(Frame) /\ N \in Nat
    BY <1>1, OwedFacts, FrameFacts DEF Steady
<1>3. frame \in Frame /\ frame.attr = FALSE /\ frame.left = n
    BY LimitFacts DEF Frame
<1>4. /\ more \in Seq(Frame) /\ Len(more) = N + 1
      /\ \A i \in 0..N : g[i] = f[i] /\ (Begun(more, FALSE, i) <=> Begun(stack, TRUE, i))
      /\ g[N + 1] = n
    <2>1. (~frame.attr) = TRUE
        BY <1>3
    <2>2. /\ more \in Seq(Frame) /\ Len(more) = N + 1
          /\ \A i \in 0..N :
                /\ g[i] = Account(stack, ~frame.attr)[i]
                /\ Begun(more, FALSE, i) <=> Begun(stack, ~frame.attr, i)
          /\ g[N + 1] = IF frame.attr THEN frame.left - 1 ELSE frame.left
        BY <1>2, <1>3, CallMade
    <2>3. QED
        BY <2>1, <2>2, <1>3
<1>5. 0 \in 0..N
    BY <1>2
<1>6. f \in [0..N -> Nat] /\ g \in [0..(N + 1) -> Nat]
    BY <1>2, <1>4, AccountFacts
<1> HIDE DEF f, g, more, N
<1>7. Agrees(IF g[N + 1] > 0 THEN Append(Paid, g[N + 1]) ELSE Paid, g, N + 1)
    BY <1>1, <1>2, <1>4, <1>6, AgreesMore
<1>8. Agrees(Append(Paid, n), g, N + 1)
    BY <1>4, <1>7
<1>9. Said(t) = "none" <=> ~Begun(more, FALSE, 0)
    BY <1>1, <1>4, <1>5
<1>10. more # <<>>
    BY <1>2, <1>4
<1>11. QED
    BY <1>4, <1>8, <1>9, <1>10 DEF Together, g, more

\* The line of an attribute.
LEMMA AttributeKept ==
    ASSUME Steady, ~inPayload, NEW t \in Token, t.kind = "attribute",
           NEW n \in Nat, n <= maxAggregateElements
    PROVE  /\ Together(IF n > 0 THEN Append(owed, n) ELSE owed,
                       Append(stack, [left |-> n + 1, attr |-> TRUE]), FALSE, Said(t))
           /\ Said(t) # "none" => (IF AnswersKind THEN t.kind ELSE kind) = Said(t)
<1> DEFINE N == Len(stack)
           frame == [left |-> n + 1, attr |-> TRUE]
           more == Append(stack, frame)
           f == Account(stack, FALSE)
           g == Account(more, FALSE)
<1>1. inPayload = FALSE
    BY SteadyFacts
<1>2. /\ owed \in Seq(Nat) /\ stack \in Seq(Frame) /\ N \in Nat /\ Agrees(owed, f, N)
      /\ says = "none" <=> ~Begun(stack, FALSE, 0)
      /\ says # "none" => kind = says
    BY <1>1, SteadyFacts, FrameFacts
<1>3. Said(t) = says
    BY DEF Said
<1>4. AnswersKind => ~Begun(stack, FALSE, 0)
    BY <1>2, LineAgrees
<1>5. frame \in Frame /\ frame.attr = TRUE /\ frame.left = n + 1
    BY LimitFacts DEF Frame
<1>6. /\ more \in Seq(Frame) /\ Len(more) = N + 1
      /\ \A i \in 0..N : g[i] = f[i] /\ (Begun(more, FALSE, i) <=> Begun(stack, FALSE, i))
      /\ g[N + 1] = n
    <2>1. (~frame.attr) = FALSE
        BY <1>5
    <2>2. /\ more \in Seq(Frame) /\ Len(more) = N + 1
          /\ \A i \in 0..N :
                /\ g[i] = Account(stack, ~frame.attr)[i]
                /\ Begun(more, FALSE, i) <=> Begun(stack, ~frame.attr, i)
          /\ g[N + 1] = IF frame.attr THEN frame.left - 1 ELSE frame.left
        BY <1>2, <1>5, CallMade
    <2> HIDE DEF g, frame
    <2>3. g[N + 1] = frame.left - 1
        BY <2>2, <1>5
    <2>4. g[N + 1] = n
        BY <2>3, <1>5
    <2>5. QED
        BY <2>1, <2>2, <2>4
<1>7. 0 \in 0..N
    BY <1>2
<1>8. f \in [0..N -> Nat] /\ g \in [0..(N + 1) -> Nat]
    BY <1>2, <1>6, AccountFacts
<1> HIDE DEF f, g, more, N
<1>9. Agrees(IF g[N + 1] > 0 THEN Append(owed, g[N + 1]) ELSE owed, g, N + 1)
    BY <1>2, <1>6, <1>8, AgreesMore
<1>10. Agrees(IF n > 0 THEN Append(owed, n) ELSE owed, g, N + 1)
    BY <1>6, <1>9
<1>11. says = "none" <=> ~Begun(more, FALSE, 0)
    BY <1>2, <1>6, <1>7
<1>12. more # <<>>
    BY <1>2, <1>6
<1>13. Together(IF n > 0 THEN Append(owed, n) ELSE owed, more, FALSE, Said(t))
    BY <1>3, <1>6, <1>10, <1>11, <1>12 DEF Together, g
<1>14. QED
    BY <1>2, <1>3, <1>4, <1>13 DEF more

\* Unless the reply is whole, Redis owes more of it.
LEMMA OwesMore ==
    ASSUME NEW debts \in Seq(Nat), NEW calls \in Seq(Frame),
           Agrees(debts, Account(calls, FALSE), Len(calls))
    PROVE  debts # <<>>
<1>1. PICK q \in 0..Len(calls) :
        /\ q > 0 => ~Done(calls, q)
        /\ \A i \in (q + 1)..Len(calls) : Done(calls, i)
    BY LastCall
<1> DEFINE f == Account(calls, FALSE)
<1>2. f[q] > 0
    BY <1>1, LineBegins
<1>3. Len(calls) \in Nat /\ f \in [0..Len(calls) -> Nat]
    BY FrameFacts, AccountFacts
<1> HIDE DEF f
<1>4. debts = <<>> => \A i \in 0..Len(calls) : f[i] = 0
    BY <1>3, AgreesNothing DEF f
<1>5. QED
    BY <1>2, <1>4

\* The depth of the recursion, as far as a call that returns is concerned.
LEMMA ReturnShorter ==
    ASSUME NEW calls \in Seq(Frame)
    PROVE  /\ Return(calls) \in Seq(Frame)
           /\ Len(Return(calls)) <= Len(calls)
<1>1. CASE Return(calls) = <<>>
    BY <1>1, FrameFacts, EmptySeq
<1>2. ASSUME NEW top \in 1..Len(calls), calls[top].left > 1, Return(calls) = Cut(calls, top)
      PROVE  Return(calls) \in Seq(Frame) /\ Len(Return(calls)) <= Len(calls)
    <2>1. Return(calls) \in Seq(Frame) /\ Len(Return(calls)) = top
        BY <1>2, CutFacts
    <2>2. QED
        BY <2>1, FrameFacts
<1>3. QED
    BY <1>1, <1>2, ReturnFacts

\* A token that is read leaves both with the same account of the reply.
LEMMA TokenKept ==
    ASSUME Steady, NEW t \in Token, Send(t), ReadPayload(t) \/ ReadLine(t)
    PROVE  /\ inPayload' = pays' /\ inPayload' \in BOOLEAN
           /\ Together(Owing(t), stack', inPayload', Said(t))
           /\ Said(t) # "none" => kind' = Said(t)
           /\ Owing(t) \in Seq(1..(maxAggregateElements + 2)) /\ Owing(t) \in Seq(Nat)
           /\ stack' \in Seq(Frame) /\ Len(stack') <= maxReplyDepth + 1
<1> DEFINE M == 1..(maxAggregateElements + 2)
<1>1. /\ owed \in Seq(Nat) /\ owed \in Seq(M) /\ stack \in Seq(Frame) /\ Len(stack) \in Nat
      /\ inPayload \in BOOLEAN /\ inPayload = pays
      /\ Len(stack) <= maxReplyDepth + 1
      /\ t.kind = "payload" <=> pays
      /\ pays' = (t.kind = "bulk" /\ t.n >= 0)
    BY SteadyFacts, FrameFacts DEF Steady, TypeOK, Send
<1>2. M \subseteq Nat
    BY LimitFacts
<1>3. Return(stack) \in Seq(Frame) /\ Len(Return(stack)) <= maxReplyDepth + 1
    BY <1>1, ReturnShorter, LimitFacts
<1> HIDE DEF M
<1>4. CASE ReadPayload(t)
    <2>1. /\ inPayload /\ inPayload' = FALSE /\ stack' = Return(stack) /\ kind' = kind
          /\ t.kind = "payload"
        BY <1>1, <1>4 DEF ReadPayload, Continue
    <2>2. Owing(t) = owed
        BY <2>1 DEF Owing
    <2>3. /\ Together(owed, Return(stack), FALSE, Said(t))
          /\ Said(t) # "none" => kind = Said(t)
        BY <2>1, PayloadKept
    <2>4. QED
        BY <1>1, <1>3, <2>1, <2>2, <2>3 DEF M
<1>5. ASSUME ReadLine(t)
      PROVE  /\ ~inPayload /\ ~TooDeep /\ ~TooMany(t) /\ t.kind # "payload"
             /\ inPayload' = HasPayload(t) /\ HasPayload(t) \in BOOLEAN
             /\ stack' = IF HasPayload(t) THEN stack
                         ELSE IF Elements(t) = 0 THEN Return(stack)
                         ELSE Append(stack, [left |-> Elements(t), attr |-> t.kind = "attribute"])
             /\ kind' = IF AnswersKind THEN t.kind ELSE kind
    BY <1>5 DEF ReadLine, Continue, HasPayload
<1>6. ASSUME ReadLine(t), t.kind # "attribute"
      PROVE  /\ Said(t) # "none" => kind' = Said(t)
             /\ owed # <<>> /\ Paid \in Seq(M) /\ Paid \in Seq(Nat)
    <2>1. /\ owed # <<>>
          /\ Said(t) # "none" => (IF AnswersKind THEN t.kind ELSE kind) = Said(t)
        BY <1>5, <1>6, LineSays
    <2>2. Paid \in Seq(M) /\ Paid \in Seq(Nat)
        BY <2>1, OwedFacts DEF Steady, M
    <2>3. QED
        BY <1>5, <1>6, <2>1, <2>2
<1>7. CASE ReadLine(t) /\ HasPayload(t)
    <2>1. /\ t.kind = "bulk" /\ t.kind # "attribute" /\ pays' /\ inPayload' = TRUE
          /\ stack' = stack
        BY <1>1, <1>5, <1>7 DEF HasPayload
    <2>2. Owing(t) = Paid
        BY <2>1 DEF Owing
    <2>3. Together(Paid, stack, TRUE, Said(t))
        BY <1>5, <1>7, <2>1, BulkKept
    <2>4. QED
        BY <1>1, <1>6, <1>7, <2>1, <2>2, <2>3 DEF M
<1>8. CASE ReadLine(t) /\ ~HasPayload(t) /\ Elements(t) = 0
    <2>1. /\ t.kind # "attribute" /\ ~pays' /\ inPayload' = FALSE /\ stack' = Return(stack)
          /\ t.kind \in {"array", "map"} => ~(t.n > 0)
        <3>1. t.kind = "attribute" => Elements(t) = 2 * t.n + 1 /\ t.n \in Nat
            BY TokenFacts, LimitFacts DEF Elements
        <3>2. t.kind = "map" => Elements(t) = 2 * t.n /\ t.n \in Nat
            BY TokenFacts, LimitFacts DEF Elements
        <3>3. t.kind = "array" /\ t.n > 0 => Elements(t) = t.n
            BY DEF Elements
        <3>4. t.kind # "attribute"
            BY <1>8, <3>1
        <3>5. /\ t.kind = "array" => ~(t.n > 0)
              /\ t.kind = "map" => ~(t.n > 0)
            BY <1>8, <3>2, <3>3
        <3>6. ~pays' /\ inPayload' = FALSE /\ stack' = Return(stack)
            BY <1>1, <1>5, <1>8 DEF HasPayload
        <3>7. QED
            BY <3>4, <3>5, <3>6
    <2>2. Owing(t) = Paid
        BY <1>5, <1>8, <2>1 DEF Owing
    <2>3. Together(Paid, Return(stack), FALSE, Said(t))
        BY <1>5, <1>8, <2>1, ScalarKept
    <2>4. QED
        BY <1>1, <1>3, <1>6, <1>8, <2>1, <2>2, <2>3 DEF M
<1>9. CASE ReadLine(t) /\ t.kind \in {"array", "map"} /\ Elements(t) # 0
    <2> DEFINE n == Elements(t)
    <2>1. /\ t.kind # "attribute" /\ ~pays' /\ inPayload' = FALSE
          /\ ~inPayload /\ ~TooDeep
          /\ stack' = Append(stack, [left |-> n, attr |-> FALSE])
        BY <1>1, <1>5, <1>9 DEF HasPayload
    <2>2. n \in Nat /\ n > 0 /\ n <= maxAggregateElements /\ Owing(t) = Append(Paid, n)
        <3>1. CASE t.kind = "array"
            <4>1. /\ ~(t.n > maxAggregateElements) /\ t.n \in Int
                  /\ n = IF t.n > 0 THEN t.n ELSE 0
                BY <3>1, <1>5, <1>9, TokenFacts DEF Elements, TooMany
            <4>2. t.n > 0
                BY <4>1, <1>9
            <4>3. Owing(t) = Append(Paid, t.n)
                BY <3>1, <4>2 DEF Owing
            <4>4. QED
                BY <4>1, <4>2, <4>3, LimitFacts
        <3>2. CASE t.kind = "map"
            <4>1. /\ ~(t.n > maxAggregateElements \div 2) /\ t.n \in Int
                  /\ n = 2 * t.n /\ t.n >= 0
                BY <3>2, <1>5, <1>9, TokenFacts, LimitFacts DEF Elements, TooMany
            <4>2. t.n > 0
                BY <4>1, <1>9
            <4>3. Owing(t) = Append(Paid, 2 * t.n)
                BY <3>2, <4>2 DEF Owing
            <4>4. QED
                BY <4>1, <4>2, <4>3, LimitFacts
        <3>3. QED
            BY <3>1, <3>2, <1>9
    <2> HIDE DEF n
    <2>3. Together(Append(Paid, n), stack', FALSE, Said(t))
        <3>1. n \in Nat /\ n > 0 /\ n <= maxAggregateElements + 1
            BY <2>2, LimitFacts
        <3>2. Together(Append(Paid, n), Append(stack, [left |-> n, attr |-> FALSE]),
                       FALSE, Said(t))
            BY <1>9, <2>1, <3>1, AggregateKept
        <3>3. QED
            BY <2>1, <3>2
    <2>4. n \in M
        BY <2>2, LimitFacts DEF M
    <2>5. Append(Paid, n) \in Seq(M) /\ Append(Paid, n) \in Seq(Nat)
        BY <1>6, <1>9, <2>1, <2>2, <2>4
    <2>6. stack' \in Seq(Frame) /\ Len(stack') <= maxReplyDepth + 1
        <3>1. [left |-> n, attr |-> FALSE] \in Frame
            BY <2>2, LimitFacts DEF Frame
        <3>2. QED
            BY <3>1, <2>1, <1>1, LimitFacts, AppendProperties DEF TooDeep
    <2>7. QED
        BY <1>1, <1>6, <1>9, <2>1, <2>2, <2>3, <2>5, <2>6 DEF M
<1>10. CASE ReadLine(t) /\ t.kind = "attribute"
    <2> DEFINE n == 2 * t.n
    <2>1. /\ n \in Nat /\ n <= maxAggregateElements /\ Elements(t) = n + 1
          /\ Owing(t) = IF n > 0 THEN Append(owed, n) ELSE owed
        <3>1. t.n \in Nat
            BY <1>5, <1>10, TokenFacts
        <3>2. ~TooMany(t)
            BY <1>5, <1>10
        <3>3. n <= maxAggregateElements
            BY <1>10, <3>1, <3>2, LimitFacts DEF TooMany
        <3>4. Elements(t) = n + 1
            BY <1>10 DEF Elements
        <3>5. Owing(t) = IF t.n > 0 THEN Append(owed, n) ELSE owed
            BY <1>10 DEF Owing
        <3>6. t.n > 0 <=> n > 0
            BY <3>1
        <3>7. QED
            BY <3>1, <3>3, <3>4, <3>5, <3>6
    <2>2. /\ ~pays' /\ inPayload' = FALSE /\ ~inPayload /\ ~TooDeep
          /\ stack' = Append(stack, [left |-> n + 1, attr |-> TRUE])
        <3>1. ~HasPayload(t) /\ ~pays'
            BY <1>1, <1>10 DEF HasPayload
        <3>2. Elements(t) = n + 1 /\ Elements(t) # 0
            BY <2>1
        <3>3. (t.kind = "attribute") = TRUE
            BY <1>10
        <3>4. QED
            BY <1>5, <1>10, <3>1, <3>2, <3>3
    <2> HIDE DEF n
    <2>3. /\ Together(Owing(t), stack', FALSE, Said(t))
          /\ Said(t) # "none" => kind' = Said(t)
        BY <1>5, <1>10, <2>1, <2>2, AttributeKept
    <2>4. n > 0 => n \in M
        BY <2>1, LimitFacts DEF M
    <2>5. Owing(t) \in Seq(M) /\ Owing(t) \in Seq(Nat)
        BY <1>1, <2>1, <2>4
    <2>6. stack' \in Seq(Frame) /\ Len(stack') <= maxReplyDepth + 1
        <3>1. [left |-> n + 1, attr |-> TRUE] \in Frame
            BY <2>1, LimitFacts DEF Frame
        <3>2. QED
            BY <3>1, <2>2, <1>1, LimitFacts, AppendProperties DEF TooDeep
    <2>7. QED
        BY <1>1, <2>2, <2>3, <2>5, <2>6 DEF M
<1>11. Elements(t) # 0 => t.kind \in {"array", "map", "attribute"} /\ ~HasPayload(t)
    BY DEF Elements, HasPayload
<1>12. QED
    BY <1>4, <1>7, <1>8, <1>9, <1>10, <1>11

-----------------------------------------------------------------------------
(* The steps. *)

\* What is passed on and what is kept make up what was sent.
LEMMA RawFacts ==
    ASSUME NEW S, NEW s \in Seq(S), NEW r \in Seq(S), NEW t \in S
    PROVE  /\ s \o Append(r, t) = Append(s \o r, t)
           /\ s \o <<>> = s
           /\ s \o r \in Seq(S) /\ Append(s \o r, t) \in Seq(S)
           /\ Len(s) \in Nat /\ Len(r) \in Nat
           /\ Len(s \o r) = Len(s) + Len(r)
           /\ Len(Append(s \o r, t)) = Len(s) + Len(r) + 1
<1>1. /\ s \o r \in Seq(S) /\ Len(s \o r) = Len(s) + Len(r)
      /\ Append(r, t) \in Seq(S) /\ <<>> \in Seq(S)
    BY ConcatProperties, AppendProperties, EmptySeq
<1>2. s \o Append(r, t) = Append(s \o r, t)
    BY ConcatProperties, AppendProperties
<1>3. QED
    BY <1>1, <1>2

\* A prefix of what was sent remains one.
LEMMA PrefixStays ==
    ASSUME NEW S, NEW s \in Seq(S), NEW f \in Seq(S), NEW t \in S,
           f = SubSeq(s, 1, Len(f)), Len(f) <= Len(s)
    PROVE  f = SubSeq(Append(s, t), 1, Len(f))
<1> DEFINE n == Len(f)
<1>1. n \in Nat /\ Len(s) \in Nat /\ n <= Len(s)
    OBVIOUS
<1>2. Len(Append(s, t)) = Len(s) + 1 /\ \A i \in 1..Len(s) : Append(s, t)[i] = s[i]
    BY AppendProperties
<1>3. SubSeq(s, 1, n) = [i \in 1..n |-> s[i]]
    BY <1>1
<1>4. SubSeq(Append(s, t), 1, n) = [i \in 1..n |-> Append(s, t)[i]]
    BY <1>1, <1>2
<1>5. \A i \in 1..n : Append(s, t)[i] = s[i]
    BY <1>1, <1>2
<1>6. QED
    BY <1>3, <1>4, <1>5

LEMMA EndingFacts ==
    ASSUME NEW es \in Seq(Ending), NEW e \in Ending
    PROVE  /\ Append(es, e) \in Seq(Ending)
           /\ Len(Append(es, e)) = Len(es) + 1 /\ Len(es) \in Nat
           /\ LastEnd(Append(es, e)) = e.at
           /\ DOMAIN es = 1..Len(es)
           /\ \A i \in DOMAIN es : Append(es, e)[i] = es[i]
BY AppendProperties DEF LastEnd

\* What Redis does, without the LETs of Send.
LEMMA SendFacts ==
    ASSUME NEW t \in Token, Send(t)
    PROVE  LET whole == Owing(t) = <<>> /\ ~pays'
           IN  /\ Len(sent) < MaxTokens /\ sent' = Append(sent, t)
               /\ pays' = (t.kind = "bulk" /\ t.n >= 0)
               /\ whole => /\ owed' = <<1>>
                           /\ ends' = Append(ends, [at |-> Len(sent) + 1, kind |-> Said(t)])
                           /\ says' = "none"
               /\ ~whole => owed' = Owing(t) /\ ends' = ends /\ says' = Said(t)
BY DEF Send, Said

LEMMA InitIInv == Init => IInv
<1> SUFFICES ASSUME Init PROVE IInv
    OBVIOUS
<1>1. TypeOK
    <2>1. <<1>> \in Seq(1..(maxAggregateElements + 2))
        <3>1. 1 \in 1..(maxAggregateElements + 2)
            BY LimitFacts
        <3>2. QED
            BY <3>1
    <2>2. <<>> \in Seq(Token) /\ <<>> \in Seq(Ending) /\ <<>> \in Seq(Frame)
        BY EmptySeq
    <2>3. Len(<<>>) = 0 /\ 0 <= MaxTokens /\ 0 <= maxReplyDepth + 1
        BY LimitFacts
    <2>4. "simple" \in Kinds
        BY DEF Kinds
    <2>5. QED
        BY <2>1, <2>2, <2>3, <2>4 DEF Init, TypeOK
<1>2. WholeReplies
    <2>1. SubSeq(<<>>, 1, 0) = <<>> /\ Len(<<>>) = 0 /\ DOMAIN <<>> = {}
        OBVIOUS
    <2>2. QED
        BY <2>1 DEF Init, WholeReplies, LastEnd
<1>3. Mirror
    <2>1. ~Begun(<<>>, FALSE, 0) /\ Len(<<>>) = 0 /\ <<>> \o <<>> = <<>>
        BY DEF Begun, Within
    <2>2. <<1>> # <<>>
        OBVIOUS
    <2>3. QED
        BY <2>1, <2>2, AgreesFresh DEF Init, Mirror
<1>4. QED
    BY <1>1, <1>2, <1>3 DEF IInv

\* A reply of Redis, as the history has it.
LEMMA SaidType ==
    ASSUME TypeOK, NEW t \in Token, ~pays => t.kind # "payload"
    PROVE  /\ Said(t) \in Kinds \cup {"none"}
           /\ Said(t) # "none" => [at |-> Len(sent) + 1, kind |-> Said(t)] \in Ending
<1>1. Said(t) \in Kinds \cup {"none"}
    BY TokenFacts DEF Said, TypeOK
<1>2. Len(sent) + 1 \in Nat
    BY DEF TypeOK
<1>3. QED
    BY <1>1, <1>2 DEF Ending

\* The state of a connection that still works: what Mirror says, and types.
LEMMA Working ==
    ASSUME IInv, ~failed
    PROVE  /\ Steady
           /\ sent \in Seq(Token) /\ forwarded \in Seq(Token) /\ raw \in Seq(Token)
           /\ sent = forwarded \o raw /\ ends \in Seq(Ending) /\ answers = ends
           /\ Len(sent) = Len(forwarded) + Len(raw)
           /\ Len(forwarded) \in Nat /\ Len(raw) \in Nat
           /\ forwarded = SubSeq(sent, 1, Len(forwarded))
           /\ Len(forwarded) = LastEnd(answers)
           /\ \A t \in Token : forwarded \o Append(raw, t) = Append(sent, t)
<1>1. /\ Steady /\ sent \in Seq(Token) /\ forwarded \in Seq(Token) /\ raw \in Seq(Token)
      /\ sent = forwarded \o raw /\ ends \in Seq(Ending) /\ answers = ends
      /\ forwarded = SubSeq(sent, 1, Len(forwarded))
      /\ Len(forwarded) = LastEnd(answers)
    BY DEF IInv, Steady, Mirror, TypeOK, WholeReplies
<1>2. /\ Len(sent) = Len(forwarded) + Len(raw)
      /\ Len(forwarded) \in Nat /\ Len(raw) \in Nat
    <2>1. Len(forwarded \o raw) = Len(forwarded) + Len(raw)
        BY <1>1, ConcatProperties
    <2>2. QED
        BY <1>1, <2>1
<1>3. \A t \in Token : forwarded \o Append(raw, t) = Append(sent, t)
    BY <1>1, RawFacts
<1>4. QED
    BY <1>1, <1>2, <1>3

\* The reader keeps what Redis sent.
LEMMA StepKeeps ==
    ASSUME IInv, ~failed, NEW t \in Token, Send(t), ReadPayload(t) \/ ReadLine(t)
    PROVE  IInv'
<1> DEFINE whole == Owing(t) = <<>> /\ ~pays'
           ending == [at |-> Len(sent) + 1, kind |-> Said(t)]
           M == 1..(maxAggregateElements + 2)
<1>1. /\ Steady /\ TypeOK
      /\ sent \in Seq(Token) /\ forwarded \in Seq(Token) /\ raw \in Seq(Token)
      /\ sent = forwarded \o raw /\ ends \in Seq(Ending) /\ answers = ends
      /\ Len(sent) = Len(forwarded) + Len(raw)
      /\ Len(forwarded) \in Nat /\ Len(raw) \in Nat
      /\ forwarded = SubSeq(sent, 1, Len(forwarded))
      /\ Len(forwarded) = LastEnd(answers)
      /\ forwarded \o Append(raw, t) = Append(sent, t)
    BY Working DEF IInv
<1>2. /\ inPayload' = pays' /\ inPayload' \in BOOLEAN
      /\ Together(Owing(t), stack', inPayload', Said(t))
      /\ Said(t) # "none" => kind' = Said(t)
      /\ Owing(t) \in Seq(M) /\ Owing(t) \in Seq(Nat)
      /\ stack' \in Seq(Frame) /\ Len(stack') <= maxReplyDepth + 1
    BY <1>1, TokenKept
<1>3. /\ Len(sent) < MaxTokens /\ sent' = Append(sent, t)
      /\ whole => owed' = <<1>> /\ ends' = Append(ends, ending) /\ says' = "none"
      /\ ~whole => owed' = Owing(t) /\ ends' = ends /\ says' = Said(t)
    BY SendFacts
<1>4. /\ kind' \in Kinds /\ failed' = FALSE
      /\ \/ /\ stack' = <<>> /\ ~inPayload' /\ raw' = <<>>
            /\ forwarded' = Append(sent, t)
            /\ answers' = Append(answers, [at |-> Len(sent) + 1, kind |-> kind'])
         \/ /\ stack' # <<>> \/ inPayload'
            /\ raw' = Append(raw, t) /\ forwarded' = forwarded /\ answers' = answers
    <2>1. kind \in Kinds /\ (t.kind # "payload" => t.kind \in Kinds)
        BY <1>1, TokenFacts DEF TypeOK
    <2>2. CASE ReadPayload(t)
        BY <2>1, <2>2, <1>1 DEF ReadPayload, Continue, Deliver
    <2>3. CASE ReadLine(t)
        BY <2>1, <2>3, <1>1 DEF ReadLine, Continue, Deliver
    <2>4. QED
        BY <2>2, <2>3
<1>5. Said(t) \in Kinds \cup {"none"} /\ (Said(t) # "none" => ending \in Ending)
    BY <1>1, SaidType DEF Send
<1>6. /\ sent' \in Seq(Token) /\ Len(sent') = Len(sent) + 1 /\ Len(sent') <= MaxTokens
      /\ Append(raw, t) \in Seq(Token) /\ <<>> \in Seq(Token) /\ <<>> \in Seq(Frame)
    BY <1>1, <1>3, LimitFacts, AppendProperties, EmptySeq
<1>7. CASE whole
    <2>1. /\ stack' = <<>> /\ ~inPayload' /\ Said(t) # "none" /\ kind' = Said(t)
        BY <1>2, <1>7, OwesMore DEF Together
    <2>2. /\ raw' = <<>> /\ forwarded' = sent' /\ ending \in Ending
          /\ answers' = Append(ends, ending) /\ ends' = Append(ends, ending)
        BY <1>1, <1>3, <1>4, <1>5, <1>7, <2>1
    <2>3. /\ ends' \in Seq(Ending) /\ LastEnd(ends') = Len(sent) + 1
          /\ Len(ends') \in Nat
        BY <1>1, <2>2, EndingFacts
    <2>4. owed' = <<1>> /\ <<1>> \in Seq(M) /\ <<1>> # <<>>
        <3>1. 1 \in M
            BY LimitFacts
        <3>2. QED
            BY <3>1, <1>3, <1>7
    <2>5. TypeOK'
        BY <1>2, <1>4, <1>3, <1>6, <1>7, <2>2, <2>3, <2>4 DEF TypeOK
    <2>6. WholeReplies'
        <3>1. SubSeq(sent', 1, Len(sent')) = sent'
            BY <1>6, SubSeqFull
        <3>2. QED
            BY <1>6, <2>2, <2>3, <3>1 DEF WholeReplies
    <2>7. Mirror'
        <3>1. sent' \o <<>> = sent'
            BY <1>6
        <3>2. ~Begun(<<>>, FALSE, 0) /\ Len(<<>>) = 0
            BY DEF Begun, Within
        <3>3. inPayload' = FALSE /\ says' = "none" /\ answers' = ends'
            BY <1>2, <1>3, <1>7, <2>1, <2>2
        <3>4. Agrees(owed', Account(stack', inPayload'), Len(stack'))
            BY <2>1, <2>4, <3>2, <3>3, AgreesFresh
        <3>5. QED
            BY <1>2, <2>1, <2>2, <2>4, <3>1, <3>2, <3>3, <3>4 DEF Mirror
    <2>8. QED
        BY <2>5, <2>6, <2>7 DEF IInv
<1>8. CASE ~whole
    <2>1. /\ Agrees(Owing(t), Account(stack', inPayload'), Len(stack'))
          /\ stack' # <<>> \/ inPayload'
          /\ Said(t) = "none" <=> ~Begun(stack', inPayload', 0)
        BY <1>2, <1>8 DEF Together
    <2>2. raw' = Append(raw, t) /\ forwarded' = forwarded /\ answers' = answers
        BY <1>4, <2>1
    <2>3. owed' = Owing(t) /\ ends' = ends /\ says' = Said(t)
        BY <1>3, <1>8
    <2>4. TypeOK'
        BY <1>1, <1>2, <1>4, <1>5, <1>6, <2>2, <2>3 DEF TypeOK
    <2>5. WholeReplies'
        <3>1. forwarded = SubSeq(sent', 1, Len(forwarded))
            BY <1>1, <1>3, PrefixStays
        <3>2. Len(ends) \in Nat
            BY <1>1
        <3>3. QED
            BY <1>1, <2>2, <2>3, <3>1, <3>2 DEF WholeReplies
    <2>6. Mirror'
        <3>1. sent' = forwarded' \o raw'
            BY <1>1, <1>3, <2>2
        <3>2. owed' = <<>> => pays'
            BY <1>8, <2>3
        <3>3. Agrees(owed', Account(stack', inPayload'), Len(stack'))
            BY <2>1, <2>3
        <3>4. QED
            BY <1>1, <1>2, <2>1, <2>2, <2>3, <3>1, <3>2, <3>3 DEF Mirror
    <2>7. QED
        BY <2>4, <2>5, <2>6 DEF IInv
<1>9. QED
    BY <1>7, <1>8

\* The reader gives up, or the connection ends: what was passed on stays.
LEMMA StepFails ==
    ASSUME IInv, ~failed, Fail,
           UNCHANGED redis \/ \E t \in Token : Send(t) /\ ReadFails(t)
    PROVE  IInv'
<1>1. /\ Steady /\ TypeOK /\ WholeReplies /\ Mirror
      /\ sent \in Seq(Token) /\ forwarded \in Seq(Token) /\ raw \in Seq(Token)
      /\ ends \in Seq(Ending) /\ answers = ends
      /\ Len(sent) = Len(forwarded) + Len(raw)
      /\ Len(forwarded) \in Nat /\ Len(raw) \in Nat
      /\ forwarded = SubSeq(sent, 1, Len(forwarded))
      /\ Len(forwarded) = LastEnd(answers)
    BY Working DEF IInv
<1>2. /\ failed' = TRUE /\ stack' = stack /\ inPayload' = inPayload /\ raw' = raw
      /\ kind' = kind /\ forwarded' = forwarded /\ answers' = answers
    BY DEF Fail, reader
<1>3. CASE UNCHANGED redis
    <2>1. /\ sent' = sent /\ ends' = ends /\ owed' = owed /\ pays' = pays /\ says' = says
        BY <1>3 DEF redis
    <2>2. QED
        BY <1>1, <1>2, <2>1 DEF IInv, TypeOK, WholeReplies, Mirror
<1>4. ASSUME NEW t \in Token, Send(t), ReadFails(t) PROVE IInv'
    <2> DEFINE M == 1..(maxAggregateElements + 2)
               whole == Owing(t) = <<>> /\ ~pays'
               ending == [at |-> Len(sent) + 1, kind |-> Said(t)]
    <2>1. ~pays /\ t.kind # "payload" /\ owed # <<>>
        BY <1>1, <1>4, SteadyFacts DEF ReadFails, Send, Mirror
    <2>2. Owing(t) \in Seq(M) /\ 1 \in M
        <3>1. Paid \in Seq(M) /\ owed \in Seq(M)
            BY <1>1, <2>1, OwedFacts DEF TypeOK
        <3>2. t.kind = "array" /\ t.n > 0 => t.n \in M
            BY TokenFacts, LimitFacts
        <3>3. t.kind \in {"map", "attribute"} /\ t.n > 0 => 2 * t.n \in M
            BY TokenFacts, LimitFacts
        <3>4. 1 \in M
            BY LimitFacts
        <3> HIDE DEF M
        <3>5. CASE t.kind = "array"
            <4>1. Owing(t) = IF t.n > 0 THEN Append(Paid, t.n) ELSE Paid
                BY <3>5 DEF Owing
            <4>2. QED
                BY <4>1, <3>1, <3>2, <3>4, <3>5
        <3>6. CASE t.kind = "map"
            <4>1. Owing(t) = IF t.n > 0 THEN Append(Paid, 2 * t.n) ELSE Paid
                BY <3>6 DEF Owing
            <4>2. QED
                BY <4>1, <3>1, <3>3, <3>4, <3>6
        <3>7. CASE t.kind = "attribute"
            <4>1. Owing(t) = IF t.n > 0 THEN Append(owed, 2 * t.n) ELSE owed
                BY <3>7 DEF Owing
            <4>2. QED
                BY <4>1, <3>1, <3>3, <3>4, <3>7
        <3>8. CASE t.kind \notin {"array", "map", "attribute"}
            <4>1. Owing(t) = Paid
                BY <2>1, <3>8 DEF Owing
            <4>2. QED
                BY <4>1, <3>1, <3>4
        <3>9. QED
            BY <3>4, <3>5, <3>6, <3>7, <3>8
    <2>3. /\ sent' = Append(sent, t) /\ Len(sent) < MaxTokens
          /\ whole => owed' = <<1>> /\ ends' = Append(ends, ending) /\ says' = "none"
          /\ ~whole => owed' = Owing(t) /\ ends' = ends /\ says' = Said(t)
          /\ pays' \in BOOLEAN
        BY <1>4, SendFacts
    <2>4. /\ sent' \in Seq(Token) /\ Len(sent') <= MaxTokens
          /\ forwarded = SubSeq(sent', 1, Len(forwarded))
        <3>1. sent' \in Seq(Token) /\ Len(sent') = Len(sent) + 1
            BY <1>1, <2>3, AppendProperties
        <3>2. Len(forwarded) <= Len(sent) /\ Len(sent) \in Nat
            BY <1>1
        <3>3. forwarded = SubSeq(Append(sent, t), 1, Len(forwarded))
            BY <1>1, <3>2, PrefixStays
        <3>4. QED
            BY <2>3, <3>1, <3>2, <3>3, LimitFacts
    <2>5. Said(t) \in Kinds \cup {"none"} /\ (Said(t) # "none" => ending \in Ending)
        BY <1>1, <2>1, SaidType
    <2>6. ASSUME whole PROVE Said(t) # "none"
        <3>1. Paid \in Seq(M) /\ owed \in Seq(M) /\ Len(owed) \in Nat /\ Len(owed) > 0
            BY <1>1, <2>1, OwedFacts DEF TypeOK
        <3>2. t.kind # "attribute" /\ Paid = <<>>
            BY <2>1, <2>6, <3>1 DEF Owing
        <3>3. Len(owed) = 1
            BY <1>1, <2>1, <3>2, OwedFacts, LastPaid
        <3>4. t.kind # "none"
            BY TokenFacts DEF Kinds
        <3>5. QED
            BY <2>1, <3>2, <3>3, <3>4 DEF Said
    <2>7. <<1>> \in Seq(M) /\ <<1>> # <<>>
        BY <2>2
    <2>8. ends' \in Seq(Ending) /\ (ends' = ends \/ ends' = Append(ends, ending))
        BY <1>1, <2>3, <2>5, <2>6, EndingFacts
    <2>9. /\ owed' \in Seq(M) /\ (owed' = <<>> => pays')
          /\ says' \in Kinds \cup {"none"}
        BY <2>2, <2>3, <2>5, <2>7
    <2>10. TypeOK'
        BY <1>1, <1>2, <2>3, <2>4, <2>8, <2>9 DEF TypeOK
    <2>11. WholeReplies'
        <3>1. Len(answers) <= Len(ends') /\ \A i \in DOMAIN answers : answers[i] = ends'[i]
            <4>1. Len(ends) \in Nat /\ DOMAIN ends = 1..Len(ends)
                BY <1>1
            <4>2. CASE ends' = ends
                BY <1>1, <4>1, <4>2
            <4>3. CASE whole /\ ends' = Append(ends, ending)
                BY <1>1, <2>5, <2>6, <4>1, <4>3, EndingFacts
            <4>4. QED
                BY <2>3, <4>2, <4>3
        <3>2. QED
            BY <1>1, <1>2, <2>4, <3>1 DEF WholeReplies
    <2>12. QED
        BY <1>2, <2>9, <2>10, <2>11 DEF IInv, Mirror
<1>5. QED
    BY <1>3, <1>4

LEMMA StepIInv == IInv /\ [Next]_vars => IInv'
<1> SUFFICES ASSUME IInv, [Next]_vars PROVE IInv'
    OBVIOUS
<1>1. CASE UNCHANGED vars
    <2>1. UNCHANGED <<sent, ends, owed, pays, says, stack, inPayload, raw, kind,
                      forwarded, answers, failed>>
        BY <1>1 DEF vars, redis, reader
    <2>2. QED
        BY <2>1 DEF IInv, TypeOK, WholeReplies, Mirror
<1>2. CASE Lost
    BY <1>2, StepFails DEF Lost
<1>3. ASSUME NEW t \in Token, Step(t) PROVE IInv'
    <2>1. ~failed /\ Send(t) /\ (ReadPayload(t) \/ ReadLine(t) \/ ReadFails(t))
        BY <1>3 DEF Step
    <2>2. CASE ReadPayload(t) \/ ReadLine(t)
        BY <2>1, <2>2, StepKeeps
    <2>3. CASE ReadFails(t)
        BY <2>1, <2>3, StepFails DEF ReadFails
    <2>4. QED
        BY <2>1, <2>2, <2>3
<1>4. QED
    BY <1>1, <1>2, <1>3 DEF Next

LEMMA InvIInv == Spec => []IInv
<1>1. QED
    BY InitIInv, StepIInv, PTL DEF Spec

-----------------------------------------------------------------------------
(* The results. *)

\* readReplyRawDepth calls itself no deeper than maxReplyDepth allows, and no
\* call waits for more elements than maxAggregateElements and an annotated one.
THEOREM TypeCorrect == Spec => []TypeOK
<1>1. IInv => TypeOK
    BY DEF IInv
<1>2. QED
    BY <1>1, InvIInv, PTL

\* ReadReplyRaw ends where the reply ends, whatever nests in it and wherever
\* attributes are: what forwardCommand writes to the app is the replies of
\* Redis, whole, in order, each with its kind.
THEOREM RepliesCorrect == Spec => []WholeReplies
<1>1. IInv => WholeReplies
    BY DEF IInv
<1>2. QED
    BY <1>1, InvIInv, PTL

\* ReadReplyRaw asks Redis for no token beyond the end of a reply.
THEOREM NothingHeldCorrect == Spec => []NothingHeldBack
<1>1. IInv => NothingHeldBack
    BY DEF IInv, Mirror, NothingHeldBack
<1>2. QED
    BY <1>1, InvIInv, PTL

=============================================================================
