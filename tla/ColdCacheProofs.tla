--------------------------- MODULE ColdCacheProofs ---------------------------
(***************************************************************************)
(* The invariants of ColdCache, for every set of keys, every list of       *)
(* patterns and every budget.                                              *)
(***************************************************************************)
EXTENDS ColdCache, TLAPS

Deleting == pc \in {"delete", "fallback"}

\* Removals are covered by the budget already spent; a delete that is about to
\* be sent has a key and a unit of budget left.
BudgetInv ==
    /\ deleted + count <= MaxKeysDelete
    /\ pc # "done" => removals <= deleted + count
    /\ removals <= MaxKeysDelete
    /\ pc = "fallback" => keys # <<>> /\ Remaining > 0

Permitted == ~target.remote \/ target.allowed

RemoteInv ==
    /\ pc = "guard" => removals = 0
    /\ pc \in {"scan", "delete", "fallback"} => Permitted
    /\ RemoteUntouched

\* The patterns before p are cold; of the current one what is still warm is
\* owed by SCAN or waiting in the reply.
Warm(i) == (store \cap Patterns[i]) \ written

ColdInv ==
    /\ result = "none" <=> pc # "done"
    /\ pc # "done" => \A i \in 1..(p - 1) : Warm(i) = {}
    /\ pc = "guard" => p = 1
    /\ Deleting => Warm(p) \subseteq owed \cup Returned(keys)
    /\ Deleting /\ cursor = "0" => owed = {}
    /\ pc = "scan" /\ cursor = "more" => Warm(p) \subseteq owed
    /\ pc = "guard" => cursor = "0"
    /\ ColdUnderBudget

IInv == TypeOK /\ BudgetInv /\ RemoteInv /\ ColdInv

-----------------------------------------------------------------------------
(* Sequences of keys. *)

LEMMA HeadTail ==
    ASSUME NEW s \in Seq(Key), s # <<>>
    PROVE  /\ Head(s) \in Key
           /\ Tail(s) \in Seq(Key)
           /\ Returned(s) = {Head(s)} \cup Returned(Tail(s))
<1>1. Head(s) \in Key /\ Tail(s) \in Seq(Key)
    OBVIOUS
<1>2. Returned(s) \subseteq {Head(s)} \cup Returned(Tail(s))
    <2> SUFFICES ASSUME NEW i \in DOMAIN s
                 PROVE  s[i] = Head(s) \/ \E j \in DOMAIN Tail(s) : s[i] = Tail(s)[j]
        BY DEF Returned
    <2>1. CASE i = 1
        BY <2>1
    <2>2. CASE i # 1
        <3>1. i - 1 \in DOMAIN Tail(s) /\ s[i] = Tail(s)[i - 1]
            BY <2>2
        <3> QED BY <3>1
    <2> QED BY <2>1, <2>2
<1>3. {Head(s)} \cup Returned(Tail(s)) \subseteq Returned(s)
    <2>1. Head(s) \in Returned(s)
        <3>1. 1 \in DOMAIN s /\ s[1] = Head(s)
            OBVIOUS
        <3> QED BY <3>1 DEF Returned
    <2>2. ASSUME NEW j \in DOMAIN Tail(s)
          PROVE  Tail(s)[j] \in Returned(s)
        <3>1. j + 1 \in DOMAIN s /\ s[j + 1] = Tail(s)[j]
            OBVIOUS
        <3> QED BY <3>1 DEF Returned
    <2> QED BY <2>1, <2>2 DEF Returned
<1> QED BY <1>1, <1>2, <1>3

LEMMA BatchType == ASSUME NEW s \in Batch PROVE s \in Seq(Key)
BY DEF Batch

LEMMA EmptyIsSeq == <<>> \in Seq(Key)
OBVIOUS

LEMMA FirstPattern == 1 \in DOMAIN Patterns
BY PatternsAssumption

LEMMA EmptyReturns == Returned(<<>>) = {}
BY DEF Returned

-----------------------------------------------------------------------------
(* What the executed delete does, whether Redis answers or not. *)

LEMMA RemovesOne ==
    ASSUME TypeOK, NEW k \in Key, Removes(k)
    PROVE  /\ store' \in SUBSET Key
           /\ removals' \in Nat
           /\ removals' <= removals + 1
           /\ store' = store \ {k}
BY DEF TypeOK, Removes

\* A key is left and the budget is not spent when a delete is sent.
LEMMA DeleteSent ==
    ASSUME TypeOK, BudgetInv, pc = "fallback" \/ AtKey
    PROVE  /\ keys # <<>>
           /\ deleted + count < MaxKeysDelete
           /\ pc \in {"delete", "fallback"}
BY LimitAssumption DEF TypeOK, BudgetInv, AtKey, Remaining

LEMMA DeletedPreserves ==
    ASSUME IInv, pc = "fallback" \/ AtKey, Deleted, UNCHANGED useDel
    PROVE  IInv'
<1> USE LimitAssumption, PatternsAssumption
<1>1. /\ keys # <<>> /\ deleted + count < MaxKeysDelete
      /\ pc \in {"delete", "fallback"}
    BY DeleteSent DEF IInv
<1>2. /\ Head(keys) \in Key /\ Tail(keys) \in Seq(Key)
      /\ Returned(keys) = {Head(keys)} \cup Returned(Tail(keys))
    BY <1>1, HeadTail DEF IInv, TypeOK
<1>3. /\ store' \in SUBSET Key /\ removals' \in Nat
      /\ removals' <= removals + 1 /\ store' = store \ {Head(keys)}
    BY <1>2, RemovesOne DEF IInv, Deleted
<1>4. TypeOK'
    BY <1>1, <1>2, <1>3 DEF IInv, TypeOK, Deleted
<1>5. BudgetInv'
    BY <1>1, <1>3 DEF IInv, TypeOK, BudgetInv, Deleted
<1>6. RemoteInv'
    BY <1>1 DEF IInv, RemoteInv, RemoteUntouched, Permitted, Deleted
<1>7. ColdInv'
    <2>1. Warm(p)' \subseteq (owed \cup Returned(keys))'
        BY <1>1, <1>2, <1>3 DEF IInv, ColdInv, Deleting, Warm, Deleted
    <2>2. \A i \in 1..(p - 1) : Warm(i)' = {}
        BY <1>1, <1>3 DEF IInv, ColdInv, Warm, Deleted
    <2> QED BY <1>1, <2>1, <2>2 DEF IInv, ColdInv, ColdUnderBudget, Deleting, Deleted
<1> QED BY <1>4, <1>5, <1>6, <1>7 DEF IInv

-----------------------------------------------------------------------------
(* Every step keeps the invariant. *)

LEMMA InitInv == Init => IInv
<1> SUFFICES ASSUME Init PROVE IInv
    OBVIOUS
<1> USE LimitAssumption, PatternsAssumption
<1>1. TypeOK
    <2>1. p \in DOMAIN Patterns /\ keys \in Seq(Key)
        BY EmptyIsSeq, FirstPattern DEF Init
    <2>2. 0 \in 0..MaxKeysDelete /\ 0 \in Nat
        OBVIOUS
    <2> QED BY <2>1, <2>2, Zenon DEF Init, TypeOK
<1>2. BudgetInv /\ RemoteInv
    BY DEF Init, BudgetInv, RemoteInv, RemoteUntouched
<1>3. ColdInv
    BY DEF Init, ColdInv, Deleting, ColdUnderBudget
<1> QED BY <1>1, <1>2, <1>3 DEF IInv

LEMMA ScanPreserves == ASSUME IInv, Scan PROVE IInv'
<1> USE LimitAssumption, PatternsAssumption
<1> DEFINE matching == store \cap Patterns[p]
           due == Owed(cursor, owed, matching)
<1>1. PICK reply \in Batch, next \in {"0", "more"} :
        /\ ScanReply(reply, next, due, matching)
        /\ keys' = reply /\ cursor' = next /\ owed' = due \ Returned(reply)
    BY DEF Scan
<1>2. reply \in Seq(Key)
    BY BatchType
<1>3. due \in SUBSET Key
    BY DEF IInv, TypeOK, Owed
<1>4. TypeOK'
    BY <1>1, <1>2, <1>3 DEF IInv, TypeOK, Scan, tally
<1>5. BudgetInv' /\ RemoteInv'
    BY DEF IInv, TypeOK, BudgetInv, RemoteInv, RemoteUntouched, Permitted, Scan, tally
<1>6. ColdInv'
    <2>1. Warm(p) \subseteq due
        BY DEF IInv, TypeOK, ColdInv, Warm, Owed, Scan
    <2>2. Warm(p)' \subseteq (owed \cup Returned(keys))'
        BY <1>1, <2>1 DEF Warm, Scan
    <2>3. cursor' = "0" => owed' = {}
        BY <1>1 DEF ScanReply
    <2> QED BY <2>2, <2>3 DEF IInv, ColdInv, ColdUnderBudget, Deleting, Warm, Scan, tally
<1> QED BY <1>4, <1>5, <1>6 DEF IInv

\* A pattern that is done and has not spent the budget is cold.
LEMMA DonePatternCold ==
    ASSUME IInv, PatternDone, deleted + count < MaxKeysDelete
    PROVE  Warm(p) = {}
<1>1. keys = <<>> /\ cursor = "0" /\ pc = "delete"
    BY LimitAssumption DEF IInv, TypeOK, PatternDone, Remaining
<1> QED BY <1>1, EmptyReturns DEF IInv, ColdInv, Deleting

LEMMA NextPatternPreserves == ASSUME IInv, NextPattern PROVE IInv'
<1> USE LimitAssumption, PatternsAssumption
<1>1. Warm(p) = {}
    BY DonePatternCold DEF NextPattern
<1>2. TypeOK'
    <2>1. p' \in DOMAIN Patterns
        BY DEF IInv, TypeOK, NextPattern
    <2>2. /\ deleted + count \in 0..MaxKeysDelete
          /\ 0 \in 0..MaxKeysDelete
        BY DEF IInv, TypeOK, NextPattern
    <2> QED BY <2>1, <2>2, EmptyIsSeq DEF IInv, TypeOK, NextPattern
<1>3. BudgetInv' /\ RemoteInv'
    BY DEF IInv, TypeOK, BudgetInv, RemoteInv, RemoteUntouched, Permitted, NextPattern, PatternDone
<1>4. ColdInv'
    <2>1. \A i \in 1..(p' - 1) : Warm(i)' = {}
        BY <1>1 DEF IInv, TypeOK, ColdInv, Warm, NextPattern, PatternDone
    <2> QED BY <2>1 DEF IInv, TypeOK, ColdInv, ColdUnderBudget, Deleting, NextPattern, PatternDone
<1> QED BY <1>2, <1>3, <1>4 DEF IInv

LEMMA FinishPreserves == ASSUME IInv, Finish PROVE IInv'
<1> USE LimitAssumption, PatternsAssumption
<1>1. TypeOK'
    BY DEF IInv, TypeOK, BudgetInv, Finish, Return, scan
<1>2. BudgetInv' /\ RemoteInv'
    BY DEF IInv, TypeOK, BudgetInv, RemoteInv, RemoteUntouched, Permitted, Finish, Return, PatternDone
<1>3. ColdInv'
    <2>1. ColdUnderBudget'
        <3> SUFFICES ASSUME deleted + count < MaxKeysDelete
                     PROVE  \A i \in DOMAIN Patterns : Warm(i) = {}
            BY DEF ColdUnderBudget, Finish, Warm
        <3>1. p = Len(Patterns) /\ Warm(p) = {}
            BY DonePatternCold DEF IInv, TypeOK, Finish
        <3>2. \A i \in 1..(p - 1) : Warm(i) = {}
            BY DEF IInv, ColdInv, Finish, PatternDone
        <3> QED BY <3>1, <3>2
    <2> QED BY <2>1 DEF IInv, ColdInv, Deleting, Finish, Return
<1> QED BY <1>1, <1>2, <1>3 DEF IInv

LEMMA FailsPreserves == ASSUME IInv, Fails PROVE IInv'
<1> USE LimitAssumption, PatternsAssumption
<1>1. /\ pc # "done"
      /\ store' \in SUBSET Key /\ removals' \in Nat /\ removals' <= MaxKeysDelete
      /\ removals' > 0 => Permitted
    <2>1. CASE UNCHANGED <<store, removals>>
        BY <2>1 DEF IInv, TypeOK, BudgetInv, RemoteInv, RemoteUntouched, Permitted, Fails, AtKey
    <2>2. CASE (pc = "fallback" \/ AtKey) /\ Removes(Head(keys))
        <3>1. /\ keys # <<>> /\ deleted + count < MaxKeysDelete
              /\ pc \in {"delete", "fallback"}
            BY <2>2, DeleteSent DEF IInv
        <3>2. Head(keys) \in Key
            BY <3>1, HeadTail DEF IInv, TypeOK
        <3>3. store' \in SUBSET Key /\ removals' \in Nat /\ removals' <= removals + 1
            BY <2>2, <3>2, RemovesOne DEF IInv
        <3> QED BY <3>1, <3>3 DEF IInv, TypeOK, BudgetInv, RemoteInv
    <2> QED BY <2>1, <2>2 DEF Fails
<1>2. TypeOK'
    BY <1>1 DEF IInv, TypeOK, Fails, Return, scan, tally
<1>3. BudgetInv' /\ RemoteInv'
    BY <1>1 DEF IInv, TypeOK, BudgetInv, RemoteInv, RemoteUntouched, Permitted, Fails, Return, scan, tally
<1>4. ColdInv'
    BY DEF ColdInv, ColdUnderBudget, Deleting, Fails, Return
<1> QED BY <1>2, <1>3, <1>4 DEF IInv

LEMMA AppPreserves ==
    ASSUME IInv, NEW k \in Key, Write(k) \/ Remove(k)
    PROVE  IInv'
<1> USE LimitAssumption, PatternsAssumption
<1>1. /\ UNCHANGED <<target, pc, p, cursor, keys, tally, result, removals>>
      /\ pc # "done"
    BY DEF Write, Remove, scan
<1>2. TypeOK'
    BY DEF IInv, TypeOK, Write, Remove, scan, tally
<1>3. BudgetInv' /\ RemoteInv'
    BY <1>1 DEF IInv, TypeOK, BudgetInv, RemoteInv, RemoteUntouched, Permitted, Remaining, tally
<1>4. ColdInv'
    <2>1. \A i : Warm(i)' \subseteq Warm(i) /\ k \notin Warm(i)'
        BY DEF Warm, Write, Remove
    <2>2. owed \ {k} \subseteq owed' /\ owed' \subseteq owed
        BY DEF Write, Remove, scan
    <2> QED BY <1>1, <2>1, <2>2 DEF IInv, ColdInv, ColdUnderBudget, Deleting
<1> QED BY <1>2, <1>3, <1>4 DEF IInv

LEMMA NextInv == IInv /\ [Next]_vars => IInv'
<1> SUFFICES ASSUME IInv, [Next]_vars PROVE IInv'
    OBVIOUS
<1> USE LimitAssumption, PatternsAssumption
<1>1. CASE Refuse
    BY <1>1 DEF IInv, TypeOK, BudgetInv, RemoteInv, RemoteUntouched, ColdInv,
                ColdUnderBudget, Deleting, Refuse, Return, scan, tally
<1>2. CASE Dial
    BY <1>2 DEF IInv, TypeOK, BudgetInv, RemoteInv, RemoteUntouched, Permitted, ColdInv,
                ColdUnderBudget, Deleting, Warm, Dial, scan, tally
<1>3. CASE Scan
    BY <1>3, ScanPreserves
<1>4. CASE Unlink
    BY <1>4, DeletedPreserves DEF Unlink
<1>5. CASE UnlinkUnknown
    <2>1. TypeOK' /\ RemoteInv' /\ BudgetInv'
        BY <1>5 DEF IInv, TypeOK, BudgetInv, RemoteInv, RemoteUntouched, Permitted,
                    UnlinkUnknown, AtKey, Remaining, scan
    <2>2. ColdInv'
        BY <1>5 DEF IInv, ColdInv, ColdUnderBudget, Deleting, Warm, UnlinkUnknown, AtKey, scan
    <2> QED BY <2>1, <2>2 DEF IInv
<1>6. CASE Del
    BY <1>6, DeletedPreserves DEF Del
<1>7. CASE NextScan
    <2>1. TypeOK' /\ RemoteInv' /\ BudgetInv'
        BY <1>7 DEF IInv, TypeOK, BudgetInv, RemoteInv, RemoteUntouched, Permitted,
                    NextScan, scan, tally
    <2>2. ColdInv'
        BY <1>7, EmptyReturns DEF IInv, ColdInv, ColdUnderBudget, Deleting, Warm, NextScan, scan, tally
    <2> QED BY <2>1, <2>2 DEF IInv
<1>8. CASE NextPattern
    BY <1>8, NextPatternPreserves
<1>9. CASE Finish
    BY <1>9, FinishPreserves
<1>10. CASE Fails
    BY <1>10, FailsPreserves
<1>11. CASE \E k \in Key : Write(k) \/ Remove(k)
    BY <1>11, AppPreserves
<1>12. CASE UNCHANGED vars
    <2>1. TypeOK' /\ BudgetInv' /\ RemoteInv'
        BY <1>12 DEF IInv, TypeOK, BudgetInv, RemoteInv, RemoteUntouched, Permitted,
                     Remaining, vars, scan, tally
    <2>2. ColdInv'
        BY <1>12 DEF IInv, ColdInv, ColdUnderBudget, Deleting, Warm, vars, scan, tally
    <2> QED BY <2>1, <2>2 DEF IInv
<1> QED BY <1>1, <1>2, <1>3, <1>4, <1>5, <1>6, <1>7, <1>8, <1>9, <1>10, <1>11, <1>12 DEF Next

-----------------------------------------------------------------------------
\* The inductive invariant holds in every state of DeleteColdCache.
THEOREM Invariance == Spec => []IInv
BY InitInv, NextInv, PTL DEF Spec

\* Type correctness of DeleteColdCache.
THEOREM TypeCorrect == Spec => []TypeOK
<1>1. IInv => TypeOK
    BY DEF IInv
<1> QED BY <1>1, Invariance, PTL

\* However patterns overlap and SCAN repeats itself, no more than
\* max_keys_delete keys are removed.
THEOREM BudgetCorrect == Spec => []DeleteBudget
<1>1. IInv => DeleteBudget
    BY DEF IInv, BudgetInv, DeleteBudget
<1> QED BY <1>1, Invariance, PTL

\* A deletion that ends well below its budget leaves a cold cache.
THEOREM ColdCorrect == Spec => []ColdUnderBudget
<1>1. IInv => ColdUnderBudget
    BY DEF IInv, ColdInv
<1> QED BY <1>1, Invariance, PTL

\* A remote Redis is touched only with --allow-remote-destructive.
THEOREM RemoteCorrect == Spec => []RemoteUntouched
<1>1. IInv => RemoteUntouched
    BY DEF IInv, RemoteInv
<1> QED BY <1>1, Invariance, PTL

=============================================================================
