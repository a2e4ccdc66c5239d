--------------------------- MODULE SpinlockProofs ---------------------------
(***************************************************************************)
(* Proofs about Spinlock for any number of CPUs, locks and classes.        *)
(***************************************************************************)
EXTENDS Spinlock, SequenceTheorems, WellFoundedInduction, TLAPS

\* Pushing on a lock or token stack keeps what is below.
LEMMA PushStack ==
    ASSUME NEW S, NEW s \in Seq(S), NEW x \in S
    PROVE  /\ Append(s, x) \in Seq(S)
           /\ Len(Append(s, x)) = Len(s) + 1
           /\ \A i \in 1..Len(s) : Append(s, x)[i] = s[i]
           /\ Append(s, x)[Len(s) + 1] = x
BY AppendProperties

\* Popping the top of a lock or token stack keeps what is below.
LEMMA PopStack ==
    ASSUME NEW S, NEW s \in Seq(S), Len(s) # 0
    PROVE  /\ SubSeq(s, 1, Len(s) - 1) \in Seq(S)
           /\ Len(SubSeq(s, 1, Len(s) - 1)) = Len(s) - 1
           /\ \A i \in 1..(Len(s) - 1) : SubSeq(s, 1, Len(s) - 1)[i] = s[i]
<1> DEFINE n == Len(s) - 1
           t == SubSeq(s, 1, n)
<1>1. 1 \in Int /\ n \in Int /\ n >= 0 /\ \A i \in 1..n : s[i] \in S
  BY ElementOfSeq, LenProperties
<1> HIDE DEF n
<1>2. /\ t \in Seq(S)
      /\ Len(t) = IF 1 <= n THEN n - 1 + 1 ELSE 0
      /\ \A i \in 1..(n - 1 + 1) : t[i] = s[1 + i - 1]
  BY <1>1, SubSeqProperties
<1> HIDE DEF t
<1>3. Len(t) = n
  BY <1>1, <1>2
<1>4. \A i \in 1..n : t[i] = s[i]
  BY <1>1, <1>2
<1> QED
  BY <1>2, <1>3, <1>4 DEF t, n

\* A nonempty set of naturals below a bound has a greatest element.
LEMMA GreatestExists ==
    ASSUME NEW m \in Nat, NEW T \in SUBSET (0..m), T # {}
    PROVE  \E x \in T : \A y \in T : y <= x
<1> DEFINE U == {m - x : x \in T}
<1>1. U \subseteq Nat /\ U # {}
  <2>1. \A x \in T : m - x \in Nat
    OBVIOUS
  <2>2. PICK x \in T : TRUE
    OBVIOUS
  <2>3. m - x \in U
    OBVIOUS
  <2>4. U \subseteq Nat
    BY <2>1
  <2> QED BY <2>3, <2>4
<1> DEFINE R == OpToRel(<, Nat)
<1>2. PICK u \in U : \A v \in U : ~(<<v, u>> \in R)
  <2> HIDE DEF U
  <2> QED BY <1>1, WFMin, NatLessThanWellFounded
<1>3. \A v \in U : ~(v < u)
  BY <1>1, <1>2 DEF OpToRel
<1>4. PICK x \in T : u = m - x
  BY <1>2
<1>5. \A y \in T : m - y \in U
  OBVIOUS
<1>6. \A y \in T : ~(m - y < m - x)
  BY <1>3, <1>4, <1>5
<1> QED BY <1>4, <1>6

\* What the type invariant says about one CPU's stacks.
LEMMA StackFacts ==
    ASSUME SpinTypeOK, NEW c \in CPU
    PROVE  /\ held[c] \in Seq(Lock) /\ token[c] \in Seq({0, 1})
           /\ Depth(c) \in Nat /\ Len(token[c]) \in Nat
           /\ \A i \in 1..Depth(c) :
                  held[c][i] \in Lock /\ Class[held[c][i]] \in 0..MaxClass
           /\ \A i \in 1..Len(token[c]) : token[c][i] \in {0, 1}
<1>1. held[c] \in Seq(Lock) /\ token[c] \in Seq({0, 1})
  BY DEF SpinTypeOK
<1>2. Depth(c) \in Nat /\ Len(token[c]) \in Nat
  BY <1>1, LenProperties DEF Depth
<1>3. \A i \in 1..Depth(c) : held[c][i] \in Lock
  BY <1>1, ElementOfSeq DEF Depth
<1>4. \A i \in 1..Len(token[c]) : token[c][i] \in {0, 1}
  BY <1>1, ElementOfSeq
<1> QED
  BY <1>1, <1>2, <1>3, <1>4, SpinlockAssumption

\* The initial state: no lock owned, no CPU spinning or waiting.
LEMMA InitIInv == SpinInit => IInv
BY SpinlockAssumption
   DEF SpinInit, IInv, SpinTypeOK, OwnershipExact, ClassOrder, IrqsOffWhileHolding,
       PreemptBalanced, TlbWaitExcludesLocks, TokensNested, Holds, Depth, Spinning

\* The conjuncts that speak of stacks and requests only are preserved by a
\* step that leaves those alone.
LEMMA StacksUnchanged ==
    ASSUME OwnershipExact, ClassOrder, TokensNested,
           UNCHANGED <<owner, held, token, want, wantIF>>
    PROVE  OwnershipExact' /\ ClassOrder' /\ TokensNested'
BY DEF OwnershipExact, ClassOrder, TokensNested, Holds, Depth, Spinning

\* A request that passes the checks.
LEMMA EnterIInv ==
    ASSUME IInv, NEW c \in CPU, NEW l \in Lock, AcquireEnter(c, l)
    PROVE  IInv'
<1> USE SpinlockAssumption
<1>0. /\ SpinTypeOK /\ OwnershipExact /\ ClassOrder /\ IrqsOffWhileHolding
      /\ PreemptBalanced /\ TlbWaitExcludesLocks /\ TokensNested
  BY DEF IInv
<1>1. SpinTypeOK'
  BY <1>0 DEF SpinTypeOK, AcquireEnter
<1>2. held' = held /\ token' = token /\ owner' = owner /\ tlbWait' = tlbWait
  BY DEF AcquireEnter
<1>3. \A d \in CPU : want'[d] = IF d = c THEN l ELSE want[d]
  BY <1>0 DEF AcquireEnter, SpinTypeOK
<1>4. want[c] = NoOwner /\ tlbWait[c] = 0 /\ l # NoOwner
  BY DEF AcquireEnter, AcquireAllowed, Spinning
<1>5. OwnershipExact'
  BY <1>0, <1>2 DEF OwnershipExact, Holds, Depth
<1>6. ClassOrder'
  <2>1. \A i \in 1..Depth(c) : Class[held[c][i]] < Class[l]
    <3> SUFFICES ASSUME NEW i \in 1..Depth(c) PROVE Class[held[c][i]] < Class[l]
      OBVIOUS
    <3>1. Depth(c) \in Nat /\ Class[held[c][i]] \in 0..MaxClass
      BY <1>0, StackFacts
    <3>2. Class[Top(c)] < Class[l] /\ Class[l] \in 0..MaxClass
      BY <3>1 DEF AcquireEnter, AcquireAllowed
    <3>3. Class[Top(c)] \in 0..MaxClass
      BY <1>0, <3>1, StackFacts DEF Top
    <3>4. i = Depth(c) \/ Class[held[c][i]] < Class[Top(c)]
      BY <1>0, <3>1 DEF ClassOrder, Top
    <3> QED BY <3>1, <3>2, <3>3, <3>4 DEF Top
  <2> QED
    BY <1>0, <1>2, <1>3, <2>1 DEF ClassOrder, Depth, Spinning
<1>7. \A d \in CPU : IF_'[d] = IF d = c THEN 0 ELSE IF_[d]
  BY <1>0 DEF AcquireEnter, SpinTypeOK
<1>8. IrqsOffWhileHolding'
  BY <1>0, <1>2, <1>3, <1>7 DEF IrqsOffWhileHolding, Depth, Spinning
<1>9. PreemptBalanced'
  <2>1. \A d \in CPU : preempt'[d] = IF d = c THEN preempt[d] + 1 ELSE preempt[d]
    BY <1>0 DEF AcquireEnter, SpinTypeOK
  <2>2. \A d \in CPU : Depth(d) \in Nat /\ tlbWait[d] \in {0, 1}
    BY <1>0, StackFacts DEF SpinTypeOK
  <2> QED
    BY <1>0, <1>2, <1>3, <1>4, <2>1, <2>2 DEF PreemptBalanced, Depth, Spinning
<1>10. TlbWaitExcludesLocks'
  BY <1>0, <1>2, <1>3, <1>4, <1>7
     DEF TlbWaitExcludesLocks, Depth, Spinning, AcquireEnter
<1>11. TokensNested'
  <2>1. \A d \in CPU : wantIF'[d] = IF d = c THEN IF_[d] ELSE wantIF[d]
    BY <1>0 DEF AcquireEnter, SpinTypeOK
  <2> QED
    BY <1>0, <1>2, <1>3, <2>1
       DEF TokensNested, IrqsOffWhileHolding, Depth, Spinning
<1> QED BY <1>1, <1>5, <1>6, <1>8, <1>9, <1>10, <1>11 DEF IInv

\* The exchange that takes the lock.
LEMMA ExchangeIInv ==
    ASSUME IInv, NEW c \in CPU, AcquireExchange(c)
    PROVE  IInv'
<1> USE SpinlockAssumption
<1>0. /\ SpinTypeOK /\ OwnershipExact /\ ClassOrder /\ IrqsOffWhileHolding
      /\ PreemptBalanced /\ TlbWaitExcludesLocks /\ TokensNested
  BY DEF IInv
<1> DEFINE l == want[c]
           n == Depth(c)
<1>1. /\ l \in Lock /\ l # NoOwner /\ wantIF[c] \in {0, 1} /\ n \in Nat
      /\ owner[l] = NoOwner /\ NoOwner \notin CPU /\ n + 1 \in Nat
  BY <1>0, StackFacts DEF SpinTypeOK, AcquireExchange, Spinning
<1>2. /\ Append(held[c], l) \in Seq(Lock)
      /\ Len(Append(held[c], l)) = n + 1
      /\ \A i \in 1..n : Append(held[c], l)[i] = held[c][i]
      /\ Append(held[c], l)[n + 1] = l
  BY <1>0, <1>1, PushStack, StackFacts DEF Depth
<1>3. /\ held' = [held EXCEPT ![c] = Append(held[c], l)]
      /\ \A d \in CPU : d # c => held'[d] = held[d]
      /\ held'[c] = Append(held[c], l)
  BY <1>0 DEF AcquireExchange, SpinTypeOK
<1>4. /\ Append(token[c], wantIF[c]) \in Seq({0, 1})
      /\ Len(Append(token[c], wantIF[c])) = n + 1
      /\ \A i \in 1..n : Append(token[c], wantIF[c])[i] = token[c][i]
      /\ Append(token[c], wantIF[c])[n + 1] = wantIF[c]
  <2>1. Len(token[c]) = n
    BY <1>0 DEF TokensNested
  <2>2. token[c] \in Seq({0, 1})
    BY <1>0, StackFacts
  <2> HIDE DEF n
  <2> QED BY <1>1, <2>1, <2>2, PushStack
<1>5. /\ token' = [token EXCEPT ![c] = Append(token[c], wantIF[c])]
      /\ \A d \in CPU : d # c => token'[d] = token[d]
      /\ token'[c] = Append(token[c], wantIF[c])
  BY <1>0 DEF AcquireExchange, SpinTypeOK
<1>6. SpinTypeOK'
  BY <1>0, <1>1, <1>2, <1>3, <1>4, <1>5 DEF SpinTypeOK, AcquireExchange
<1>7. /\ \A d \in CPU : want'[d] = IF d = c THEN NoOwner ELSE want[d]
      /\ \A k \in Lock : owner'[k] = IF k = l THEN c ELSE owner[k]
      /\ IF_' = IF_ /\ preempt' = preempt /\ tlbWait' = tlbWait
      /\ inIrq' = inIrq /\ wantIF' = wantIF
  BY <1>0 DEF AcquireExchange, SpinTypeOK
<1>8. \A d \in CPU : /\ Depth(d) \in Nat
                     /\ Depth(d)' = IF d = c THEN n + 1 ELSE Depth(d)
  BY <1>0, <1>2, <1>3, StackFacts DEF Depth
<1>9. /\ \A i \in 1..n : held'[c][i] = held[c][i]
      /\ held'[c][n + 1] = l
      /\ \A i \in 1..n : token'[c][i] = token[c][i]
      /\ token'[c][n + 1] = wantIF[c]
      /\ Len(token'[c]) = n + 1
  BY <1>2, <1>3, <1>4, <1>5
<1>10. \A i \in 1..(n + 1) : i \in 1..n \/ i = n + 1
  BY <1>1
<1>11. \A i \in 1..n : held[c][i] # l
  BY <1>0, <1>1 DEF OwnershipExact, Holds
<1>12. OwnershipExact'
  <2>1. ASSUME NEW d \in CPU, NEW k \in Lock PROVE owner'[k] = d <=> Holds(d, k)'
    <3>1. CASE d # c
      BY <1>0, <1>1, <1>3, <1>7, <1>8, <2>1, <3>1 DEF OwnershipExact, Holds, Depth
    <3>2. CASE d = c /\ k = l
      BY <1>1, <1>7, <1>8, <1>9, <2>1, <3>2 DEF Holds
    <3>3. CASE d = c /\ k # l
      <4>1. owner'[k] = c <=> \E i \in 1..n : held[c][i] = k
        BY <1>0, <1>7, <2>1, <3>3 DEF OwnershipExact, Holds
      <4>2. Holds(c, k)' <=> \E i \in 1..(n + 1) : held'[c][i] = k
        BY <1>8 DEF Holds
      <4>3. 1..n \subseteq 1..(n + 1)
        BY <1>1
      <4> HIDE DEF n, l
      <4> QED BY <1>9, <1>10, <3>3, <4>1, <4>2, <4>3
    <3> QED BY <3>1, <3>2, <3>3
  <2>2. ASSUME NEW d \in CPU, NEW i \in 1..Depth(d)', NEW j \in 1..Depth(d)',
               held'[d][i] = held'[d][j]
        PROVE  i = j
    <3>1. CASE d # c
      BY <1>0, <1>3, <1>8, <2>2, <3>1 DEF OwnershipExact
    <3>2. CASE d = c
      <4>1. i \in 1..(n + 1) /\ j \in 1..(n + 1)
        BY <1>8, <2>2, <3>2
      <4>2. \A a, b \in 1..n : held[c][a] = held[c][b] => a = b
        BY <1>0 DEF OwnershipExact
      <4> HIDE DEF n, l
      <4> QED BY <1>9, <1>10, <1>11, <2>2, <3>2, <4>1, <4>2
    <3> QED BY <3>1, <3>2
  <2> QED BY <2>1, <2>2 DEF OwnershipExact
<1>13. ClassOrder'
  <2> SUFFICES ASSUME NEW d \in CPU
               PROVE  /\ \A i, j \in 1..Depth(d)' :
                            i < j => Class[held'[d][i]] < Class[held'[d][j]]
                      /\ want'[d] # NoOwner => \A i \in 1..Depth(d)' :
                            Class[held'[d][i]] < Class[want'[d]]
    BY DEF ClassOrder, Spinning
  <2>1. CASE d # c
    BY <1>0, <1>3, <1>7, <1>8, <2>1 DEF ClassOrder, Spinning
  <2>2. CASE d = c
    <3>1. \A i, j \in 1..n : i < j => Class[held[c][i]] < Class[held[c][j]]
      BY <1>0 DEF ClassOrder
    <3>2. \A i \in 1..n : Class[held[c][i]] < Class[l]
      BY <1>0, <1>1 DEF ClassOrder, Spinning
    <3>3. \A i, j \in 1..(n + 1) : i < j => i \in 1..n
      BY <1>1
    <3>4. Depth(c)' = n + 1 /\ want'[c] = NoOwner
      BY <1>7, <1>8
    <3> HIDE DEF n, l
    <3> QED BY <1>9, <1>10, <2>2, <3>1, <3>2, <3>3, <3>4
  <2> QED BY <2>1, <2>2
<1>14. IrqsOffWhileHolding'
  BY <1>0, <1>1, <1>7, <1>8 DEF IrqsOffWhileHolding, Spinning
<1>15. PreemptBalanced'
  <2>1. \A d \in CPU : tlbWait[d] \in {0, 1}
    BY <1>0 DEF SpinTypeOK
  <2> QED
    BY <1>0, <1>1, <1>7, <1>8, <2>1 DEF PreemptBalanced, Spinning
<1>16. TlbWaitExcludesLocks'
  BY <1>0, <1>1, <1>7, <1>8 DEF TlbWaitExcludesLocks, Spinning
<1>17. TokensNested'
  <2> SUFFICES ASSUME NEW d \in CPU
               PROVE  /\ Len(token'[d]) = Depth(d)'
                      /\ \A i \in 1..Depth(d)' : i > 1 => token'[d][i] = 0
                      /\ want'[d] # NoOwner /\ Depth(d)' # 0 => wantIF'[d] = 0
    BY DEF TokensNested, Spinning
  <2>1. CASE d # c
    BY <1>0, <1>5, <1>7, <1>8, <2>1 DEF TokensNested, Spinning
  <2>2. CASE d = c
    <3>1. \A i \in 1..n : i > 1 => token[c][i] = 0
      BY <1>0 DEF TokensNested
    <3>2. n # 0 => wantIF[c] = 0
      BY <1>0, <1>1 DEF TokensNested, Spinning
    <3>3. Depth(c)' = n + 1 /\ want'[c] = NoOwner
      BY <1>7, <1>8
    <3> HIDE DEF n, l
    <3> QED BY <1>1, <1>9, <1>10, <2>2, <3>1, <3>2, <3>3
  <2> QED BY <2>1, <2>2
<1> QED BY <1>6, <1>12, <1>13, <1>14, <1>15, <1>16, <1>17 DEF IInv

\* The owner gives back the top of its stack.
LEMMA ReleaseIInv ==
    ASSUME IInv, NEW c \in CPU, NEW l \in Lock, Release(c, l)
    PROVE  IInv'
<1> USE SpinlockAssumption
<1>0. /\ SpinTypeOK /\ OwnershipExact /\ ClassOrder /\ IrqsOffWhileHolding
      /\ PreemptBalanced /\ TlbWaitExcludesLocks /\ TokensNested
  BY DEF IInv
<1> DEFINE m == Depth(c)
           n == m - 1
<1>1. /\ m \in Nat /\ m # 0 /\ n \in Nat /\ n + 1 = m /\ owner[l] = c
      /\ held[c][m] = l /\ want[c] = NoOwner /\ tlbWait[c] = 0
      /\ NoOwner \notin CPU /\ preempt[c] # 0
  BY <1>0, StackFacts
     DEF Release, ReleaseAllowed, Top, Spinning, TlbWaitExcludesLocks, SpinTypeOK
<1>2. /\ SubSeq(held[c], 1, n) \in Seq(Lock)
      /\ Len(SubSeq(held[c], 1, n)) = n
      /\ \A i \in 1..n : SubSeq(held[c], 1, n)[i] = held[c][i]
  BY <1>0, <1>1, PopStack, StackFacts DEF Depth
<1>3. /\ held' = [held EXCEPT ![c] = SubSeq(held[c], 1, n)]
      /\ \A d \in CPU : d # c => held'[d] = held[d]
      /\ held'[c] = SubSeq(held[c], 1, n)
  BY <1>0 DEF Release, SpinTypeOK
<1>t. Len(token[c]) = m
  BY <1>0 DEF TokensNested
<1>4. /\ SubSeq(token[c], 1, n) \in Seq({0, 1})
      /\ Len(SubSeq(token[c], 1, n)) = n
      /\ \A i \in 1..n : SubSeq(token[c], 1, n)[i] = token[c][i]
  <2>1. token[c] \in Seq({0, 1})
    BY <1>0, StackFacts
  <2> HIDE DEF m
  <2> QED BY <1>1, <1>t, <2>1, PopStack
<1>5. /\ token' = [token EXCEPT ![c] = SubSeq(token[c], 1, n)]
      /\ \A d \in CPU : d # c => token'[d] = token[d]
      /\ token'[c] = SubSeq(token[c], 1, n)
  BY <1>0 DEF Release, SpinTypeOK
<1>6. token[c][m] \in {0, 1} /\ (n # 0 => token[c][m] = 0)
  <2>1. m \in 1..Len(token[c]) /\ m \in 1..Depth(c)
    BY <1>1, <1>t
  <2>2. \A i \in 1..Len(token[c]) : token[c][i] \in {0, 1}
    BY <1>0, StackFacts
  <2>3. \A i \in 1..Depth(c) : i > 1 => token[c][i] = 0
    BY <1>0 DEF TokensNested
  <2>4. n # 0 => m > 1
    BY <1>1
  <2> HIDE DEF m
  <2> QED BY <2>1, <2>2, <2>3, <2>4
<1>7. /\ IF_' \in [CPU -> {0, 1}]
      /\ \A d \in CPU : d # c => IF_'[d] = IF_[d]
      /\ n # 0 => IF_'[c] = IF_[c]
  BY <1>0, <1>6 DEF Release, InterruptRestore, SpinTypeOK
<1>8. SpinTypeOK'
  <2>1. preempt' \in [CPU -> Nat]
    BY <1>0, <1>1 DEF Release, SpinTypeOK
  <2>2. held' \in [CPU -> Seq(Lock)]
    BY <1>0, <1>2, <1>3 DEF SpinTypeOK
  <2>3. token' \in [CPU -> Seq({0, 1})]
    BY <1>0, <1>4, <1>5 DEF SpinTypeOK
  <2>4. owner' \in [Lock -> CPU \cup {NoOwner}]
    BY <1>0 DEF SpinTypeOK, Release
  <2>5. UNCHANGED <<tlbWait, want, wantIF, inIrq>>
    BY DEF Release
  <2> QED BY <1>0, <1>7, <2>1, <2>2, <2>3, <2>4, <2>5 DEF SpinTypeOK
<1>9. /\ \A k \in Lock : owner'[k] = IF k = l THEN NoOwner ELSE owner[k]
      /\ \A d \in CPU : preempt'[d] = IF d = c THEN preempt[d] - 1 ELSE preempt[d]
      /\ want' = want /\ tlbWait' = tlbWait /\ inIrq' = inIrq /\ wantIF' = wantIF
  BY <1>0 DEF Release, SpinTypeOK
<1>10. \A d \in CPU : /\ Depth(d) \in Nat
                      /\ Depth(d)' = IF d = c THEN n ELSE Depth(d)
  BY <1>0, <1>2, <1>3, StackFacts DEF Depth
<1>11. /\ \A i \in 1..n : held'[c][i] = held[c][i]
       /\ \A i \in 1..n : token'[c][i] = token[c][i]
       /\ Len(token'[c]) = n
  BY <1>2, <1>3, <1>4, <1>5
<1>12. /\ \A i \in 1..m : i \in 1..n \/ i = m
       /\ \A i \in 1..n : i \in 1..m /\ i # m
       /\ m \in 1..m
  BY <1>1
<1>13. OwnershipExact'
  <2>1. ASSUME NEW d \in CPU, NEW k \in Lock PROVE owner'[k] = d <=> Holds(d, k)'
    <3>1. CASE d # c
      BY <1>0, <1>1, <1>3, <1>9, <1>10, <2>1, <3>1 DEF OwnershipExact, Holds
    <3>2. CASE d = c
      <4>1. owner[k] = c <=> \E i \in 1..m : held[c][i] = k
        BY <1>0, <2>1 DEF OwnershipExact, Holds
      <4>2. \A i, j \in 1..m : held[c][i] = held[c][j] => i = j
        BY <1>0 DEF OwnershipExact
      <4>3. Holds(c, k)' <=> \E i \in 1..n : held'[c][i] = k
        BY <1>10 DEF Holds
      <4>4. owner'[k] = c <=> k # l /\ owner[k] = c
        BY <1>1, <1>9, <2>1
      <4> HIDE DEF m, n
      <4>5. CASE k = l
        BY <1>1, <1>11, <1>12, <3>2, <4>2, <4>3, <4>4, <4>5
      <4>6. CASE k # l
        BY <1>1, <1>11, <1>12, <3>2, <4>1, <4>3, <4>4, <4>6
      <4> QED BY <4>5, <4>6
    <3> QED BY <3>1, <3>2
  <2>2. ASSUME NEW d \in CPU, NEW i \in 1..Depth(d)', NEW j \in 1..Depth(d)',
               held'[d][i] = held'[d][j]
        PROVE  i = j
    <3>1. CASE d # c
      BY <1>0, <1>3, <1>10, <2>2, <3>1 DEF OwnershipExact
    <3>2. CASE d = c
      <4>1. i \in 1..n /\ j \in 1..n
        BY <1>10, <2>2, <3>2
      <4>2. \A a, b \in 1..m : held[c][a] = held[c][b] => a = b
        BY <1>0 DEF OwnershipExact
      <4> HIDE DEF m, n
      <4> QED BY <1>11, <1>12, <2>2, <3>2, <4>1, <4>2
    <3> QED BY <3>1, <3>2
  <2> QED BY <2>1, <2>2 DEF OwnershipExact
<1>14. ClassOrder'
  <2> SUFFICES ASSUME NEW d \in CPU
               PROVE  /\ \A i, j \in 1..Depth(d)' :
                            i < j => Class[held'[d][i]] < Class[held'[d][j]]
                      /\ want'[d] # NoOwner => \A i \in 1..Depth(d)' :
                            Class[held'[d][i]] < Class[want'[d]]
    BY DEF ClassOrder, Spinning
  <2>1. CASE d # c
    BY <1>0, <1>3, <1>9, <1>10, <2>1 DEF ClassOrder, Spinning
  <2>2. CASE d = c
    <3>1. \A i, j \in 1..m : i < j => Class[held[c][i]] < Class[held[c][j]]
      BY <1>0 DEF ClassOrder
    <3>2. Depth(c)' = n /\ want'[c] = NoOwner
      BY <1>1, <1>9, <1>10
    <3> HIDE DEF m, n
    <3> QED BY <1>11, <1>12, <2>2, <3>1, <3>2
  <2> QED BY <2>1, <2>2
<1>15. IrqsOffWhileHolding'
  <2> SUFFICES ASSUME NEW d \in CPU, Depth(d)' # 0 \/ want'[d] # NoOwner
               PROVE  IF_'[d] = 0
    BY DEF IrqsOffWhileHolding, Spinning
  <2>1. CASE d # c
    BY <1>0, <1>7, <1>9, <1>10, <2>1 DEF IrqsOffWhileHolding, Spinning
  <2>2. CASE d = c
    BY <1>0, <1>1, <1>7, <1>9, <1>10, <2>2 DEF IrqsOffWhileHolding
  <2> QED BY <2>1, <2>2
<1>16. PreemptBalanced'
  <2>1. \A d \in CPU : tlbWait[d] \in {0, 1} /\ preempt[d] \in Nat
    BY <1>0 DEF SpinTypeOK
  <2> QED
    BY <1>0, <1>1, <1>9, <1>10, <2>1 DEF PreemptBalanced, Spinning
<1>17. TlbWaitExcludesLocks'
  BY <1>0, <1>1, <1>7, <1>9, <1>10 DEF TlbWaitExcludesLocks, Spinning
<1>18. TokensNested'
  <2> SUFFICES ASSUME NEW d \in CPU
               PROVE  /\ Len(token'[d]) = Depth(d)'
                      /\ \A i \in 1..Depth(d)' : i > 1 => token'[d][i] = 0
                      /\ want'[d] # NoOwner /\ Depth(d)' # 0 => wantIF'[d] = 0
    BY DEF TokensNested, Spinning
  <2>1. CASE d # c
    BY <1>0, <1>5, <1>9, <1>10, <2>1 DEF TokensNested, Spinning
  <2>2. CASE d = c
    <3>1. \A i \in 1..m : i > 1 => token[c][i] = 0
      BY <1>0 DEF TokensNested
    <3>2. Depth(c)' = n /\ want'[c] = NoOwner
      BY <1>1, <1>9, <1>10
    <3> HIDE DEF m, n
    <3> QED BY <1>11, <1>12, <2>2, <3>1, <3>2
  <2> QED BY <2>1, <2>2
<1> QED BY <1>8, <1>13, <1>14, <1>15, <1>16, <1>17, <1>18 DEF IInv

\* The steps that touch no lock: the TLB_WAIT barrier, interrupts, cli and sti.
LEMMA OtherIInv ==
    ASSUME IInv, NEW c \in CPU,
           \/ TlbWaitEnter(c) \/ TlbWaitLeave(c)
           \/ Interrupt(c) \/ InterruptReturn(c) \/ ToggleInterrupts(c)
    PROVE  IInv'
<1> USE SpinlockAssumption
<1>0. /\ SpinTypeOK /\ OwnershipExact /\ ClassOrder /\ IrqsOffWhileHolding
      /\ PreemptBalanced /\ TlbWaitExcludesLocks /\ TokensNested
  BY DEF IInv
<1>1. UNCHANGED <<owner, held, token, want, wantIF>>
  BY DEF TlbWaitEnter, TlbWaitLeave, Interrupt, InterruptReturn, ToggleInterrupts
<1>2. OwnershipExact' /\ ClassOrder' /\ TokensNested'
  BY <1>0, <1>1, StacksUnchanged
<1>3. SpinTypeOK'
  <2>1. CASE TlbWaitEnter(c)
    BY <1>0, <2>1 DEF SpinTypeOK, TlbWaitEnter
  <2>2. CASE TlbWaitLeave(c)
    <3>1. preempt[c] - 1 \in Nat
      BY <1>0, <2>2 DEF SpinTypeOK, TlbWaitLeave
    <3>2. preempt' \in [CPU -> Nat]
      BY <1>0, <2>2, <3>1 DEF SpinTypeOK, TlbWaitLeave
    <3> QED BY <1>0, <2>2, <3>2 DEF SpinTypeOK, TlbWaitLeave
  <2>3. CASE Interrupt(c)
    BY <1>0, <2>3 DEF SpinTypeOK, Interrupt
  <2>4. CASE InterruptReturn(c)
    BY <1>0, <2>4 DEF SpinTypeOK, InterruptReturn
  <2>5. CASE ToggleInterrupts(c)
    <3>1. 1 - IF_[c] \in {0, 1}
      <4>1. IF_[c] = 0 \/ IF_[c] = 1
        BY <1>0 DEF SpinTypeOK
      <4> QED BY <4>1
    <3>2. IF_' \in [CPU -> {0, 1}]
      BY <1>0, <2>5, <3>1 DEF SpinTypeOK, ToggleInterrupts
    <3> QED BY <1>0, <2>5, <3>2 DEF SpinTypeOK, ToggleInterrupts
  <2> QED BY <2>1, <2>2, <2>3, <2>4, <2>5
<1>4. \A d \in CPU : /\ Depth(d)' = Depth(d) /\ Depth(d) \in Nat
                     /\ Spinning(d)' <=> Spinning(d)
  BY <1>0, <1>1, StackFacts DEF Depth, Spinning
<1>5. IrqsOffWhileHolding'
  <2>1. \A d \in CPU : d # c => IF_'[d] = IF_[d]
    BY <1>0
       DEF SpinTypeOK, TlbWaitEnter, TlbWaitLeave, Interrupt, InterruptReturn,
           ToggleInterrupts
  <2>2. Depth(c) # 0 \/ Spinning(c) => IF_'[c] = IF_[c] \/ IF_'[c] = 0
    BY <1>0
       DEF SpinTypeOK, TlbWaitEnter, TlbWaitLeave, Interrupt, InterruptReturn,
           ToggleInterrupts
  <2> QED BY <1>0, <1>4, <2>1, <2>2 DEF IrqsOffWhileHolding
<1>6. PreemptBalanced'
  <2>1. \A d \in CPU : tlbWait[d] \in {0, 1} /\ preempt[d] \in Nat
    BY <1>0 DEF SpinTypeOK
  <2>2. \A d \in CPU : preempt'[d] - tlbWait'[d] = preempt[d] - tlbWait[d]
    <3>1. CASE TlbWaitEnter(c)
      BY <1>0, <2>1, <3>1 DEF SpinTypeOK, TlbWaitEnter
    <3>2. CASE TlbWaitLeave(c)
      BY <1>0, <2>1, <3>2 DEF SpinTypeOK, TlbWaitLeave
    <3>3. CASE Interrupt(c) \/ InterruptReturn(c) \/ ToggleInterrupts(c)
      BY <3>3 DEF Interrupt, InterruptReturn, ToggleInterrupts
    <3> QED BY <3>1, <3>2, <3>3
  <2>3. \A d \in CPU : tlbWait'[d] \in {0, 1} /\ preempt'[d] \in Nat
    BY <1>3 DEF SpinTypeOK
  <2> QED BY <1>0, <1>4, <2>1, <2>2, <2>3 DEF PreemptBalanced
<1>7. TlbWaitExcludesLocks'
  BY <1>0, <1>4
     DEF TlbWaitExcludesLocks, SpinTypeOK, TlbWaitEnter, TlbWaitLeave, Interrupt,
         InterruptReturn, ToggleInterrupts
<1> QED BY <1>2, <1>3, <1>5, <1>6, <1>7 DEF IInv

\* A stuttering step.
LEMMA StutterIInv ==
    ASSUME IInv, UNCHANGED spinVars
    PROVE  IInv'
BY DEF IInv, spinVars, SpinTypeOK, OwnershipExact, ClassOrder, IrqsOffWhileHolding,
       PreemptBalanced, TlbWaitExcludesLocks, TokensNested, Holds, Depth, Spinning

\* Every step preserves the inductive invariant.
LEMMA NextIInv == IInv /\ [SpinNext]_spinVars => IInv'
<1> SUFFICES ASSUME IInv, [SpinNext]_spinVars PROVE IInv'
  OBVIOUS
<1>1. CASE UNCHANGED spinVars
  BY <1>1, StutterIInv
<1>2. CASE SpinNext
  <2>1. PICK c \in CPU :
            \/ \E l \in Lock : AcquireEnter(c, l) \/ AcquireReject(c, l)
            \/ AcquireExchange(c)
            \/ \E l \in Lock : Release(c, l) \/ ReleaseReject(c, l)
            \/ TlbWaitEnter(c) \/ TlbWaitLeave(c)
            \/ Interrupt(c) \/ InterruptReturn(c) \/ ToggleInterrupts(c)
    BY <1>2 DEF SpinNext
  <2>2. CASE \E l \in Lock : AcquireEnter(c, l)
    BY <2>2, EnterIInv
  <2>3. CASE \E l \in Lock : AcquireReject(c, l) \/ ReleaseReject(c, l)
    BY <2>3, StutterIInv DEF AcquireReject, ReleaseReject
  <2>4. CASE AcquireExchange(c)
    BY <2>4, ExchangeIInv
  <2>5. CASE \E l \in Lock : Release(c, l)
    BY <2>5, ReleaseIInv
  <2> QED BY <2>1, <2>2, <2>3, <2>4, <2>5, OtherIInv
<1> QED BY <1>1, <1>2

\* The order on classes forbids a cycle of spinning CPUs: in a nonempty set of
\* CPUs that wait for each other, the owner of a wanted lock wants a lock of a
\* strictly greater class, which cannot go on within 0..MaxClass.
LEMMA OrderForbidsCycles == IInv => NoSpinCycle
<1> SUFFICES ASSUME IInv, NEW S \in SUBSET CPU, S # {},
                    \A c \in S : Spinning(c) /\ owner[want[c]] \in S
             PROVE  FALSE
  BY DEF NoSpinCycle
<1> USE SpinlockAssumption
<1> DEFINE cl(c) == Class[want[c]]
           T == {cl(c) : c \in S}
<1>1. \A c \in S : cl(c) \in 0..MaxClass /\ want[c] \in Lock
  BY DEF IInv, SpinTypeOK, Spinning
<1>2. \A c \in S : \E d \in S : cl(d) > cl(c)
  <2> SUFFICES ASSUME NEW c \in S PROVE \E d \in S : cl(d) > cl(c)
    OBVIOUS
  <2> DEFINE d == owner[want[c]]
  <2>1. d \in S /\ d \in CPU /\ want[c] \in Lock
    BY <1>1
  <2>2. PICK i \in 1..Depth(d) : held[d][i] = want[c]
    BY <2>1 DEF IInv, OwnershipExact, Holds
  <2>3. Class[held[d][i]] < Class[want[d]]
    BY <2>1, <2>2 DEF IInv, ClassOrder
  <2> QED BY <2>1, <2>2, <2>3, <1>1
<1>3. T \in SUBSET (0..MaxClass) /\ T # {}
  BY <1>1
<1>4. PICK x \in T : \A y \in T : y <= x
  <2> HIDE DEF T
  <2> QED BY <1>3, GreatestExists
<1>5. PICK c \in S : x = cl(c)
  BY <1>4
<1>6. PICK d \in S : cl(d) > cl(c)
  BY <1>2
<1>7. cl(d) <= cl(c)
  BY <1>4, <1>5
<1> QED
  BY <1>1, <1>6, <1>7

\* The last release restores the flag saved by the outermost acquisition: the
\* stack then holds one lock, whose token is the outermost, and the interrupt
\* flag was off, so a token that saved "disabled" leaves it off.
LEMMA LastReleaseStep ==
    ASSUME IInv, [SpinNext]_spinVars, NEW c \in CPU, Depth(c) # 0, Len(held'[c]) = 0
    PROVE  IF_'[c] = token[c][1]
<1> USE SpinlockAssumption
<1>0. SpinTypeOK /\ IrqsOffWhileHolding /\ TokensNested
  BY DEF IInv
<1>1. held'[c] # held[c]
  BY DEF Depth
<1>2. PICK d \in CPU : AcquireExchange(d) \/ \E l \in Lock : Release(d, l)
  BY <1>1
     DEF SpinNext, spinVars, AcquireEnter, AcquireReject, ReleaseReject, TlbWaitEnter,
         TlbWaitLeave, Interrupt, InterruptReturn, ToggleInterrupts
<1>3. d = c
  BY <1>0, <1>1, <1>2 DEF SpinTypeOK, AcquireExchange, Release
<1>4. ~AcquireExchange(c)
  <2> SUFFICES ASSUME AcquireExchange(c) PROVE FALSE
    OBVIOUS
  <2>1. held'[c] = Append(held[c], want[c])
    BY <1>0 DEF SpinTypeOK, AcquireExchange
  <2>2. want[c] \in Lock
    BY <1>0 DEF SpinTypeOK, AcquireExchange, Spinning
  <2>3. Len(Append(held[c], want[c])) = Len(held[c]) + 1 /\ Len(held[c]) \in Nat
    BY <1>0, <2>2, PushStack, StackFacts DEF Depth
  <2> QED BY <2>1, <2>3
<1>5. PICK l \in Lock : Release(c, l)
  BY <1>2, <1>3, <1>4
<1>6. Depth(c) = 1
  <2>1. held'[c] = SubSeq(held[c], 1, Len(held[c]) - 1)
    BY <1>0, <1>5 DEF SpinTypeOK, Release, Depth
  <2>2. Len(held'[c]) = Len(held[c]) - 1
    BY <1>0, <2>1, PopStack, StackFacts DEF Depth
  <2>3. Depth(c) \in Nat
    BY <1>0, StackFacts
  <2>4. 0 = Depth(c) - 1
    BY <2>2 DEF Depth
  <2> QED BY <2>3, <2>4
<1>7. token[c][1] \in {0, 1} /\ IF_[c] = 0
  <2>1. 1 \in 1..Len(token[c])
    BY <1>0, <1>6 DEF TokensNested
  <2>2. \A i \in 1..Len(token[c]) : token[c][i] \in {0, 1}
    BY <1>0, StackFacts
  <2> QED BY <1>0, <2>1, <2>2 DEF IrqsOffWhileHolding
<1>8. IF_' = InterruptRestore(c, token[c][1])
  BY <1>5, <1>6 DEF Release
<1> QED
  BY <1>0, <1>7, <1>8 DEF SpinTypeOK, InterruptRestore

-----------------------------------------------------------------------------
\* The inductive invariant holds in every reachable state.
THEOREM SpinlockInvariant == SpinSpec => []IInv
BY InitIInv, NextIInv, PTL DEF SpinSpec

\* Every variable keeps its type: in particular preemption_disable_count never
\* goes below zero.
THEOREM SpinlockTypes == SpinSpec => []SpinTypeOK
<1>1. IInv => SpinTypeOK
  BY DEF IInv
<1> QED BY <1>1, SpinlockInvariant, PTL

\* Mutual exclusion, the order of classes, interrupts off while a lock is held,
\* the exact preemption count and the TLB_WAIT barrier, on every CPU and inside
\* every handler.
THEOREM SpinlockDiscipline == SpinSpec => []LockDiscipline
<1>1. IInv => LockDiscipline
  BY DEF IInv, LockDiscipline
<1> QED BY <1>1, SpinlockInvariant, PTL

\* No set of CPUs waits for itself in the exchange loop.
THEOREM SpinlockNoDeadlock == SpinSpec => []NoSpinCycle
BY OrderForbidsCycles, SpinlockInvariant, PTL

\* The outermost release restores the outermost saved interrupt flag.
THEOREM SpinlockRestoresIF == SpinSpec => LastReleaseRestoresIF
<1>1. IInv /\ [SpinNext]_spinVars =>
      [\A c \in CPU :
           (Depth(c) # 0 /\ Len(held'[c]) = 0) => IF_'[c] = token[c][1]]_spinVars
  BY LastReleaseStep
<1> QED BY <1>1, SpinlockInvariant, PTL DEF SpinSpec, LastReleaseRestoresIF
=============================================================================
