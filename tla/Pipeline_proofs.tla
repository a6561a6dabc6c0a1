--------------------------- MODULE Pipeline_proofs ----------------------------
(***************************************************************************)
(* Theorems about Pipeline, the server, its workers and the queues between *)
(* them, for any requests, passes, numbers of statuses and bounds.         *)
(***************************************************************************)
EXTENDS Pipeline, TestingRequestSaga_proofs, SequenceTheorems, FiniteSetTheorems

-----------------------------------------------------------------------------
(* The letters of a queue                                                  *)

LEMMA LetterTypes ==
    /\ \A r \in Requests : PleaseWork(r) \in Letter /\ PleaseStop(r) \in Letter
    /\ \A q, r : /\ PleaseWork(q) # PleaseStop(r)
                 /\ PleaseWork(q) = PleaseWork(r) => q = r
                 /\ PleaseStop(q) = PleaseStop(r) => q = r
    /\ \A m \in Letter : /\ m.request \in Requests
                         /\ m.kind = "Please" => m = PleaseWork(m.request)
                         /\ m.kind # "Please" => m = PleaseStop(m.request)
<1>1. \A q, r : /\ PleaseWork(q).kind = "Please" /\ PleaseWork(q).request = q
                /\ PleaseStop(r).kind = "PleaseCancel"
                /\ PleaseStop(r).request = r
  BY DEF PleaseWork, PleaseStop
<1> QED
  BY <1>1 DEF PleaseWork, PleaseStop, Letter

(* A letter more leaves what stops the others where it is.                 *)
LEMMA AppendForgets ==
    ASSUME NEW S, NEW q \in Seq(S), NEW x \in S, NEW K, NEW r, NEW n \in Nat,
           n <= Len(q) + 1, HasForgotten(q, K, r, n)
    PROVE  HasForgotten(Append(q, x), K, r, n)
<1> DEFINE more == Append(q, x)
<1>1. PICK l \in Nat : Len(q) = l
  BY LenProperties
<1>2. /\ Len(more) = l + 1 /\ more[l + 1] = x
      /\ \A j \in 1..l : more[j] = q[j]
  BY <1>1, AppendProperties
<1> HIDE DEF more
<1>3. ASSUME NEW k \in Nat, IsStopped(q, r, k, n)
      PROVE  IsStopped(more, r, k, n)
  BY <1>1, <1>2, <1>3 DEF IsStopped
<1>4. ASSUME NEW k \in 1..Len(more), k < n, more[k] = PleaseWork(r)
      PROVE  IsStopped(more, r, k, n)
  <2>1. k \in 1..l /\ k \in Nat /\ q[k] = PleaseWork(r)
    BY <1>1, <1>2, <1>4
  <2>2. IsStopped(q, r, k, n)
    BY <1>1, <1>4, <2>1 DEF HasForgotten
  <2> QED
    BY <1>3, <2>1, <2>2
<1>5. r \in K => IsStopped(more, r, 0, n)
  BY <1>3 DEF HasForgotten
<1> QED
  BY <1>4, <1>5 DEF HasForgotten, more

(* What is stopped before the last letter is stopped after it, unless that *)
(* is the request itself.                                                  *)
LEMMA NextForgets ==
    ASSUME NEW S, NEW q \in Seq(S), NEW x \in S, NEW K, NEW r,
           x # PleaseWork(r), HasForgotten(q, K, r, Len(q) + 1)
    PROVE  HasForgotten(Append(q, x), K, r, Len(Append(q, x)) + 1)
<1> DEFINE more == Append(q, x)
<1>1. PICK l \in Nat : Len(q) = l
  BY LenProperties
<1>2. /\ Len(more) = l + 1 /\ more[l + 1] = x
      /\ \A j \in 1..l : more[j] = q[j]
  BY <1>1, AppendProperties
<1> HIDE DEF more
<1>3. ASSUME NEW k \in Nat, IsStopped(q, r, k, l + 1)
      PROVE  IsStopped(more, r, k, l + 2)
  <2>1. PICK j \in 1..l : k < j /\ j < l + 1 /\ q[j] = PleaseStop(r)
    BY <1>1, <1>3 DEF IsStopped
  <2>2. j \in 1..(l + 1) /\ k < j /\ j < l + 2 /\ more[j] = PleaseStop(r)
    BY <1>2, <2>1
  <2> QED
    BY <1>2, <2>2 DEF IsStopped
<1>4. ASSUME NEW k \in 1..Len(more), more[k] = PleaseWork(r)
      PROVE  IsStopped(more, r, k, l + 2)
  <2>1. k \in 1..l /\ k < l + 1 /\ q[k] = PleaseWork(r)
    BY <1>2, <1>4
  <2>2. IsStopped(q, r, k, l + 1)
    BY <1>1, <2>1 DEF HasForgotten
  <2> QED
    BY <1>3, <2>2
<1>5. r \in K => IsStopped(more, r, 0, l + 2)
  BY <1>1, <1>3 DEF HasForgotten
<1>6. Len(more) + 1 = l + 2
  BY <1>2
<1> QED
  BY <1>4, <1>5, <1>6 DEF HasForgotten, more

(* A cancellation stops everything before it.                              *)
LEMMA StopForgets ==
    ASSUME NEW S, NEW q \in Seq(S), NEW K, NEW r, PleaseStop(r) \in S
    PROVE  HasForgotten(Append(q, PleaseStop(r)), K, r,
                        Len(Append(q, PleaseStop(r))) + 1)
<1> DEFINE more == Append(q, PleaseStop(r))
<1>1. PICK l \in Nat : Len(q) = l
  BY LenProperties
<1>2. /\ Len(more) = l + 1 /\ more[l + 1] = PleaseStop(r)
  BY <1>1, AppendProperties
<1> HIDE DEF more
<1>3. ASSUME NEW k \in 0..l PROVE IsStopped(more, r, k, l + 2)
  <2>1. l + 1 \in 1..(l + 1) /\ k < l + 1 /\ l + 1 < l + 2
    OBVIOUS
  <2> QED
    BY <1>2, <2>1 DEF IsStopped
<1>4. ASSUME NEW k \in 1..Len(more), more[k] = PleaseWork(r)
      PROVE  IsStopped(more, r, k, l + 2)
  <2>1. k # l + 1
    BY <1>2, <1>4, LetterTypes
  <2>2. k \in 0..l
    BY <1>2, <2>1
  <2> QED
    BY <1>3, <2>2
<1>5. IsStopped(more, r, 0, l + 2)
  <2>1. 0 \in 0..l
    OBVIOUS
  <2> QED
    BY <1>3, <2>1
<1>6. Len(more) + 1 = l + 2
  BY <1>2
<1> QED
  BY <1>4, <1>5, <1>6 DEF HasForgotten, more

LEMMA AppendAnew ==
    ASSUME NEW S, NEW q \in Seq(S), NEW x \in S, NEW K, NEW r,
           IsAskedAnew(q, K, r),
           x = PleaseWork(r) => HasForgotten(q, K, r, Len(q) + 1)
    PROVE  IsAskedAnew(Append(q, x), K, r)
<1> DEFINE more == Append(q, x)
<1>1. PICK l \in Nat : Len(q) = l
  BY LenProperties
<1>2. /\ Len(more) = l + 1 /\ more[l + 1] = x
      /\ \A j \in 1..l : more[j] = q[j]
  BY <1>1, AppendProperties
<1> SUFFICES ASSUME NEW i \in 1..Len(more), more[i] = PleaseWork(r)
             PROVE  HasForgotten(more, K, r, i)
  BY DEF IsAskedAnew
<1>3. HasForgotten(q, K, r, i)
  <2> HIDE DEF more
  <2>1. CASE i = l + 1
    BY <1>1, <1>2, <2>1
  <2>2. CASE i # l + 1
    <3>1. i \in 1..l /\ q[i] = PleaseWork(r)
      BY <1>2, <2>2
    <3> QED
      BY <1>1, <3>1 DEF IsAskedAnew
  <2> QED
    BY <2>1, <2>2
<1>4. i \in Nat /\ i <= Len(q) + 1
  <2> HIDE DEF more
  <2> QED
    BY <1>1, <1>2
<1> QED
  BY <1>3, <1>4, AppendForgets

(* The first letter is received: what the worker knows now it knows by     *)
(* that letter, or knew it before and was not told to forget.              *)
LEMMA TailForgets ==
    ASSUME NEW q \in Seq(Letter), q # <<>>, NEW K, NEW L, NEW r,
           NEW n \in Nat, n > 0, HasForgotten(q, K, r, n + 1),
           r \in L => \/ q[1] = PleaseWork(r)
                      \/ r \in K /\ q[1] # PleaseStop(r)
    PROVE  HasForgotten(Tail(q), L, r, n)
<1> DEFINE rest == Tail(q)
<1>1. PICK l \in Nat : Len(rest) = l
  BY HeadTailProperties, LenProperties
<1>2. Len(q) = l + 1 /\ \A j \in 1..l : rest[j] = q[j + 1]
  <2>1. PICK k \in Nat : Len(q) = k
    BY LenProperties
  <2>2. l = k - 1
    BY <1>1, <2>1, HeadTailProperties
  <2>3. k = l + 1
    BY <2>1, <2>2
  <2> QED
    BY <1>1, <2>1, <2>3, HeadTailProperties
<1> HIDE DEF rest
<1>3. ASSUME NEW k \in Nat, IsStopped(q, r, k + 1, n + 1)
      PROVE  IsStopped(rest, r, k, n)
  <2>1. PICK j \in 1..(l + 1) :
           k + 1 < j /\ j < n + 1 /\ q[j] = PleaseStop(r)
    BY <1>2, <1>3 DEF IsStopped
  <2>2. j - 1 \in 1..l /\ (j - 1) + 1 = j /\ k < j - 1 /\ j - 1 < n
    BY <2>1
  <2>3. rest[j - 1] = PleaseStop(r)
    BY <1>2, <2>1, <2>2
  <2> QED
    BY <1>1, <2>2, <2>3 DEF IsStopped
<1>4. ASSUME NEW k \in 1..Len(rest), k < n, rest[k] = PleaseWork(r)
      PROVE  IsStopped(rest, r, k, n)
  <2>1. k \in Nat /\ k + 1 \in 1..Len(q) /\ k + 1 < n + 1
        /\ q[k + 1] = PleaseWork(r)
    BY <1>1, <1>2, <1>4
  <2>2. IsStopped(q, r, k + 1, n + 1)
    BY <2>1 DEF HasForgotten
  <2> QED
    BY <1>3, <2>1, <2>2
<1>5. ASSUME r \in L PROVE IsStopped(rest, r, 0, n)
  <2>1. IsStopped(q, r, 0 + 1, n + 1)
    <3>1. CASE q[1] = PleaseWork(r)
      <4>1. 1 \in 1..Len(q) /\ 1 < n + 1 /\ 0 + 1 = 1
        BY <1>2
      <4> QED
        BY <3>1, <4>1 DEF HasForgotten
    <3>2. CASE r \in K /\ q[1] # PleaseStop(r)
      <4>1. PICK j \in 1..(l + 1) : j < n + 1 /\ q[j] = PleaseStop(r)
        BY <1>2, <3>2 DEF HasForgotten, IsStopped
      <4>2. j # 1
        BY <3>2, <4>1
      <4>3. 0 + 1 < j
        BY <4>1, <4>2
      <4> QED
        BY <1>2, <4>1, <4>3 DEF IsStopped
    <3> QED
      BY <1>5, <3>1, <3>2
  <2> QED
    BY <1>3, <2>1
<1> QED
  BY <1>4, <1>5 DEF HasForgotten, rest

LEMMA TailAnew ==
    ASSUME NEW q \in Seq(Letter), q # <<>>, NEW K, NEW L, NEW r,
           IsAskedAnew(q, K, r),
           r \in L => \/ q[1] = PleaseWork(r)
                      \/ r \in K /\ q[1] # PleaseStop(r)
    PROVE  /\ IsAskedAnew(Tail(q), L, r)
           /\ HasForgotten(q, K, r, Len(q) + 1)
                 => HasForgotten(Tail(q), L, r, Len(Tail(q)) + 1)
           /\ q[1] = PleaseWork(r) => r \notin K
<1> DEFINE rest == Tail(q)
<1>1. PICK l \in Nat : Len(rest) = l
  BY HeadTailProperties, LenProperties
<1>2. Len(q) = l + 1 /\ \A j \in 1..l : rest[j] = q[j + 1]
  <2>1. PICK k \in Nat : Len(q) = k
    BY LenProperties
  <2>2. l = k - 1
    BY <1>1, <2>1, HeadTailProperties
  <2>3. k = l + 1
    BY <2>1, <2>2
  <2> QED
    BY <1>1, <2>1, <2>3, HeadTailProperties
<1>3. ASSUME NEW i \in 1..l, rest[i] = PleaseWork(r)
      PROVE  HasForgotten(rest, L, r, i)
  <2> HIDE DEF rest
  <2>1. i \in Nat /\ i > 0 /\ i + 1 \in 1..Len(q) /\ q[i + 1] = PleaseWork(r)
    BY <1>2, <1>3
  <2>2. HasForgotten(q, K, r, i + 1)
    BY <2>1 DEF IsAskedAnew
  <2> QED
    BY <2>1, <2>2, TailForgets DEF rest
<1>4. ASSUME HasForgotten(q, K, r, Len(q) + 1)
      PROVE  HasForgotten(rest, L, r, Len(rest) + 1)
  <2>1. l + 1 \in Nat /\ l + 1 > 0 /\ HasForgotten(q, K, r, (l + 1) + 1)
    BY <1>2, <1>4
  <2>2. HasForgotten(Tail(q), L, r, l + 1)
    BY <2>1, TailForgets
  <2> QED
    BY <1>1, <2>2
<1>5. ASSUME q[1] = PleaseWork(r) PROVE r \notin K
  <2>1. 1 \in 1..Len(q)
    BY <1>2
  <2>2. HasForgotten(q, K, r, 1)
    BY <1>5, <2>1 DEF IsAskedAnew
  <2>3. ~IsStopped(q, r, 0, 1)
    BY <1>2 DEF IsStopped
  <2> QED
    BY <2>2, <2>3 DEF HasForgotten
<1> QED
  BY <1>1, <1>3, <1>4, <1>5 DEF IsAskedAnew

(* A worker that knows less has less to forget.                            *)
LEMMA KnowsLess ==
    ASSUME NEW q, NEW K, NEW L, NEW r, r \in L => r \in K
    PROVE  /\ \A n : HasForgotten(q, K, r, n) => HasForgotten(q, L, r, n)
           /\ IsAskedAnew(q, K, r) => IsAskedAnew(q, L, r)
  BY DEF HasForgotten, IsAskedAnew

(* A worker that restarts forgets everything, and finds its message in     *)
(* hand first in its queue again.                                          *)
LEMMA RedeliveredForgets ==
    ASSUME NEW q \in Seq(Letter), NEW x \in Letter, NEW K, NEW r,
           NEW n \in Nat, HasForgotten(q, K, r, n),
           x = PleaseWork(r) => r \in K
    PROVE  HasForgotten(<<x>> \o q, {}, r, n + 1)
<1> DEFINE more == <<x>> \o q
<1>1. PICK l \in Nat : Len(q) = l
  BY LenProperties
<1>2. Len(more) = l + 1 /\ more[1] = x /\ \A j \in 1..l : more[j + 1] = q[j]
  BY <1>1
<1> HIDE DEF more
<1>3. ASSUME NEW k \in Nat, IsStopped(q, r, k, n)
      PROVE  IsStopped(more, r, k + 1, n + 1)
  <2>1. PICK j \in 1..l : k < j /\ j < n /\ q[j] = PleaseStop(r)
    BY <1>1, <1>3 DEF IsStopped
  <2>2. j + 1 \in 1..(l + 1) /\ k + 1 < j + 1 /\ j + 1 < n + 1
        /\ more[j + 1] = PleaseStop(r)
    BY <1>2, <2>1
  <2> QED
    BY <1>2, <2>2 DEF IsStopped
<1>4. ASSUME NEW k \in 1..Len(more), k < n + 1, more[k] = PleaseWork(r)
      PROVE  IsStopped(more, r, k, n + 1)
  <2>1. CASE k = 1
    <3>1. IsStopped(q, r, 0, n)
      BY <1>2, <1>4, <2>1 DEF HasForgotten
    <3>2. IsStopped(more, r, 0 + 1, n + 1)
      BY <1>3, <3>1
    <3> QED
      BY <2>1, <3>2
  <2>2. CASE k # 1
    <3>1. PICK j \in 1..l : k = j + 1
      <4>1. k - 1 \in 1..l /\ k = (k - 1) + 1
        BY <1>2, <2>2
      <4> QED
        BY <4>1
    <3>2. j \in Nat /\ j < n /\ q[j] = PleaseWork(r)
      BY <1>2, <1>4, <3>1
    <3>3. IsStopped(q, r, j, n)
      BY <1>1, <3>1, <3>2 DEF HasForgotten
    <3> QED
      BY <1>3, <3>1, <3>2, <3>3
  <2> QED
    BY <2>1, <2>2
<1> QED
  BY <1>4 DEF HasForgotten, more

LEMMA RedeliveredAnew ==
    ASSUME NEW q \in Seq(Letter), NEW x \in Letter, NEW K, NEW r,
           IsAskedAnew(q, K, r), x = PleaseWork(r) => r \in K
    PROVE  /\ IsAskedAnew(<<x>> \o q, {}, r)
           /\ HasForgotten(q, K, r, Len(q) + 1)
                 => HasForgotten(<<x>> \o q, {}, r, Len(<<x>> \o q) + 1)
<1> DEFINE more == <<x>> \o q
<1>1. PICK l \in Nat : Len(q) = l
  BY LenProperties
<1>2. Len(more) = l + 1 /\ more[1] = x /\ \A j \in 1..l : more[j + 1] = q[j]
  BY <1>1
<1>3. ASSUME NEW n \in Nat, HasForgotten(q, K, r, n)
      PROVE  HasForgotten(more, {}, r, n + 1)
  BY <1>3, RedeliveredForgets
<1> HIDE DEF more
<1>4. ASSUME NEW i \in 1..Len(more), more[i] = PleaseWork(r)
      PROVE  HasForgotten(more, {}, r, i)
  <2>1. CASE i = 1
    BY <2>1 DEF HasForgotten
  <2>2. CASE i # 1
    <3>1. PICK j \in 1..l : i = j + 1
      <4>1. i - 1 \in 1..l /\ i = (i - 1) + 1
        BY <1>2, <2>2
      <4> QED
        BY <4>1
    <3>2. j \in Nat /\ HasForgotten(q, K, r, j)
      BY <1>1, <1>2, <1>4, <3>1 DEF IsAskedAnew
    <3> QED
      BY <1>3, <3>1, <3>2
  <2> QED
    BY <2>1, <2>2
<1>5. HasForgotten(q, K, r, Len(q) + 1) => HasForgotten(more, {}, r, l + 2)
  <2>1. l + 1 \in Nat /\ (l + 1) + 1 = l + 2
    OBVIOUS
  <2> QED
    BY <1>1, <1>3, <2>1
<1>6. Len(more) + 1 = l + 2
  BY <1>2
<1> QED
  BY <1>4, <1>5, <1>6 DEF IsAskedAnew, more

-----------------------------------------------------------------------------
(* What the saga sends a worker                                            *)

(* Two letters at once are two letters, one after the other.               *)
LEMMA LetterCases ==
    ASSUME NEW q \in Seq(Letter), NEW r \in Requests, NEW s, NEW sent
    PROVE  q \o Letters(sent, s, r) =
              IF PleaseCancel(s, r) \in sent
              THEN IF Asks(sent, s, r)
                   THEN Append(Append(q, PleaseStop(r)), PleaseWork(r))
                   ELSE Append(q, PleaseStop(r))
              ELSE IF Asks(sent, s, r) THEN Append(q, PleaseWork(r)) ELSE q
<1> DEFINE stop == PleaseStop(r)
           work == PleaseWork(r)
<1>1. stop \in Letter /\ work \in Letter
  BY LetterTypes
<1> HIDE DEF stop, work
<1>2. <<stop>> \in Seq(Letter) /\ <<work>> \in Seq(Letter)
  BY <1>1
<1>3. /\ <<stop>> \o <<>> = <<stop>> /\ <<>> \o <<work>> = <<work>>
      /\ <<>> \o <<>> = <<>> /\ q \o <<>> = q
  BY <1>2, EmptySeq, ConcatEmptySeq
<1>4. q \o <<stop>> = Append(q, stop) /\ q \o <<work>> = Append(q, work)
  BY <1>1, AppendIsConcat
<1>5. Append(q, stop) \in Seq(Letter)
  BY <1>1, AppendProperties
<1>6. Append(q, stop) \o <<work>> = Append(Append(q, stop), work)
  BY <1>1, <1>5, AppendIsConcat
<1>7. (q \o <<stop>>) \o <<work>> = q \o (<<stop>> \o <<work>>)
  BY <1>2, ConcatAssociative
<1>8. Letters(sent, s, r) =
         (IF PleaseCancel(s, r) \in sent THEN <<stop>> ELSE <<>>)
         \o (IF Asks(sent, s, r) THEN <<work>> ELSE <<>>)
  BY DEF Letters, stop, work
<1>9. q \o Letters(sent, s, r) =
         IF PleaseCancel(s, r) \in sent
         THEN IF Asks(sent, s, r) THEN Append(Append(q, stop), work)
              ELSE Append(q, stop)
         ELSE IF Asks(sent, s, r) THEN Append(q, work) ELSE q
  BY <1>3, <1>4, <1>6, <1>7, <1>8
<1> QED
  BY <1>9 DEF stop, work

(* The letters of a handler come when the worker has forgotten the request *)
(* that they make again: n and m say how often the saga has asked for p    *)
(* before and after it.                                                    *)
LEMMA DeliveredAnew ==
    ASSUME NEW q \in Seq(Letter), NEW r \in Requests, NEW s, NEW sent, NEW K,
           NEW p \in Requests, NEW n \in Nat, NEW m \in Nat, m <= 1,
           m = IF p = r
               THEN (IF PleaseCancel(s, r) \in sent THEN 0 ELSE n)
                    + (IF Asks(sent, s, r) THEN 1 ELSE 0)
               ELSE n,
           IsAskedAnew(q, K, p),
           n = 0 => HasForgotten(q, K, p, Len(q) + 1)
    PROVE  LET more == q \o Letters(sent, s, r)
           IN  /\ more \in Seq(Letter)
               /\ IsAskedAnew(more, K, p)
               /\ m = 0 => HasForgotten(more, K, p, Len(more) + 1)
<1> DEFINE stop == PleaseStop(r)
           work == PleaseWork(r)
           q1 == Append(q, stop)
           q2 == Append(q1, work)
           q3 == Append(q, work)
<1>1. /\ stop \in Letter /\ work \in Letter
      /\ stop # PleaseWork(p)
      /\ p = r => stop = PleaseStop(p)
      /\ p # r => work # PleaseWork(p)
  BY LetterTypes
<1>2. q1 \in Seq(Letter)
  BY <1>1, AppendProperties
<1>3. q2 \in Seq(Letter) /\ q3 \in Seq(Letter)
  BY <1>1, <1>2, AppendProperties
<1>4. IsAskedAnew(q1, K, p)
  BY <1>1, AppendAnew
<1>5. p = r => HasForgotten(q1, K, p, Len(q1) + 1)
  BY <1>1, StopForgets
<1>6. p # r /\ n = 0 => HasForgotten(q1, K, p, Len(q1) + 1)
  BY <1>1, NextForgets
<1> HIDE DEF stop
<1>7. ASSUME PleaseCancel(s, r) \in sent, Asks(sent, s, r)
      PROVE  /\ IsAskedAnew(q2, K, p)
             /\ m = 0 => HasForgotten(q2, K, p, Len(q2) + 1)
  <2>1. work = PleaseWork(p) => HasForgotten(q1, K, p, Len(q1) + 1)
    BY <1>1, <1>5
  <2> HIDE DEF q1, work
  <2>2. IsAskedAnew(q2, K, p)
    BY <1>1, <1>2, <1>4, <2>1, AppendAnew
  <2>3. m = 0 => p # r /\ n = 0
    BY <1>7
  <2>4. ASSUME m = 0 PROVE HasForgotten(q2, K, p, Len(q2) + 1)
    BY <1>1, <1>2, <1>6, <2>3, <2>4, NextForgets
  <2> QED
    BY <2>2, <2>4
<1>8. ASSUME PleaseCancel(s, r) \in sent, ~Asks(sent, s, r)
      PROVE  m = 0 => HasForgotten(q1, K, p, Len(q1) + 1)
  BY <1>5, <1>6
<1>9. ASSUME PleaseCancel(s, r) \notin sent, Asks(sent, s, r)
      PROVE  /\ IsAskedAnew(q3, K, p)
             /\ m = 0 => HasForgotten(q3, K, p, Len(q3) + 1)
  <2>1. p = r => n = 0
    BY <1>9
  <2>2. work = PleaseWork(p) => HasForgotten(q, K, p, Len(q) + 1)
    BY <1>1, <2>1
  <2> HIDE DEF work
  <2>3. IsAskedAnew(q3, K, p)
    BY <1>1, <2>2, AppendAnew
  <2>4. m = 0 => p # r /\ n = 0
    BY <1>9
  <2>5. ASSUME m = 0 PROVE HasForgotten(q3, K, p, Len(q3) + 1)
    BY <1>1, <2>4, <2>5, NextForgets
  <2> QED
    BY <2>3, <2>5
<1>10. ASSUME PleaseCancel(s, r) \notin sent, ~Asks(sent, s, r)
       PROVE  m = 0 => HasForgotten(q, K, p, Len(q) + 1)
  BY <1>10
<1>11. q \o Letters(sent, s, r) =
          IF PleaseCancel(s, r) \in sent
          THEN IF Asks(sent, s, r) THEN q2 ELSE q1
          ELSE IF Asks(sent, s, r) THEN q3 ELSE q
  BY LetterCases DEF stop
<1> HIDE DEF q1, q2, q3
<1> QED
  BY <1>2, <1>3, <1>4, <1>7, <1>8, <1>9, <1>10, <1>11

(* Every handler of the saga publishes, if only nothing.                   *)
LEMMA HandlersPublish ==
    ASSUME NEW r \in Requests, UserCommand(r) \/ WorkerMessage(r) \/ Timeout(r)
    PROVE  Publish(r, outgoing')
<1>1. ASSUME NEW sent, Publish(r, sent) PROVE Publish(r, outgoing')
  BY <1>1 DEF Publish
<1>2. CASE UserCommand(r)
  <2>1. \E sent : Publish(r, sent)
    BY <1>2 DEF UserCommand, HandlePleaseDoTests, StopAllOperationsFails,
                HandlePleaseCancelTests, HandlePleaseRestart
  <2> QED
    BY <1>1, <2>1
<1>3. CASE WorkerMessage(r)
  <2>1. PICK s \in Stages :
           Confirmation(s, r) \/ Status(s, r) \/ Finish(s, r)
    BY <1>3, WorkerMessageCases
  <2>2. \E sent : Publish(r, sent)
    BY <2>1 DEF Confirmation, Status, Finish, HandleConfirmation,
                HandleStatus, HandleFinished
  <2> QED
    BY <1>1, <2>2
<1>4. CASE Timeout(r)
  <2>1. \E sent : Publish(r, sent)
    BY <1>4 DEF Timeout, TimeoutRestart, TimeoutPossibleTestingLoop
  <2> QED
    BY <1>1, <2>1
<1> QED
  BY <1>2, <1>3, <1>4

(* What a step of the saga leaves of the invariant.                        *)
LEMMA DeliverInv ==
    ASSUME PipelineInv, NEW r \in Requests,
           UserCommand(r) \/ WorkerMessage(r) \/ Timeout(r),
           Deliver(r), UNCHANGED workers
    PROVE  /\ TypeOK' /\ AskedInv'
           /\ toWorker' \in [Stages -> Seq(Letter)]
           /\ failures = 0 => AskedAnew'
<1>1. TypeOK /\ AskedInv /\ toWorker \in [Stages -> Seq(Letter)]
  BY DEF PipelineInv, PipelineTypeOK
<1>2. Next
  BY DEF Next
<1>3. TypeOK' /\ AskedInv'
  BY <1>1, <1>2, NextType, NextAsked, SagaAssumption
<1>4. \A q \in Requests, s \in Stages :
         asked'[q][s] = IF q = r THEN AskedAfter(outgoing', s, r)
                        ELSE asked[q][s]
  <2> DEFINE sent == outgoing'
  <2>1. Publish(r, sent)
    BY HandlersPublish
  <2> HIDE DEF sent
  <2>2. \A q \in Requests, s \in Stages :
           asked'[q][s] = IF q = r THEN AskedAfter(sent, s, r)
                          ELSE asked[q][s]
    BY <1>1, <2>1, PublishAsked
  <2> QED
    BY <2>2 DEF sent
<1>5. toWorker' = [s \in Stages |-> toWorker[s] \o Letters(outgoing', s, r)]
  BY DEF Deliver
<1>6. ASSUME NEW s \in Stages
      PROVE  toWorker[s] \o Letters(outgoing', s, r) \in Seq(Letter)
  <2> DEFINE q == toWorker[s]
             sent == outgoing'
  <2>1. q \in Seq(Letter)
    BY <1>1
  <2> HIDE DEF q, sent
  <2>2. PleaseStop(r) \in Letter /\ PleaseWork(r) \in Letter
    BY LetterTypes
  <2>3. Append(q, PleaseStop(r)) \in Seq(Letter)
        /\ Append(q, PleaseWork(r)) \in Seq(Letter)
    BY <2>1, <2>2, AppendProperties
  <2>4. Append(Append(q, PleaseStop(r)), PleaseWork(r)) \in Seq(Letter)
    BY <2>2, <2>3, AppendProperties
  <2>5. q \o Letters(sent, s, r) \in Seq(Letter)
    BY <2>1, <2>3, <2>4, LetterCases
  <2> QED
    BY <2>5 DEF q, sent
<1>7. ASSUME failures = 0, NEW s \in Stages, NEW p \in Requests
      PROVE  LET more == toWorker[s] \o Letters(outgoing', s, r)
             IN  /\ IsAskedAnew(more, Known(workers[s]), p)
                 /\ asked'[p][s] = 0
                       => HasForgotten(more, Known(workers[s]), p,
                                       Len(more) + 1)
  <2> DEFINE q == toWorker[s]
             sent == outgoing'
             K == Known(workers[s])
             n == asked[p][s]
             m == asked'[p][s]
  <2>1. q \in Seq(Letter) /\ n \in Nat /\ m \in Nat /\ m <= 1
    BY <1>1, <1>3 DEF TypeOK, AskedInv, AskedOncePerRun
  <2>2. m = IF p = r
            THEN (IF PleaseCancel(s, r) \in sent THEN 0 ELSE n)
                 + (IF Asks(sent, s, r) THEN 1 ELSE 0)
            ELSE n
    BY <1>4 DEF AskedAfter
  <2>3. IsAskedAnew(q, K, p) /\ (n = 0 => HasForgotten(q, K, p, Len(q) + 1))
    BY <1>7 DEF PipelineInv, AskedAnew
  <2> HIDE DEF q, sent, K, n, m
  <2>4. LET more == q \o Letters(sent, s, r)
        IN  /\ more \in Seq(Letter)
            /\ IsAskedAnew(more, K, p)
            /\ m = 0 => HasForgotten(more, K, p, Len(more) + 1)
    BY <2>1, <2>2, <2>3, DeliveredAnew
  <2> QED
    BY <2>4 DEF q, sent, K, n, m
<1>8. ASSUME failures = 0 PROVE AskedAnew'
  <2> SUFFICES ASSUME NEW s \in Stages, NEW p \in Requests
               PROVE  /\ IsAskedAnew(toWorker'[s], Known(workers'[s]), p)
                      /\ asked'[p][s] = 0
                           => HasForgotten(toWorker'[s], Known(workers'[s]), p,
                                           Len(toWorker'[s]) + 1)
    BY DEF AskedAnew
  <2>1. toWorker'[s] = toWorker[s] \o Letters(outgoing', s, r)
        /\ workers'[s] = workers[s]
    BY <1>5
  <2> QED
    BY <1>7, <1>8, <2>1
<1> QED
  BY <1>3, <1>5, <1>6, <1>8

-----------------------------------------------------------------------------
(* The steps of a worker                                                   *)

LEMMA HandlerSteps ==
    ASSUME NEW w \in W!Workers, NEW r \in Requests
    PROVE  /\ W!Took(w, r) \in W!Workers
           /\ W!Took(w, r).held = w.held \cup {r}
           /\ W!Took(w, r).answers = {[request |-> r, will |-> r \notin w.held]}
           /\ W!Without(w, r) \in W!Workers
           /\ W!Without(w, r).held = w.held \ {r}
           /\ W!Without(w, r).answers = w.answers
<1> USE DEF W!Workers
<1>1. /\ w.held \subseteq Requests /\ w.reported \subseteq Requests
      /\ w.answers \subseteq [request : Requests, will : BOOLEAN]
      /\ w.tasks \in [Passes -> [Requests -> 0..(MostStatuses + 1)]]
  OBVIOUS
<1>2. /\ W!Took(w, r) \in W!Workers
      /\ W!Took(w, r).held = w.held \cup {r}
      /\ W!Took(w, r).answers = {[request |-> r, will |-> r \notin w.held]}
  <2> DEFINE will == r \notin w.held
             answer == [request |-> r, will |-> will]
             known == w.held \cup {r}
  <2>1. will \in BOOLEAN /\ known \subseteq Requests
    BY <1>1
  <2>2. W!Took(w, r) = [w EXCEPT !.held = known, !.answers = {answer}]
    BY DEF W!Took
  <2> HIDE DEF will, known
  <2>3. {answer} \subseteq [request : Requests, will : BOOLEAN]
    BY <2>1
  <2> HIDE DEF answer
  <2>4. W!Took(w, r) \in W!Workers
    BY <2>1, <2>2, <2>3
  <2>5. W!Took(w, r).held = known
    BY <2>2
  <2>6. W!Took(w, r).answers = {answer}
    BY <2>2
  <2> QED
    BY <2>4, <2>5, <2>6 DEF will, answer, known
<1>3. /\ W!Without(w, r) \in W!Workers
      /\ W!Without(w, r).held = w.held \ {r}
      /\ W!Without(w, r).answers = w.answers
  BY <1>1 DEF W!Without
<1> QED
  BY <1>2, <1>3, Zenon

LEMMA PassSteps ==
    ASSUME NEW w \in W!Workers, NEW r \in Requests, NEW p \in Passes
    PROVE  /\ W!TakenUp(w, p, r) \in W!Workers
           /\ W!TakenUp(w, p, r).held = w.held
           /\ W!TakenUp(w, p, r).answers = w.answers
           /\ W!CanReport(w, p, r) => W!Reported(w, p, r) \in W!Workers
           /\ W!Reported(w, p, r).held = w.held
           /\ W!Reported(w, p, r).answers = w.answers
           /\ W!Ended(w, p, r) \in W!Workers
           /\ W!Ended(w, p, r).held = w.held
           /\ W!Ended(w, p, r).answers = w.answers
<1> USE DEF W!Workers
<1>1. /\ w.held \subseteq Requests /\ w.reported \subseteq Requests
      /\ w.answers \subseteq [request : Requests, will : BOOLEAN]
      /\ w.tasks \in [Passes -> [Requests -> 0..(MostStatuses + 1)]]
  OBVIOUS
<1>2. ASSUME NEW k \in 0..(MostStatuses + 1)
      PROVE  [w.tasks EXCEPT ![p] = [w.tasks[p] EXCEPT ![r] = k]]
                \in [Passes -> [Requests -> 0..(MostStatuses + 1)]]
  BY <1>1
<1>3. 1 \in 0..(MostStatuses + 1) /\ 0 \in 0..(MostStatuses + 1)
  BY PipelineAssumption DEF PipelineAssumption
<1>4. /\ W!TakenUp(w, p, r) \in W!Workers
      /\ W!TakenUp(w, p, r).held = w.held
      /\ W!TakenUp(w, p, r).answers = w.answers
  <2> DEFINE t == [w.tasks EXCEPT ![p] = [w.tasks[p] EXCEPT ![r] = 1]]
  <2>1. W!TakenUp(w, p, r) = [w EXCEPT !.tasks = t]
    BY DEF W!TakenUp, W!Fresh
  <2>2. t \in [Passes -> [Requests -> 0..(MostStatuses + 1)]]
    BY <1>2, <1>3
  <2> HIDE DEF t
  <2> QED
    BY <2>1, <2>2
<1>5. /\ W!CanReport(w, p, r) => W!Reported(w, p, r) \in W!Workers
      /\ W!Reported(w, p, r).held = w.held
      /\ W!Reported(w, p, r).answers = w.answers
  <2> DEFINE k == w.tasks[p][r] + 1
             t == [w.tasks EXCEPT ![p] = [w.tasks[p] EXCEPT ![r] = k]]
  <2>1. W!Reported(w, p, r) = [w EXCEPT !.tasks = t]
    BY DEF W!Reported
  <2>2. W!CanReport(w, p, r) => k \in 0..(MostStatuses + 1)
    BY <1>1, PipelineAssumption DEF W!CanReport, W!Fresh, PipelineAssumption
  <2> HIDE DEF k
  <2>3. W!CanReport(w, p, r)
           => t \in [Passes -> [Requests -> 0..(MostStatuses + 1)]]
    BY <1>2, <2>2
  <2> HIDE DEF t
  <2> QED
    BY <2>1, <2>3
<1>6. /\ W!Ended(w, p, r) \in W!Workers
      /\ W!Ended(w, p, r).held = w.held
      /\ W!Ended(w, p, r).answers = w.answers
  <2> DEFINE t == [w.tasks EXCEPT ![p] = [w.tasks[p] EXCEPT ![r] = 0]]
             d == w.reported \cup {r}
  <2>1. W!Ended(w, p, r) = [w EXCEPT !.tasks = t, !.reported = d]
    BY DEF W!Ended, W!NoTask
  <2>2. t \in [Passes -> [Requests -> 0..(MostStatuses + 1)]]
        /\ d \subseteq Requests
    BY <1>1, <1>2, <1>3
  <2> HIDE DEF t, d
  <2> QED
    BY <2>1, <2>2
<1> QED
  BY <1>4, <1>5, <1>6, Zenon

LEMMA NewWorkerSteps ==
    /\ W!NewWorker \in W!Workers
    /\ W!NewWorker.answers = {} /\ Known(W!NewWorker) = {}
  BY PipelineAssumption
  DEF PipelineAssumption, W!Workers, W!NewWorker, W!NoTask, Known

LEMMA IdleSteps ==
    ASSUME NEW w \in W!Workers
    PROVE  /\ W!Released(w) \in W!Workers
           /\ W!Released(w).held = w.held /\ W!Released(w).answers = {}
           /\ W!Restarted(w) \in W!Workers
           /\ W!Restarted(w).answers = {} /\ Known(W!Restarted(w)) = {}
<1>1. /\ W!Released(w) \in W!Workers
      /\ W!Released(w).held = w.held /\ W!Released(w).answers = {}
  BY DEF W!Workers, W!Released
<1>2. W!Restarted(w) = [W!NewWorker EXCEPT !.reported = w.reported]
  BY DEF W!Restarted
<1> DEFINE new == W!NewWorker
<1>3. new \in W!Workers /\ new.answers = {} /\ new.held = {}
  BY NewWorkerSteps DEF W!NewWorker
<1> HIDE DEF new
<1>4. W!Restarted(w) \in W!Workers
  BY <1>2, <1>3 DEF new, W!Workers
<1>5. W!Restarted(w).answers = {} /\ W!Restarted(w).held = {}
  BY <1>2, <1>3 DEF new, W!Workers
<1>6. Known(W!Restarted(w)) = {}
  BY <1>5 DEF Known
<1> QED
  BY <1>1, <1>4, <1>5, <1>6

NothingDeclined(w, replies) ==
    /\ \A a \in w.answers : a.will
    /\ \A i \in 1..Len(replies) :
          replies[i].kind = "Confirmation" => replies[i].will

Forgets(letters, known, then, knownThen) ==
    \A r \in Requests :
        /\ IsAskedAnew(letters, known, r) => IsAskedAnew(then, knownThen, r)
        /\ IsAskedAnew(letters, known, r)
           /\ HasForgotten(letters, known, r, Len(letters) + 1)
              => HasForgotten(then, knownThen, r, Len(then) + 1)

EntriesTyped == entry \in [Stages -> [Requests -> Entries]]

LEMMA SetsWorker ==
    ASSUME PipelineInv, NEW s \in Stages, NEW w
    PROVE  /\ \A heard : SetWorkerHeard(s, w, heard)
                 => workers' = [workers EXCEPT ![s] = w] /\ EntriesTyped'
           /\ SetWorker(s, w)
                 => workers' = [workers EXCEPT ![s] = w] /\ EntriesTyped'
<1>1. ASSUME NEW heard, SetWorkerHeard(s, w, heard)
      PROVE  workers' = [workers EXCEPT ![s] = w] /\ EntriesTyped'
  <2>1. EntriesTyped
    BY DEF PipelineInv, PipelineTypeOK, EntriesTyped
  <2> DEFINE now == [r \in Requests |->
                        FirstEntry(entry[s][r], r \in w.held, r \in heard)]
  <2>2. workers' = [workers EXCEPT ![s] = w]
        /\ entry' = [entry EXCEPT ![s] = now]
    BY <1>1 DEF SetWorkerHeard
  <2>3. \A e \in Entries : \A a, b : FirstEntry(e, a, b) \in Entries
    BY DEF FirstEntry, Entries
  <2>4. now \in [Requests -> Entries]
    BY <2>1, <2>3 DEF EntriesTyped
  <2> HIDE DEF now
  <2> QED
    BY <2>1, <2>2, <2>4 DEF EntriesTyped
<1> QED
  BY <1>1 DEF SetWorker

(* A step of worker s, which the saga and the other workers do not notice. *)
LEMMA WorkerFrame ==
    ASSUME PipelineInv, NEW s \in Stages, NEW w \in W!Workers,
           NEW letters \in Seq(Letter), NEW replies \in Seq(Replies),
           UNCHANGED saga,
           workers' = [workers EXCEPT ![s] = w],
           toWorker' = [toWorker EXCEPT ![s] = letters],
           toServer' = [toServer EXCEPT ![s] = replies],
           cancels' \in 0..MaxCancels, restarts' \in 0..MaxRestarts,
           failures' \in 0..MaxFailures, crashes' \in 0..MaxCrashes,
           EntriesTyped',
           \A a, b \in w.answers : a = b,
           failures' = 0 =>
              /\ failures = 0
              /\ NothingDeclined(w, replies)
              /\ Forgets(toWorker[s], Known(workers[s]), letters, Known(w))
    PROVE  PipelineInv'
<1>1. /\ TypeOK /\ AskedInv /\ OneInHand /\ NobodyDeclines
      /\ workers \in [Stages -> W!Workers]
      /\ toWorker \in [Stages -> Seq(Letter)]
      /\ toServer \in [Stages -> Seq(Replies)]
      /\ failures = 0 => AskedAnew
  BY DEF PipelineInv, PipelineTypeOK
<1>2. TypeOK' /\ AskedInv'
  BY <1>1, NextType, NextAsked, SagaAssumption DEF saga
<1>3. /\ workers'[s] = w /\ toWorker'[s] = letters /\ toServer'[s] = replies
      /\ \A t \in Stages : t # s => /\ workers'[t] = workers[t]
                                   /\ toWorker'[t] = toWorker[t]
                                   /\ toServer'[t] = toServer[t]
  BY <1>1
<1>4. PipelineTypeOK'
  BY <1>1, <1>2 DEF PipelineTypeOK, EntriesTyped
<1>5. OneInHand'
  BY <1>1, <1>3 DEF OneInHand
<1>6. NobodyDeclines'
  <2> SUFFICES ASSUME failures' = 0, NEW t \in Stages
               PROVE  /\ \A a \in workers'[t].answers : a.will
                      /\ \A i \in 1..Len(toServer'[t]) :
                            toServer'[t][i].kind = "Confirmation"
                               => toServer'[t][i].will
    BY DEF NobodyDeclines
  <2>1. CASE t = s
    BY <1>3, <2>1 DEF NothingDeclined
  <2>2. CASE t # s
    BY <1>1, <1>3, <2>2 DEF NobodyDeclines
  <2> QED
    BY <2>1, <2>2
<1>7. ASSUME failures' = 0 PROVE AskedAnew'
  <2> SUFFICES ASSUME NEW t \in Stages, NEW p \in Requests
               PROVE  /\ IsAskedAnew(toWorker'[t], Known(workers'[t]), p)
                      /\ asked'[p][t] = 0
                           => HasForgotten(toWorker'[t], Known(workers'[t]), p,
                                           Len(toWorker'[t]) + 1)
    BY DEF AskedAnew
  <2>1. asked' = asked
    BY DEF saga, vars
  <2>2. /\ IsAskedAnew(toWorker[t], Known(workers[t]), p)
        /\ asked[p][t] = 0
             => HasForgotten(toWorker[t], Known(workers[t]), p,
                             Len(toWorker[t]) + 1)
    BY <1>1, <1>7 DEF AskedAnew
  <2>3. CASE t = s
    BY <1>3, <1>7, <2>1, <2>2, <2>3 DEF Forgets
  <2>4. CASE t # s
    BY <1>3, <2>1, <2>2, <2>4
  <2> QED
    BY <2>3, <2>4
<1> QED
  BY <1>2, <1>4, <1>5, <1>6, <1>7 DEF PipelineInv

(* What a worker has of the invariant before a step of it.                 *)
LEMMA WorkerBefore ==
    ASSUME PipelineInv, NEW s \in Stages
    PROVE  /\ workers[s] \in W!Workers
           /\ toWorker[s] \in Seq(Letter)
           /\ toServer[s] \in Seq(Replies)
           /\ \A a, b \in workers[s].answers : a = b
           /\ failures = 0 => NothingDeclined(workers[s], toServer[s])
           /\ workers = [workers EXCEPT ![s] = workers[s]]
           /\ toWorker = [toWorker EXCEPT ![s] = toWorker[s]]
           /\ toServer = [toServer EXCEPT ![s] = toServer[s]]
           /\ cancels \in 0..MaxCancels /\ restarts \in 0..MaxRestarts
           /\ failures \in 0..MaxFailures /\ crashes \in 0..MaxCrashes
           /\ failures = 0 => \A r \in Requests :
                 IsAskedAnew(toWorker[s], Known(workers[s]), r)
  BY DEF PipelineInv, PipelineTypeOK, OneInHand, NobodyDeclines,
         NothingDeclined, AskedAnew

(* A worker that only gets to know less leaves its letters alone.          *)
LEMMA ForgetsMore ==
    ASSUME NEW letters, NEW K, NEW L, L \subseteq K
    PROVE  Forgets(letters, K, letters, L)
  BY KnowsLess DEF Forgets

(* A reply more.                                                           *)
LEMMA AppendDeclines ==
    ASSUME NEW w, NEW v, NEW replies \in Seq(Replies), NEW m \in Replies,
           NothingDeclined(w, replies), v.answers \subseteq w.answers,
           m.kind = "Confirmation" => m.will
    PROVE  NothingDeclined(v, Append(replies, m))
<1> DEFINE more == Append(replies, m)
<1>1. PICK l \in Nat : Len(replies) = l
  BY LenProperties
<1>2. /\ Len(more) = l + 1 /\ more[l + 1] = m
      /\ \A j \in 1..l : more[j] = replies[j]
  BY <1>1, AppendProperties
<1> HIDE DEF more
<1>3. \A i \in 1..(l + 1) : i = l + 1 \/ i \in 1..l
  OBVIOUS
<1> QED
  BY <1>1, <1>2, <1>3 DEF NothingDeclined, more

(* A letter comes in: a request is new to the worker.                      *)
LEMMA ReceivesInv ==
    ASSUME PipelineInv, NEW s \in Stages, WorkerReceives(s)
    PROVE  PipelineInv'
<1> DEFINE w == workers[s]
           q == toWorker[s]
           m == Head(q)
           r == m.request
           v == IF m.kind = "Please" THEN W!Took(w, r) ELSE W!Without(w, r)
<1>1. /\ q # <<>> /\ w.answers = {}
      /\ workers' = [workers EXCEPT ![s] = v] /\ EntriesTyped'
      /\ toWorker' = [toWorker EXCEPT ![s] = Tail(q)]
      /\ UNCHANGED <<saga, toServer, counts>>
  BY SetsWorker DEF WorkerReceives, W!IsFree
<1>2. w \in W!Workers /\ q \in Seq(Letter) /\ toServer[s] \in Seq(Replies)
  BY WorkerBefore
<1>3. /\ m \in Letter /\ r \in Requests /\ m = q[1]
      /\ Tail(q) \in Seq(Letter)
  <2>1. m \in Letter /\ Tail(q) \in Seq(Letter) /\ m = q[1]
    BY <1>1, <1>2, HeadTailProperties
  <2> QED
    BY <2>1, LetterTypes
<1>4. /\ m.kind = "Please" => m = PleaseWork(r)
      /\ m.kind # "Please" => m = PleaseStop(r)
  BY <1>3, LetterTypes
<1>5. Known(w) = w.held
  BY <1>1 DEF Known
<1>6. ASSUME m.kind = "Please"
      PROVE  /\ v \in W!Workers
             /\ v.answers = {[request |-> r, will |-> r \notin w.held]}
             /\ Known(v) = w.held \cup {r}
  <2>1. /\ W!Took(w, r) \in W!Workers
        /\ W!Took(w, r).held = w.held \cup {r}
        /\ W!Took(w, r).answers = {[request |-> r, will |-> r \notin w.held]}
    BY <1>2, <1>3, HandlerSteps
  <2>2. Known(W!Took(w, r)) = w.held \cup {r}
    BY <2>1 DEF Known
  <2>3. v = W!Took(w, r)
    BY <1>6
  <2> QED
    BY <2>1, <2>2, <2>3
<1>7. ASSUME m.kind # "Please"
      PROVE  v \in W!Workers /\ v.answers = {} /\ Known(v) = w.held \ {r}
  <2>1. /\ W!Without(w, r) \in W!Workers
        /\ W!Without(w, r).held = w.held \ {r}
        /\ W!Without(w, r).answers = {}
    BY <1>1, <1>2, <1>3, HandlerSteps
  <2>2. Known(W!Without(w, r)) = w.held \ {r}
    BY <2>1 DEF Known
  <2>3. v = W!Without(w, r)
    BY <1>7
  <2> QED
    BY <2>1, <2>2, <2>3
<1> DEFINE K == Known(w)
           L == Known(v)
<1>8. \A p \in Requests :
         p \in L => \/ q[1] = PleaseWork(p)
                    \/ p \in K /\ q[1] # PleaseStop(p)
  <2> SUFFICES ASSUME NEW p \in Requests, p \in L
               PROVE  \/ q[1] = PleaseWork(p)
                      \/ p \in K /\ q[1] # PleaseStop(p)
    OBVIOUS
  <2> HIDE DEF v, K, L, m, q, w
  <2>1. CASE m.kind = "Please"
    BY <1>3, <1>4, <1>5, <1>6, <2>1, LetterTypes DEF K, L
  <2>2. CASE m.kind # "Please"
    <3>1. p \in K /\ p # r
      BY <1>5, <1>7, <2>2 DEF K, L
    <3> QED
      BY <1>3, <1>4, <2>2, <3>1, LetterTypes
  <2> QED
    BY <2>1, <2>2
<1> HIDE DEF w, q, m, v, K, L
<1>9. Forgets(q, K, Tail(q), L)
  <2> SUFFICES ASSUME NEW p \in Requests, IsAskedAnew(q, K, p)
               PROVE  /\ IsAskedAnew(Tail(q), L, p)
                      /\ HasForgotten(q, K, p, Len(q) + 1)
                            => HasForgotten(Tail(q), L, p, Len(Tail(q)) + 1)
    BY DEF Forgets
  <2> QED
    BY <1>1, <1>2, <1>8, TailAnew
<1>10. ASSUME failures = 0, m.kind = "Please" PROVE r \notin w.held
  <2>1. IsAskedAnew(q, K, r)
    BY <1>3, <1>10, WorkerBefore DEF q, K, w
  <2>2. r \in L => q[1] = PleaseWork(r)
    BY <1>3, <1>4, <1>10
  <2>3. q[1] = PleaseWork(r) => r \notin K
    BY <1>1, <1>2, <1>3, <2>1, <2>2, TailAnew
  <2> QED
    BY <1>3, <1>4, <1>5, <1>10, <2>3 DEF K
<1>11. ASSUME failures = 0 PROVE NothingDeclined(v, toServer[s])
  <2>1. \A i \in 1..Len(toServer[s]) :
           toServer[s][i].kind = "Confirmation" => toServer[s][i].will
    BY <1>11, WorkerBefore DEF NothingDeclined
  <2>2. \A a \in v.answers : a.will
    <3>1. CASE m.kind = "Please"
      <4> SUFFICES ASSUME NEW a \in v.answers PROVE a.will
        OBVIOUS
      <4>1. a = [request |-> r, will |-> r \notin w.held]
        BY <1>6, <3>1
      <4>2. r \notin w.held
        BY <1>10, <1>11, <3>1
      <4> DEFINE will == r \notin w.held
      <4>3. a = [request |-> r, will |-> will] /\ will
        BY <4>1, <4>2
      <4> HIDE DEF will
      <4> QED
        BY <4>3
    <3>2. CASE m.kind # "Please"
      BY <1>7, <3>2
    <3> QED
      BY <3>1, <3>2
  <2> QED
    BY <2>1, <2>2 DEF NothingDeclined
<1>12. v \in W!Workers /\ \A a, b \in v.answers : a = b
  BY <1>6, <1>7
<1>13. /\ toServer' = [toServer EXCEPT ![s] = toServer[s]]
       /\ cancels' \in 0..MaxCancels /\ restarts' \in 0..MaxRestarts
       /\ failures' \in 0..MaxFailures /\ crashes' \in 0..MaxCrashes
       /\ failures' = failures
  BY <1>1, WorkerBefore DEF counts
<1>14. Forgets(toWorker[s], Known(workers[s]), Tail(q), Known(v))
  BY <1>9 DEF q, K, L, w
<1> QED
  BY <1>1, <1>2, <1>3, <1>11, <1>12, <1>13, <1>14, WorkerFrame

(* A step of worker s that receives nothing: it gets to know less, or the  *)
(* same, and sends at most one reply.                                      *)
LEMMA QuietFrame ==
    ASSUME PipelineInv, NEW s \in Stages, NEW v \in W!Workers,
           NEW replies \in Seq(Replies),
           UNCHANGED <<saga, toWorker, counts>>, EntriesTyped',
           workers' = [workers EXCEPT ![s] = v],
           toServer' = [toServer EXCEPT ![s] = replies],
           v.answers \subseteq workers[s].answers,
           v.held \subseteq workers[s].held,
           failures = 0 => NothingDeclined(v, replies)
    PROVE  PipelineInv'
<1>1. Known(v) \subseteq Known(workers[s])
  BY DEF Known
<1>2. Forgets(toWorker[s], Known(workers[s]), toWorker[s], Known(v))
  BY <1>1, ForgetsMore
<1>3. /\ toWorker[s] \in Seq(Letter)
      /\ toWorker' = [toWorker EXCEPT ![s] = toWorker[s]]
      /\ cancels' \in 0..MaxCancels /\ restarts' \in 0..MaxRestarts
      /\ failures' \in 0..MaxFailures /\ crashes' \in 0..MaxCrashes
      /\ failures' = failures
      /\ \A a, b \in v.answers : a = b
  BY WorkerBefore DEF counts
<1> QED
  BY <1>2, <1>3, WorkerFrame

LEMMA AnswersInv ==
    ASSUME PipelineInv, NEW s \in Stages, WorkerAnswers(s)
    PROVE  PipelineInv'
<1> DEFINE w == workers[s]
           v == W!Released(w)
<1>1. PICK a \in w.answers :
         toServer' = [toServer EXCEPT ![s] =
            Append(toServer[s], W!Confirmation(a.request, a.will))]
  BY DEF WorkerAnswers, Reply
<1> DEFINE m == W!Confirmation(a.request, a.will)
           replies == Append(toServer[s], m)
<1>2. workers' = [workers EXCEPT ![s] = v] /\ EntriesTyped'
      /\ UNCHANGED <<saga, toWorker, counts>>
  BY SetsWorker DEF WorkerAnswers
<1>3. w \in W!Workers /\ toServer[s] \in Seq(Replies)
  BY WorkerBefore
<1>4. /\ v \in W!Workers /\ v.held \subseteq w.held
      /\ v.answers \subseteq w.answers
  BY <1>3, IdleSteps
<1>5. a \in [request : Requests, will : BOOLEAN]
  BY <1>3 DEF W!Workers
<1>6. m \in Replies /\ (a.will => m.will)
  <2>1. a.request \in Requests /\ a.will \in BOOLEAN
    BY <1>5
  <2> DEFINE will == a.will
  <2>2. m = [kind |-> "Confirmation", request |-> a.request, will |-> will]
    BY DEF W!Confirmation
  <2>3. will \in BOOLEAN
    BY <2>1
  <2> HIDE DEF will, m
  <2>4. m \in Replies
    BY <2>1, <2>2, <2>3 DEF Replies
  <2>5. m.will = will
    BY <2>2
  <2> QED
    BY <2>4, <2>5 DEF will
<1>7. ASSUME failures = 0 PROVE NothingDeclined(v, replies)
  <2>1. NothingDeclined(w, toServer[s])
    BY <1>7, WorkerBefore
  <2>2. a.will
    BY <2>1 DEF NothingDeclined
  <2> HIDE DEF w, v, m
  <2> QED
    BY <1>3, <1>4, <1>6, <2>1, <2>2, AppendDeclines
<1>8. replies \in Seq(Replies)
  BY <1>3, <1>6, AppendProperties
<1> HIDE DEF v, m, replies
<1> QED
  BY <1>1, <1>2, <1>4, <1>7, <1>8, QuietFrame DEF replies, m

(* The message in hand is one letter, or none.                             *)
LEMMA HandedBack ==
    ASSUME PipelineInv, NEW s \in Stages
    PROVE  LET w == workers[s]
               q == toWorker[s]
           IN  \/ w.answers = {} /\ InHand(w) \o q = q
               \/ \E x \in Letter : /\ InHand(w) \o q = <<x>> \o q
                                    /\ x.request \in Known(w)
                                    /\ x = PleaseWork(x.request)
<1> DEFINE w == workers[s]
           q == toWorker[s]
           A == w.answers
<1>1. w \in W!Workers /\ q \in Seq(Letter) /\ \A a, b \in A : a = b
  BY WorkerBefore
<1>2. CASE A = {}
  <2>1. Cardinality(A) = 0
    BY <1>2, FS_EmptySet
  <2>2. InHand(w) = <<>>
    BY <2>1 DEF InHand
  <2>3. <<>> \o q = q
    BY <1>1, ConcatEmptySeq
  <2> QED
    BY <1>2, <2>2, <2>3
<1>3. CASE A # {}
  <2>1. PICK a \in A : A = {a}
    BY <1>1, <1>3
  <2>2. Cardinality(A) = 1
    BY <2>1, FS_Singleton
  <2>3. (CHOOSE b \in A : TRUE) = a
    BY <2>1
  <2> DEFINE x == PleaseWork(a.request)
  <2>4. InHand(w) = <<x>>
    <3>1. InHand(w) = [i \in 1..Cardinality(w.answers) |->
                          PleaseWork((CHOOSE b \in w.answers : TRUE).request)]
      BY DEF InHand
    <3>2. InHand(w) = [i \in 1..1 |-> x]
      BY <2>2, <2>3, <3>1
    <3> HIDE DEF x
    <3> QED
      BY <3>2
  <2>5. a \in [request : Requests, will : BOOLEAN]
    BY <1>1 DEF W!Workers
  <2>6. x \in Letter /\ x.request = a.request
    <3>1. a.request \in Requests
      BY <2>5
    <3>2. x \in Letter
      BY <3>1, LetterTypes
    <3> QED
      BY <3>2 DEF PleaseWork
  <2>7. x.request \in Known(w)
    BY <2>6 DEF Known
  <2>8. x = PleaseWork(x.request)
    BY <2>6
  <2> HIDE DEF x
  <2> QED
    BY <2>4, <2>6, <2>7, <2>8
<1> QED
  BY <1>2, <1>3

LEMMA FailsInv ==
    ASSUME PipelineInv, NEW s \in Stages, WorkerFails(s)
    PROVE  PipelineInv'
<1> DEFINE w == workers[s]
           q == toWorker[s]
           v == W!Released(w)
           letters == InHand(w) \o q
<1>1. /\ workers' = [workers EXCEPT ![s] = v] /\ EntriesTyped'
      /\ toWorker' = [toWorker EXCEPT ![s] = letters]
      /\ failures < MaxFailures /\ failures' = failures + 1
      /\ UNCHANGED <<saga, toServer, cancels, restarts, crashes>>
  BY SetsWorker DEF WorkerFails, Redeliver
<1>2. v \in W!Workers /\ v.answers = {}
  BY WorkerBefore, IdleSteps
<1>3. letters \in Seq(Letter)
  <2>1. q \in Seq(Letter)
    BY WorkerBefore
  <2>2. ASSUME NEW x \in Letter PROVE <<x>> \o q \in Seq(Letter)
    <3>1. <<x>> \in Seq(Letter)
      OBVIOUS
    <3> QED
      BY <2>1, <3>1, ConcatProperties
  <2> QED
    BY <2>1, <2>2, HandedBack
<1>4. /\ toServer[s] \in Seq(Replies)
      /\ toServer' = [toServer EXCEPT ![s] = toServer[s]]
      /\ cancels' \in 0..MaxCancels /\ restarts' \in 0..MaxRestarts
      /\ crashes' \in 0..MaxCrashes
  BY <1>1, WorkerBefore
<1>5. failures' \in 0..MaxFailures /\ failures' # 0
  BY <1>1, WorkerBefore, PipelineAssumption DEF PipelineAssumption
<1> HIDE DEF v, letters
<1> QED
  BY <1>1, <1>2, <1>3, <1>4, <1>5, WorkerFrame

LEMMA CrashesInv ==
    ASSUME PipelineInv, NEW s \in Stages, WorkerCrashes(s)
    PROVE  PipelineInv'
<1> DEFINE w == workers[s]
           q == toWorker[s]
           v == W!Restarted(w)
           letters == InHand(w) \o q
<1>1. /\ workers' = [workers EXCEPT ![s] = v] /\ EntriesTyped'
      /\ toWorker' = [toWorker EXCEPT ![s] = letters]
      /\ crashes < MaxCrashes /\ crashes' = crashes + 1
      /\ UNCHANGED <<saga, toServer, cancels, restarts, failures>>
  BY SetsWorker DEF WorkerCrashes, Redeliver
<1>2. v \in W!Workers /\ v.answers = {} /\ Known(v) = {}
  BY WorkerBefore, IdleSteps
<1>3. q \in Seq(Letter)
  BY WorkerBefore
<1>4. /\ letters \in Seq(Letter)
      /\ Forgets(q, Known(w), letters, Known(v))
  <2>1. CASE w.answers = {} /\ letters = q
    BY <1>2, <1>3, <2>1, ForgetsMore
  <2>2. ASSUME NEW x \in Letter, letters = <<x>> \o q,
               x.request \in Known(w), x = PleaseWork(x.request)
        PROVE  /\ letters \in Seq(Letter)
               /\ Forgets(q, Known(w), letters, Known(v))
    <3>1. <<x>> \in Seq(Letter)
      OBVIOUS
    <3>2. letters \in Seq(Letter)
      BY <1>3, <2>2, <3>1, ConcatProperties
    <3> DEFINE K == Known(w)
    <3>3. \A r \in Requests : x = PleaseWork(r) => r \in K
      BY <2>2, LetterTypes
    <3> HIDE DEF K, q, letters, v
    <3>4. Forgets(q, K, letters, {})
      BY <1>3, <2>2, <3>3, RedeliveredAnew DEF Forgets
    <3> QED
      BY <1>2, <3>2, <3>4 DEF K
  <2> QED
    BY <2>1, <2>2, HandedBack
<1>5. /\ toServer[s] \in Seq(Replies)
      /\ toServer' = [toServer EXCEPT ![s] = toServer[s]]
      /\ cancels' \in 0..MaxCancels /\ restarts' \in 0..MaxRestarts
      /\ failures' \in 0..MaxFailures
      /\ failures = 0 => NothingDeclined(v, toServer[s])
  BY <1>1, <1>2, WorkerBefore DEF NothingDeclined
<1>6. crashes' \in 0..MaxCrashes
  BY <1>1, WorkerBefore, PipelineAssumption DEF PipelineAssumption
<1> HIDE DEF v, letters
<1> QED
  BY <1>1, <1>2, <1>4, <1>5, <1>6, WorkerFrame

LEMMA PassesInv ==
    ASSUME PipelineInv, NEW s \in Stages, NEW p \in Passes, NEW r \in Requests,
           PassActs(s, p, r)
    PROVE  PipelineInv'
<1> DEFINE w == workers[s]
<1>1. /\ w \in W!Workers /\ toServer[s] \in Seq(Replies)
      /\ toServer = [toServer EXCEPT ![s] = toServer[s]]
      /\ failures = 0 => NothingDeclined(w, toServer[s])
  BY WorkerBefore
<1>2. CASE PassTakesUp(s, p, r)
  <2> DEFINE v == W!TakenUp(w, p, r)
  <2>1. /\ workers' = [workers EXCEPT ![s] = v] /\ EntriesTyped'
        /\ toServer' = [toServer EXCEPT ![s] = toServer[s]]
        /\ UNCHANGED <<saga, toWorker, counts>>
    BY <1>1, <1>2, SetsWorker DEF PassTakesUp, queues
  <2>2. v \in W!Workers /\ v.held = w.held /\ v.answers = w.answers
    BY <1>1, PassSteps
  <2> HIDE DEF v
  <2>3. failures = 0 => NothingDeclined(v, toServer[s])
    BY <1>1, <2>2 DEF NothingDeclined
  <2> QED
    BY <1>1, <2>1, <2>2, <2>3, QuietFrame
<1>3. ASSUME NEW v \in W!Workers, NEW m \in Replies, m.kind # "Confirmation",
             v.held = w.held, v.answers = w.answers, Reply(s, m),
             workers' = [workers EXCEPT ![s] = v], EntriesTyped',
             UNCHANGED <<saga, toWorker, counts>>
      PROVE  PipelineInv'
  <2> DEFINE replies == Append(toServer[s], m)
  <2>1. toServer' = [toServer EXCEPT ![s] = replies]
    BY <1>3 DEF Reply
  <2>2. replies \in Seq(Replies)
    BY <1>1, AppendProperties
  <2>3. failures = 0 => NothingDeclined(v, replies)
    BY <1>1, <1>3, AppendDeclines
  <2> HIDE DEF replies
  <2> QED
    BY <1>1, <1>3, <2>1, <2>2, <2>3, QuietFrame
<1>4. CASE PassReports(s, p, r)
  <2> DEFINE k == w.tasks[p][r] - W!Fresh
             m == W!Status(r, k)
             v == W!Reported(w, p, r)
  <2>1. /\ W!CanReport(w, p, r) /\ Reply(s, m)
        /\ workers' = [workers EXCEPT ![s] = v] /\ EntriesTyped'
        /\ UNCHANGED <<saga, toWorker, counts>>
    BY <1>4, SetsWorker DEF PassReports
  <2>2. v \in W!Workers /\ v.held = w.held /\ v.answers = w.answers
    BY <1>1, <2>1, PassSteps
  <2>3. k \in 0..(MostStatuses - 1)
    BY <1>1, <2>1, PipelineAssumption
    DEF W!Workers, W!CanReport, W!Fresh, PipelineAssumption
  <2> HIDE DEF k, v
  <2>4. m \in Replies /\ m.kind # "Confirmation"
    BY <2>3 DEF W!Status, Replies
  <2> HIDE DEF m
  <2> QED
    BY <1>3, <2>1, <2>2, <2>4
<1>5. CASE PassFinishes(s, p, r)
  <2> DEFINE v == W!Ended(w, p, r)
  <2>1. PICK ok \in BOOLEAN : Reply(s, W!Outcome(r, ok))
    BY <1>5 DEF PassFinishes
  <2>2. /\ workers' = [workers EXCEPT ![s] = v] /\ EntriesTyped'
        /\ UNCHANGED <<saga, toWorker, counts>>
    BY <1>5, SetsWorker DEF PassFinishes
  <2>3. v \in W!Workers /\ v.held = w.held /\ v.answers = w.answers
    BY <1>1, PassSteps
  <2> DEFINE m == W!Outcome(r, ok)
  <2>4. m \in Replies /\ m.kind # "Confirmation"
    BY DEF W!Outcome, Replies
  <2> HIDE DEF v, m
  <2> QED
    BY <1>3, <2>1, <2>2, <2>3, <2>4 DEF m
<1> QED
  BY <1>2, <1>4, <1>5 DEF PassActs

LEMMA DropsInv ==
    ASSUME PipelineInv, NEW s \in Stages, NEW r \in Requests, PassDrops(s, r)
    PROVE  PipelineInv'
<1> DEFINE w == workers[s]
           v == W!Without(w, r)
<1>1. /\ w \in W!Workers /\ toServer[s] \in Seq(Replies)
      /\ toServer = [toServer EXCEPT ![s] = toServer[s]]
      /\ failures = 0 => NothingDeclined(w, toServer[s])
  BY WorkerBefore
<1>2. /\ workers' = [workers EXCEPT ![s] = v] /\ EntriesTyped'
      /\ toServer' = [toServer EXCEPT ![s] = toServer[s]]
      /\ UNCHANGED <<saga, toWorker, counts>>
  BY <1>1, SetsWorker DEF PassDrops, queues
<1>3. /\ v \in W!Workers /\ v.held \subseteq w.held /\ v.answers = w.answers
  BY <1>1, HandlerSteps
<1> HIDE DEF v
<1>4. failures = 0 => NothingDeclined(v, toServer[s])
  BY <1>1, <1>3 DEF NothingDeclined
<1> QED
  BY <1>1, <1>2, <1>3, <1>4, QuietFrame

-----------------------------------------------------------------------------
(* The steps of the server                                                 *)

(* A reply that the server handles is a message of a worker to the saga.   *)
LEMMA ReplyIsWorkerMessage ==
    ASSUME NEW s \in Stages, NEW m \in Replies, HandleReply(s, m)
    PROVE  WorkerMessage(m.request)
<1>1. m.kind = "Status" => m.progress \in Progress
  <2>1. m.kind = "Status" => m.progress \in 0..(MostStatuses - 1)
    BY DEF Replies
  <2> QED
    BY <2>1, PipelineAssumption DEF PipelineAssumption
<1>2. Confirmation(s, m.request) \/ Status(s, m.request) \/ Finish(s, m.request)
  BY <1>1 DEF HandleReply, Confirmation, Status, Finish
<1> QED
  BY <1>2
  DEF WorkerMessage, Stages, Validation, Initialization, Builds, Tests,
      HandleValidationRequestConfirmation, HandleValidationStatus,
      HandleValidationFinished, HandleInitializeRequestConfirmation,
      HandleInitializeStatus, HandleInitializeFinished,
      HandleBuildsRequestConfirmation, HandleBuildsStatus,
      HandleBuildsFinished, HandleTestsRequestConfirmation,
      HandleTestsStatus, HandleTestsFinished

LEMMA ServerActsInv ==
    ASSUME PipelineInv, NEW r \in Requests, ServerActs(r)
    PROVE  PipelineInv'
<1>1. /\ UserCommand(r) \/ WorkerMessage(r) \/ Timeout(r)
      /\ Deliver(r) /\ UNCHANGED <<workers, toServer, failures, entry>>
  BY DEF ServerActs, Submit, CancelByUser, RestartByUser, TimeoutFires, counts,
         UserCommand
<1>2. /\ cancels' \in 0..MaxCancels /\ restarts' \in 0..MaxRestarts
      /\ crashes' \in 0..MaxCrashes
  BY PipelineAssumption
  DEF PipelineInv, PipelineTypeOK, PipelineAssumption, ServerActs, Submit,
      CancelByUser, RestartByUser, TimeoutFires, counts
<1>3. /\ TypeOK' /\ AskedInv'
      /\ toWorker' \in [Stages -> Seq(Letter)]
      /\ failures = 0 => AskedAnew'
  BY <1>1, DeliverInv
<1>4. PipelineTypeOK'
  BY <1>1, <1>2, <1>3 DEF PipelineInv, PipelineTypeOK
<1>5. OneInHand' /\ NobodyDeclines'
  BY <1>1 DEF PipelineInv, OneInHand, NobodyDeclines
<1> QED
  BY <1>1, <1>3, <1>4, <1>5 DEF PipelineInv

LEMMA ServerReceivesInv ==
    ASSUME PipelineInv, NEW s \in Stages, ServerReceives(s)
    PROVE  PipelineInv'
<1> DEFINE replies == toServer[s]
           m == Head(replies)
<1>1. /\ replies # <<>>
      /\ toServer' = [toServer EXCEPT ![s] = Tail(replies)]
      /\ UNCHANGED <<workers, counts, entry>>
      /\ \/ HandleReply(s, m) /\ Deliver(m.request)
         \/ UNCHANGED <<saga, toWorker>>
  BY DEF ServerReceives
<1>2. /\ replies \in Seq(Replies)
      /\ failures = 0 => NothingDeclined(workers[s], replies)
  BY WorkerBefore
<1>3. m \in Replies /\ Tail(replies) \in Seq(Replies)
  BY <1>1, <1>2, HeadTailProperties
<1>4. failures = 0 => NothingDeclined(workers[s], Tail(replies))
  <2> SUFFICES ASSUME failures = 0
               PROVE  NothingDeclined(workers[s], Tail(replies))
    OBVIOUS
  <2>1. NothingDeclined(workers[s], replies)
    BY <1>2
  <2> DEFINE rest == Tail(replies)
  <2> HIDE DEF replies
  <2>2. PICK l \in Nat : Len(rest) = l
    BY <1>3, LenProperties
  <2>3. \A j \in 1..l : j + 1 \in 1..Len(replies) /\ rest[j] = replies[j + 1]
    <3>1. PICK k \in Nat : Len(replies) = k
      BY <1>2, LenProperties
    <3>2. l = k - 1
      BY <1>1, <1>2, <2>2, <3>1, HeadTailProperties
    <3>3. k = l + 1
      BY <3>1, <3>2
    <3> QED
      BY <1>1, <1>2, <2>2, <3>1, <3>3, HeadTailProperties
  <2> HIDE DEF rest
  <2>4. NothingDeclined(workers[s], rest)
    BY <2>1, <2>2, <2>3 DEF NothingDeclined
  <2> QED
    BY <2>4 DEF rest
<1>5. CASE UNCHANGED <<saga, toWorker>>
  <2>1. /\ workers[s] \in W!Workers
        /\ workers' = [workers EXCEPT ![s] = workers[s]]
        /\ UNCHANGED <<saga, toWorker, counts>> /\ EntriesTyped'
    BY <1>1, <1>5, WorkerBefore
    DEF PipelineInv, PipelineTypeOK, EntriesTyped
  <2> HIDE DEF replies
  <2> QED
    BY <1>1, <1>3, <1>4, <2>1, QuietFrame
<1>6. CASE HandleReply(s, m) /\ Deliver(m.request)
  <2> HIDE DEF m
  <2>1. m.request \in Requests
    BY <1>3 DEF Replies
  <2>2. WorkerMessage(m.request)
    BY <1>3, <1>6, ReplyIsWorkerMessage
  <2>3. /\ TypeOK' /\ AskedInv'
        /\ toWorker' \in [Stages -> Seq(Letter)]
        /\ failures = 0 => AskedAnew'
    BY <1>1, <1>6, <2>1, <2>2, DeliverInv
  <2>4. PipelineTypeOK'
    BY <1>1, <1>3, <2>3 DEF PipelineInv, PipelineTypeOK, counts
  <2>5. OneInHand'
    BY <1>1 DEF PipelineInv, OneInHand
  <2>6. NobodyDeclines'
    <3> SUFFICES ASSUME failures = 0, NEW t \in Stages
                 PROVE  NothingDeclined(workers[t], toServer'[t])
      BY <1>1 DEF NobodyDeclines, NothingDeclined, counts
    <3>1. CASE t = s
      <4>1. toServer'[s] = Tail(replies)
        BY <1>1 DEF PipelineInv, PipelineTypeOK
      <4> QED
        BY <1>4, <3>1, <4>1
    <3>2. CASE t # s
      <4>1. toServer'[t] = toServer[t]
        BY <1>1, <3>2 DEF PipelineInv, PipelineTypeOK
      <4>2. NothingDeclined(workers[t], toServer[t])
        BY WorkerBefore
      <4> QED
        BY <4>1, <4>2
    <3> QED
      BY <3>1, <3>2
  <2> QED
    BY <1>1, <2>3, <2>4, <2>5, <2>6 DEF PipelineInv, counts
<1> QED
  BY <1>1, <1>5, <1>6

-----------------------------------------------------------------------------
(* The theorems                                                            *)

LEMMA PipelineInitInv == ASSUME PipelineInit PROVE PipelineInv
<1>1. TypeOK /\ AskedInv
  BY InitType, InitAsked, SagaAssumption DEF PipelineInit
<1>2. \A s \in Stages :
         /\ workers[s] = W!NewWorker /\ W!NewWorker \in W!Workers
         /\ W!NewWorker.answers = {} /\ Known(workers[s]) = {}
         /\ toWorker[s] = <<>> /\ toServer[s] = <<>>
  BY NewWorkerSteps DEF PipelineInit
<1>3. PipelineTypeOK
  <2>1. <<>> \in Seq(Letter) /\ <<>> \in Seq(Replies)
    BY EmptySeq
  <2>2. /\ workers \in [Stages -> W!Workers]
        /\ toWorker \in [Stages -> Seq(Letter)]
        /\ toServer \in [Stages -> Seq(Replies)]
        /\ entry \in [Stages -> [Requests -> Entries]]
    BY <1>2, <2>1 DEF PipelineInit, Entries
  <2> QED
    BY <1>1, <2>2, PipelineAssumption
    DEF PipelineInit, PipelineTypeOK, PipelineAssumption
<1>4. Len(<<>>) = 0
  BY EmptySeq
<1>5. OneInHand /\ NobodyDeclines
  BY <1>2, <1>4 DEF OneInHand, NobodyDeclines
<1>6. AskedAnew
  BY <1>2, <1>4 DEF AskedAnew, IsAskedAnew, HasForgotten
<1> QED
  BY <1>1, <1>3, <1>5, <1>6 DEF PipelineInv

LEMMA PipelineNextInv ==
    ASSUME PipelineInv, [PipelineNext]_pipeline
    PROVE  PipelineInv'
<1>1. CASE UNCHANGED pipeline
  <2>1. /\ UNCHANGED saga
        /\ UNCHANGED <<workers, toWorker, toServer, cancels, restarts,
                       failures, crashes, entry>>
    BY <1>1 DEF pipeline, queues, counts
  <2>2. TypeOK' /\ AskedInv'
    BY <2>1, NextType, NextAsked, SagaAssumption
    DEF PipelineInv, PipelineTypeOK, saga
  <2>3. PipelineTypeOK' /\ OneInHand' /\ NobodyDeclines'
    BY <2>1, <2>2 DEF PipelineInv, PipelineTypeOK, OneInHand, NobodyDeclines
  <2>4. failures' = 0 => AskedAnew'
    BY <2>1 DEF PipelineInv, AskedAnew, saga, vars
  <2> QED
    BY <2>2, <2>3, <2>4 DEF PipelineInv
<1>2. ASSUME NEW s \in Running, ServerReceives(s) \/ WorkerActs(s)
      PROVE  PipelineInv'
  <2>1. s \in Stages
    BY PipelineAssumption DEF PipelineAssumption
  <2> QED
    BY <1>2, <2>1, ServerReceivesInv, ReceivesInv, AnswersInv, FailsInv,
       CrashesInv, DropsInv, PassesInv
    DEF WorkerActs
<1> QED
  BY <1>1, <1>2, ServerActsInv DEF PipelineNext

LEMMA PipelineInvariance == PipelineSpec => []PipelineInv
<1>1. PipelineInit => PipelineInv
  BY PipelineInitInv
<1>2. PipelineInv /\ [PipelineNext]_pipeline => PipelineInv'
  BY PipelineNextInv
<1> QED
  BY <1>1, <1>2, PTL DEF PipelineSpec

(* The saga, the workers and the queues hold what they can hold: no status *)
(* is reported beyond the last, and no handler sends what is no message.   *)
THEOREM PipelineTypeCorrect == PipelineSpec => []PipelineTypeOK
<1>1. PipelineInv => PipelineTypeOK
  BY DEF PipelineInv
<1> QED
  BY <1>1, PipelineInvariance, PTL

(* As long as no handler is retried, no worker declines a request, however *)
(* often the user cancels and restarts, the workers crash, and messages of *)
(* different workers overtake each other.                                  *)
THEOREM NobodyEverDeclines == PipelineSpec => []NobodyDeclines
<1>1. PipelineInv => NobodyDeclines
  BY DEF PipelineInv
<1> QED
  BY <1>1, PipelineInvariance, PTL

LEMMA StepOfSaga ==
    ASSUME PipelineInv, [PipelineNext]_pipeline
    PROVE  [Next]_vars
<1>1. CASE UNCHANGED pipeline
  BY <1>1 DEF pipeline, saga
<1>2. ASSUME NEW r \in Requests, ServerActs(r) PROVE Next
  BY <1>2 DEF ServerActs, Submit, CancelByUser, RestartByUser, TimeoutFires,
              UserCommand, Next
<1>3. ASSUME NEW s \in Running, ServerReceives(s) PROVE [Next]_vars
  <2> DEFINE m == Head(toServer[s])
  <2>1. s \in Stages
    BY PipelineAssumption DEF PipelineAssumption
  <2>2. toServer[s] # <<>> /\ (HandleReply(s, m) \/ UNCHANGED saga)
    BY <1>3 DEF ServerReceives
  <2>3. m \in Replies
    BY <2>1, <2>2, WorkerBefore, HeadTailProperties
  <2> HIDE DEF m
  <2>4. m.request \in Requests
    BY <2>3 DEF Replies
  <2>5. HandleReply(s, m) => Next
    BY <2>1, <2>3, <2>4, ReplyIsWorkerMessage DEF Next
  <2> QED
    BY <2>2, <2>5 DEF saga
<1>4. ASSUME NEW s \in Running, WorkerActs(s) PROVE UNCHANGED vars
  BY <1>4
  DEF WorkerActs, PassActs, WorkerReceives, WorkerAnswers, WorkerFails,
      WorkerCrashes, PassDrops, PassTakesUp, PassReports, PassFinishes, saga
<1> QED
  BY <1>1, <1>2, <1>3, <1>4 DEF PipelineNext

(* With its workers and its queues, the saga takes no step but those that  *)
(* TestingRequestSaga describes: what its theorems say of every behaviour  *)
(* of [Next]_vars holds of the pipeline.                                   *)
THEOREM PipelineRunsSaga == PipelineSpec => Init /\ [][Next]_vars
<1>1. PipelineInit => Init
  BY DEF PipelineInit
<1>2. PipelineInv /\ [PipelineNext]_pipeline => [Next]_vars
  BY StepOfSaga
<1> QED
  BY <1>1, <1>2, PipelineInvariance, PTL DEF PipelineSpec

=============================================================================
