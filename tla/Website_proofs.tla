---------------------------- MODULE Website_proofs ----------------------------
(***************************************************************************)
(* Theorems about Website, for any requests, texts, percentages, pages and *)
(* bounds, and for any length at which a chart is cut.                     *)
(***************************************************************************)
EXTENDS Website, SequenceTheorems, FiniteSetTheorems, TLAPS

-----------------------------------------------------------------------------
(* Sequences                                                               *)

LEMMA Lengths ==
    ASSUME NEW S, NEW s \in Seq(S)
    PROVE  \E n \in Nat : Len(s) = n /\ (s = <<>> <=> n = 0)
  BY EmptySeq, LenProperties

LEMMA HeadAndTail ==
    ASSUME NEW S, NEW s \in Seq(S), s # <<>>
    PROVE  /\ Head(s) \in S /\ Head(s) = s[1]
           /\ Tail(s) \in Seq(S)
           /\ Len(Tail(s)) + 1 = Len(s)
           /\ \A i \in 1..Len(Tail(s)) : Tail(s)[i] = s[i + 1]
<1>1. PICK n \in Nat : Len(s) = n
  BY LenProperties
<1>2. PICK m \in Nat : Len(Tail(s)) = m
  BY HeadTailProperties, LenProperties
<1>3. m = n - 1
  BY <1>1, <1>2, HeadTailProperties
<1>4. m + 1 = n
  BY <1>3
<1> QED
  BY <1>1, <1>2, <1>4, HeadTailProperties

(* The last two of a sequence of at most two with one more.                *)
LEMMA LastTwoOfMore ==
    ASSUME NEW S, NEW s \in Seq(S), Len(s) <= 2, NEW x \in S
    PROVE  /\ LastTwo(Append(s, x)) \in Seq(S)
           /\ LastTwo(Append(s, x)) # <<>>
           /\ Len(LastTwo(Append(s, x))) <= 2
           /\ Last(LastTwo(Append(s, x))) = x
           /\ s # <<>> => /\ Len(LastTwo(Append(s, x))) = 2
                          /\ LastTwo(Append(s, x))[1] = Last(s)
<1> DEFINE more == Append(s, x)
<1>1. /\ more \in Seq(S) /\ more # <<>> /\ Len(more) = Len(s) + 1
      /\ \A i \in 1..Len(s) : more[i] = s[i]
      /\ more[Len(s) + 1] = x
  BY AppendProperties
<1>2. PICK n \in Nat : Len(s) = n /\ (s = <<>> <=> n = 0)
  BY Lengths
<1> HIDE DEF more
<1>3. CASE Len(more) > 2
  <2>1. /\ Tail(more) \in Seq(S) /\ Len(Tail(more)) = 2
        /\ Tail(more)[1] = s[2] /\ Tail(more)[2] = x
    BY <1>1, <1>2, <1>3, HeadAndTail
  <2>2. LastTwo(more) = Tail(more) /\ Len(s) = 2
    BY <1>1, <1>2, <1>3 DEF LastTwo
  <2>3. Tail(more) # <<>>
    <3>1. PICK m \in Nat :
             Len(Tail(more)) = m /\ (Tail(more) = <<>> <=> m = 0)
      BY <2>1, Lengths
    <3> QED
      BY <2>1, <3>1
  <2> QED
    BY <2>1, <2>2, <2>3 DEF Last, more
<1>4. CASE ~(Len(more) > 2)
  <2>1. LastTwo(more) = more
    BY <1>4 DEF LastTwo
  <2>2. Last(more) = x
    BY <1>1 DEF Last
  <2>3. s # <<>> => Len(s) = 1
    BY <1>1, <1>2, <1>4
  <2>4. s # <<>> => Len(more) = 2 /\ more[1] = Last(s)
    BY <1>1, <1>2, <2>3 DEF Last
  <2>5. Len(more) <= 2
    BY <1>1, <1>2, <1>4
  <2> QED
    BY <1>1, <2>1, <2>2, <2>4, <2>5 DEF more
<1> QED
  BY <1>3, <1>4

LEMMA LastTwoOfOne ==
    ASSUME NEW x, Len(LastTwo(Append(<<>>, x))) = 2
    PROVE  FALSE
  BY DEF LastTwo

(* A chart with one more point keeps the point it ended in if it was full. *)
LEMMA CutPoints ==
    ASSUME WebsiteAssumption, NEW S, NEW s \in Seq(S), Len(s) <= ChartSize,
           NEW x \in S
    PROVE  /\ Cut(Append(s, x)) \in Seq(S)
           /\ Len(s) = ChartSize => /\ Len(Cut(Append(s, x))) + 1 = ChartSize
                                    /\ Last(Cut(Append(s, x))) = Last(s)
           /\ Len(s) # ChartSize => /\ Len(Cut(Append(s, x))) = Len(s) + 1
                                    /\ Last(Cut(Append(s, x))) = x
<1> DEFINE more == Append(s, x)
<1>1. /\ more \in Seq(S) /\ Len(more) = Len(s) + 1
      /\ \A i \in 1..Len(s) : more[i] = s[i]
      /\ more[Len(s) + 1] = x
  BY AppendProperties
<1>2. Len(s) \in Nat /\ ChartSize \in Nat /\ ChartSize > 1
  BY LenProperties DEF WebsiteAssumption
<1>3. \A i \in 1..Len(more) : more[i] \in S
  BY <1>1, ElementOfSeq
<1> HIDE DEF more
<1>4. CASE Len(s) = ChartSize
  <2> DEFINE rest == SubSeq(more, 2, ChartSize)
  <2>1. Cut(more) = rest
    BY <1>1, <1>2, <1>4 DEF Cut, Slice
  <2>2. \A i \in 2..ChartSize : more[i] \in S
    BY <1>1, <1>2, <1>3, <1>4
  <2>3. /\ rest \in Seq(S)
        /\ Len(rest) = IF 2 <= ChartSize THEN ChartSize - 2 + 1 ELSE 0
        /\ \A i \in 1..(ChartSize - 2 + 1) : rest[i] = more[2 + i - 1]
    BY <1>2, <2>2, SubSeqProperties
  <2> HIDE DEF rest
  <2>4. PICK c \in Nat : c + 1 = ChartSize /\ c > 0
    <3>1. ChartSize - 1 \in Nat /\ (ChartSize - 1) + 1 = ChartSize
          /\ ChartSize - 1 > 0
      BY <1>2
    <3> QED
      BY <3>1
  <2>5. ChartSize - 2 + 1 = c /\ 2 <= ChartSize
    BY <1>2, <2>4
  <2>6. Len(rest) = c /\ rest[c] = more[2 + c - 1]
    BY <2>3, <2>4, <2>5
  <2>7. 2 + c - 1 = ChartSize
    BY <2>4
  <2>8. more[ChartSize] = s[Len(s)]
    BY <1>1, <1>2, <1>4
  <2> QED
    BY <1>4, <2>1, <2>3, <2>4, <2>6, <2>7, <2>8 DEF Last, more
<1>5. CASE Len(s) # ChartSize
  <2>1. Cut(more) = more
    BY <1>1, <1>2, <1>5 DEF Cut
  <2> QED
    BY <1>1, <1>5, <2>1 DEF Last, more
<1> QED
  BY <1>4, <1>5

(* A broadcast: one more call on its way to a chart.                       *)
LEMMA LagsBroadcast ==
    ASSUME WebsiteAssumption, NEW S, NEW points \in Seq(S), NEW calls \in Seq(S),
           NEW last \in Seq(S), Len(last) <= 2, NEW x \in S,
           Lags(points, calls, last)
    PROVE  Lags(points, Append(calls, x), LastTwo(Append(last, x)))
<1> DEFINE more == Append(calls, x)
           ends == LastTwo(Append(last, x))
<1>1. /\ more # <<>> /\ Len(more) = Len(calls) + 1
      /\ \A i \in 1..Len(calls) : more[i] = calls[i]
      /\ more[Len(calls) + 1] = x
  BY AppendProperties
<1>2. /\ ends # <<>> /\ Last(ends) = x
      /\ last # <<>> => Len(ends) = 2 /\ ends[1] = Last(last)
  BY LastTwoOfMore
<1>3. PICK n \in Nat : Len(calls) = n /\ (calls = <<>> <=> n = 0)
  BY Lengths
<1> HIDE DEF more, ends
<1>4. Last(more) = Last(ends)
  BY <1>1, <1>2 DEF Last
<1>5. ASSUME NEW i \in 1..Len(more), i + 1 = Len(more)
      PROVE  Len(ends) = 2 /\ more[i] = ends[1]
  <2>1. i = n /\ calls # <<>> /\ i \in 1..Len(calls)
    BY <1>1, <1>3, <1>5
  <2>2. last # <<>> /\ calls[Len(calls)] = Last(last)
    BY <2>1 DEF Lags, Last
  <2> QED
    BY <1>1, <1>2, <1>3, <2>1, <2>2
<1>6. ASSUME Len(more) = 1, Len(points) = ChartSize, Len(ends) = 2
      PROVE  Last(points) = ends[1]
  <2>1. calls = <<>>
    <3>1. n + 1 = 1
      BY <1>1, <1>3, <1>6
    <3> QED
      BY <1>3, <3>1
  <2>2. last # <<>>
    BY <1>6, LastTwoOfOne DEF ends
  <2>3. Last(points) = Last(last)
    BY <1>6, <2>1, <2>2 DEF Lags
  <2> QED
    BY <1>2, <2>2, <2>3
<1> QED
  BY <1>1, <1>2, <1>4, <1>5, <1>6 DEF Lags, more, ends

(* A chart takes a call.                                                   *)
LEMMA LagsConsume ==
    ASSUME WebsiteAssumption, NEW S, NEW points \in Seq(S),
           NEW calls \in Seq(S), NEW last \in Seq(S), calls # <<>>,
           Lags(points, calls, last)
    PROVE  Lags(Cut(Append(points, Head(calls))), Tail(calls), last)
<1> DEFINE x == Head(calls)
           rest == Tail(calls)
           more == Cut(Append(points, x))
<1>1. /\ x \in S /\ x = calls[1] /\ rest \in Seq(S)
      /\ Len(rest) + 1 = Len(calls)
      /\ \A i \in 1..Len(rest) : rest[i] = calls[i + 1]
  BY HeadAndTail
<1> HIDE DEF x
<1>2. PICK n \in Nat : Len(calls) = n + 1 /\ Len(rest) = n
                       /\ (rest = <<>> <=> n = 0)
  BY <1>1, Lengths
<1>3. ChartSize \in Nat /\ ChartSize > 1 /\ Len(points) <= ChartSize
  BY DEF WebsiteAssumption, Lags
<1>4. /\ more \in Seq(S)
      /\ Len(points) = ChartSize => /\ Len(more) + 1 = ChartSize
                                    /\ Last(more) = Last(points)
      /\ Len(points) # ChartSize => /\ Len(more) = Len(points) + 1
                                    /\ Last(more) = x
  <2>1. /\ Cut(Append(points, x)) \in Seq(S)
        /\ Len(points) = ChartSize
              => /\ Len(Cut(Append(points, x))) + 1 = ChartSize
                 /\ Last(Cut(Append(points, x))) = Last(points)
        /\ Len(points) # ChartSize
              => /\ Len(Cut(Append(points, x))) = Len(points) + 1
                 /\ Last(Cut(Append(points, x))) = x
    <3>1. x \in S /\ Len(points) <= ChartSize
      BY <1>1, <1>3
    <3> QED
      BY <3>1, CutPoints
  <2> QED
    BY <2>1
<1>5. PICK k \in Nat : Len(points) = k
  BY LenProperties
<1>6. PICK m \in Nat : Len(more) = m
  BY <1>4, LenProperties
<1>7. PICK l \in Nat : Len(last) = l /\ (last = <<>> <=> l = 0)
  BY Lengths
<1>8. last # <<>> /\ calls[Len(calls)] = Last(last)
      /\ Last(last) = last[Len(last)] /\ l > 0
  BY <1>7 DEF Lags, Last
<1>9. \A i \in 1..Len(calls) :
         i + 1 = Len(calls) => Len(last) = 2 /\ calls[i] = last[1]
  BY DEF Lags
<1>10. Len(calls) = 1 /\ Len(points) = ChartSize /\ Len(last) = 2
          => Last(points) = last[1]
  BY DEF Lags
<1> HIDE DEF more, rest
<1>11. Len(more) <= ChartSize
  BY <1>3, <1>4, <1>5, <1>6
<1>12. rest # <<>> => Last(rest) = Last(last)
  BY <1>1, <1>2, <1>8 DEF Last
<1>13. ASSUME NEW i \in 1..Len(rest), i + 1 = Len(rest)
       PROVE  Len(last) = 2 /\ rest[i] = last[1]
  <2>1. i + 1 \in 1..Len(calls) /\ (i + 1) + 1 = Len(calls)
    BY <1>2, <1>13
  <2> QED
    BY <1>1, <1>9, <1>13, <2>1
<1>14. ASSUME Len(rest) = 1, Len(more) = ChartSize
       PROVE  Last(more) = last[1]
  <2>1. n = 1 /\ Last(more) = x
    BY <1>2, <1>3, <1>4, <1>6, <1>14
  <2>2. 1 \in 1..Len(calls) /\ 1 + 1 = Len(calls)
    BY <1>2, <2>1
  <2> QED
    BY <1>1, <1>9, <2>1, <2>2
<1>15. ASSUME rest = <<>>
       PROVE  /\ Len(last) = 2 => Contains(last, Last(more))
              /\ Len(more) = ChartSize => Last(more) = Last(last)
  <2>1. Len(calls) = 1 /\ x = Last(last)
    BY <1>1, <1>2, <1>8, <1>15
  <2>2. CASE Len(points) = ChartSize
    <3>1. /\ Len(last) = 2 => Last(more) = last[1]
          /\ Len(more) # ChartSize
      BY <1>3, <1>4, <1>6, <1>10, <2>1, <2>2
    <3>2. 1 \in 1..Len(last)
      BY <1>7, <1>8
    <3> QED
      BY <3>1, <3>2 DEF Contains
  <2>3. CASE Len(points) # ChartSize
    <3>1. Last(more) = last[Len(last)] /\ Last(more) = Last(last)
      BY <1>4, <1>8, <2>1, <2>3
    <3>2. Len(last) \in 1..Len(last)
      BY <1>7, <1>8
    <3> QED
      BY <3>1, <3>2 DEF Contains
  <2> QED
    BY <2>2, <2>3
<1> QED
  BY <1>8, <1>11, <1>12, <1>13, <1>14, <1>15 DEF Lags, more, rest, x

-----------------------------------------------------------------------------
(* The last of a sequence that is about a request                          *)

(* One more at the end: it is the last about the request it is about, and  *)
(* the others stay last.                                                   *)
LEMMA LastAboutAppend ==
    ASSUME NEW S, NEW s \in Seq(S), NEW x \in S, NEW r,
           NEW i \in 1..Len(Append(s, x)), IsLastAbout(Append(s, x), r, i)
    PROVE  IF x.request = r
           THEN Append(s, x)[i] = x
           ELSE i \in 1..Len(s) /\ IsLastAbout(s, r, i) /\ Append(s, x)[i] = s[i]
<1> DEFINE more == Append(s, x)
<1>1. PICK n \in Nat : Len(s) = n
  BY LenProperties
<1>2. /\ Len(more) = n + 1 /\ more[n + 1] = x
      /\ \A j \in 1..n : more[j] = s[j]
  BY <1>1, AppendProperties
<1> HIDE DEF more
<1>3. i \in 1..(n + 1) /\ more[i].request = r
      /\ \A j \in (i + 1)..(n + 1) : more[j].request # r
  BY <1>2 DEF IsLastAbout, more
<1>4. CASE x.request = r
  <2>1. ~(n + 1 \in (i + 1)..(n + 1))
    BY <1>2, <1>3, <1>4
  <2>2. i = n + 1
    BY <1>3, <2>1
  <2> QED
    BY <1>2, <1>4, <2>2 DEF more
<1>5. CASE x.request # r
  <2>1. i # n + 1
    BY <1>2, <1>3, <1>5
  <2>2. i \in 1..n
    BY <1>3, <2>1
  <2>3. s[i].request = r /\ \A j \in (i + 1)..n : s[j].request # r
    BY <1>2, <1>3, <2>2
  <2> QED
    BY <1>1, <1>2, <1>5, <2>2, <2>3 DEF IsLastAbout, more
<1> QED
  BY <1>4, <1>5

LEMMA AboutAppend ==
    ASSUME NEW S, NEW s \in Seq(S), NEW x \in S, NEW r
    PROVE  IsAbout(Append(s, x), r) <=> IsAbout(s, r) \/ x.request = r
<1> DEFINE more == Append(s, x)
<1>1. PICK n \in Nat : Len(s) = n
  BY LenProperties
<1>2. /\ Len(more) = n + 1 /\ more[n + 1] = x
      /\ \A j \in 1..n : more[j] = s[j]
  BY <1>1, AppendProperties
<1> HIDE DEF more
<1>3. \A j \in 1..(n + 1) : j \in 1..n \/ j = n + 1
  OBVIOUS
<1>4. IsAbout(more, r) <=> \E j \in 1..(n + 1) : more[j].request = r
  BY <1>2 DEF IsAbout
<1>5. IsAbout(s, r) <=> \E j \in 1..n : s[j].request = r
  BY <1>1 DEF IsAbout
<1> QED
  BY <1>2, <1>3, <1>4, <1>5 DEF more

(* The first goes: what is last about a request later on is what it was.   *)
LEMMA LastAboutTail ==
    ASSUME NEW S, NEW s \in Seq(S), s # <<>>, NEW r,
           NEW i \in 1..Len(Tail(s)), IsLastAbout(Tail(s), r, i)
    PROVE  /\ i + 1 \in 1..Len(s) /\ IsLastAbout(s, r, i + 1)
           /\ Tail(s)[i] = s[i + 1]
<1>1. PICK n \in Nat : Len(Tail(s)) = n
  BY HeadAndTail, LenProperties
<1>2. Len(s) = n + 1 /\ \A j \in 1..n : Tail(s)[j] = s[j + 1]
  BY <1>1, HeadAndTail
<1>3. i \in 1..n /\ Tail(s)[i].request = r
      /\ \A j \in (i + 1)..n : Tail(s)[j].request # r
  BY <1>1 DEF IsLastAbout
<1>4. ASSUME NEW j \in (i + 1 + 1)..(n + 1) PROVE s[j].request # r
  <2>1. PICK k \in (i + 1)..n : k + 1 = j
    <3>1. j - 1 \in (i + 1)..n /\ (j - 1) + 1 = j
      BY <1>3
    <3> QED
      BY <3>1
  <2>2. k \in 1..n
    BY <1>3
  <2> QED
    BY <1>2, <1>3, <2>1, <2>2
<1> QED
  BY <1>2, <1>3, <1>4 DEF IsLastAbout

(* If nothing is left about a request, the first was the last about it, or *)
(* there was nothing about it.                                             *)
LEMMA AboutTail ==
    ASSUME NEW S, NEW s \in Seq(S), s # <<>>, NEW r, ~IsAbout(Tail(s), r)
    PROVE  IF s[1].request = r THEN 1 \in 1..Len(s) /\ IsLastAbout(s, r, 1)
           ELSE ~IsAbout(s, r)
<1>1. PICK n \in Nat : Len(Tail(s)) = n
  BY HeadAndTail, LenProperties
<1>2. Len(s) = n + 1 /\ \A j \in 1..n : Tail(s)[j] = s[j + 1]
  BY <1>1, HeadAndTail
<1>3. \A j \in 1..n : Tail(s)[j].request # r
  BY <1>1 DEF IsAbout
<1>4. ASSUME NEW j \in 2..(n + 1) PROVE s[j].request # r
  <2>1. PICK k \in 1..n : k + 1 = j
    <3>1. j - 1 \in 1..n /\ (j - 1) + 1 = j
      OBVIOUS
    <3> QED
      BY <3>1
  <2> QED
    BY <1>2, <1>3, <2>1
<1>5. \A j \in 1..(n + 1) : j = 1 \/ j \in 2..(n + 1)
  OBVIOUS
<1>6. 1 \in 1..Len(s) /\ 1 + 1 = 2
  BY <1>2
<1> QED
  BY <1>2, <1>4, <1>5, <1>6 DEF IsAbout, IsLastAbout

-----------------------------------------------------------------------------
(* Calls and tables                                                        *)

(* A broadcast of the dictionary's row, or of one about another request.   *)
LEMMA FollowsBroadcast ==
    ASSUME NEW calls \in Seq(RowCalls), NEW x \in RowCalls, NEW shown,
           NEW row, NEW r,
           IF x.request = r THEN x.row = row ELSE Follows(calls, shown, row, r)
    PROVE  Follows(Append(calls, x), shown, row, r)
<1>1. ASSUME NEW i \in 1..Len(Append(calls, x)),
             IsLastAbout(Append(calls, x), r, i)
      PROVE  Append(calls, x)[i].row = row
  BY <1>1, LastAboutAppend DEF Follows
<1>2. ASSUME ~IsAbout(Append(calls, x), r), Exists(shown), Exists(row)
      PROVE  Agrees(shown, row)
  BY <1>2, AboutAppend DEF Follows
<1> QED
  BY <1>1, <1>2 DEF Follows

LEMMA ShownAgrees ==
    ASSUME NEW rows \in [Requests -> Rows], NEW call \in RowCalls
    PROVE  /\ TableAfter(rows, call) \in [Requests -> Rows]
           /\ Agrees(TableAfter(rows, call)[call.request], call.row)
           /\ \A r \in Requests : r # call.request =>
                 TableAfter(rows, call)[r] = rows[r]
<1> DEFINE complete == [call.row EXCEPT !.progress = 100]
<1>1. call.request \in Requests /\ call.row \in Rows
  BY DEF RowCalls
<1>2. complete \in Rows /\ complete.state = call.row.state
      /\ complete.reasons = call.row.reasons /\ complete.progress = 100
  BY <1>1 DEF Rows
<1> HIDE DEF complete
<1>3. PICK row \in Rows :
         /\ TableAfter(rows, call) = [rows EXCEPT ![call.request] = row]
         /\ row # call.row => row = complete /\ call.row.state = Finished
  BY <1>1, <1>2 DEF TableAfter, complete
<1>4. Agrees(row, call.row)
  BY <1>2, <1>3 DEF Agrees
<1> QED
  BY <1>1, <1>3, <1>4

(* A table takes a call.                                                   *)
LEMMA FollowsConsume ==
    ASSUME NEW calls \in Seq(RowCalls), calls # <<>>,
           NEW rows \in [Requests -> Rows], NEW row, NEW r \in Requests,
           Follows(calls, rows[r], row, r)
    PROVE  Follows(Tail(calls), TableAfter(rows, Head(calls))[r], row, r)
<1>1. Head(calls) \in RowCalls /\ Head(calls) = calls[1]
  BY HeadAndTail
<1>2. ASSUME NEW i \in 1..Len(Tail(calls)), IsLastAbout(Tail(calls), r, i)
      PROVE  Tail(calls)[i].row = row
  BY <1>2, LastAboutTail DEF Follows
<1>3. ASSUME ~IsAbout(Tail(calls), r),
             Exists(TableAfter(rows, Head(calls))[r]), Exists(row)
      PROVE  Agrees(TableAfter(rows, Head(calls))[r], row)
  <2>1. CASE calls[1].request = r
    <3>1. calls[1].row = row
      BY <1>3, <2>1, AboutTail DEF Follows
    <3> QED
      BY <1>1, <2>1, <3>1, ShownAgrees
  <2>2. CASE calls[1].request # r
    <3>1. ~IsAbout(calls, r)
      BY <1>3, <2>2, AboutTail
    <3>2. TableAfter(rows, Head(calls))[r] = rows[r]
      BY <1>1, <2>2, ShownAgrees
    <3> QED
      BY <1>3, <3>1, <3>2 DEF Follows
  <2> QED
    BY <2>1, <2>2
<1> QED
  BY <1>2, <1>3 DEF Follows

-----------------------------------------------------------------------------
(* Notifications, rows and statistics                                      *)

LEMMA RowTypes ==
    ASSUME WebsiteAssumption, NEW m \in Notifications
    PROVE  /\ m.request \in Requests /\ StateOf(m) \in States
           /\ m.kind \in {"StateHasChanged", "ProcessUpdate", "ProcessFailed"}
           /\ \A h \in {"StateHasChanged", m.kind} : RowBy(h, m) \in Rows
<1>0. Failed \in States
  BY DEF Failed, States, Finished
<1>1. CASE m.kind = "StateHasChanged"
  BY <1>1 DEF WebsiteAssumption, Notifications, StateOf, RowBy, Row, Rows
<1>2. CASE m.kind = "ProcessUpdate"
  BY <1>2 DEF WebsiteAssumption, Notifications, StateOf, RowBy, Row, Rows
<1>3. CASE m.kind = "ProcessFailed"
  BY <1>0, <1>3 DEF WebsiteAssumption, Notifications, StateOf, RowBy, Row, Rows
<1> QED
  BY <1>1, <1>2, <1>3 DEF Notifications

LEMMA StatsType ==
    ASSUME NEW rows, IsFiniteSet({r \in Requests : Exists(rows[r])})
    PROVE  Stats(rows) \in Statistics
<1>1. ASSUME NEW states PROVE Count(rows, states) \in Nat
  <2> DEFINE counted == {r \in Requests :
                           Exists(rows[r]) /\ rows[r].state \in states}
  <2>1. counted \subseteq {r \in Requests : Exists(rows[r])}
    OBVIOUS
  <2>2. Cardinality(counted) \in Nat
    BY <2>1, FS_Subset, FS_CardinalityType
  <2> QED
    BY <2>2 DEF Count
<1> QED
  BY <1>1 DEF Stats, Statistics

-----------------------------------------------------------------------------
(* The bus thread                                                          *)

LEMMA ArriveInv ==
    ASSUME Inv, NEW m \in Notifications, Arrive(m)
    PROVE  Inv'
<1>1. /\ inbox' = Append(inbox, m)
      /\ UNCHANGED <<todo, doing, requests, told, failures, hub, pages>>
  BY DEF Arrive
<1>2. inbox \in Seq(Notifications)
  BY DEF Inv, TypeOK
<1>3. inbox' \in Seq(Notifications) /\ inbox' # <<>>
  BY <1>1, <1>2, AppendProperties
<1>4. inbox # <<>> => Head(inbox') = Head(inbox)
  BY <1>1, <1>2, HeadTailAppend
<1>5. TypeOK'
  BY <1>1, <1>3 DEF Inv, TypeOK, hub, pages
<1>6. TodoInv'
  BY <1>1, <1>3, <1>4 DEF Inv, TodoInv, RequestModel
<1>7. FiniteDictionary' /\ ClosedIsBlank'
  BY <1>1 DEF Inv, FiniteDictionary, ClosedIsBlank, pages
<1>8. \A r : ~Changing(r)' => ~Changing(r)
  BY <1>1, <1>3, <1>4 DEF Changing
<1>9. TableInv' /\ ChartInv'
  BY <1>1, <1>8 DEF Inv, TableInv, ChartInv, hub, pages
<1> QED
  BY <1>5, <1>6, <1>7, <1>9 DEF Inv

(* What a handler runs for, and the row it makes.                          *)
LEMMA InHandler ==
    ASSUME WebsiteAssumption, Inv, todo # <<>>
    PROVE  /\ inbox # <<>> /\ Head(inbox) \in Notifications
           /\ Head(inbox).request \in Requests /\ RequestModel \in Rows
           /\ Len(todo) = 1 => /\ todo = <<Head(inbox).kind>>
                               /\ Tail(todo) = <<>>
           /\ Len(todo) # 1 => Tail(todo) = <<Head(inbox).kind>>
<1> DEFINE m == Head(inbox)
<1>1. inbox # <<>> /\ todo \in {Handlers(m), <<m.kind>>}
  BY DEF Inv, TodoInv
<1>2. m \in Notifications
  BY <1>1, HeadAndTail DEF Inv, TypeOK
<1>3. Handlers(m) = <<m.kind>> \/ Handlers(m) = <<"StateHasChanged", m.kind>>
  BY DEF Handlers
<1>4. RequestModel = RowBy(Head(todo), m)
  BY DEF RequestModel
<1> HIDE DEF m
<1>5. CASE todo = <<m.kind>>
  <2>1. m.request \in Requests /\ RowBy(Head(todo), m) \in Rows
    BY <1>2, <1>5, RowTypes
  <2> QED
    BY <1>1, <1>2, <1>4, <1>5, <2>1 DEF m
<1>6. CASE todo = <<"StateHasChanged", m.kind>>
  <2>1. m.request \in Requests /\ RowBy(Head(todo), m) \in Rows
    BY <1>2, <1>6, RowTypes
  <2> QED
    BY <1>1, <1>2, <1>4, <1>6, <2>1 DEF m
<1> QED
  BY <1>1, <1>3, <1>5, <1>6

(* A row call comes last on the way to each open table.                    *)
LEMMA RowBroadcast ==
    ASSUME WebsiteAssumption, TypeOK, NEW call \in RowCalls,
           Broadcast(<<call>>, <<>>)
    PROVE  /\ UNCHANGED <<connected, table, data>>
           /\ DOMAIN channel' = Pages
           /\ \A q \in Tables :
                 /\ channel'[q] \in Seq(RowCalls)
                 /\ channel'[q] = IF q \in connected
                                  THEN Append(channel[q], call) ELSE channel[q]
           /\ \A q \in Dashboards : channel'[q] = channel[q]
<1>1. ASSUME NEW q \in Tables
      PROVE  /\ channel'[q] \in Seq(RowCalls)
             /\ channel'[q] = IF q \in connected
                              THEN Append(channel[q], call) ELSE channel[q]
  <2>1. q \in Pages /\ channel[q] \in Seq(RowCalls)
    BY DEF Pages, TypeOK
  <2>2. channel'[q] = IF q \notin connected THEN channel[q]
                      ELSE channel[q] \o <<call>>
    BY <2>1 DEF Broadcast
  <2>3. channel[q] \o <<call>> = Append(channel[q], call)
    BY <2>1, AppendIsConcat
  <2>4. Append(channel[q], call) \in Seq(RowCalls)
    BY <2>1, AppendProperties
  <2> QED
    BY <2>1, <2>2, <2>3, <2>4
<1>2. ASSUME NEW q \in Dashboards PROVE channel'[q] = channel[q]
  <2>1. q \in Pages /\ q \notin Tables /\ channel[q] \in Seq(Statistics)
    BY DEF Pages, TypeOK, WebsiteAssumption
  <2>2. channel'[q] = channel[q] \/ channel'[q] = channel[q] \o <<>>
    BY <2>1 DEF Broadcast
  <2> QED
    BY <2>1, <2>2, ConcatEmptySeq
<1> QED
  BY <1>1, <1>2 DEF Broadcast

(* Statistics come last on the way to each open chart.                     *)
LEMMA StatsBroadcast ==
    ASSUME WebsiteAssumption, TypeOK, NEW stat \in Statistics,
           Broadcast(<<>>, <<stat>>)
    PROVE  /\ UNCHANGED <<connected, table, data>>
           /\ DOMAIN channel' = Pages
           /\ \A q \in Tables : channel'[q] = channel[q]
           /\ \A q \in Dashboards :
                 /\ channel'[q] \in Seq(Statistics)
                 /\ channel'[q] = IF q \in connected
                                  THEN Append(channel[q], stat) ELSE channel[q]
<1>1. ASSUME NEW q \in Tables PROVE channel'[q] = channel[q]
  <2>1. q \in Pages /\ channel[q] \in Seq(RowCalls)
    BY DEF Pages, TypeOK
  <2>2. channel'[q] = channel[q] \/ channel'[q] = channel[q] \o <<>>
    BY <2>1 DEF Broadcast
  <2> QED
    BY <2>1, <2>2, ConcatEmptySeq
<1>2. ASSUME NEW q \in Dashboards
      PROVE  /\ channel'[q] \in Seq(Statistics)
             /\ channel'[q] = IF q \in connected
                              THEN Append(channel[q], stat) ELSE channel[q]
  <2>1. q \in Pages /\ q \notin Tables /\ channel[q] \in Seq(Statistics)
    BY DEF Pages, TypeOK, WebsiteAssumption
  <2>2. channel'[q] = IF q \notin connected THEN channel[q]
                      ELSE channel[q] \o <<stat>>
    BY <2>1 DEF Broadcast
  <2>3. channel[q] \o <<stat>> = Append(channel[q], stat)
    BY <2>1, AppendIsConcat
  <2>4. Append(channel[q], stat) \in Seq(Statistics)
    BY <2>1, AppendProperties
  <2> QED
    BY <2>1, <2>2, <2>3, <2>4
<1> QED
  BY <1>1, <1>2 DEF Broadcast

(* A row call that carries the dictionary's row, or one about a request    *)
(* that is then overtaken.                                                 *)
LEMMA FollowsRow ==
    ASSUME Inv, NEW call \in RowCalls, NEW q \in Tables, NEW r \in Requests,
           IF call.request = r THEN call.row = requests[r]
           ELSE r \notin overtaken /\ ~Changing(r),
           NEW calls, calls = IF q \in connected
                              THEN Append(channel[q], call) ELSE channel[q]
    PROVE  Follows(calls, table[q][r], requests[r], r)
<1>1. channel[q] \in Seq(RowCalls)
  BY DEF Inv, TypeOK
<1>2. CASE q \in connected
  <2>1. call.request # r => Follows(channel[q], table[q][r], requests[r], r)
    BY DEF Inv, TableInv
  <2> QED
    BY <1>1, <1>2, <2>1, FollowsBroadcast
<1>3. CASE q \notin connected
  <2>1. channel[q] = <<>> /\ table[q][r] = NoRow
    BY <1>3 DEF Inv, ClosedIsBlank, EmptyTable, Pages
  <2> QED
    BY <1>3, <2>1 DEF Follows, Exists
<1> QED
  BY <1>2, <1>3

LEMMA AddOrUpdateInv ==
    ASSUME WebsiteAssumption, Inv, AddOrUpdate
    PROVE  Inv'
<1> DEFINE m == Head(inbox)
           row == RequestModel
<1>1. /\ todo # <<>> /\ doing' = "tell tables"
      /\ requests' = [requests EXCEPT ![m.request] = row]
      /\ UNCHANGED <<inbox, todo, told, failures, hub, pages>>
  BY DEF AddOrUpdate
<1>2. inbox # <<>> /\ m.request \in Requests /\ row \in Rows
  BY <1>1, InHandler
<1>3. row' = row
  BY <1>1 DEF RequestModel
<1> HIDE DEF row
<1>4. /\ requests' \in [Requests -> Rows] /\ requests'[m.request] = row
      /\ \A r \in Requests : r # m.request => requests'[r] = requests[r]
  BY <1>1, <1>2 DEF Inv, TypeOK
<1>5. FiniteDictionary'
  <2> DEFINE old == {r \in Requests : Exists(requests[r])}
             new == {r \in Requests : Exists(requests'[r])}
  <2>1. IsFiniteSet(old)
    BY DEF Inv, FiniteDictionary
  <2>2. new \subseteq old \cup {m.request}
    BY <1>4
  <2> HIDE DEF old, new
  <2>3. IsFiniteSet(old \cup {m.request})
    BY <2>1, FS_AddElement
  <2>4. IsFiniteSet(new)
    BY <2>2, <2>3, FS_Subset
  <2> QED
    BY <2>4 DEF FiniteDictionary, new
<1>6. TypeOK'
  BY <1>1, <1>4 DEF Inv, TypeOK, hub, pages
<1>7. TodoInv'
  <2>1. inbox # <<>> /\ todo \in {Handlers(m), <<m.kind>>}
    BY <1>1 DEF Inv, TodoInv
  <2> QED
    BY <1>1, <1>3, <1>4, <2>1 DEF TodoInv, row
<1>8. ClosedIsBlank' /\ ChartInv'
  BY <1>1 DEF Inv, ClosedIsBlank, ChartInv, pages
<1>9. TableInv'
  <2> SUFFICES ASSUME NEW q \in Tables, NEW r \in Requests \ overtaken,
                      ~Changing(r)'
               PROVE  Follows(channel[q], table[q][r], requests'[r], r)
    BY <1>1 DEF TableInv, hub, pages
  <2>1. r # m.request
    BY <1>1, <1>2 DEF Changing
  <2>2. ~Changing(r)
    BY <2>1 DEF Changing
  <2> QED
    BY <1>4, <2>1, <2>2 DEF Inv, TableInv
<1> QED
  BY <1>5, <1>6, <1>7, <1>8, <1>9 DEF Inv

LEMMA TellTablesInv ==
    ASSUME WebsiteAssumption, Inv, TellTables
    PROVE  Inv'
<1> DEFINE m == Head(inbox)
           call == [request |-> m.request, row |-> RequestModel]
<1>1. /\ todo # <<>> /\ doing = "tell tables" /\ doing' = "tell charts"
      /\ Broadcast(<<call>>, <<>>)
      /\ overtaken' = overtaken \ {m.request}
      /\ UNCHANGED <<inbox, todo, requests, told, failures, refreshing,
                     refreshes>>
  BY DEF TellTables
<1>2. m.request \in Requests /\ RequestModel \in Rows
  BY <1>1, InHandler
<1>3. call \in RowCalls /\ call.request = m.request
      /\ call.row = requests[m.request]
  BY <1>1, <1>2 DEF RowCalls, Inv, TodoInv
<1> HIDE DEF call
<1>4. /\ UNCHANGED <<connected, table, data>>
      /\ DOMAIN channel' = Pages
      /\ \A q \in Tables :
            /\ channel'[q] \in Seq(RowCalls)
            /\ channel'[q] = IF q \in connected
                             THEN Append(channel[q], call) ELSE channel[q]
      /\ \A q \in Dashboards : channel'[q] = channel[q]
  BY <1>1, <1>3, RowBroadcast DEF Inv
<1>5. TypeOK'
  BY <1>1, <1>4 DEF Inv, TypeOK
<1>6. TodoInv' /\ FiniteDictionary'
  BY <1>1 DEF Inv, TodoInv, FiniteDictionary, RequestModel
<1>7. ClosedIsBlank'
  BY <1>4 DEF Inv, ClosedIsBlank, Pages
<1>8. ChartInv'
  BY <1>1, <1>4 DEF Inv, ChartInv
<1>9. TableInv'
  <2> SUFFICES ASSUME NEW q \in Tables, NEW r \in Requests \ overtaken'
               PROVE  Follows(channel'[q], table[q][r], requests[r], r)
    BY <1>1, <1>4 DEF TableInv
  <2>1. IF call.request = r THEN call.row = requests[r]
        ELSE r \notin overtaken /\ ~Changing(r)
    BY <1>1, <1>3 DEF Changing
  <2> QED
    BY <1>3, <1>4, <2>1, FollowsRow
<1> QED
  BY <1>5, <1>6, <1>7, <1>8, <1>9 DEF Inv

LEMMA SendStatsInv ==
    ASSUME WebsiteAssumption, Inv, SendStats
    PROVE  Inv'
<1> DEFINE stat == Stats(requests)
<1>1. /\ todo # <<>> /\ doing = "tell charts" /\ doing' = "write"
      /\ Broadcast(<<>>, <<stat>>)
      /\ told' = LastTwo(Append(told, stat))
      /\ todo' = Tail(todo)
      /\ inbox' = IF Len(todo) = 1 THEN Tail(inbox) ELSE inbox
      /\ UNCHANGED <<requests, failures, hub>>
  BY DEF SendStats
<1>2. TypeOK /\ inbox \in Seq(Notifications)
      /\ told \in Seq(Statistics) /\ Len(told) <= 2
  BY DEF Inv, TypeOK
<1>3. stat \in Statistics
  BY StatsType DEF Inv, FiniteDictionary
<1> HIDE DEF stat
<1>4. /\ UNCHANGED <<connected, table, data>>
      /\ DOMAIN channel' = Pages
      /\ \A q \in Tables : channel'[q] = channel[q]
      /\ \A q \in Dashboards :
            /\ channel'[q] \in Seq(Statistics)
            /\ channel'[q] = IF q \in connected
                             THEN Append(channel[q], stat) ELSE channel[q]
  BY <1>1, <1>2, <1>3, StatsBroadcast
<1>5. told' \in Seq(Statistics) /\ Len(told') <= 2
  BY <1>1, <1>2, <1>3, LastTwoOfMore
<1>6. inbox' \in Seq(Notifications)
  BY <1>1, <1>2, InHandler, HeadAndTail
<1>7. todo' \in Seq({"StateHasChanged", "ProcessUpdate", "ProcessFailed"})
  BY <1>1, HeadAndTail DEF Inv, TypeOK
<1>8. TypeOK'
  <2>1. \A q \in Tables : channel'[q] \in Seq(RowCalls)
    BY <1>2, <1>4 DEF TypeOK
  <2> QED
    BY <1>1, <1>2, <1>4, <1>5, <1>6, <1>7, <2>1 DEF TypeOK, hub
<1>9. TodoInv' /\ FiniteDictionary'
  <2>1. TodoInv'
    BY <1>1, InHandler DEF TodoInv
  <2> QED
    BY <1>1, <2>1 DEF Inv, FiniteDictionary
<1>10. ClosedIsBlank'
  BY <1>4 DEF Inv, ClosedIsBlank, Pages
<1>11. TableInv'
  <2>1. \A r : ~Changing(r)
    BY <1>1 DEF Changing
  <2> QED
    BY <1>1, <1>4, <2>1 DEF Inv, TableInv, hub
<1>12. ChartInv'
  <2> SUFFICES ASSUME NEW q \in Dashboards
               PROVE  Lags(data[q], channel'[q], told')
    BY <1>4 DEF ChartInv
  <2>1. /\ Lags(data[q], channel[q], told)
        /\ data[q] \in Seq(Statistics) /\ channel[q] \in Seq(Statistics)
    BY DEF Inv, ChartInv, TypeOK, Pages
  <2>2. CASE q \in connected
    <3>1. Lags(data[q], Append(channel[q], stat), LastTwo(Append(told, stat)))
      BY <1>2, <1>3, <2>1, LagsBroadcast
    <3> QED
      BY <1>1, <1>4, <2>2, <3>1
  <2>3. CASE q \notin connected
    <3>1. channel[q] = <<>> /\ data[q] = <<>>
      BY <2>3 DEF Inv, ClosedIsBlank, Pages
    <3> QED
      BY <1>4, <2>3, <3>1 DEF Lags, WebsiteAssumption
  <2> QED
    BY <2>2, <2>3
<1> QED
  BY <1>8, <1>9, <1>10, <1>11, <1>12 DEF Inv

LEMMA DispatchInv ==
    ASSUME Inv, Dispatch
    PROVE  Inv'
<1>1. /\ todo = <<>> /\ inbox # <<>> /\ todo' = Handlers(Head(inbox))
      /\ UNCHANGED <<inbox, doing, requests, told, failures, hub, pages>>
  BY DEF Dispatch
<1>2. Head(inbox) \in Notifications
  BY <1>1, HeadAndTail DEF Inv, TypeOK
<1>3. todo' \in Seq({"StateHasChanged", "ProcessUpdate", "ProcessFailed"})
  <2> DEFINE kinds == {"StateHasChanged", "ProcessUpdate", "ProcessFailed"}
             k == Head(inbox).kind
  <2>1. k \in kinds /\ "StateHasChanged" \in kinds
    BY <1>2 DEF Notifications
  <2>2. todo' \in {<<k>>, <<"StateHasChanged", k>>}
    BY <1>1 DEF Handlers
  <2> HIDE DEF kinds, k
  <2>3. <<k>> \in Seq(kinds) /\ <<"StateHasChanged", k>> \in Seq(kinds)
    BY <2>1
  <2> QED
    BY <2>2, <2>3 DEF kinds
<1>4. TypeOK'
  BY <1>1, <1>3 DEF Inv, TypeOK, hub, pages
<1>5. TodoInv'
  <2>1. doing = "write" /\ todo' # <<>>
    BY <1>1 DEF Inv, TodoInv, Handlers
  <2> QED
    BY <1>1, <2>1 DEF TodoInv
<1>6. FiniteDictionary' /\ ClosedIsBlank'
  BY <1>1 DEF Inv, FiniteDictionary, ClosedIsBlank, pages
<1>7. TableInv' /\ ChartInv'
  BY <1>1 DEF Inv, TableInv, Changing, ChartInv, hub, pages
<1> QED
  BY <1>4, <1>5, <1>6, <1>7 DEF Inv

LEMMA HandlerFailsInv ==
    ASSUME WebsiteAssumption, Inv, HandlerFails
    PROVE  Inv'
<1>1. /\ todo # <<>> /\ failures < MaxFailures /\ failures' = failures + 1
      /\ todo' = <<>> /\ doing' = "write"
      /\ UNCHANGED <<inbox, requests, told, hub, pages>>
  BY DEF HandlerFails
<1>2. failures' \in 0..MaxFailures
  <2>1. failures \in 0..MaxFailures
    BY DEF Inv, TypeOK
  <2> QED
    BY <1>1, <2>1 DEF WebsiteAssumption
<1>3. TypeOK'
  BY <1>1, <1>2, EmptySeq DEF Inv, TypeOK, hub, pages
<1>4. TodoInv'
  BY <1>1 DEF TodoInv
<1>5. FiniteDictionary' /\ ClosedIsBlank'
  BY <1>1 DEF Inv, FiniteDictionary, ClosedIsBlank, pages
<1>6. \A r : ~Changing(r)' => ~Changing(r)
  BY <1>1 DEF Changing
<1>7. TableInv' /\ ChartInv'
  BY <1>1, <1>6 DEF Inv, TableInv, ChartInv, hub, pages
<1> QED
  BY <1>3, <1>4, <1>5, <1>7 DEF Inv

LEMMA BusThreadInv ==
    ASSUME WebsiteAssumption, Inv, BusThread
    PROVE  Inv'
  BY AddOrUpdateInv, TellTablesInv, SendStatsInv, DispatchInv, HandlerFailsInv
  DEF BusThread

LEMMA BlankRow == EmptyTable \in [Requests -> Rows] /\ NoRow \in Rows
  BY DEF EmptyTable, NoRow, Row, Rows, Cancelled, States, Failed, Finished

(* The dictionary is empty and no call is on its way: nothing contradicts  *)
(* what the pages show.                                                    *)
LEMMA SiteRestartsInv ==
    ASSUME WebsiteAssumption, Inv, SiteRestarts
    PROVE  Inv'
<1>1. /\ failures < MaxFailures /\ failures' = failures + 1
      /\ todo' = <<>> /\ doing' = "write" /\ requests' = EmptyTable
      /\ refreshing' = <<>> /\ told' = <<>>
      /\ channel' = [q \in Pages |-> <<>>]
      /\ UNCHANGED <<inbox, connected, table, data, overtaken, refreshes>>
  BY DEF SiteRestarts
<1>2. failures' \in 0..MaxFailures
  <2>1. failures \in 0..MaxFailures
    BY DEF Inv, TypeOK
  <2> QED
    BY <1>1, <2>1 DEF WebsiteAssumption
<1>3. DOMAIN channel' = Pages /\ \A q \in Pages : channel'[q] = <<>>
  BY <1>1
<1>4. TypeOK'
  <2>1. requests' \in [Requests -> Rows]
    BY <1>1, BlankRow
  <2>2. /\ \A q \in Tables : channel'[q] \in Seq(RowCalls)
        /\ \A q \in Dashboards : channel'[q] \in Seq(Statistics)
    BY <1>3, EmptySeq DEF Pages
  <2>3. /\ todo' \in Seq({"StateHasChanged", "ProcessUpdate", "ProcessFailed"})
        /\ told' \in Seq(Statistics) /\ Len(told') <= 2
        /\ refreshing' \in Seq(RowCalls)
    BY <1>1, EmptySeq
  <2> QED
    BY <1>1, <1>2, <1>3, <2>1, <2>2, <2>3 DEF Inv, TypeOK
<1>5. TodoInv'
  BY <1>1 DEF TodoInv
<1>6. \A r \in Requests : ~Exists(requests'[r])
  BY <1>1 DEF EmptyTable, Exists
<1>7. FiniteDictionary'
  <2>1. {r \in Requests : Exists(requests'[r])} = {}
    BY <1>6
  <2> QED
    BY <2>1, FS_EmptySet DEF FiniteDictionary
<1>8. ClosedIsBlank'
  BY <1>1, <1>3 DEF Inv, ClosedIsBlank
<1>9. TableInv'
  <2> SUFFICES ASSUME NEW q \in Tables, NEW r \in Requests
               PROVE  Follows(channel'[q], table'[q][r], requests'[r], r)
    BY DEF TableInv
  <2> QED
    BY <1>3, <1>6 DEF Follows, Pages
<1>10. ChartInv'
  <2> SUFFICES ASSUME NEW q \in Dashboards
               PROVE  Lags(data[q], <<>>, <<>>)
    BY <1>1, <1>3 DEF ChartInv, Pages
  <2>1. Len(data[q]) <= ChartSize
    BY DEF Inv, ChartInv, Lags
  <2> QED
    BY <2>1 DEF Lags
<1> QED
  BY <1>4, <1>5, <1>7, <1>8, <1>9, <1>10 DEF Inv

-----------------------------------------------------------------------------
(* The hub's thread                                                        *)

LEMMA GetAllRequestsInv ==
    ASSUME WebsiteAssumption, Inv, GetAllRequests
    PROVE  Inv'
<1>1. /\ refreshes < MaxRefreshes /\ refreshes' = refreshes + 1
      /\ UNCHANGED <<bus, overtaken, pages>>
  BY DEF GetAllRequests
<1>2. refreshes' \in 0..MaxRefreshes
  <2>1. refreshes \in 0..MaxRefreshes
    BY DEF Inv, TypeOK
  <2> QED
    BY <1>1, <2>1 DEF WebsiteAssumption
<1>3. refreshing' \in Seq(RowCalls)
  <2> DEFINE n == Count(requests, States)
             known == {r \in Requests : Exists(requests[r])
                                        /\ requests[r].state \in States}
  <2>1. n \in Nat
    <3>1. IsFiniteSet({r \in Requests : Exists(requests[r])})
      BY DEF Inv, FiniteDictionary
    <3>2. known \subseteq {r \in Requests : Exists(requests[r])}
      OBVIOUS
    <3>3. Cardinality(known) \in Nat
      BY <3>1, <3>2, FS_Subset, FS_CardinalityType
    <3> QED
      BY <3>3 DEF Count
  <2> HIDE DEF n
  <2>2. PICK order \in [1..n -> Requests] :
           refreshing' = [i \in DOMAIN order |->
              [request |-> order[i], row |-> requests[order[i]]]]
    BY DEF GetAllRequests, n
  <2>3. refreshing' \in [1..n -> RowCalls]
    BY <2>2 DEF Inv, TypeOK, RowCalls
  <2> QED
    BY <2>1, <2>3, SeqDef
<1>4. TypeOK'
  BY <1>1, <1>2, <1>3 DEF Inv, TypeOK, bus, pages
<1>5. TodoInv' /\ FiniteDictionary' /\ ClosedIsBlank' /\ ChartInv'
  BY <1>1 DEF Inv, TodoInv, RequestModel, FiniteDictionary, ClosedIsBlank,
              ChartInv, bus, pages
<1>6. TableInv'
  BY <1>1 DEF Inv, TableInv, Changing, bus, pages
<1> QED
  BY <1>4, <1>5, <1>6 DEF Inv

LEMMA SendRowInv ==
    ASSUME WebsiteAssumption, Inv, SendRow
    PROVE  Inv'
<1> DEFINE call == Head(refreshing)
<1>1. /\ refreshing # <<>> /\ refreshing' = Tail(refreshing)
      /\ Broadcast(<<call>>, <<>>)
      /\ overtaken' = IF call.row = requests[call.request]
                      THEN overtaken \ {call.request}
                      ELSE overtaken \cup {call.request}
      /\ UNCHANGED <<bus, refreshes>>
  BY DEF SendRow
<1>2. call \in RowCalls /\ refreshing' \in Seq(RowCalls)
      /\ call.request \in Requests
  <2>1. call \in RowCalls /\ refreshing' \in Seq(RowCalls)
    BY <1>1, HeadAndTail DEF Inv, TypeOK
  <2> QED
    BY <2>1 DEF RowCalls
<1> HIDE DEF call
<1>3. /\ UNCHANGED <<connected, table, data>>
      /\ DOMAIN channel' = Pages
      /\ \A q \in Tables :
            /\ channel'[q] \in Seq(RowCalls)
            /\ channel'[q] = IF q \in connected
                             THEN Append(channel[q], call) ELSE channel[q]
      /\ \A q \in Dashboards : channel'[q] = channel[q]
  BY <1>1, <1>2, RowBroadcast DEF Inv
<1>4. TypeOK'
  <2>1. overtaken' \subseteq Requests
    BY <1>1, <1>2 DEF Inv, TypeOK
  <2> QED
    BY <1>1, <1>2, <1>3, <2>1 DEF Inv, TypeOK, bus
<1>5. TodoInv' /\ FiniteDictionary'
  BY <1>1 DEF Inv, TodoInv, RequestModel, FiniteDictionary, bus
<1>6. ClosedIsBlank'
  BY <1>3 DEF Inv, ClosedIsBlank, Pages
<1>7. ChartInv'
  BY <1>1, <1>3 DEF Inv, ChartInv, bus
<1>8. TableInv'
  <2> SUFFICES ASSUME NEW q \in Tables, NEW r \in Requests \ overtaken',
                      ~Changing(r)'
               PROVE  Follows(channel'[q], table[q][r], requests[r], r)
    BY <1>1, <1>3 DEF TableInv, bus
  <2>1. ~Changing(r)
    BY <1>1 DEF Changing, bus
  <2>2. IF call.request = r THEN call.row = requests[r]
        ELSE r \notin overtaken /\ ~Changing(r)
    BY <1>1, <2>1
  <2> QED
    BY <1>2, <1>3, <2>2, FollowsRow
<1> QED
  BY <1>4, <1>5, <1>6, <1>7, <1>8 DEF Inv

-----------------------------------------------------------------------------
(* The pages                                                               *)

LEMMA OpenPageInv ==
    ASSUME Inv, NEW q \in Pages, OpenPage(q)
    PROVE  Inv'
<1>1. /\ connected' = connected \cup {q}
      /\ UNCHANGED <<channel, table, data, bus, hub>>
  BY DEF OpenPage
<1>2. TypeOK'
  BY <1>1 DEF Inv, TypeOK, bus, hub
<1>3. TodoInv' /\ FiniteDictionary' /\ ClosedIsBlank'
  BY <1>1 DEF Inv, TodoInv, RequestModel, FiniteDictionary, ClosedIsBlank, bus
<1>4. TableInv' /\ ChartInv'
  BY <1>1 DEF Inv, TableInv, Changing, ChartInv, bus, hub
<1> QED
  BY <1>2, <1>3, <1>4 DEF Inv

(* A page that shows nothing lags behind in nothing.                       *)
LEMMA BlankPage ==
    ASSUME WebsiteAssumption
    PROVE  /\ \A row, r : Follows(<<>>, NoRow, row, r)
           /\ \A last : Lags(<<>>, <<>>, last)
  BY DEF Follows, Exists, Lags, WebsiteAssumption

LEMMA ClosePageInv ==
    ASSUME WebsiteAssumption, Inv, NEW q \in Pages, ClosePage(q)
    PROVE  Inv'
<1>1. /\ connected' = connected \ {q}
      /\ channel' = [channel EXCEPT ![q] = <<>>]
      /\ table' = [table EXCEPT ![q] = EmptyTable]
      /\ data' = [data EXCEPT ![q] = <<>>]
      /\ UNCHANGED <<bus, hub>>
  BY DEF ClosePage
<1>2. TypeOK /\ DOMAIN channel = Pages /\ Tables \subseteq Pages
      /\ Dashboards \subseteq Pages
  BY DEF Inv, TypeOK, Pages
<1>3. DOMAIN channel' = Pages /\ channel'[q] = <<>>
      /\ \A p \in Pages : p # q => channel'[p] = channel[p]
  BY <1>1, <1>2
<1>4. /\ table' \in [Pages -> [Requests -> Rows]]
      /\ table'[q] = EmptyTable
      /\ \A p \in Pages : p # q => table'[p] = table[p]
  BY <1>1, BlankRow DEF Inv, TypeOK
<1>5. /\ data' \in [Pages -> Seq(Statistics)]
      /\ data'[q] = <<>>
      /\ \A p \in Pages : p # q => data'[p] = data[p]
  BY <1>1, EmptySeq DEF Inv, TypeOK
<1>6. TypeOK'
  <2>1. /\ \A p \in Tables : channel'[p] \in Seq(RowCalls)
        /\ \A p \in Dashboards : channel'[p] \in Seq(Statistics)
    BY <1>2, <1>3, EmptySeq DEF TypeOK
  <2> QED
    BY <1>1, <1>2, <1>3, <1>4, <1>5, <2>1 DEF TypeOK, bus, hub
<1>7. TodoInv' /\ FiniteDictionary'
  BY <1>1 DEF Inv, TodoInv, RequestModel, FiniteDictionary, bus
<1>8. ClosedIsBlank'
  BY <1>1, <1>3, <1>4, <1>5 DEF Inv, ClosedIsBlank
<1>9. TableInv'
  <2> SUFFICES ASSUME NEW p \in Tables, NEW r \in Requests \ overtaken,
                      ~Changing(r)
               PROVE  Follows(channel'[p], table'[p][r], requests[r], r)
    BY <1>1 DEF TableInv, Changing, bus, hub
  <2>1. CASE p = q
    <3>1. channel'[p] = <<>> /\ table'[p][r] = NoRow
      BY <1>3, <1>4, <2>1 DEF EmptyTable
    <3> QED
      BY <3>1, BlankPage
  <2>2. CASE p # q
    BY <1>2, <1>3, <1>4, <2>2 DEF Inv, TableInv
  <2> QED
    BY <2>1, <2>2
<1>10. ChartInv'
  <2> SUFFICES ASSUME NEW p \in Dashboards
               PROVE  Lags(data'[p], channel'[p], told)
    BY <1>1 DEF ChartInv, bus
  <2>1. CASE p = q
    BY <1>3, <1>5, <2>1, BlankPage
  <2>2. CASE p # q
    BY <1>2, <1>3, <1>5, <2>2 DEF Inv, ChartInv, bus
  <2> QED
    BY <2>1, <2>2
<1> QED
  BY <1>6, <1>7, <1>8, <1>9, <1>10 DEF Inv

LEMMA RequestStateChangedInv ==
    ASSUME WebsiteAssumption, Inv, NEW q \in Pages, RequestStateChanged(q)
    PROVE  Inv'
<1> DEFINE call == Head(channel[q])
<1>1. /\ q \in Tables /\ channel[q] # <<>>
      /\ table' = [table EXCEPT ![q] = TableAfter(table[q], call)]
      /\ channel' = [channel EXCEPT ![q] = Tail(channel[q])]
      /\ UNCHANGED <<connected, data, bus, hub>>
  BY DEF RequestStateChanged
<1>2. /\ DOMAIN channel = Pages /\ Tables \subseteq Pages
      /\ Dashboards \subseteq Pages /\ q \notin Dashboards
      /\ channel[q] \in Seq(RowCalls)
      /\ table \in [Pages -> [Requests -> Rows]]
  BY <1>1 DEF Inv, TypeOK, Pages, WebsiteAssumption
<1>3. call \in RowCalls /\ Tail(channel[q]) \in Seq(RowCalls)
  BY <1>1, <1>2, HeadAndTail
<1>4. TableAfter(table[q], call) \in [Requests -> Rows]
  BY <1>2, <1>3, ShownAgrees
<1>5. /\ DOMAIN channel' = Pages /\ channel'[q] = Tail(channel[q])
      /\ \A p \in Pages : p # q => channel'[p] = channel[p]
  BY <1>1, <1>2
<1>6. /\ table' \in [Pages -> [Requests -> Rows]]
      /\ table'[q] = TableAfter(table[q], call)
      /\ \A p \in Pages : p # q => table'[p] = table[p]
  BY <1>1, <1>2, <1>4
<1> HIDE DEF call
<1>7. TypeOK'
  BY <1>1, <1>2, <1>3, <1>5, <1>6 DEF Inv, TypeOK, bus, hub
<1>8. TodoInv' /\ FiniteDictionary'
  BY <1>1 DEF Inv, TodoInv, RequestModel, FiniteDictionary, bus
<1>9. ClosedIsBlank'
  BY <1>1, <1>5, <1>6 DEF Inv, ClosedIsBlank
<1>10. TableInv'
  <2> SUFFICES ASSUME NEW p \in Tables, NEW r \in Requests \ overtaken,
                      ~Changing(r)
               PROVE  Follows(channel'[p], table'[p][r], requests[r], r)
    BY <1>1 DEF TableInv, Changing, bus, hub
  <2>1. Follows(channel[p], table[p][r], requests[r], r)
    BY DEF Inv, TableInv
  <2>2. CASE p = q
    <3>1. Follows(Tail(channel[q]),
                  TableAfter(table[q], Head(channel[q]))[r], requests[r], r)
      BY <1>1, <1>2, <2>1, <2>2, FollowsConsume
    <3> QED
      BY <1>5, <1>6, <2>2, <3>1 DEF call
  <2>3. CASE p # q
    BY <1>2, <1>5, <1>6, <2>1, <2>3
  <2> QED
    BY <2>2, <2>3
<1>11. ChartInv'
  BY <1>1, <1>2, <1>5 DEF Inv, ChartInv, bus
<1> QED
  BY <1>7, <1>8, <1>9, <1>10, <1>11 DEF Inv

LEMMA ConsumeStatsInv ==
    ASSUME WebsiteAssumption, Inv, NEW q \in Pages, ConsumeStats(q)
    PROVE  Inv'
<1> DEFINE points == Cut(Append(data[q], Head(channel[q])))
<1>1. /\ q \in Dashboards /\ channel[q] # <<>>
      /\ data' = [data EXCEPT ![q] = points]
      /\ channel' = [channel EXCEPT ![q] = Tail(channel[q])]
      /\ UNCHANGED <<connected, table, bus, hub>>
  BY DEF ConsumeStats
<1>2. /\ DOMAIN channel = Pages /\ Tables \subseteq Pages
      /\ Dashboards \subseteq Pages /\ q \notin Tables
      /\ channel[q] \in Seq(Statistics) /\ told \in Seq(Statistics)
      /\ data \in [Pages -> Seq(Statistics)]
  BY <1>1 DEF Inv, TypeOK, Pages, WebsiteAssumption
<1>3. Lags(data[q], channel[q], told)
  BY <1>1 DEF Inv, ChartInv, bus
<1>4. Head(channel[q]) \in Statistics /\ Tail(channel[q]) \in Seq(Statistics)
  BY <1>1, <1>2, HeadAndTail
<1>5. data[q] \in Seq(Statistics) /\ Len(data[q]) <= ChartSize
  BY <1>2, <1>3 DEF Lags
<1>6. points \in Seq(Statistics)
  BY <1>4, <1>5, CutPoints
<1>7. Lags(points, Tail(channel[q]), told)
  BY <1>1, <1>2, <1>3, <1>5, LagsConsume
<1> HIDE DEF points
<1>8. /\ DOMAIN channel' = Pages /\ channel'[q] = Tail(channel[q])
      /\ \A p \in Pages : p # q => channel'[p] = channel[p]
  BY <1>1, <1>2
<1>9. /\ data' \in [Pages -> Seq(Statistics)] /\ data'[q] = points
      /\ \A p \in Pages : p # q => data'[p] = data[p]
  BY <1>1, <1>2, <1>6
<1>10. TypeOK'
  BY <1>1, <1>2, <1>4, <1>8, <1>9 DEF Inv, TypeOK, bus, hub
<1>11. TodoInv' /\ FiniteDictionary'
  BY <1>1 DEF Inv, TodoInv, RequestModel, FiniteDictionary, bus
<1>12. ClosedIsBlank'
  BY <1>1, <1>8, <1>9 DEF Inv, ClosedIsBlank
<1>13. TableInv'
  BY <1>1, <1>2, <1>8 DEF Inv, TableInv, Changing, bus, hub
<1>14. ChartInv'
  BY <1>1, <1>2, <1>7, <1>8, <1>9 DEF Inv, ChartInv, bus
<1> QED
  BY <1>10, <1>11, <1>12, <1>13, <1>14 DEF Inv

LEMMA PageInv ==
    ASSUME WebsiteAssumption, Inv, NEW q \in Pages, Page(q)
    PROVE  Inv'
  BY OpenPageInv, ClosePageInv, RequestStateChangedInv, ConsumeStatsInv DEF Page

-----------------------------------------------------------------------------
(* The invariant                                                           *)

LEMMA InitInv == ASSUME WebsiteAssumption, Init PROVE Inv
<1>1. TypeOK
  <2>1. inbox = <<>> /\ todo = <<>> /\ told = <<>> /\ refreshing = <<>>
        /\ overtaken = {} /\ doing = "write"
    BY DEF Init
  <2>2. channel \in [Pages -> Seq(RowCalls)] /\ channel \in [Pages -> Seq(Statistics)]
        /\ data \in [Pages -> Seq(Statistics)]
    BY EmptySeq DEF Init
  <2>3. table \in [Pages -> [Requests -> Rows]] /\ requests \in [Requests -> Rows]
    BY BlankRow DEF Init
  <2>4. failures \in 0..MaxFailures /\ refreshes \in 0..MaxRefreshes
    BY DEF Init, WebsiteAssumption
  <2>5. connected \subseteq Pages
    BY DEF Init
  <2>6. Len(told) <= 2
    BY <2>1
  <2> QED
    BY <2>1, <2>2, <2>3, <2>4, <2>5, <2>6, EmptySeq DEF TypeOK, Pages
<1>2. TodoInv /\ ClosedIsBlank
  BY DEF Init, TodoInv, ClosedIsBlank
<1>3. FiniteDictionary
  <2>1. {r \in Requests : Exists(requests[r])} = {}
    BY DEF Init, EmptyTable, Exists
  <2> QED
    BY <2>1, FS_EmptySet DEF FiniteDictionary
<1>4. TableInv
  <2> SUFFICES ASSUME NEW q \in Tables, NEW r \in Requests
               PROVE  Follows(channel[q], table[q][r], requests[r], r)
    BY DEF Init, TableInv
  <2>1. channel[q] = <<>> /\ table[q][r] = NoRow
    BY DEF Init, EmptyTable, Pages
  <2> QED
    BY <2>1, BlankPage
<1>5. ChartInv
  BY BlankPage DEF Init, ChartInv, Pages
<1> QED
  BY <1>1, <1>2, <1>3, <1>4, <1>5 DEF Inv

LEMMA NextInv ==
    ASSUME WebsiteAssumption, Inv, [Next]_vars
    PROVE  Inv'
<1>1. CASE UNCHANGED vars
  <2>1. TypeOK' /\ TodoInv'
    <3>1. TypeOK'
      BY <1>1 DEF vars, bus, hub, pages, Inv, TypeOK
    <3> QED
      BY <1>1, <3>1 DEF vars, bus, Inv, TodoInv, RequestModel
  <2>2. FiniteDictionary' /\ ClosedIsBlank'
    BY <1>1 DEF vars, bus, hub, pages, Inv, FiniteDictionary, ClosedIsBlank
  <2>3. TableInv' /\ ChartInv'
    BY <1>1 DEF vars, bus, hub, pages, Inv, TableInv, Changing, ChartInv
  <2> QED
    BY <2>1, <2>2, <2>3 DEF Inv
<1>2. CASE Next
  BY <1>2, ArriveInv, BusThreadInv, GetAllRequestsInv, SendRowInv,
     SiteRestartsInv, PageInv
  DEF Next, HubThread
<1> QED
  BY <1>1, <1>2

LEMMA Invariance == Spec => []Inv
<1>1. Init => Inv
  BY InitInv, WebsiteAssumption
<1>2. Inv /\ [Next]_vars => Inv'
  BY NextInv, WebsiteAssumption
<1> QED
  BY <1>1, <1>2, PTL DEF Spec

(* The queue, the dictionary, the calls to the pages, the rows of a table  *)
(* and the points of a chart keep their types, for any number of requests, *)
(* pages, failing handlers and calls of getAllRequests.                    *)
THEOREM TypeCorrect == Spec => []TypeOK
<1>1. Inv => TypeOK
  BY DEF Inv
<1> QED
  BY <1>1, Invariance, PTL

(* A table whose calls have arrived shows of every request it has heard of *)
(* what the dictionary has, wherever the bus handlers failed and ran       *)
(* again, whenever the process restarted and however late the page was     *)
(* opened.  Excepted are the request of the notification in progress and   *)
(* one whose last row getAllRequests sent too late.                        *)
THEOREM TablesFollow == Spec => []TableFollows
<1>1. Inv => TableFollows
  <2> SUFFICES ASSUME Inv, NEW q \in Tables \cap connected,
                      NEW r \in Requests \ overtaken, ~Changing(r),
                      channel[q] = <<>>, Exists(table[q][r]),
                      Exists(requests[r])
               PROVE  Agrees(table[q][r], requests[r])
    BY DEF TableFollows
  <2>1. Follows(channel[q], table[q][r], requests[r], r)
    BY DEF Inv, TableInv
  <2>2. ~IsAbout(channel[q], r)
    BY DEF IsAbout
  <2> QED
    BY <2>1, <2>2 DEF Follows
<1> QED
  BY <1>1, Invariance, PTL

(* Wherever a chart is cut, what it ends in is one of the last two         *)
(* statistics that were broadcast, once its calls have arrived: losing the *)
(* newest point at every other call costs it one broadcast, never two,     *)
(* whatever calls a restart of the process has lost.                       *)
THEOREM ChartsLagByOne == Spec => []ChartLagsByOne
<1>1. Inv => ChartLagsByOne
  BY DEF Inv, ChartInv, Lags, ChartLagsByOne
<1> QED
  BY <1>1, Invariance, PTL

=============================================================================
