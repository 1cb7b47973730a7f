------------------------------ MODULE FrameParserProofs ------------------------------
(***************************************************************************)
(* Theorems about FrameParser, for every stream, chunking, cap and header   *)
(* length.                                                                  *)
(***************************************************************************)
EXTENDS FrameParser, WellFoundedInduction, NaturalsInduction, TLAPS

\* A set of natural numbers with an element has a least one.
LEMMA LeastIsLeast ==
  ASSUME NEW S \in SUBSET Nat, S # {}
  PROVE  Least(S) \in S /\ \A k \in S : Least(S) <= k
<1> DEFINE R == {p \in Nat \X Nat : p[1] < p[2]}
<1>1. IsWellFoundedOn(R, Nat)
  BY NatLessThanWellFounded DEF OpToRel
<1>2. PICK m \in S : \A k \in S : ~ (<<k, m>> \in R)
  <2> HIDE DEF R
  <2> QED BY <1>1, WFMin
<1>3. ASSUME NEW k \in S PROVE m <= k
  <2>1. k \in Nat /\ m \in Nat
    OBVIOUS
  <2>2. k < m => <<k, m>> \in R
    BY <2>1
  <2>3. ~ (k < m)
    BY <1>2, <2>2
  <2> QED BY <2>1, <2>3
<1> QED
  BY <1>3 DEF Least

\* A header has at least two bytes.
LEMMA HeaderFits == HeaderLen \in Nat /\ HeaderLen >= 2 /\ Digits \in Nat /\ MaxBuffer \in Nat
BY SizesGiven DEF HeaderLen

\* A set that has 0 and every successor has all natural numbers.
LEMMA Induction ==
  ASSUME NEW T, 0 \in T, \A n \in Nat : n \in T => n + 1 \in T
  PROVE  Nat \subseteq T
<1> SUFFICES ASSUME Nat \ T # {} PROVE FALSE
  OBVIOUS
<1> DEFINE m == Least(Nat \ T)
<1>1. m \in Nat \ T /\ \A k \in Nat \ T : m <= k
  BY LeastIsLeast
<1> HIDE DEF m
<1>2. m # 0 /\ m - 1 \in Nat
  BY <1>1
<1>3. m - 1 \in T
  BY <1>1, <1>2
<1>4. m - 1 + 1 \in T
  BY <1>2, <1>3
<1> QED BY <1>1, <1>2, <1>4

---------------------------------------------------------------------------------------
(* Candidates *)

\* The bytes at which the scan of an array is over, and what makes it a frame there.
Over(bytes, first) == {j \in first .. Len(bytes) : Scan(bytes, first)[j].at # "open"}
Good(bytes, first, last) == Scan(bytes, first)[last].at = "closed" /\ Decodes(bytes, first, last)
BadHeader(bytes, i) == \E j \in i + 1 .. i + Digits : j <= Len(bytes) /\ bytes[j] # "0"

\* The verdict on a candidate.
LEMMA Verdict ==
  ASSUME NEW bytes, Len(bytes) \in Nat, NEW i \in Nat
  PROVE  LET first == i + HeaderLen
             last == Least(Over(bytes, first))
             frame == /\ ~BadHeader(bytes, i) /\ first <= Len(bytes) /\ bytes[first] = "["
                      /\ Over(bytes, first) # {} /\ Good(bytes, first, last)
         IN  /\ frame => TryCandidate(bytes, i) = [is |-> "frame", end |-> last]
             /\ ~frame => TryCandidate(bytes, i).is # "frame"
             /\ /\ ~BadHeader(bytes, i)
                /\ first <= Len(bytes) => bytes[first] = "[" /\ Over(bytes, first) = {}
                => TryCandidate(bytes, i) = Incomplete
<1> DEFINE first == i + HeaderLen
           last == Least(Over(bytes, first))
           bad == BadHeader(bytes, i)
           short == first > Len(bytes)
           other == bytes[first] # "["
           none == Over(bytes, first) = {}
           good == Good(bytes, first, last)
<1>1. first \in Nat
  BY HeaderFits
<1>2. TryArray(bytes, i) = IF none THEN Incomplete
                           ELSE IF good THEN [is |-> "frame", end |-> last] ELSE Invalid
  BY DEF TryArray, Over, Good
<1>3. bad <=> \E j \in {j \in i + 1 .. i + Digits : j <= Len(bytes)} : bytes[j] # "0"
  BY DEF BadHeader
<1>4. TryCandidate(bytes, i) = IF bad THEN Invalid ELSE IF short THEN Incomplete
                               ELSE IF other THEN Invalid ELSE TryArray(bytes, i)
  <2> HIDE DEF bad
  <2> QED BY <1>3 DEF TryCandidate
<1>5. Invalid.is # "frame" /\ Incomplete.is # "frame"
  BY DEF Invalid, Incomplete
<1>6. short <=> ~(first <= Len(bytes))
  BY <1>1
<1> HIDE DEF last, bad, short, other, none, good
<1>7. ~bad /\ ~short /\ ~other /\ ~none /\ good
        => TryCandidate(bytes, i) = [is |-> "frame", end |-> last]
  BY <1>2, <1>4
<1>8. ~(~bad /\ ~short /\ ~other /\ ~none /\ good) => TryCandidate(bytes, i).is # "frame"
  BY <1>2, <1>4, <1>5
<1>9. ~bad /\ (short \/ (~other /\ none)) => TryCandidate(bytes, i) = Incomplete
  BY <1>2, <1>4
<1> QED
  BY <1>6, <1>7, <1>8, <1>9 DEF last, bad, short, other, none, good

\* A candidate that is a frame ends behind its header and within the bytes.
LEMMA FrameEnds ==
  ASSUME NEW bytes, Len(bytes) \in Nat, NEW i \in Nat, i > 0, TryCandidate(bytes, i).is = "frame"
  PROVE  /\ TryCandidate(bytes, i).end \in Nat /\ i < TryCandidate(bytes, i).end
         /\ TryCandidate(bytes, i).end <= Len(bytes)
<1> DEFINE first == i + HeaderLen
           last == Least(Over(bytes, first))
<1>1. first \in Nat /\ first > i
  BY HeaderFits
<1>2. Over(bytes, first) # {} /\ TryCandidate(bytes, i) = [is |-> "frame", end |-> last]
  BY Verdict
<1>3. Over(bytes, first) \in SUBSET Nat /\ Over(bytes, first) \subseteq first .. Len(bytes)
  BY <1>1 DEF Over
<1> HIDE DEF first
<1>4. last \in Over(bytes, first)
  BY <1>2, <1>3, LeastIsLeast
<1>5. last \in first .. Len(bytes)
  BY <1>3, <1>4
<1> HIDE DEF last
<1>6. TryCandidate(bytes, i).end = last
  BY <1>2
<1> QED BY <1>1, <1>5, <1>6

\* The recursive function of Scan is what its definition says.
LEMMA ScanFollows ==
  ASSUME NEW bytes, Len(bytes) \in Nat, NEW first \in Nat, 1 <= first, first - 1 <= Len(bytes)
  PROVE  /\ Scan(bytes, first)[first - 1] = ScanStart
         /\ \A j \in first .. Len(bytes) :
               Scan(bytes, first)[j] = ScanStep(Scan(bytes, first)[j - 1], bytes[j])
<1> DEFINE start == first - 1
           Def(f, n) == f = [j \in start .. n |->
                               IF j = start THEN ScanStart ELSE ScanStep(f[j - 1], bytes[j])]
           T == {n \in Nat : \E f : Def(f, start + n)}
           after == CHOOSE after : Def(after, Len(bytes))
<1>1. start \in Nat /\ start <= Len(bytes)
  OBVIOUS
<1>2. Scan(bytes, first) = after
  BY DEF Scan
<1> HIDE DEF start
<1>3. 0 \in T
  <2> DEFINE f == [j \in start .. start |-> ScanStart]
  <2>1. f = [j \in start .. start + 0 |->
               IF j = start THEN ScanStart ELSE ScanStep(f[j - 1], bytes[j])]
    BY <1>1
  <2>2. \E h : Def(h, start + 0)
    <3>1. Def(f, start + 0)
      BY <2>1
    <3> HIDE DEF Def, f
    <3> QED BY <3>1
  <2> HIDE DEF Def
  <2> QED BY <2>2
<1>4. ASSUME NEW n \in Nat, n \in T PROVE n + 1 \in T
  <2>1. PICK f : Def(f, start + n)
    BY <1>4
  <2> DEFINE m == start + n + 1
             g == [j \in start .. m |-> IF j = m THEN ScanStep(f[m - 1], bytes[m]) ELSE f[j]]
  <2>2. m \in Nat /\ start < m /\ m - 1 = start + n /\ start + (n + 1) = m
    BY <1>1
  <2>3. f = [j \in start .. m - 1 |->
               IF j = start THEN ScanStart ELSE ScanStep(f[j - 1], bytes[j])]
    BY <2>1, <2>2
  <2> HIDE DEF m
  <2>4. Def(g, m)
    <3>1. ASSUME NEW j \in start .. m
          PROVE  g[j] = IF j = start THEN ScanStart ELSE ScanStep(g[j - 1], bytes[j])
      <4>1. CASE j = m
        <5>1. g[j] = ScanStep(f[m - 1], bytes[m]) /\ j # start
          BY <1>1, <2>2, <4>1
        <5>2. m - 1 \in start .. m /\ m - 1 # m
          BY <1>1, <2>2
        <5> QED BY <4>1, <5>1, <5>2
      <4>2. CASE j # m
        <5>1. j \in start .. m - 1 /\ g[j] = f[j]
          BY <1>1, <2>2, <4>2
        <5>2. f[j] = IF j = start THEN ScanStart ELSE ScanStep(f[j - 1], bytes[j])
          BY <2>3, <5>1
        <5>3. j # start => j - 1 \in start .. m /\ j - 1 # m
          BY <1>1, <2>2, <5>1
        <5> QED BY <5>1, <5>2, <5>3
      <4> QED BY <4>1, <4>2
    <3>2. g = [j \in start .. m |-> g[j]]
      OBVIOUS
    <3> HIDE DEF g
    <3> QED BY <3>1, <3>2
  <2>5. \E h : Def(h, start + (n + 1))
    <3> HIDE DEF Def, g
    <3> QED BY <2>2, <2>4
  <2> HIDE DEF Def
  <2> QED BY <2>5
<1>5. Nat \subseteq T
  <2>1. \A n \in Nat : n \in T => n + 1 \in T
    BY <1>4
  <2> HIDE DEF T
  <2> QED BY <1>3, <2>1, Induction
<1>6. \E f : Def(f, Len(bytes))
  <2>1. Len(bytes) - start \in Nat /\ start + (Len(bytes) - start) = Len(bytes)
    BY <1>1
  <2>2. \E f : Def(f, start + (Len(bytes) - start))
    BY <1>5, <2>1
  <2> HIDE DEF Def
  <2> QED BY <2>1, <2>2
<1>7. Def(after, Len(bytes))
  BY <1>6
<1>8. /\ after[start] = ScanStart
      /\ \A j \in start + 1 .. Len(bytes) : after[j] = ScanStep(after[j - 1], bytes[j])
  <2> HIDE DEF after
  <2> QED BY <1>1, <1>7
<1> HIDE DEF after
<1> QED BY <1>2, <1>8 DEF start

\* The scan of the first bytes is the scan of all, as far as it goes.
LEMMA ScanOfPrefix ==
  ASSUME NEW w, Len(w) \in Nat, NEW b, Len(b) \in Nat, Len(b) <= Len(w),
         \A j \in 1 .. Len(b) : b[j] = w[j],
         NEW first \in Nat, 1 <= first, first - 1 <= Len(b)
  PROVE  \A j \in first - 1 .. Len(b) : Scan(b, first)[j] = Scan(w, first)[j]
<1> DEFINE start == first - 1
           p == Scan(b, first)
           q == Scan(w, first)
           T == {n \in Nat : start + n <= Len(b) => p[start + n] = q[start + n]}
<1>1. /\ p[start] = ScanStart
      /\ \A j \in start + 1 .. Len(b) : p[j] = ScanStep(p[j - 1], b[j])
  BY ScanFollows
<1>2. /\ q[start] = ScanStart
      /\ \A j \in start + 1 .. Len(w) : q[j] = ScanStep(q[j - 1], w[j])
  BY ScanFollows
<1>3. start \in Nat /\ start <= Len(b)
  OBVIOUS
<1> HIDE DEF p, q, start
<1>4. 0 \in T
  BY <1>1, <1>2, <1>3
<1>5. ASSUME NEW n \in Nat, n \in T PROVE n + 1 \in T
  <2> SUFFICES ASSUME start + (n + 1) <= Len(b) PROVE p[start + (n + 1)] = q[start + (n + 1)]
    OBVIOUS
  <2> DEFINE m == start + (n + 1)
  <2>1. /\ m \in start + 1 .. Len(b) /\ m \in start + 1 .. Len(w) /\ m \in 1 .. Len(b)
        /\ m - 1 = start + n /\ start + n <= Len(b)
    BY <1>3
  <2>2. p[m - 1] = q[m - 1]
    BY <1>5, <2>1
  <2> HIDE DEF m
  <2>3. p[m] = ScanStep(p[m - 1], b[m]) /\ q[m] = ScanStep(q[m - 1], w[m]) /\ b[m] = w[m]
    BY <1>1, <1>2, <2>1
  <2> QED BY <2>2, <2>3 DEF m
<1>6. Nat \subseteq T
  <2>1. \A n \in Nat : n \in T => n + 1 \in T
    BY <1>5
  <2> HIDE DEF T
  <2> QED BY <1>4, <2>1, Induction
<1>7. ASSUME NEW j \in start .. Len(b) PROVE p[j] = q[j]
  <2>1. j - start \in Nat /\ start + (j - start) = j /\ j <= Len(b)
    BY <1>3
  <2>2. p[start + (j - start)] = q[start + (j - start)]
    BY <1>6, <2>1
  <2> QED BY <2>1, <2>2
<1> QED BY <1>7 DEF start, p, q

\* So is the verdict of the decoder.
LEMMA DecodesPrefix ==
  ASSUME NEW w, Len(w) \in Nat, NEW b, Len(b) \in Nat, Len(b) <= Len(w),
         \A j \in 1 .. Len(b) : b[j] = w[j],
         NEW first \in Nat, 1 <= first, NEW last \in first .. Len(b)
  PROVE  Good(b, first, last) <=> Good(w, first, last)
<1> DEFINE p == Scan(b, first)
           q == Scan(w, first)
           text == first + 3 .. last - 4
<1>1. \A j \in first - 1 .. Len(b) : p[j] = q[j]
  BY ScanOfPrefix
<1>2. p[last] = q[last]
  BY <1>1
<1>3. \A j \in first .. last : b[j] = w[j] /\ p[j - 1] = q[j - 1]
  BY <1>1
<1> HIDE DEF p, q
<1>4. last >= first + 6 => /\ b[first + 1] = w[first + 1] /\ b[first + 2] = w[first + 2]
                           /\ b[last - 3] = w[last - 3] /\ b[last - 2] = w[last - 2]
                           /\ b[last - 1] = w[last - 1] /\ p[last - 3 - 1] = q[last - 3 - 1]
  BY <1>3
<1>5. \A j \in text : b[j] = w[j] /\ p[j - 1] = q[j - 1]
  BY <1>3
<1> HIDE DEF text
<1>6. Decodes(b, first, last) <=>
        \/ last = first + 1
        \/ /\ last >= first + 6
           /\ b[first + 1] = "{" /\ b[first + 2] = Quote
           /\ b[last - 3] = Quote /\ b[last - 2] = "x" /\ b[last - 1] = "}"
           /\ ~p[last - 3 - 1].escaped
           /\ \A j \in text : /\ b[j] # "?"
                              /\ b[j] = Quote => p[j - 1].escaped
                              /\ p[j - 1].escaped => b[j] \in {Quote, Backslash}
  BY DEF Decodes, p, text
<1>7. Decodes(w, first, last) <=>
        \/ last = first + 1
        \/ /\ last >= first + 6
           /\ w[first + 1] = "{" /\ w[first + 2] = Quote
           /\ w[last - 3] = Quote /\ w[last - 2] = "x" /\ w[last - 1] = "}"
           /\ ~q[last - 3 - 1].escaped
           /\ \A j \in text : /\ w[j] # "?"
                              /\ w[j] = Quote => q[j - 1].escaped
                              /\ q[j - 1].escaped => w[j] \in {Quote, Backslash}
  BY DEF Decodes, q, text
<1>8. (\A j \in text : /\ b[j] # "?"
                       /\ b[j] = Quote => p[j - 1].escaped
                       /\ p[j - 1].escaped => b[j] \in {Quote, Backslash})
        <=> (\A j \in text : /\ w[j] # "?"
                             /\ w[j] = Quote => q[j - 1].escaped
                             /\ q[j - 1].escaped => w[j] \in {Quote, Backslash})
  BY <1>5
<1>9. Decodes(b, first, last) <=> Decodes(w, first, last)
  BY <1>4, <1>6, <1>7, <1>8
<1> QED BY <1>2, <1>9 DEF Good, p, q

\* A candidate that is a frame is one whatever follows it, one that is a frame in
\* the whole stream is it as soon as all of it is there, and incomplete until then.
LEMMA CandidatePrefix ==
  ASSUME NEW w, Len(w) \in Nat, NEW b, Len(b) \in Nat, Len(b) <= Len(w),
         \A j \in 1 .. Len(b) : b[j] = w[j], NEW i \in 1 .. Len(b)
  PROVE  /\ TryCandidate(b, i).is = "frame" => TryCandidate(w, i) = TryCandidate(b, i)
         /\ TryCandidate(w, i).is = "frame" =>
               TryCandidate(b, i) = IF TryCandidate(w, i).end <= Len(b) THEN TryCandidate(w, i)
                                                                       ELSE Incomplete
<1> DEFINE first == i + HeaderLen
           overB == Over(b, first)
           overW == Over(w, first)
           lastB == Least(overB)
           lastW == Least(overW)
           isB == /\ ~BadHeader(b, i) /\ first <= Len(b) /\ b[first] = "["
                  /\ overB # {} /\ Good(b, first, lastB)
           isW == /\ ~BadHeader(w, i) /\ first <= Len(w) /\ w[first] = "["
                  /\ overW # {} /\ Good(w, first, lastW)
<1>1. first \in Nat /\ first > i /\ i + Digits < first /\ Digits \in Nat
  BY HeaderFits DEF HeaderLen
<1>2. overB \in SUBSET Nat /\ overW \in SUBSET Nat
  BY <1>1 DEF Over
<1>3. \A j \in 1 .. Len(b) : j \in overB <=> j \in overW
  <2>1. ASSUME NEW j \in first .. Len(b) PROVE Scan(b, first)[j] = Scan(w, first)[j]
    <3>1. 1 <= first /\ first - 1 <= Len(b) /\ j \in first - 1 .. Len(b)
      BY <1>1
    <3> HIDE DEF first
    <3> QED BY <1>1, <3>1, ScanOfPrefix
  <2> HIDE DEF first
  <2> QED BY <1>1, <2>1 DEF Over
<1>4. overB \subseteq first .. Len(b) /\ overW \subseteq first .. Len(w)
  BY DEF Over
<1>5. ASSUME NEW last \in first .. Len(b) PROVE Good(b, first, last) <=> Good(w, first, last)
  <2>1. 1 <= first
    BY <1>1
  <2> HIDE DEF first
  <2> QED BY <1>1, <2>1, DecodesPrefix
<1>6. /\ isB => TryCandidate(b, i) = [is |-> "frame", end |-> lastB]
      /\ ~isB => TryCandidate(b, i).is # "frame"
      /\ ~BadHeader(b, i) /\ (first <= Len(b) => b[first] = "[" /\ overB = {})
            => TryCandidate(b, i) = Incomplete
  BY Verdict
<1>7. /\ isW => TryCandidate(w, i) = [is |-> "frame", end |-> lastW]
      /\ ~isW => TryCandidate(w, i).is # "frame"
  BY Verdict
<1>8. ~BadHeader(w, i) => ~BadHeader(b, i)
  BY DEF BadHeader
<1>9. first <= Len(b) /\ ~BadHeader(b, i) => ~BadHeader(w, i)
  BY <1>1 DEF BadHeader
<1>10. first <= Len(b) => b[first] = w[first]
  BY <1>1
<1>11. overB # {} => lastB \in overB /\ \A j \in overB : lastB <= j
  BY <1>2, LeastIsLeast
<1>12. overW # {} => lastW \in overW /\ \A j \in overW : lastW <= j
  BY <1>2, LeastIsLeast
<1> HIDE DEF first, overB, overW, lastB, lastW
<1>13. ASSUME overB # {} PROVE overW # {} /\ lastW = lastB /\ lastB \in first .. Len(b)
  <2>1. lastB \in 1 .. Len(b) /\ lastB \in first .. Len(b) /\ lastB \in overW
    <3>1. lastB \in overB /\ lastB \in first .. Len(b)
      BY <1>4, <1>11, <1>13
    <3>2. lastB \in 1 .. Len(b)
      BY <1>1, <3>1
    <3> QED BY <1>3, <3>1, <3>2
  <2>2. lastW \in overW /\ lastW <= lastB
    BY <1>12, <2>1
  <2>3. lastW \in 1 .. Len(b) /\ lastW \in overB
    BY <1>1, <1>3, <1>4, <2>1, <2>2
  <2> QED BY <1>11, <1>13, <2>1, <2>2, <2>3
<1>14. CASE isB
  <2>1. isW
    <3>1. Good(w, first, lastW)
      BY <1>5, <1>13, <1>14
    <3> QED BY <1>1, <1>9, <1>10, <1>13, <1>14, <3>1
  <2>2. TryCandidate(w, i) = [is |-> "frame", end |-> lastB]
    BY <1>7, <1>13, <1>14, <2>1
  <2>3. lastB <= Len(b)
    BY <1>1, <1>13, <1>14
  <2>4. TryCandidate(w, i).end = lastB
    BY <2>2
  <2> QED BY <1>6, <1>14, <2>2, <2>3, <2>4
<1>15. CASE isW /\ ~isB
  <2>1. overB = {}
    <3> SUFFICES ASSUME overB # {} PROVE FALSE
      OBVIOUS
    <3>1. lastW = lastB /\ lastB \in first .. Len(b)
      BY <1>13
    <3>2. Good(b, first, lastB)
      BY <1>5, <1>15, <3>1
    <3>3. first <= Len(b)
      BY <1>1, <3>1
    <3> QED BY <1>8, <1>10, <1>15, <3>2, <3>3
  <2>2. TryCandidate(b, i) = Incomplete
    BY <1>6, <1>8, <1>10, <1>15, <2>1
  <2>3. ~(lastW <= Len(b))
    <3> SUFFICES ASSUME lastW <= Len(b) PROVE FALSE
      OBVIOUS
    <3>1. lastW \in overW
      BY <1>12, <1>15
    <3>2. lastW \in 1 .. Len(b)
      BY <1>1, <1>4, <3>1
    <3> QED BY <1>3, <2>1, <3>1, <3>2
  <2>4. TryCandidate(w, i).end = lastW
    BY <1>7, <1>15
  <2>5. TryCandidate(b, i).is # "frame"
    BY <1>6, <1>15
  <2> QED BY <2>2, <2>3, <2>4, <2>5
<1>16. CASE ~isW /\ ~isB
  BY <1>6, <1>7, <1>16
<1> QED BY <1>14, <1>15, <1>16

\* The prefixes in the buffer, and the first of them.
LEMMA PrefixBounds ==
  ASSUME fed \in Nat, NEW p \in Nat, NEW S \in SUBSET PrefixesAfter(p), S # {}
  PROVE  Least(S) \in S /\ Least(S) \in Nat /\ p < Least(S) /\ Least(S) <= fed
<1>1. S \in SUBSET Nat /\ \A k \in S : p < k /\ k <= fed
  BY DEF PrefixesAfter
<1> QED
  BY <1>1, LeastIsLeast

\* What has been received is the beginning of what was sent.
LEMMA ReceivedIs ==
  TypeOK => /\ Received \in Seq(Kinds) /\ Len(Received) = fed
            /\ \A j \in 1 .. fed : Received[j] = wire[j]
  BY DEF TypeOK, Received

ParserInv == TypeOK /\ BufferBounded /\ FramesInOrder

\* Returning the frame at i keeps the frames in order and consumes bytes.
LEMMA ReturnFacts ==
  ASSUME TypeOK, FramesInOrder, NEW i \in Nat, head < i, i <= fed,
         TryCandidate(Received, i).is = "frame", Return(i), UNCHANGED fed
  PROVE  /\ head' \in 0 .. fed /\ head' > head
         /\ frames' \in Seq(Interval) /\ discarded' \in Nat
         /\ FramesInOrder'
<1> DEFINE f == [from |-> i - 1, to |-> TryCandidate(Received, i).end]
<1>1. /\ fed \in Nat /\ head \in Nat /\ frames \in Seq(Interval) /\ discarded \in Nat
      /\ Len(wire) \in Nat
  BY DEF TypeOK
<1>2. /\ TryCandidate(Received, i).end \in Nat
      /\ i < TryCandidate(Received, i).end /\ TryCandidate(Received, i).end <= fed
  BY <1>1, FrameEnds, ReceivedIs
<1>3. f \in Interval /\ f.from < f.to /\ head <= f.from /\ f.to = TryCandidate(Received, i).end
  BY <1>1, <1>2 DEF Interval
<1>4. /\ head' = f.to /\ frames' = Append(frames, f)
      /\ discarded' = discarded + (i - 1 - head)
  BY <1>3 DEF Return
<1> HIDE DEF f
<1>5. head' \in 0 .. fed /\ head' > head
  BY <1>1, <1>2, <1>3, <1>4 DEF Interval
<1>6. frames' \in Seq(Interval) /\ discarded' \in Nat
  BY <1>1, <1>3, <1>4
<1>7. FramesInOrder'
  <2>1. /\ Len(frames') = Len(frames) + 1 /\ DOMAIN frames' = 1 .. Len(frames) + 1
        /\ \A k \in 1 .. Len(frames) : frames'[k] = frames[k]
        /\ frames'[Len(frames) + 1] = f /\ DOMAIN frames = 1 .. Len(frames)
        /\ Len(frames) \in Nat
    BY <1>1, <1>3, <1>4
  <2>2. \A k \in 1 .. Len(frames) : frames[k] \in Interval
    BY <1>1
  <2>3. \A k \in 1 .. Len(frames) : frames[k].from \in Nat /\ frames[k].to \in Nat
    BY <2>2 DEF Interval
  <2>4. f.from \in Nat /\ f.to \in Nat
    BY <1>3 DEF Interval
  <2>5. \A k \in DOMAIN frames' : frames'[k].from < frames'[k].to /\ frames'[k].to <= head'
    BY <1>1, <1>3, <1>4, <1>5, <2>1, <2>3, <2>4 DEF FramesInOrder
  <2>6. \A j, k \in DOMAIN frames' : j < k => frames'[j].to <= frames'[k].from
    BY <1>1, <1>3, <2>1, <2>3, <2>4 DEF FramesInOrder
  <2> QED BY <2>5, <2>6 DEF FramesInOrder
<1> QED
  BY <1>5, <1>6, <1>7

\* A step keeps the invariant, and every iteration but the last consumes bytes.
LEMMA ParserStep ==
  ASSUME ParserInv, [Next]_vars
  PROVE  ParserInv' /\ (extracting /\ extracting' => head' > head \/ UNCHANGED vars)
<1>1. /\ TypeOK /\ BufferBounded /\ FramesInOrder
      /\ fed \in Nat /\ head \in Nat /\ head <= fed /\ Len(wire) \in Nat /\ fed <= Len(wire)
      /\ invalid \in Nat /\ discarded \in Nat
  BY DEF ParserInv, TypeOK
<1>2. CASE UNCHANGED vars
  BY <1>1, <1>2 DEF vars, ParserInv, TypeOK, BufferBounded, FramesInOrder
<1>3. ASSUME NEW n \in ChunkSizes, Feed(n)
      PROVE  ParserInv' /\ ~extracting
  <2>1. n \in Nat
    BY SizesGiven
  <2>2. TypeOK'
    BY <1>1, <1>3, <2>1 DEF Feed, TypeOK
  <2>3. FramesInOrder' /\ BufferBounded' /\ ~extracting
    BY <1>1, <1>3 DEF Feed, FramesInOrder, BufferBounded
  <2> QED BY <2>2, <2>3 DEF ParserInv
<1>4. ASSUME frames' = frames, head' \in head .. fed, discarded' \in Nat, invalid' \in Nat,
             extracting' \in BOOLEAN, ~extracting' => fed - head' <= MaxBuffer,
             UNCHANGED <<wire, sent, fed>>
      PROVE  ParserInv'
  <2>1. TypeOK'
    BY <1>1, <1>4 DEF TypeOK
  <2>2. \A i \in DOMAIN frames : frames[i].to \in Nat
    <3>1. \A i \in DOMAIN frames : frames[i] \in Interval
      BY <1>1 DEF TypeOK
    <3> QED BY <3>1 DEF Interval
  <2>3. FramesInOrder' /\ BufferBounded'
    BY <1>1, <1>4, <2>2 DEF FramesInOrder, BufferBounded
  <2> QED BY <2>1, <2>3 DEF ParserInv
<1>5. ASSUME NEW i \in Nat, head < i, i <= fed, TryCandidate(Received, i).is = "frame", Return(i),
             extracting', UNCHANGED <<wire, sent, fed>>, invalid' \in Nat
      PROVE  ParserInv' /\ head' > head
  <2>1. /\ head' \in 0 .. fed /\ head' > head
        /\ frames' \in Seq(Interval) /\ discarded' \in Nat
        /\ FramesInOrder'
    BY <1>1, <1>5, ReturnFacts
  <2>2. TypeOK'
    BY <1>1, <1>5, <2>1 DEF TypeOK
  <2>3. BufferBounded'
    BY <1>5 DEF BufferBounded
  <2> QED BY <2>1, <2>2, <2>3 DEF ParserInv
<1>6. ASSUME PrefixesAfter(head) # {}
      PROVE  Candidate \in Nat /\ head < Candidate /\ Candidate <= fed
  BY <1>1, <1>6, PrefixBounds DEF Candidate
<1>7. CASE AcceptFrame
  <2>1. PrefixesAfter(head) # {} /\ TryCandidate(Received, Candidate).is = "frame" /\ extracting'
        /\ Return(Candidate) /\ UNCHANGED <<wire, sent, fed>> /\ invalid' \in Nat
    BY <1>1, <1>7 DEF AcceptFrame, CandidateIs
  <2> QED BY <1>5, <1>6, <2>1
<1>8. CASE Resynchronise
  <2> DEFINE k == Least(LaterFrames(Candidate))
  <2>1. /\ PrefixesAfter(head) # {} /\ LaterFrames(Candidate) # {} /\ extracting'
        /\ Return(k) /\ UNCHANGED <<wire, sent, fed>> /\ invalid' \in Nat
    BY <1>1, <1>8 DEF Resynchronise, CandidateIs
  <2>2. LaterFrames(Candidate) \in SUBSET PrefixesAfter(Candidate)
    BY DEF LaterFrames
  <2>3. k \in LaterFrames(Candidate) /\ k \in Nat /\ Candidate < k /\ k <= fed
    BY <1>1, <1>6, <2>1, <2>2, PrefixBounds
  <2>4. TryCandidate(Received, k).is = "frame" /\ head < k
    BY <1>1, <1>6, <2>1, <2>3 DEF LaterFrames
  <2> HIDE DEF k
  <2> QED BY <1>5, <2>1, <2>3, <2>4
<1>9. CASE DiscardGarbage
  <2>1. /\ head' = fed /\ discarded' = discarded + (fed - head) /\ extracting' = FALSE
        /\ UNCHANGED <<wire, sent, fed, frames, invalid>>
    BY <1>9 DEF DiscardGarbage
  <2>2. head' \in head .. fed /\ discarded' \in Nat /\ fed - head' <= MaxBuffer
    BY <1>1, <2>1, HeaderFits
  <2> QED BY <1>1, <1>4, <2>1, <2>2
<1>10. CASE RejectCandidate
  <2>1. /\ PrefixesAfter(head) # {} /\ extracting /\ head' = Candidate
        /\ discarded' = discarded + (Candidate - head) /\ invalid' = invalid + 1
        /\ UNCHANGED <<wire, sent, fed, extracting, frames>>
    BY <1>10 DEF RejectCandidate, CandidateIs
  <2>2. Candidate \in Nat /\ head < Candidate /\ Candidate <= fed
    BY <1>6, <2>1
  <2>3. /\ head' \in head .. fed /\ head' > head /\ discarded' \in Nat /\ invalid' \in Nat
        /\ extracting' = TRUE
    BY <1>1, <2>1, <2>2
  <2> QED BY <1>1, <1>4, <2>1, <2>3
<1>11. CASE Retain
  <2>1. /\ PrefixesAfter(head) # {} /\ ~extracting'
        /\ head' = IF fed - (Candidate - 1) > MaxBuffer THEN fed - MaxBuffer ELSE Candidate - 1
        /\ discarded' = discarded + (head' - head)
        /\ UNCHANGED <<wire, sent, fed, frames, invalid>>
    BY <1>11 DEF Retain, CandidateIs
  <2>2. Candidate \in Nat /\ head < Candidate /\ Candidate <= fed
    BY <1>6, <2>1
  <2>3. head' \in head .. fed /\ fed - head' <= MaxBuffer
    BY <1>1, <2>1, <2>2, HeaderFits
  <2>4. discarded' \in Nat /\ invalid' \in Nat /\ extracting' = FALSE
    BY <1>1, <1>11, <2>1, <2>3 DEF Retain
  <2> QED BY <1>1, <1>4, <2>1, <2>3, <2>4
<1>12. CASE Silent
  BY <1>2, <1>12 DEF Silent
<1> QED
  BY <1>2, <1>3, <1>7, <1>8, <1>9, <1>10, <1>11, <1>12 DEF Next, Extract

\* The invariant holds of a new parser.
LEMMA ParserInit == Init => ParserInv
<1> SUFFICES ASSUME Init PROVE ParserInv
  OBVIOUS
<1>1. wire \in Seq(Kinds) /\ sent \in Seq(Interval)
  BY StreamsGiven DEF Init
<1>2. Len(wire) \in Nat
  BY <1>1
<1>3. fed = 0 /\ head = 0 /\ extracting = FALSE /\ frames = << >> /\ invalid = 0 /\ discarded = 0
  BY DEF Init
<1>4. TypeOK
  <2>1. fed \in 0 .. Len(wire) /\ head \in 0 .. fed /\ invalid \in Nat /\ discarded \in Nat
    BY <1>2, <1>3
  <2>2. extracting \in BOOLEAN
    BY <1>3
  <2>3. frames \in Seq(Interval)
    BY <1>3
  <2> QED BY <1>1, <2>1, <2>2, <2>3 DEF TypeOK
<1>5. BufferBounded /\ FramesInOrder
  BY <1>3, HeaderFits DEF BufferBounded, FramesInOrder
<1> QED
  BY <1>4, <1>5 DEF ParserInv

\* The invariant, and with it the types, for every stream and chunking.
THEOREM ParserTypeOK == Spec => []ParserInv /\ []TypeOK
<1>1. ParserInv /\ [Next]_vars => ParserInv'
  BY ParserStep
<1>2. ParserInv => TypeOK
  BY DEF ParserInv
<1> QED
  BY <1>1, <1>2, ParserInit, PTL DEF Spec

\* No stream and no chunking makes feed() retain more than the cap.
THEOREM BufferStaysBounded == Spec => []BufferBounded
<1>1. ParserInv => BufferBounded
  BY DEF ParserInv
<1> QED
  BY <1>1, ParserTypeOK, PTL

\* Frames never overlap and never come out of order, frame-like text included.
THEOREM FramesNeverOverlap == Spec => []FramesInOrder
<1>1. ParserInv => FramesInOrder
  BY DEF ParserInv
<1> QED
  BY <1>1, ParserTypeOK, PTL

\* The loop of feed() makes progress on every stream.
THEOREM FeedTerminates == Spec => LoopAdvances
<1>1. ParserInv /\ [Next]_vars => [extracting /\ extracting' => head' > head]_vars
  BY ParserStep
<1> QED
  BY <1>1, ParserTypeOK, PTL DEF Spec, LoopAdvances
---------------------------------------------------------------------------------------
(* Exactly the genuine frames *)

Framing == Framed([bytes |-> wire, frames |-> sent])

\* The k-th genuine frame: where it is, and what its candidate is judged to be.
LEMMA GenuineFrame ==
  ASSUME TypeOK, Framing, NEW k \in DOMAIN sent
  PROVE  LET i == sent[k].from + 1 IN
         /\ sent[k].from \in Nat /\ sent[k].to \in Nat /\ i < sent[k].to
         /\ sent[k].to - sent[k].from <= MaxBuffer
         /\ i <= fed => /\ wire[i] = "N"
                        /\ TryCandidate(Received, i).is
                              = IF Arrived(sent[k]) THEN "frame" ELSE "incomplete"
                        /\ Arrived(sent[k]) => TryCandidate(Received, i).end = sent[k].to
<1> DEFINE i == sent[k].from + 1
           c == TryCandidate(wire, i)
<1>1. wire \in Seq(Kinds) /\ Len(wire) \in Nat /\ DOMAIN wire = 1 .. Len(wire)
      /\ fed \in Nat /\ fed <= Len(wire)
  BY DEF TypeOK
<1>2. sent[k].from \in Nat /\ sent[k].to \in Nat
  <2>1. sent[k] \in Interval
    BY DEF TypeOK
  <2> QED BY <2>1 DEF Interval
<1>3. sent[k].to - sent[k].from <= MaxBuffer
  BY DEF Framing, Framed
<1>4. PICK j \in Decodable(wire) : sent[k] = Frame(wire, j)
  BY DEF Framing, Framed
<1>5. j \in 1 .. Len(wire) /\ wire[j] = "N" /\ TryCandidate(wire, j).is = "frame"
  BY <1>1, <1>4 DEF Decodable
<1>6. sent[k].from = j - 1 /\ sent[k].to = TryCandidate(wire, j).end
  BY <1>4 DEF Frame
<1>7. j = i
  BY <1>2, <1>5, <1>6
<1>8. i \in 1 .. Len(wire) /\ wire[i] = "N" /\ c.is = "frame" /\ sent[k].to = c.end
  BY <1>5, <1>6, <1>7
<1> HIDE DEF i, c
<1>9. i < sent[k].to
  <2>1. i \in Nat /\ i > 0
    BY <1>8
  <2> QED BY <1>1, <1>8, <2>1, FrameEnds DEF c
<1>10. ASSUME i <= fed
       PROVE  /\ TryCandidate(Received, i).is = IF Arrived(sent[k]) THEN "frame" ELSE "incomplete"
              /\ Arrived(sent[k]) => TryCandidate(Received, i).end = sent[k].to
  <2>1. Len(Received) = fed /\ \A m \in 1 .. Len(Received) : Received[m] = wire[m]
    BY ReceivedIs
  <2>2. i \in 1 .. Len(Received)
    BY <1>1, <1>8, <1>10, <2>1
  <2>3. TryCandidate(Received, i) = IF c.end <= Len(Received) THEN c ELSE Incomplete
    BY <1>1, <1>8, <2>1, <2>2, CandidatePrefix DEF c
  <2>4. Arrived(sent[k]) <=> c.end <= Len(Received)
    BY <1>8, <2>1 DEF Arrived
  <2>5. Incomplete.is = "incomplete"
    BY DEF Incomplete
  <2> QED BY <1>8, <2>3, <2>4, <2>5
<1> QED BY <1>2, <1>3, <1>8, <1>9, <1>10 DEF i

\* And every candidate that is judged a frame is a genuine one.
LEMMA OnlyGenuine ==
  ASSUME TypeOK, Framing, NEW i \in 1 .. fed, wire[i] = "N", TryCandidate(Received, i).is = "frame"
  PROVE  \E k \in DOMAIN sent :
            sent[k] = [from |-> i - 1, to |-> TryCandidate(Received, i).end] /\ Arrived(sent[k])
<1>1. wire \in Seq(Kinds) /\ Len(wire) \in Nat /\ DOMAIN wire = 1 .. Len(wire)
      /\ fed \in Nat /\ fed <= Len(wire)
  BY DEF TypeOK
<1>2. Len(Received) = fed /\ \A m \in 1 .. Len(Received) : Received[m] = wire[m]
  BY ReceivedIs
<1>3. TryCandidate(wire, i) = TryCandidate(Received, i)
  BY <1>1, <1>2, CandidatePrefix
<1>4. i \in Decodable(wire)
  BY <1>1, <1>3 DEF Decodable
<1>5. PICK k \in DOMAIN sent : sent[k] = Frame(wire, i)
  BY <1>4 DEF Framing, Framed
<1>6. TryCandidate(Received, i).end <= fed
  BY <1>1, <1>2, FrameEnds
<1>7. sent[k] = [from |-> i - 1, to |-> TryCandidate(Received, i).end]
  BY <1>3, <1>5 DEF Frame
<1> QED BY <1>6, <1>7 DEF Arrived

\* The genuine frames that have not been returned: their prefixes are still in the
\* buffer, as far as they have arrived.
LEMMA Outstanding ==
  ASSUME ParserInv, ExactInv, Framing, NEW k \in DOMAIN sent \ DOMAIN frames
  PROVE  LET i == sent[k].from + 1 IN
         /\ i \in Nat /\ sent[k].from \in Nat /\ sent[k].to \in Nat /\ head < i /\ i < sent[k].to
         /\ i <= fed => /\ i \in PrefixesAfter(head) /\ Candidate <= i
                        /\ Arrived(sent[k]) => TryCandidate(Received, i).is = "frame"
                        /\ ~Arrived(sent[k]) => TryCandidate(Received, i).is = "incomplete"
<1> DEFINE i == sent[k].from + 1
<1>1. TypeOK /\ fed \in Nat /\ head \in Nat
  BY DEF ParserInv, TypeOK
<1>2. /\ sent[k].from \in Nat /\ sent[k].to \in Nat /\ i < sent[k].to
      /\ i <= fed => /\ wire[i] = "N"
                     /\ TryCandidate(Received, i).is
                           = IF Arrived(sent[k]) THEN "frame" ELSE "incomplete"
  BY <1>1, GenuineFrame
<1>3. head <= sent[k].from
  BY DEF ExactInv
<1>4. i \in Nat /\ head < i
  BY <1>1, <1>2, <1>3
<1> HIDE DEF i
<1>5. ASSUME i <= fed PROVE i \in PrefixesAfter(head) /\ Candidate <= i
  <2>1. i \in PrefixesAfter(head)
    BY <1>1, <1>2, <1>4, <1>5 DEF PrefixesAfter
  <2>2. PrefixesAfter(head) \in SUBSET Nat
    BY <1>1 DEF PrefixesAfter
  <2> QED BY <2>1, <2>2, LeastIsLeast DEF Candidate
<1>6. i <= fed => /\ Arrived(sent[k]) => TryCandidate(Received, i).is = "frame"
                  /\ ~Arrived(sent[k]) => TryCandidate(Received, i).is = "incomplete"
  BY <1>2
<1> QED BY <1>2, <1>4, <1>5, <1>6 DEF i

\* A returned frame is the next genuine one.
LEMMA ReturnsNext ==
  ASSUME ParserInv, ExactInv, Framing, NEW i \in PrefixesAfter(head),
         TryCandidate(Received, i).is = "frame", Return(i),
         UNCHANGED <<wire, sent, fed, extracting>>, extracting,
         \A j \in PrefixesAfter(head) : TryCandidate(Received, j).is = "frame" => i <= j
  PROVE  ExactInv'
<1> DEFINE m == Len(frames) + 1
           end == TryCandidate(Received, i).end
<1>1. /\ TypeOK /\ FramesInOrder /\ fed \in Nat /\ head \in Nat
      /\ frames \in Seq(Interval) /\ sent \in Seq(Interval)
      /\ Len(frames) \in Nat /\ DOMAIN frames = 1 .. Len(frames)
      /\ Len(sent) \in Nat /\ DOMAIN sent = 1 .. Len(sent)
  BY DEF ParserInv, TypeOK
<1>2. i \in Nat /\ head < i /\ i <= fed /\ i \in 1 .. fed /\ wire[i] = "N"
  BY <1>1 DEF PrefixesAfter
<1>3. PICK k \in DOMAIN sent : sent[k] = [from |-> i - 1, to |-> end] /\ Arrived(sent[k])
  BY <1>1, <1>2, OnlyGenuine
<1>4. /\ frames' = Append(frames, [from |-> i - 1, to |-> end])
      /\ head' = end
  BY DEF Return
<1>5. \A j \in DOMAIN sent : sent[j].from \in Nat /\ sent[j].to \in Nat /\ sent[j].from < sent[j].to
  BY <1>1, GenuineFrame
<1>6. \A j, l \in DOMAIN sent : j < l => sent[j].to <= sent[l].from
  BY DEF Framing, Framed
<1>7. sent[k].from = i - 1 /\ sent[k].to = end
  BY <1>3
<1> HIDE DEF end
<1>8. ~(k <= Len(frames))
  <2> SUFFICES ASSUME k <= Len(frames) PROVE FALSE
    OBVIOUS
  <2>1. k \in DOMAIN frames /\ k \in Nat
    BY <1>1
  <2>2. frames[k] = sent[k] /\ frames[k].from < frames[k].to /\ frames[k].to <= head
    BY <1>1, <2>1 DEF ExactInv, FramesInOrder
  <2>3. sent[k].from \in Nat /\ sent[k].to \in Nat
    BY <1>5
  <2> QED BY <1>1, <1>2, <1>7, <2>2, <2>3
<1>9. m \in DOMAIN sent \ DOMAIN frames /\ m <= k /\ m \in Nat
  BY <1>1, <1>8
<1>10. ~(m < k)
  <2> SUFFICES ASSUME m < k PROVE FALSE
    OBVIOUS
  <2> DEFINE j == sent[m].from + 1
  <2>1. sent[m].to <= sent[k].from
    BY <1>6, <1>9
  <2>2. /\ sent[m].from \in Nat /\ sent[m].to \in Nat /\ sent[k].from \in Nat
        /\ sent[m].from < sent[m].to
    BY <1>5, <1>9
  <2>3. j < i /\ j <= fed /\ Arrived(sent[m]) /\ j \in Nat
    BY <1>2, <1>7, <2>1, <2>2, <1>1 DEF Arrived
  <2>4. j \in PrefixesAfter(head) /\ TryCandidate(Received, j).is = "frame"
    BY <1>9, <2>3, Outstanding
  <2> HIDE DEF j
  <2>5. i <= j
    BY <2>4
  <2> QED BY <1>2, <2>3, <2>5
<1>11. k = m
  BY <1>1, <1>9, <1>10
<1>12. frames' = Append(frames, sent[m])
  BY <1>3, <1>4, <1>11
<1> HIDE DEF m
<1>13. /\ DOMAIN frames' = 1 .. m /\ frames'[m] = sent[m]
       /\ \A j \in 1 .. Len(frames) : frames'[j] = frames[j]
  <2>1. sent[m] \in Interval
    BY <1>1, <1>9
  <2> QED BY <1>1, <1>12, <2>1 DEF m
<1>14. ASSUME NEW j \in DOMAIN frames'
       PROVE  j \in DOMAIN sent /\ frames'[j] = sent[j] /\ Arrived(sent[j])
  <2>1. CASE j = m
    BY <1>3, <1>9, <1>11, <1>13, <2>1
  <2>2. CASE j # m
    <3>1. j \in 1 .. Len(frames)
      BY <1>1, <1>13, <2>2 DEF m
    <3> QED BY <1>1, <1>13, <3>1 DEF ExactInv
  <2> QED BY <2>1, <2>2
<1>15. ASSUME NEW j \in DOMAIN sent \ DOMAIN frames' PROVE head' <= sent[j].from
  <2>1. m < j
    BY <1>1, <1>9, <1>13
  <2>2. sent[m].to <= sent[j].from
    BY <1>6, <1>9, <2>1
  <2> QED BY <1>4, <1>7, <1>11, <2>2
<1> QED BY <1>14, <1>15 DEF ExactInv, Arrived

\* The rest of the iteration, where nothing is returned.
LEMMA KeepsOutstanding ==
  ASSUME ParserInv, ExactInv, Framing, UNCHANGED <<wire, sent, fed, frames>>,
         \A k \in DOMAIN sent \ DOMAIN frames :
            head' <= sent[k].from /\ (~extracting' => ~Arrived(sent[k]))
  PROVE  ExactInv'
  BY DEF ExactInv, Arrived

\* A step keeps the genuine frames: the returned ones, and those still outstanding.
LEMMA ExactStep ==
  ASSUME ParserInv, ExactInv, Framing, [Next]_vars
  PROVE  ExactInv'
<1>1. /\ TypeOK /\ fed \in Nat /\ head \in Nat /\ head <= fed /\ MaxBuffer \in Nat
  BY HeaderFits DEF ParserInv, TypeOK
<1>2. PrefixesAfter(head) # {} =>
         /\ Candidate \in PrefixesAfter(head) /\ Candidate \in Nat
         /\ head < Candidate /\ Candidate <= fed
  BY <1>1, PrefixBounds DEF Candidate
<1>3. PrefixesAfter(head) \in SUBSET Nat
  BY <1>1 DEF PrefixesAfter
<1>4. ASSUME NEW k \in DOMAIN sent \ DOMAIN frames
      PROVE  LET i == sent[k].from + 1 IN
             /\ i \in Nat /\ sent[k].from \in Nat /\ sent[k].to \in Nat
             /\ head < i /\ i < sent[k].to
             /\ i <= fed => /\ i \in PrefixesAfter(head) /\ Candidate <= i
                            /\ Arrived(sent[k]) => TryCandidate(Received, i).is = "frame"
                            /\ ~Arrived(sent[k]) => TryCandidate(Received, i).is = "incomplete"
             /\ Arrived(sent[k]) => i <= fed
             /\ sent[k].to - sent[k].from <= MaxBuffer
             /\ ~Arrived(sent[k]) <=> sent[k].to > fed
  <2>1. LET i == sent[k].from + 1 IN
        /\ i \in Nat /\ sent[k].from \in Nat /\ sent[k].to \in Nat /\ head < i /\ i < sent[k].to
        /\ i <= fed => /\ i \in PrefixesAfter(head) /\ Candidate <= i
                       /\ Arrived(sent[k]) => TryCandidate(Received, i).is = "frame"
                       /\ ~Arrived(sent[k]) => TryCandidate(Received, i).is = "incomplete"
    BY Outstanding
  <2>2. sent[k].to - sent[k].from <= MaxBuffer
    BY DEF Framing, Framed
  <2>3. ~Arrived(sent[k]) <=> sent[k].to > fed
    BY <1>1, <2>1 DEF Arrived
  <2>4. Arrived(sent[k]) => sent[k].from + 1 <= fed
    BY <1>1, <2>1, <2>3
  <2> QED BY <2>1, <2>2, <2>3, <2>4
<1>5. CASE UNCHANGED vars
  BY <1>5 DEF vars, ExactInv, Arrived
<1>6. ASSUME NEW n \in ChunkSizes, Feed(n) PROVE ExactInv'
  <2>1. fed' \in Nat /\ fed <= fed' /\ extracting' = TRUE /\ UNCHANGED <<sent, head, frames>>
    BY <1>1, <1>6, SizesGiven DEF Feed
  <2>2. \A k \in DOMAIN sent : sent[k].to \in Nat
    BY <1>1, GenuineFrame
  <2> QED BY <1>1, <2>1, <2>2 DEF ExactInv, Arrived
<1>7. CASE DiscardGarbage
  <2>1. /\ PrefixesAfter(head) = {} /\ head' = fed
        /\ UNCHANGED <<wire, sent, fed, frames>>
    BY <1>7 DEF DiscardGarbage
  <2>2. ASSUME NEW k \in DOMAIN sent \ DOMAIN frames
        PROVE  head' <= sent[k].from /\ ~Arrived(sent[k])
    BY <1>1, <1>4, <2>1
  <2> QED BY <2>1, <2>2, KeepsOutstanding
<1>8. CASE AcceptFrame
  <2>1. /\ PrefixesAfter(head) # {} /\ TryCandidate(Received, Candidate).is = "frame"
        /\ Return(Candidate) /\ extracting /\ UNCHANGED <<wire, sent, fed, extracting>>
    BY <1>8 DEF AcceptFrame, CandidateIs
  <2>2. \A j \in PrefixesAfter(head) : Candidate <= j
    BY <1>3, <2>1, LeastIsLeast DEF Candidate
  <2> QED BY <1>2, <2>1, <2>2, ReturnsNext
<1>9. CASE Resynchronise
  <2> DEFINE r == Least(LaterFrames(Candidate))
  <2>1. /\ PrefixesAfter(head) # {} /\ TryCandidate(Received, Candidate).is = "incomplete"
        /\ LaterFrames(Candidate) # {} /\ Return(r) /\ extracting
        /\ UNCHANGED <<wire, sent, fed, extracting>>
    BY <1>9 DEF Resynchronise, CandidateIs
  <2>2. /\ LaterFrames(Candidate) \in SUBSET PrefixesAfter(Candidate)
        /\ PrefixesAfter(Candidate) \subseteq PrefixesAfter(head)
    BY <1>1, <1>2, <2>1 DEF LaterFrames, PrefixesAfter
  <2>3. LaterFrames(Candidate) \in SUBSET Nat
    BY <1>3, <2>2
  <2>4. r \in LaterFrames(Candidate) /\ \A j \in LaterFrames(Candidate) : r <= j
    BY <2>1, <2>3, LeastIsLeast
  <2>5. r \in PrefixesAfter(head) /\ TryCandidate(Received, r).is = "frame"
    BY <2>2, <2>4 DEF LaterFrames
  <2> HIDE DEF r
  <2>6. ASSUME NEW j \in PrefixesAfter(head), TryCandidate(Received, j).is = "frame" PROVE r <= j
    <3>1. Candidate <= j /\ Candidate # j
      <4>1. Candidate <= j
        BY <1>3, LeastIsLeast DEF Candidate
      <4>2. Candidate # j
        BY <2>1, <2>6
      <4> QED BY <4>1, <4>2
    <3>2. j \in PrefixesAfter(Candidate)
      <4>1. Candidate \in Nat /\ j \in Nat /\ j <= fed /\ wire[j] = "N"
        BY <1>1, <1>2, <2>1 DEF PrefixesAfter
      <4> QED BY <1>1, <3>1, <4>1 DEF PrefixesAfter
    <3>3. j \in LaterFrames(Candidate)
      BY <2>6, <3>2 DEF LaterFrames
    <3> QED BY <2>4, <3>3
  <2> QED BY <2>1, <2>5, <2>6, ReturnsNext
<1>10. CASE RejectCandidate
  <2>1. /\ PrefixesAfter(head) # {} /\ TryCandidate(Received, Candidate).is = "invalid"
        /\ head' = Candidate /\ extracting /\ UNCHANGED <<wire, sent, fed, extracting, frames>>
    BY <1>10 DEF RejectCandidate, CandidateIs
  <2>2. ASSUME NEW k \in DOMAIN sent \ DOMAIN frames PROVE head' <= sent[k].from
    <3> DEFINE i == sent[k].from + 1
    <3>1. i \in Nat /\ Candidate \in Nat /\ Candidate <= fed
      BY <1>2, <1>4, <2>1
    <3>2. CASE i <= fed
      <4>1. Candidate <= i /\ TryCandidate(Received, i).is # "invalid"
        BY <1>4, <3>2
      <4>2. Candidate # i
        BY <2>1, <4>1
      <4> QED BY <1>4, <2>1, <3>1, <4>1, <4>2
    <3>3. CASE ~(i <= fed)
      BY <1>1, <1>4, <2>1, <3>1, <3>3
    <3> QED BY <3>2, <3>3
  <2> QED BY <2>1, <2>2, KeepsOutstanding
<1>11. CASE Retain
  <2>1. /\ PrefixesAfter(head) # {} /\ TryCandidate(Received, Candidate).is = "incomplete"
        /\ LaterFrames(Candidate) = {}
        /\ head' = IF fed - (Candidate - 1) > MaxBuffer THEN fed - MaxBuffer ELSE Candidate - 1
        /\ UNCHANGED <<wire, sent, fed, frames>>
    BY <1>11 DEF Retain, CandidateIs
  <2>2. ASSUME NEW k \in DOMAIN sent \ DOMAIN frames
        PROVE  head' <= sent[k].from /\ ~Arrived(sent[k])
    <3> DEFINE i == sent[k].from + 1
    <3>1. i \in Nat /\ Candidate \in Nat /\ Candidate <= fed
      BY <1>2, <1>4, <2>1
    <3>2. ~Arrived(sent[k])
      <4> SUFFICES ASSUME Arrived(sent[k]) PROVE FALSE
        OBVIOUS
      <4>1. i <= fed /\ i \in PrefixesAfter(head) /\ Candidate <= i
            /\ TryCandidate(Received, i).is = "frame"
        BY <1>4
      <4>2. Candidate # i
        BY <2>1, <4>1
      <4>3. i \in PrefixesAfter(Candidate)
        BY <1>1, <3>1, <4>1, <4>2 DEF PrefixesAfter
      <4>4. i \in LaterFrames(Candidate)
        BY <4>1, <4>3 DEF LaterFrames
      <4> QED BY <2>1, <4>4
    <3>3. Candidate - 1 <= sent[k].from
      BY <1>1, <1>4, <3>1
    <3>4. fed - MaxBuffer <= sent[k].from
      BY <1>1, <1>4, <3>2
    <3> QED BY <2>1, <3>2, <3>3, <3>4
  <2> QED BY <2>1, <2>2, KeepsOutstanding
<1>12. CASE Silent
  BY <1>5, <1>12 DEF Silent
<1> QED
  BY <1>5, <1>6, <1>7, <1>8, <1>9, <1>10, <1>11, <1>12 DEF Next, Extract

\* Whatever the chunks and whatever lies between, the parser returns exactly the
\* frames that have arrived: on every stream whose genuine frames fit into the buffer
\* and are all that decodes in it as a whole.
THEOREM ExactlyTheSentIsReturned ==
  ASSUME \A s \in Streams : Framed(s)
  PROVE  Spec => []ExactlyTheSent
<1>1. Init => ExactInv /\ Framing
  <2> SUFFICES ASSUME Init PROVE ExactInv /\ Framing
    OBVIOUS
  <2>1. PICK s \in Streams : wire = s.bytes /\ sent = s.frames
    BY DEF Init
  <2>2. Framing
    BY <2>1 DEF Framing, Framed
  <2>3. ExactInv
    <3>1. ParserInv /\ head = 0 /\ fed = 0 /\ frames = << >>
      BY ParserInit DEF Init
    <3>2. \A k \in DOMAIN sent : sent[k].from \in Nat /\ sent[k].to \in Nat /\ 0 < sent[k].to
      BY <2>2, <3>1, GenuineFrame DEF ParserInv
    <3> QED BY <3>1, <3>2 DEF ExactInv, Arrived
  <2> QED BY <2>2, <2>3
<1>2. ParserInv /\ ExactInv /\ Framing /\ [Next]_vars => ExactInv'
  BY ExactStep
<1>3. Framing /\ [Next]_vars => Framing'
  <2> SUFFICES ASSUME Framing, [Next]_vars PROVE wire' = wire /\ sent' = sent
    BY DEF Framing
  <2> QED BY DEF vars, Next, Feed, Extract, DiscardGarbage, AcceptFrame, RejectCandidate,
                 Resynchronise, Retain, Silent
<1>4. ParserInv /\ ExactInv => ExactlyTheSent
  BY DEF ExactInv, ExactlyTheSent, Arrived
<1> QED
  BY <1>1, <1>2, <1>3, <1>4, ParserTypeOK, PTL DEF Spec

=======================================================================================
