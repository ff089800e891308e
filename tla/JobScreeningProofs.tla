-------------------------- MODULE JobScreeningProofs --------------------------
(***************************************************************************)
(* Theorems about JobScreening for lists, batches and levels of any size:  *)
(* type correctness, that the script for failed jobs writes exactly the    *)
(* jobs it was told exist, that neither writes a job twice, that no more   *)
(* queries are in flight than allowed, and that every step leaves less to  *)
(* do, so that the scripts stop.                                           *)
(***************************************************************************)
EXTENDS JobScreening, SequenceTheorems, FiniteSetTheorems, WellFoundedInduction, TLAPS

-----------------------------------------------------------------------------
(* The inductive invariant. *)

Waited(j) == \E k \in DOMAIN promises : promises[k] = j

\* The loops stay inside the batch and the batch inside the list.
Positioned ==
    /\ phase = "batch" => first < Length /\ first <= next /\ next <= Last + 1
    /\ phase = "done" => Length <= first

\* The script for failed jobs waits for each query of the batch that it has no
\* result of, once, and for nothing else.
Raced ==
    script = "failed" /\ phase = "batch" =>
        /\ Len(promises) <= Level
        /\ next <= Last => promises # <<>>
        /\ \A k \in DOMAIN promises : first <= promises[k] /\ promises[k] < next
        /\ \A k, l \in DOMAIN promises : promises[k] = promises[l] => k = l
        /\ \A j \in Jobs :
             results[j] = IF first <= j /\ j < next /\ ~ Waited(j) THEN 1 ELSE 0

Answered ==
    script = "failed" =>
        /\ phase # "batch" => promises = <<>>
        /\ \A j \in Jobs : answer[j] = "pending" => phase = "batch" /\ Waited(j)
        /\ phase = "batch" =>
             \A j \in Jobs : first <= j /\ j < next => answer[j] # "idle"

\* The other script has results of this batch only, and of existing jobs.
Collected ==
    script = "incomplete" /\ phase = "batch" =>
        \A j \in Jobs : /\ results[j] <= 1
                        /\ results[j] = 1 => answer[j] = "job" /\ first <= j /\ j < next

\* The output is final before the batch, and empty from there on.
Recorded ==
    \A j \in Jobs :
        /\ first <= j => written[j] = 0
        /\ j < first => /\ written[j] <= 1
                        /\ written[j] = 1 => answer[j] = "job"
                        /\ script = "failed" => /\ answer[j] \in Answers
                                                /\ answer[j] = "job" => written[j] = 1

Inv == TypeOK /\ Positioned /\ Raced /\ Answered /\ Collected /\ Recorded

-----------------------------------------------------------------------------
(* Sequences, sizes and answers. *)

\* Without(q, k) is q without its k-th element.
LEMMA WithoutFacts ==
    ASSUME NEW S, NEW q \in Seq(S), NEW k \in DOMAIN q
    PROVE  /\ Without(q, k) \in Seq(S)
           /\ Len(Without(q, k)) = Len(q) - 1
           /\ \A i \in 1 .. Len(q) - 1 :
                Without(q, k)[i] = IF i < k THEN q[i] ELSE q[i + 1]
<1> DEFINE a == SubSeq(q, 1, k - 1)
           b == SubSeq(q, k + 1, Len(q))
<1>1. Len(q) \in Nat /\ k \in 1 .. Len(q) /\ \A i \in 1 .. Len(q) : q[i] \in S
  OBVIOUS
<1>2. /\ a \in Seq(S)
      /\ Len(a) = k - 1
      /\ \A i \in 1 .. k - 1 : a[i] = q[i]
  <2>1. \A i \in 1 .. k - 1 : q[i] \in S BY <1>1
  <2>2. 1 \in Int /\ k - 1 \in Int BY <1>1
  <2>3. /\ a \in Seq(S)
        /\ Len(a) = IF 1 <= k - 1 THEN (k - 1) - 1 + 1 ELSE 0
        /\ \A i \in 1 .. (k - 1) - 1 + 1 : a[i] = q[1 + i - 1]
    BY <2>1, <2>2, SubSeqProperties
  <2> QED BY <1>1, <2>3
<1>3. /\ b \in Seq(S)
      /\ Len(b) = Len(q) - k
      /\ \A i \in 1 .. Len(q) - k : b[i] = q[k + i]
  <2>1. \A i \in k + 1 .. Len(q) : q[i] \in S BY <1>1
  <2>2. k + 1 \in Int /\ Len(q) \in Int BY <1>1
  <2>3. /\ b \in Seq(S)
        /\ Len(b) = IF k + 1 <= Len(q) THEN Len(q) - (k + 1) + 1 ELSE 0
        /\ \A i \in 1 .. Len(q) - (k + 1) + 1 : b[i] = q[k + 1 + i - 1]
    BY <2>1, <2>2, SubSeqProperties
  <2> QED BY <1>1, <2>3
<1>4. /\ a \o b \in Seq(S)
      /\ Len(a \o b) = Len(a) + Len(b)
      /\ \A i \in 1 .. Len(a) + Len(b) :
           (a \o b)[i] = IF i <= Len(a) THEN a[i] ELSE b[i - Len(a)]
  BY <1>2, <1>3, ConcatProperties
<1>5. Without(q, k) = a \o b BY DEF Without
<1> HIDE DEF a, b
<1>6. Len(a) + Len(b) = Len(q) - 1 BY <1>1, <1>2, <1>3
<1>7. ASSUME NEW i \in 1 .. Len(q) - 1
      PROVE  (a \o b)[i] = IF i < k THEN q[i] ELSE q[i + 1]
  <2>1. CASE i < k
    <3>1. i \in 1 .. k - 1 /\ i <= Len(a) BY <1>1, <1>2, <2>1
    <3> QED BY <1>2, <1>4, <1>6, <2>1, <3>1
  <2>2. CASE ~ (i < k)
    <3>1. i - Len(a) \in 1 .. Len(q) - k /\ ~ (i <= Len(a)) /\ k + (i - Len(a)) = i + 1
      BY <1>1, <1>2, <2>2
    <3> QED BY <1>3, <1>4, <1>6, <2>2, <3>1
  <2> QED BY <2>1, <2>2
<1> QED BY <1>4, <1>5, <1>6, <1>7

\* A quotient is not below a number whose product is not above the dividend.
LEMMA Quotient ==
    ASSUME NEW a \in Nat, NEW n \in Nat, NEW d \in Nat \ {0}
    PROVE  /\ (a * (n + d)) \div d \in Nat
           /\ a <= (a * (n + d)) \div d
<1>1. a * (n + d) = a * n + a * d BY Z3
<1>2. a * n \in Nat /\ a * d \in Nat BY Z3
<1> DEFINE m == a * (n + d)
           x == m \div d
<1>3. m \in Nat /\ a * d <= m BY <1>1, <1>2
<1>4. x \in Nat /\ m < d * (x + 1) BY <1>3, Z3
<1>5. ~ (x + 1 <= a)
  <2> SUFFICES ASSUME x + 1 <= a PROVE FALSE OBVIOUS
  <2>1. d * (x + 1) <= d * a BY <1>4, Z3
  <2> QED BY <1>2, <1>3, <1>4, <2>1, Z3
<1> QED BY <1>4, <1>5

LEMMA SmallerFacts ==
    ASSUME NEW a \in Int, NEW b \in Int
    PROVE  /\ Smaller(a, b) \in Int
           /\ Smaller(a, b) <= a /\ Smaller(a, b) <= b
           /\ Smaller(a, b) = a \/ Smaller(a, b) = b
BY DEF Smaller

\* A batch that grows stays a batch.
LEMMA GrownFacts ==
    ASSUME size \in MinBatch .. BatchSize
    PROVE  Grown \in MinBatch .. BatchSize
<1>1. /\ Rate[1] \in Nat /\ Rate[2] \in Nat \ {0}
      /\ MinBatch \in Nat \ {0} /\ BatchSize \in Nat \ {0} /\ MinBatch <= BatchSize
  BY SizesType
<1> DEFINE x == (size * (Rate[1] + Rate[2])) \div Rate[2]
<1>a. size \in Nat BY <1>1
<1>b. ASSUME NEW n \in Nat, NEW d \in Nat \ {0}
      PROVE  (size * (n + d)) \div d \in Nat /\ size <= (size * (n + d)) \div d
  BY ONLY <1>a, Quotient, Zenon
<1>2. x \in Nat /\ size <= x BY ONLY <1>1, <1>b, Zenon
<1>3. Grown = Smaller(BatchSize, x) BY DEF Grown
<1> HIDE DEF x
<1> QED BY <1>1, <1>2, <1>3 DEF Smaller

LEMMA AskedFacts ==
    ASSUME NEW q \in Seq(Jobs), answer \in [Jobs -> Answers \cup {"idle", "pending"}]
    PROVE  /\ Asked(q) \in [Jobs -> Answers \cup {"idle", "pending"}]
           /\ \A j \in Jobs : IF \E k \in DOMAIN q : q[k] = j
                              THEN Asked(q)[j] = "pending" ELSE Asked(q)[j] = answer[j]
BY DEF Asked

\* The numbers the actions compute with.
LEMMA Numbers ==
    ASSUME TypeOK
    PROVE  /\ Length \in Nat /\ Level \in Nat \ {0} /\ BatchSize \in Nat \ {0}
           /\ MinBatch \in Nat \ {0} /\ size \in Nat /\ first \in Nat /\ next \in Nat
           /\ Last \in Int /\ Last < Length /\ Last < first + size
           /\ \A j \in Jobs : j < first + size => j <= Last
           /\ Jobs = 0 .. Length - 1
           /\ promises \in Seq(Jobs) /\ Len(promises) \in Nat
           /\ DOMAIN promises = 1 .. Len(promises)
           /\ \A k \in DOMAIN promises : promises[k] \in Jobs
<1>1. /\ Length \in Nat /\ Level \in Nat \ {0} /\ BatchSize \in Nat \ {0}
      /\ MinBatch \in Nat \ {0} /\ size \in Nat /\ first \in Nat /\ next \in Nat
  BY SizesType DEF TypeOK
<1>2. /\ Last \in Int /\ Last < Length /\ Last < first + size
      /\ \A j \in Jobs : j < first + size => j <= Last
  BY <1>1 DEF Last, Smaller, Jobs
<1>3. promises \in Seq(Jobs) BY DEF TypeOK
<1> QED BY <1>1, <1>2, <1>3 DEF Jobs

-----------------------------------------------------------------------------
(* The types. *)

LEMMA InitType == Init => TypeOK
<1> SUFFICES ASSUME Init PROVE TypeOK
  OBVIOUS
<1>1. size \in 0 .. BatchSize /\ size >= MinBatch BY SizesType DEF Init
<1>2. promises \in Seq(Jobs) BY DEF Init
<1>3. /\ answer \in [Jobs -> Answers \cup {"idle", "pending"}]
      /\ results \in [Jobs -> Nat] /\ written \in [Jobs -> Nat]
  BY DEF Init, None
<1> QED BY <1>1, <1>2, <1>3 DEF Init, TypeOK

LEMMA TypeStep == TypeOK /\ Positioned /\ [Next]_vars => TypeOK'
<1> SUFFICES ASSUME TypeOK, Positioned, [Next]_vars PROVE TypeOK'
  OBVIOUS
<1> USE Numbers
<1>1. CASE \E j \in Jobs : Answer(j)
  <2> PICK j \in Jobs : Answer(j) BY <1>1
  <2>1. answer' \in [Jobs -> Answers \cup {"idle", "pending"}] BY DEF Answer, TypeOK
  <2>2. results' \in [Jobs -> Nat] BY DEF Answer, TypeOK
  <2> QED BY <2>1, <2>2 DEF Answer, TypeOK
<1>2. CASE StartConcurrently
  <2> DEFINE n == Smaller(Level, Last - first + 1)
  <2>1. first <= Last BY <1>2 DEF StartConcurrently, Last, Smaller, TypeOK
  <2>2. n \in Nat /\ n <= Last - first + 1 BY <2>1 DEF Smaller
  <2>3. promises' = [k \in 1 .. n |-> first + k - 1] BY <1>2 DEF StartConcurrently
  <2> HIDE DEF n
  <2>a. first \in Nat /\ Last \in Int /\ Last < Length /\ Jobs = 0 .. Length - 1 /\ Length \in Nat
    OBVIOUS
  <2>4. \A k \in 1 .. n : first + k - 1 \in Jobs BY ONLY <2>2, <2>a
  <2>5. promises' \in Seq(Jobs) /\ Len(promises') = n BY ONLY <2>2, <2>3, <2>4
  <2>6. answer' \in [Jobs -> Answers \cup {"idle", "pending"}]
    BY <1>2, <2>5, AskedFacts DEF StartConcurrently, TypeOK
  <2>7. results' \in [Jobs -> Nat] BY <1>2 DEF StartConcurrently, None
  <2>8. next' = first + Len(promises') BY <1>2 DEF StartConcurrently
  <2>9. next' \in Nat BY <2>2, <2>5, <2>8
  <2> QED BY <1>2, <2>5, <2>6, <2>7, <2>9 DEF StartConcurrently, TypeOK
<1>3. CASE \E k \in DOMAIN promises : Settle(k)
  <2>0. PICK k \in DOMAIN promises : Settle(k) BY <1>3
  <2>1. Without(promises, k) \in Seq(Jobs) /\ promises[k] \in Jobs BY WithoutFacts
  <2>2. next <= Last => next \in Jobs BY DEF Jobs
  <2>3. IF next <= Last
        THEN promises' = Append(Without(promises, k), next) /\ answer' = Asked(<<next>>)
        ELSE promises' = Without(promises, k) /\ answer' = answer
    BY <2>0 DEF Settle
  <2>4. promises' \in Seq(Jobs) BY ONLY <2>1, <2>2, <2>3, AppendProperties
  <2>5. answer' \in [Jobs -> Answers \cup {"idle", "pending"}]
    <3>1. answer \in [Jobs -> Answers \cup {"idle", "pending"}] BY DEF TypeOK
    <3>2. next <= Last => <<next>> \in Seq(Jobs) BY <2>2
    <3>3. CASE next <= Last
      <4>1. Asked(<<next>>) \in [Jobs -> Answers \cup {"idle", "pending"}]
        BY ONLY <3>1, <3>2, <3>3, AskedFacts
      <4> QED BY ONLY <2>3, <3>3, <4>1
    <3>4. CASE ~ (next <= Last) BY ONLY <2>3, <3>1, <3>4
    <3> QED BY <3>3, <3>4
  <2>6. results' \in [Jobs -> Nat]
    <3>1. results' = [results EXCEPT ![promises[k]] = @ + 1] BY <2>0 DEF Settle
    <3>2. results \in [Jobs -> Nat] BY DEF TypeOK
    <3> QED BY ONLY <2>1, <3>1, <3>2
  <2>7. next' \in Nat
    <3>1. next \in Nat BY DEF TypeOK
    <3>2. next' = next \/ next' = next + 1 BY <2>0, Zenon DEF Settle
    <3> QED BY ONLY <3>1, <3>2
  <2> QED BY <2>0, <2>4, <2>5, <2>6, <2>7 DEF Settle, TypeOK
<1>4. CASE WriteConcurrently
  <2>1. written' \in [Jobs -> Nat] BY <1>4 DEF WriteConcurrently, Lines, TypeOK
  <2>2. size \in MinBatch .. BatchSize BY <1>4 DEF WriteConcurrently, TypeOK
  <2>3. size' \in MinBatch .. BatchSize BY <1>4, <2>2, GrownFacts DEF WriteConcurrently
  <2>4. first' \in Nat BY <1>4 DEF WriteConcurrently
  <2> QED BY <1>4, <2>1, <2>3, <2>4 DEF WriteConcurrently, TypeOK
<1>5. CASE Retry
  <2>1. size' \in 0 .. BatchSize /\ (phase' # "thrown" => size' >= MinBatch)
    BY <1>5 DEF Retry, TypeOK
  <2> QED BY <1>5, <2>1 DEF Retry, TypeOK
<1>6. CASE StartLoop
  <2>1. results' \in [Jobs -> Nat] /\ promises' \in Seq(Jobs)
    BY <1>6 DEF StartLoop, None
  <2> QED BY <1>6, <2>1 DEF StartLoop, TypeOK
<1>7. CASE Launch
  <2>1. next \in Jobs BY <1>7 DEF Launch, Jobs
  <2>2. promises' \in Seq(Jobs) BY <1>7, <2>1, AppendProperties DEF Launch
  <2>3. <<next>> \in Seq(Jobs) BY <2>1
  <2>4. answer' \in [Jobs -> Answers \cup {"idle", "pending"}]
    BY <1>7, <2>3, AskedFacts DEF Launch, TypeOK
  <2>5. next' \in Nat BY <1>7 DEF Launch
  <2> QED BY <1>7, <2>2, <2>4, <2>5 DEF Launch, TypeOK
<1>8. CASE RemoveOldest
  <2>1. promises # <<>> BY <1>8 DEF RemoveOldest
  <2>2. promises' \in Seq(Jobs) BY <1>8, <2>1 DEF RemoveOldest
  <2> QED BY <1>8, <2>2 DEF RemoveOldest, TypeOK
<1>9. CASE WriteLoop
  <2>1. written' \in [Jobs -> Nat] BY <1>9 DEF WriteLoop, Lines, TypeOK
  <2>2. first' \in Nat BY <1>9 DEF WriteLoop
  <2> QED BY <1>9, <2>1, <2>2 DEF WriteLoop, TypeOK
<1>10. CASE Finish BY <1>10 DEF Finish, TypeOK
<1>11. CASE UNCHANGED vars BY <1>11 DEF vars, TypeOK
<1> QED BY <1>1, <1>2, <1>3, <1>4, <1>5, <1>6, <1>7, <1>8, <1>9, <1>10, <1>11 DEF Next, Main

-----------------------------------------------------------------------------
(* What the list of promises becomes. *)

\* Without its k-th element a sequence of different elements has all the others.
LEMMA WithoutElements ==
    ASSUME NEW S, NEW q \in Seq(S), NEW k \in DOMAIN q,
           \A i, m \in DOMAIN q : q[i] = q[m] => i = m
    PROVE  LET w == Without(q, k)
           IN  /\ DOMAIN w = 1 .. Len(q) - 1
               /\ \A i \in DOMAIN w : \E m \in DOMAIN q : m # k /\ w[i] = q[m]
               /\ \A m \in DOMAIN q : m # k => \E i \in DOMAIN w : w[i] = q[m]
               /\ \A i, m \in DOMAIN w : w[i] = w[m] => i = m
<1> DEFINE w == Without(q, k)
           back(i) == IF i < k THEN i ELSE i + 1
<1>1. w \in Seq(S) /\ Len(w) = Len(q) - 1 BY WithoutFacts
<1>2. \A i \in 1 .. Len(q) - 1 : w[i] = q[back(i)] BY WithoutFacts
<1> HIDE DEF w
<1>3. Len(q) \in Nat /\ DOMAIN q = 1 .. Len(q) /\ DOMAIN w = 1 .. Len(q) - 1
  BY <1>1
<1>4. \A i \in DOMAIN w : back(i) \in DOMAIN q /\ back(i) # k
  BY <1>3
<1>5. ASSUME NEW m \in DOMAIN q, m # k
      PROVE  \E i \in DOMAIN w : back(i) = m
  <2>1. CASE m < k BY <1>3, <2>1
  <2>2. CASE m > k
    <3>1. m - 1 \in DOMAIN w /\ back(m - 1) = m BY <1>3, <2>2
    <3> QED BY <3>1
  <2> QED BY <1>3, <1>5, <2>1, <2>2
<1>6. \A i, m \in DOMAIN w : back(i) = back(m) => i = m BY <1>3
<1> HIDE DEF back
<1>7. \A i \in DOMAIN w : w[i] = q[back(i)] BY <1>2, <1>3
<1>8. \A i \in DOMAIN w : \E m \in DOMAIN q : m # k /\ w[i] = q[m] BY <1>4, <1>7
<1>9. \A m \in DOMAIN q : m # k => \E i \in DOMAIN w : w[i] = q[m] BY <1>5, <1>7
<1>10. \A i, m \in DOMAIN w : w[i] = w[m] => i = m BY <1>4, <1>6, <1>7
<1> QED BY <1>3, <1>8, <1>9, <1>10 DEF w

\* Appended, a new element is one more.
LEMMA AppendElements ==
    ASSUME NEW S, NEW q \in Seq(S), NEW x \in S,
           \A i \in DOMAIN q : q[i] # x,
           \A i, m \in DOMAIN q : q[i] = q[m] => i = m
    PROVE  LET w == Append(q, x)
           IN  /\ DOMAIN w = 1 .. Len(q) + 1
               /\ \A i \in DOMAIN w : w[i] = x \/ \E m \in DOMAIN q : w[i] = q[m]
               /\ \A m \in DOMAIN q : \E i \in DOMAIN w : w[i] = q[m]
               /\ \E i \in DOMAIN w : w[i] = x
               /\ \A i, m \in DOMAIN w : w[i] = w[m] => i = m
<1> DEFINE w == Append(q, x)
<1>1. /\ w \in Seq(S) /\ Len(w) = Len(q) + 1
      /\ \A i \in 1 .. Len(q) : w[i] = q[i]
      /\ w[Len(q) + 1] = x
  BY AppendProperties
<1> HIDE DEF w
<1>2. Len(q) \in Nat /\ DOMAIN q = 1 .. Len(q) /\ DOMAIN w = 1 .. Len(q) + 1 BY <1>1
<1>3. \A i \in DOMAIN w : i \in DOMAIN q \/ i = Len(q) + 1 BY <1>2
<1>4. \A i \in DOMAIN q : i \in DOMAIN w /\ w[i] = q[i] BY <1>1, <1>2
<1>5. Len(q) + 1 \in DOMAIN w BY <1>2
<1>6. \A i, m \in DOMAIN w : w[i] = w[m] => i = m BY <1>1, <1>3, <1>4
<1>7. \A i \in DOMAIN w : w[i] = x \/ \E m \in DOMAIN q : w[i] = q[m]
  BY <1>1, <1>3, <1>4
<1> QED BY <1>1, <1>2, <1>4, <1>5, <1>6, <1>7 DEF w

\* The promises of the first queries of a batch.
LEMMA StartFacts ==
    ASSUME Inv, StartConcurrently
    PROVE  /\ first <= Last /\ first < next' /\ next' <= Last + 1 /\ next' \in Nat
           /\ promises' \in Seq(Jobs)
           /\ Len(promises') <= Level /\ promises' # <<>>
           /\ DOMAIN promises' = 1 .. next' - first
           /\ \A i \in DOMAIN promises' : promises'[i] = first + i - 1
           /\ \A j \in Jobs : Waited(j)' <=> first <= j /\ j < next'
           /\ \A j \in Jobs : answer'[j] = IF Waited(j)' THEN "pending" ELSE answer[j]
<1> DEFINE n == Smaller(Level, Last - first + 1)
<1>1. TypeOK BY DEF Inv
<1>2. /\ Length \in Nat /\ Level \in Nat \ {0} /\ first \in Nat /\ Last \in Int
      /\ Jobs = 0 .. Length - 1 /\ Last < Length
  BY <1>1, Numbers
<1>3. first <= Last
  <2>1. size >= 1 /\ size \in Nat BY <1>1, Numbers DEF StartConcurrently, TypeOK
  <2> QED BY <1>2, <2>1 DEF Last, Smaller, StartConcurrently
<1>4. n \in Nat \ {0} /\ n <= Last - first + 1 /\ n <= Level BY <1>2, <1>3 DEF Smaller
<1>5. promises' = [i \in 1 .. n |-> first + i - 1] /\ next' = first + Len(promises')
  BY DEF StartConcurrently
<1> HIDE DEF n
<1>6. \A i \in 1 .. n : first + i - 1 \in Jobs BY <1>2, <1>4
<1>7. promises' \in Seq(Jobs) /\ Len(promises') = n /\ DOMAIN promises' = 1 .. n
  BY <1>4, <1>5, <1>6
<1>8. next' = first + n BY <1>5, <1>7
<1>9. next' \in Nat /\ first < next' /\ next' <= Last + 1 /\ next' - first = n
  BY <1>2, <1>4, <1>8
<1>10. \A i \in DOMAIN promises' : promises'[i] = first + i - 1 BY <1>5, <1>7
<1>11. ASSUME NEW j \in Jobs
       PROVE  Waited(j)' <=> first <= j /\ j < next'
  <2>1. Waited(j)' <=> \E i \in 1 .. n : first + i - 1 = j BY <1>7, <1>10 DEF Waited
  <2>2. ASSUME first <= j, j < next'
        PROVE  j - first + 1 \in 1 .. n /\ first + (j - first + 1) - 1 = j
    BY <1>2, <1>4, <1>8, <2>2
  <2>3. (\E i \in 1 .. n : first + i - 1 = j) => first <= j /\ j < next'
    BY <1>2, <1>4, <1>8
  <2> QED BY <2>1, <2>2, <2>3
<1>12. \A j \in Jobs : answer'[j] = IF Waited(j)' THEN "pending" ELSE answer[j]
  BY DEF StartConcurrently, Asked, Waited
<1>13. promises' # <<>> BY <1>4, <1>7
<1> QED BY <1>3, <1>4, <1>7, <1>9, <1>10, <1>11, <1>12, <1>13

\* One promise less, and the next query's if there is one.
LEMMA SettleFacts ==
    ASSUME Inv, NEW k \in DOMAIN promises, Settle(k)
    PROVE  /\ promises[k] \in Jobs /\ first <= promises[k] /\ promises[k] < next
           /\ first <= next
           /\ next' = IF next <= Last THEN next + 1 ELSE next
           /\ Len(promises') <= Level
           /\ next' <= Last => promises' # <<>>
           /\ \A j \in Jobs : Waited(j)' <=> \/ Waited(j) /\ j # promises[k]
                                             \/ next <= Last /\ j = next
           /\ \A i \in DOMAIN promises' : first <= promises'[i] /\ promises'[i] < next'
           /\ \A i, m \in DOMAIN promises' : promises'[i] = promises'[m] => i = m
           /\ \A j \in Jobs :
                answer'[j] = IF next <= Last /\ j = next THEN "pending" ELSE answer[j]
<1> DEFINE w == Without(promises, k)
<1>1. TypeOK BY DEF Inv
<1>2. /\ promises \in Seq(Jobs) /\ Len(promises) \in Nat /\ promises[k] \in Jobs
      /\ DOMAIN promises = 1 .. Len(promises)
      /\ first \in Nat /\ next \in Nat /\ Last \in Int /\ Last < Length /\ Length \in Nat
      /\ Level \in Nat /\ Jobs = 0 .. Length - 1
  BY <1>1, Numbers
<1>3. script = "failed" /\ phase = "batch" /\ first <= next
  BY DEF Settle, Inv, Positioned
<1>4. /\ Len(promises) <= Level
      /\ next <= Last => promises # <<>>
      /\ \A i \in DOMAIN promises : first <= promises[i] /\ promises[i] < next
      /\ \A i, m \in DOMAIN promises : promises[i] = promises[m] => i = m
  BY <1>3 DEF Inv, Raced
<1>5. /\ w \in Seq(Jobs) /\ Len(w) = Len(promises) - 1
      /\ DOMAIN w = 1 .. Len(promises) - 1
  <2>1. w \in Seq(Jobs) /\ Len(w) = Len(promises) - 1 BY ONLY <1>2, WithoutFacts
  <2> HIDE DEF w
  <2> QED BY <2>1
<1>6. /\ \A i \in DOMAIN w : \E m \in DOMAIN promises : m # k /\ w[i] = promises[m]
      /\ \A m \in DOMAIN promises : m # k => \E i \in DOMAIN w : w[i] = promises[m]
      /\ \A i, m \in DOMAIN w : w[i] = w[m] => i = m
  BY <1>2, <1>4, WithoutElements
<1>7. IF next <= Last
      THEN promises' = Append(w, next) /\ answer' = Asked(<<next>>) /\ next' = next + 1
      ELSE promises' = w /\ answer' = answer /\ next' = next
  BY DEF Settle
<1> HIDE DEF w
<1>8. \A i \in DOMAIN w : first <= w[i] /\ w[i] < next /\ w[i] # next
  BY <1>2, <1>4, <1>6
<1>9. \A j \in Jobs : (\E i \in DOMAIN w : w[i] = j) <=> Waited(j) /\ j # promises[k]
  BY <1>4, <1>6 DEF Waited
<1>10. CASE next <= Last
  <2>1. next \in Jobs BY <1>2, <1>10
  <2>2. /\ promises' = Append(w, next) /\ promises' \in Seq(Jobs)
        /\ Len(promises') = Len(w) + 1 /\ next' = next + 1
    BY <1>5, <1>7, <1>10, <2>1, AppendProperties
  <2>3. /\ \A i \in DOMAIN promises' : promises'[i] = next \/ \E m \in DOMAIN w : promises'[i] = w[m]
        /\ \A m \in DOMAIN w : \E i \in DOMAIN promises' : promises'[i] = w[m]
        /\ \E i \in DOMAIN promises' : promises'[i] = next
        /\ \A i, m \in DOMAIN promises' : promises'[i] = promises'[m] => i = m
    <3> DEFINE a == Append(w, next)
    <3>1. /\ \A i \in DOMAIN w : w[i] # next
          /\ \A i, m \in DOMAIN w : w[i] = w[m] => i = m
          /\ w \in Seq(Jobs)
      BY <1>5, <1>6, <1>8
    <3>2. /\ \A i \in DOMAIN a : a[i] = next \/ \E m \in DOMAIN w : a[i] = w[m]
          /\ \A m \in DOMAIN w : \E i \in DOMAIN a : a[i] = w[m]
          /\ \E i \in DOMAIN a : a[i] = next
          /\ \A i, m \in DOMAIN a : a[i] = a[m] => i = m
      BY ONLY <2>1, <3>1, AppendElements
    <3>3. promises' = a BY <2>2
    <3> HIDE DEF a
    <3> QED BY ONLY <3>2, <3>3
  <2>4. Len(promises') <= Level /\ promises' # <<>> BY <1>2, <1>4, <1>5, <2>2, <2>3
  <2>5. \A i \in DOMAIN promises' : first <= promises'[i] /\ promises'[i] < next'
    <3> TAKE i \in DOMAIN promises'
    <3>1. CASE promises'[i] = next BY <1>2, <1>3, <2>2, <3>1
    <3>2. CASE \E m \in DOMAIN w : promises'[i] = w[m]
      <4>1. PICK m \in DOMAIN w : promises'[i] = w[m] BY <3>2
      <4>2. w[m] \in Nat BY <1>2, <1>5
      <4> QED BY <1>2, <1>8, <2>2, <4>1, <4>2
    <3> QED BY <2>3, <3>1, <3>2
  <2>6. \A j \in Jobs : Waited(j)' <=> (\E i \in DOMAIN w : w[i] = j) \/ j = next
    BY <2>3 DEF Waited
  <2>7. \A j \in Jobs : answer'[j] = IF j = next THEN "pending" ELSE answer[j]
    <3>1. \A j \in Jobs : (\E i \in DOMAIN <<next>> : <<next>>[i] = j) <=> j = next
      OBVIOUS
    <3> QED BY <1>7, <1>10, <3>1 DEF Asked
  <2> QED BY <1>2, <1>3, <1>4, <1>9, <1>10, <2>2, <2>3, <2>4, <2>5, <2>6, <2>7
<1>11. CASE ~ (next <= Last)
  <2>1. promises' = w /\ answer' = answer /\ next' = next BY <1>7, <1>11
  <2>2. Len(promises') <= Level BY <1>2, <1>4, <1>5, <2>1
  <2>3. \A j \in Jobs : Waited(j)' <=> \E i \in DOMAIN w : w[i] = j BY <2>1 DEF Waited
  <2> QED BY <1>2, <1>3, <1>4, <1>6, <1>8, <1>9, <1>11, <2>1, <2>2, <2>3
<1> QED BY <1>10, <1>11

-----------------------------------------------------------------------------
(* The invariant holds initially and is kept, part by part. *)

LEMMA InitInv == Init => Inv
<1> SUFFICES ASSUME Init PROVE Inv
  OBVIOUS
<1>1. TypeOK BY InitType
<1>2. \A j \in Jobs : written[j] = 0 /\ 0 <= j BY DEF Init, None, Jobs
<1>3. Positioned /\ Raced /\ Answered /\ Collected
  BY DEF Init, Positioned, Raced, Answered, Collected
<1>4. Recorded
  <2>1. \A j \in Jobs : ~ (j < first) BY SizesType DEF Init, Jobs
  <2> QED BY <1>2, <2>1 DEF Recorded
<1> QED BY <1>1, <1>3, <1>4 DEF Inv

LEMMA PositionedStep == Inv /\ [Next]_vars => Positioned'
<1> SUFFICES ASSUME Inv, [Next]_vars PROVE Positioned'
  OBVIOUS
<1>0. TypeOK /\ Positioned BY DEF Inv
<1>n. /\ Length \in Nat /\ size \in Nat /\ first \in Nat /\ next \in Nat
      /\ Last \in Int
  BY <1>0, Numbers
<1>1. CASE \E j \in Jobs : Answer(j) BY <1>0, <1>1 DEF Answer, Positioned, Last
<1>2. CASE StartConcurrently
  <2>1. first < next' /\ next' <= Last + 1 /\ next' \in Nat BY <1>2, StartFacts
  <2>2. first' = first /\ Last' = Last /\ first < Length /\ phase' = "batch"
    BY <1>2 DEF StartConcurrently, Last
  <2> QED BY <1>n, <2>1, <2>2 DEF Positioned
<1>3. CASE \E k \in DOMAIN promises : Settle(k)
  <2>0. PICK k \in DOMAIN promises : Settle(k) BY <1>3
  <2>1. next' = IF next <= Last THEN next + 1 ELSE next BY <2>0, SettleFacts
  <2>2. first' = first /\ Last' = Last /\ phase = "batch" /\ phase' = "batch"
    BY <2>0 DEF Settle, Last
  <2> QED BY <1>0, <1>n, <2>1, <2>2 DEF Positioned
<1>4. CASE WriteConcurrently BY <1>4 DEF WriteConcurrently, Positioned
<1>5. CASE Retry BY <1>5 DEF Retry, Positioned
<1>6. CASE StartLoop
  <2>1. size >= 1 BY <1>0, <1>6, SizesType DEF StartLoop, TypeOK
  <2>2. first' = first /\ Last' = Last /\ first < Length /\ next' = first /\ phase' = "batch"
    BY <1>6 DEF StartLoop, Last
  <2>3. first <= Last BY <1>n, <2>1, <2>2 DEF Last, Smaller
  <2> QED BY <1>n, <2>2, <2>3 DEF Positioned
<1>7. CASE Launch
  <2>1. /\ next <= Last /\ next' = next + 1 /\ first' = first /\ Last' = Last
        /\ phase = "batch" /\ phase' = "batch"
    BY <1>7 DEF Launch, Last
  <2> QED BY <1>0, <1>n, <2>1 DEF Positioned
<1>8. CASE RemoveOldest BY <1>0, <1>8 DEF RemoveOldest, Positioned, Last
<1>9. CASE WriteLoop BY <1>9 DEF WriteLoop, Positioned
<1>10. CASE Finish BY <1>n, <1>10 DEF Finish, Positioned
<1>11. CASE UNCHANGED vars BY <1>0, <1>11 DEF vars, Positioned, Last
<1> QED BY <1>1, <1>2, <1>3, <1>4, <1>5, <1>6, <1>7, <1>8, <1>9, <1>10, <1>11 DEF Next, Main

LEMMA RacedStep == Inv /\ [Next]_vars => Raced'
<1> SUFFICES ASSUME Inv, [Next]_vars, script' = "failed", phase' = "batch"
             PROVE  Raced'
  BY DEF Raced
<1>0. TypeOK /\ Positioned /\ Raced BY DEF Inv
<1>n. /\ Length \in Nat /\ first \in Nat /\ next \in Nat /\ Last \in Int
      /\ Jobs = 0 .. Length - 1 /\ results \in [Jobs -> Nat]
  BY <1>0, Numbers DEF TypeOK
<1>1. CASE \E j \in Jobs : Answer(j)
  <2>1. /\ UNCHANGED <<script, phase, first, size, next, promises>>
        /\ script = "failed" => results' = results
    BY <1>1 DEF Answer
  <2> QED BY <1>0, <2>1 DEF Raced, Waited, Last
<1>2. CASE StartConcurrently
  <2>1. /\ first < next' /\ next' \in Nat
        /\ Len(promises') <= Level /\ promises' # <<>>
        /\ DOMAIN promises' = 1 .. next' - first
        /\ \A i \in DOMAIN promises' : promises'[i] = first + i - 1
        /\ \A j \in Jobs : Waited(j)' <=> first <= j /\ j < next'
    BY <1>2, StartFacts
  <2>2. first' = first /\ \A j \in Jobs : results'[j] = 0
    BY <1>2 DEF StartConcurrently, None
  <2>3. \A i \in DOMAIN promises' : first <= promises'[i] /\ promises'[i] < next'
    BY <1>n, <2>1
  <2>4. \A i, m \in DOMAIN promises' : promises'[i] = promises'[m] => i = m
    BY <1>n, <2>1
  <2> QED BY <2>1, <2>2, <2>3, <2>4 DEF Raced
<1>3. CASE \E k \in DOMAIN promises : Settle(k)
  <2>0. PICK k \in DOMAIN promises : Settle(k) BY <1>3
  <2>1. /\ promises[k] \in Jobs /\ first <= promises[k] /\ promises[k] < next
        /\ first <= next
        /\ next' = IF next <= Last THEN next + 1 ELSE next
        /\ Len(promises') <= Level
        /\ next' <= Last => promises' # <<>>
        /\ \A j \in Jobs : Waited(j)' <=> \/ Waited(j) /\ j # promises[k]
                                          \/ next <= Last /\ j = next
        /\ \A i \in DOMAIN promises' : first <= promises'[i] /\ promises'[i] < next'
        /\ \A i, m \in DOMAIN promises' : promises'[i] = promises'[m] => i = m
    BY <2>0, SettleFacts
  <2>2. /\ first' = first /\ Last' = Last /\ script = "failed" /\ phase = "batch"
        /\ results' = [results EXCEPT ![promises[k]] = @ + 1]
    BY <2>0 DEF Settle, Last
  <2>3. \A j \in Jobs :
          results[j] = IF first <= j /\ j < next /\ ~ Waited(j) THEN 1 ELSE 0
    BY <1>0, <2>2 DEF Raced
  <2>4. Waited(promises[k]) BY DEF Waited
  <2>5. ASSUME NEW j \in Jobs
        PROVE  results'[j] = IF first <= j /\ j < next' /\ ~ Waited(j)' THEN 1 ELSE 0
    <3>1. j \in Nat BY <1>n
    <3>2. CASE j = promises[k]
      <4>1. results[j] = 0 BY <2>3, <2>4, <3>2
      <4>2. results'[j] = 1 BY <1>n, <2>2, <3>2, <4>1
      <4>3. first <= j /\ j < next' /\ ~ (next <= Last /\ j = next)
        BY <1>n, <2>1, <3>1, <3>2
      <4> QED BY <2>1, <3>2, <4>2, <4>3
    <3>3. CASE j # promises[k]
      <4>1. results'[j] = results[j] BY <1>n, <2>2, <3>3
      <4>2. CASE next <= Last /\ j = next
        <5>1. Waited(j)' /\ results[j] = 0 BY <1>n, <2>1, <2>3, <4>2
        <5> QED BY <4>1, <5>1
      <4>3. CASE ~ (next <= Last /\ j = next)
        <5>1. (j < next') <=> (j < next) BY <1>n, <2>1, <3>1, <4>3
        <5>2. Waited(j)' <=> Waited(j) BY <2>1, <3>3, <4>3
        <5> QED BY <2>3, <4>1, <5>1, <5>2
      <4> QED BY <4>2, <4>3
    <3> QED BY <3>2, <3>3
  <2> QED BY <2>1, <2>2, <2>5 DEF Raced
<1>4. CASE WriteConcurrently BY <1>4 DEF WriteConcurrently
<1>5. CASE Retry BY <1>5 DEF Retry
<1>6. CASE StartLoop BY <1>6 DEF StartLoop
<1>7. CASE Launch BY <1>7 DEF Launch
<1>8. CASE RemoveOldest BY <1>8 DEF RemoveOldest
<1>9. CASE WriteLoop BY <1>9 DEF WriteLoop
<1>10. CASE Finish BY <1>10 DEF Finish
<1>11. CASE UNCHANGED vars BY <1>0, <1>11 DEF vars, Raced, Waited, Last
<1> QED BY <1>1, <1>2, <1>3, <1>4, <1>5, <1>6, <1>7, <1>8, <1>9, <1>10, <1>11 DEF Next, Main

LEMMA AnsweredStep == Inv /\ [Next]_vars => Answered'
<1> SUFFICES ASSUME Inv, [Next]_vars, script' = "failed" PROVE Answered'
  BY DEF Answered
<1>0. TypeOK /\ Positioned /\ Answered BY DEF Inv
<1>s. script = "failed"
  BY DEF Next, Main, Answer, StartConcurrently, WriteConcurrently, Retry, Settle,
         StartLoop, Launch, RemoveOldest, WriteLoop, Finish, vars
<1>a. /\ phase # "batch" => promises = <<>>
      /\ \A j \in Jobs : answer[j] = "pending" => phase = "batch" /\ Waited(j)
      /\ phase = "batch" =>
           \A j \in Jobs : first <= j /\ j < next => answer[j] # "idle"
  BY <1>0, <1>s DEF Answered
<1>n. /\ first \in Nat /\ next \in Nat /\ Last \in Int /\ Jobs = 0 .. Length - 1
      /\ Length \in Nat /\ answer \in [Jobs -> Answers \cup {"idle", "pending"}]
  BY <1>0, Numbers DEF TypeOK
<1>1. CASE \E j \in Jobs : Answer(j)
  <2>0. PICK j \in Jobs : Answer(j) BY <1>1
  <2>1. PICK a \in Answers : answer' = [answer EXCEPT ![j] = a] BY <2>0 DEF Answer
  <2>2. UNCHANGED <<phase, first, next, promises>> BY <2>0 DEF Answer
  <2>3. a # "pending" /\ a # "idle" BY DEF Answers
  <2>4. \A i \in Jobs : answer'[i] = IF i = j THEN a ELSE answer[i] BY <1>n, <2>1
  <2>5. \A i \in Jobs : Waited(i)' <=> Waited(i) BY <2>2 DEF Waited
  <2> QED BY <1>a, <2>2, <2>3, <2>4, <2>5 DEF Answered
<1>2. CASE StartConcurrently
  <2>1. /\ \A j \in Jobs : Waited(j)' <=> first <= j /\ j < next'
        /\ \A j \in Jobs : answer'[j] = IF Waited(j)' THEN "pending" ELSE answer[j]
    BY <1>2, StartFacts
  <2>2. phase = "next" /\ phase' = "batch" /\ first' = first
    BY <1>2 DEF StartConcurrently
  <2> QED BY <1>a, <2>1, <2>2 DEF Answered
<1>3. CASE \E k \in DOMAIN promises : Settle(k)
  <2>0. PICK k \in DOMAIN promises : Settle(k) BY <1>3
  <2>1. /\ next' = IF next <= Last THEN next + 1 ELSE next
        /\ \A j \in Jobs : Waited(j)' <=> \/ Waited(j) /\ j # promises[k]
                                          \/ next <= Last /\ j = next
        /\ \A j \in Jobs :
             answer'[j] = IF next <= Last /\ j = next THEN "pending" ELSE answer[j]
    BY <2>0, SettleFacts
  <2>2. /\ phase = "batch" /\ phase' = "batch" /\ first' = first
        /\ answer[promises[k]] # "pending"
    BY <2>0 DEF Settle
  <2>3. ASSUME NEW j \in Jobs, answer'[j] = "pending"
        PROVE  Waited(j)'
    BY <1>a, <2>1, <2>2, <2>3
  <2>4. ASSUME NEW j \in Jobs, first <= j, j < next'
        PROVE  answer'[j] # "idle"
    <3>1. j \in Nat BY <1>n
    <3>2. CASE next <= Last /\ j = next BY <2>1, <3>2
    <3>3. CASE ~ (next <= Last /\ j = next)
      <4>1. j < next BY <1>n, <2>1, <2>4, <3>1, <3>3
      <4> QED BY <1>a, <2>1, <2>2, <2>4, <3>3, <4>1
    <3> QED BY <3>2, <3>3
  <2> QED BY <2>2, <2>3, <2>4 DEF Answered
<1>4. CASE WriteConcurrently
  <2>1. promises = <<>> /\ promises' = <<>> /\ answer' = answer /\ phase' = "next"
    BY <1>4 DEF WriteConcurrently
  <2>2. \A j \in Jobs : ~ Waited(j) BY <2>1 DEF Waited
  <2> QED BY <1>a, <2>1, <2>2 DEF Answered
<1>5. CASE Retry
  <2>1. promises = <<>> /\ promises' = <<>> /\ answer' = answer /\ phase' # "batch"
    BY <1>5 DEF Retry
  <2>2. \A j \in Jobs : ~ Waited(j) BY <2>1 DEF Waited
  <2> QED BY <1>a, <2>1, <2>2 DEF Answered
<1>6. CASE StartLoop BY <1>s, <1>6 DEF StartLoop
<1>7. CASE Launch BY <1>s, <1>7 DEF Launch
<1>8. CASE RemoveOldest BY <1>s, <1>8 DEF RemoveOldest
<1>9. CASE WriteLoop BY <1>s, <1>9 DEF WriteLoop
<1>10. CASE Finish
  <2>1. promises' = promises /\ answer' = answer /\ phase = "next" /\ phase' = "done"
    BY <1>10 DEF Finish
  <2> QED BY <1>a, <2>1 DEF Answered
<1>11. CASE UNCHANGED vars BY <1>0, <1>11 DEF vars, Answered, Waited
<1> QED BY <1>1, <1>2, <1>3, <1>4, <1>5, <1>6, <1>7, <1>8, <1>9, <1>10, <1>11 DEF Next, Main

LEMMA CollectedStep == Inv /\ [Next]_vars => Collected'
<1> SUFFICES ASSUME Inv, [Next]_vars, script' = "incomplete", phase' = "batch"
             PROVE  Collected'
  BY DEF Collected
<1>0. TypeOK /\ Positioned /\ Collected BY DEF Inv
<1>n. /\ first \in Nat /\ next \in Nat /\ Jobs = 0 .. Length - 1 /\ Length \in Nat
      /\ answer \in [Jobs -> Answers \cup {"idle", "pending"}]
      /\ results \in [Jobs -> Nat]
  BY <1>0, Numbers DEF TypeOK
<1>1. CASE \E j \in Jobs : Answer(j)
  <2>0. PICK j \in Jobs : Answer(j) BY <1>1
  <2>1. /\ UNCHANGED <<script, phase, first, next>>
        /\ answer[j] = "pending"
    BY <2>0 DEF Answer
  <2>2. PICK a \in Answers :
          /\ answer' = [answer EXCEPT ![j] = a]
          /\ results' = IF script = "incomplete" /\ a = "job" /\ OfThisBatch(j)
                        THEN [results EXCEPT ![j] = @ + 1] ELSE results
    BY <2>0 DEF Answer
  <2>3. \A i \in Jobs : /\ results[i] <= 1
                        /\ results[i] = 1 => answer[i] = "job" /\ first <= i /\ i < next
    BY <1>0, <2>1 DEF Collected
  <2>4. results[j] = 0
    <3>1. results[j] # 1 BY <2>1, <2>3
    <3>2. results[j] \in Nat /\ results[j] <= 1 BY <1>n, <2>3
    <3> QED BY ONLY <3>1, <3>2
  <2>5. \A i \in Jobs : i # j => answer'[i] = answer[i] /\ results'[i] = results[i]
    BY <1>n, <2>2
  <2>6. /\ answer'[j] = a
        /\ results'[j] = 0 \/ (results'[j] = 1 /\ a = "job" /\ first <= j /\ j < next)
    <3>1. answer'[j] = a BY <1>n, <2>2
    <3>2. CASE script = "incomplete" /\ a = "job" /\ OfThisBatch(j)
      <4>1. results'[j] = 1 BY <1>n, <2>2, <2>4, <3>2
      <4> QED BY <3>1, <3>2, <4>1 DEF OfThisBatch
    <3>3. CASE ~ (script = "incomplete" /\ a = "job" /\ OfThisBatch(j))
      <4>1. results' = results BY ONLY <2>2, <3>3
      <4> QED BY ONLY <2>4, <3>1, <4>1
    <3> QED BY <3>2, <3>3
  <2> QED BY <2>1, <2>3, <2>5, <2>6 DEF Collected
<1>2. CASE StartConcurrently BY <1>2 DEF StartConcurrently
<1>3. CASE \E k \in DOMAIN promises : Settle(k) BY <1>3 DEF Settle
<1>4. CASE WriteConcurrently BY <1>4 DEF WriteConcurrently
<1>5. CASE Retry BY <1>5 DEF Retry
<1>6. CASE StartLoop
  <2>1. \A j \in Jobs : results'[j] = 0 BY <1>6 DEF StartLoop, None
  <2> QED BY <2>1 DEF Collected
<1>7. CASE Launch
  <2>1. /\ UNCHANGED <<script, phase, first, results>> /\ next' = next + 1
        /\ script = "incomplete" /\ phase = "batch"
    BY <1>7 DEF Launch
  <2>2. \A j \in Jobs : j # next => answer'[j] = answer[j]
    BY <1>7 DEF Launch, Asked
  <2>3. \A j \in Jobs : /\ results[j] <= 1
                        /\ results[j] = 1 => answer[j] = "job" /\ first <= j /\ j < next
    BY <1>0, <2>1 DEF Collected
  <2>4. \A j \in Jobs : j < next => j < next' /\ j # next BY <1>n, <2>1
  <2> QED BY <2>1, <2>2, <2>3, <2>4 DEF Collected
<1>8. CASE RemoveOldest BY <1>0, <1>8 DEF RemoveOldest, Collected
<1>9. CASE WriteLoop BY <1>9 DEF WriteLoop
<1>10. CASE Finish BY <1>10 DEF Finish
<1>11. CASE UNCHANGED vars BY <1>0, <1>11 DEF vars, Collected
<1> QED BY <1>1, <1>2, <1>3, <1>4, <1>5, <1>6, <1>7, <1>8, <1>9, <1>10, <1>11 DEF Next, Main

\* What is written of a batch: the existing jobs of its range.
LEMMA LinesFacts ==
    ASSUME Inv, phase = "batch", next > Last,
           script = "failed" => promises = <<>>
    PROVE  \A j \in Jobs :
             /\ first + size <= j => Lines[j] = 0
             /\ j < first => Lines[j] = written[j]
             /\ first <= j /\ j < first + size =>
                  /\ Lines[j] <= 1
                  /\ Lines[j] = 1 => answer[j] = "job"
                  /\ script = "failed" => /\ answer[j] \in Answers
                                          /\ answer[j] = "job" => Lines[j] = 1
<1> SUFFICES ASSUME NEW j \in Jobs
             PROVE  /\ first + size <= j => Lines[j] = 0
                    /\ j < first => Lines[j] = written[j]
                    /\ first <= j /\ j < first + size =>
                         /\ Lines[j] <= 1
                         /\ Lines[j] = 1 => answer[j] = "job"
                         /\ script = "failed" => /\ answer[j] \in Answers
                                                 /\ answer[j] = "job" => Lines[j] = 1
  OBVIOUS
<1>0. TypeOK /\ Positioned /\ Raced /\ Answered /\ Collected /\ Recorded BY DEF Inv
<1>n. /\ first \in Nat /\ next \in Nat /\ size \in Nat /\ Last \in Int /\ j \in Nat
      /\ Last < first + size /\ (j < first + size => j <= Last)
  BY <1>0, Numbers
<1>t. /\ answer[j] \in Answers \cup {"idle", "pending"}
      /\ results[j] \in Nat /\ written[j] \in Nat
  BY <1>0 DEF TypeOK
<1>1. /\ Lines[j] = written[j] + (IF answer[j] = "job" THEN results[j] ELSE 0)
      /\ Lines[j] \in Nat
  BY <1>t DEF Lines
<1>2. /\ next <= first + size
      /\ j < first + size => j < next
  BY <1>0, <1>n DEF Positioned
<1>3. /\ results[j] <= 1
      /\ results[j] = 1 => first <= j /\ j < next
  <2>1. CASE script = "failed" BY <1>0, <1>t, <2>1 DEF Raced
  <2>2. CASE script = "incomplete" BY <1>0, <2>2 DEF Collected
  <2> QED BY <1>0, <2>1, <2>2, ScriptsType DEF TypeOK
<1>4. first <= j => written[j] = 0 BY <1>0 DEF Recorded
<1>5. CASE first + size <= j
  <2>1. results[j] = 0 BY <1>n, <1>t, <1>2, <1>3, <1>5
  <2>2. written[j] = 0 BY <1>n, <1>4, <1>5
  <2>3. Lines[j] = 0 BY <1>1, <2>1, <2>2
  <2> QED BY <1>n, <1>5, <2>3
<1>6. CASE j < first
  <2>1. results[j] = 0 BY <1>n, <1>t, <1>3, <1>6
  <2>2. Lines[j] = written[j] BY <1>t, <1>1, <2>1
  <2> QED BY <1>n, <1>6, <2>2
<1>7. CASE first <= j /\ j < first + size
  <2>1. Lines[j] = IF answer[j] = "job" THEN results[j] ELSE 0
    BY <1>t, <1>1, <1>4, <1>7
  <2>2. Lines[j] <= 1 /\ (Lines[j] = 1 => answer[j] = "job") BY <1>3, <2>1
  <2>3. ASSUME script = "failed"
        PROVE  answer[j] \in Answers /\ (answer[j] = "job" => Lines[j] = 1)
    <3>1. ~ Waited(j) BY <2>3 DEF Waited
    <3>2. results[j] = 1 BY <1>0, <1>2, <1>7, <2>3, <3>1 DEF Raced
    <3>3. answer[j] # "pending" /\ answer[j] # "idle"
      BY <1>0, <1>2, <1>7, <2>3, <3>1 DEF Answered
    <3> QED BY <1>t, <2>1, <3>2, <3>3
  <2> QED BY <1>n, <1>7, <2>2, <2>3
<1> QED BY <1>n, <1>5, <1>6, <1>7

LEMMA RecordedStep == Inv /\ [Next]_vars => Recorded'
<1> SUFFICES ASSUME Inv, [Next]_vars PROVE Recorded'
  OBVIOUS
<1>0. TypeOK /\ Positioned /\ Raced /\ Answered /\ Recorded BY DEF Inv
<1>n. /\ first \in Nat /\ next \in Nat /\ size \in Nat /\ Last \in Int
      /\ Jobs = 0 .. Length - 1 /\ Length \in Nat
      /\ answer \in [Jobs -> Answers \cup {"idle", "pending"}]
  BY <1>0, Numbers DEF TypeOK
<1>k. ASSUME UNCHANGED <<script, first, written>>,
             \A j \in Jobs : j < first => answer'[j] = answer[j]
      PROVE  Recorded'
  BY <1>0, <1>k DEF Recorded
<1>1. CASE \E j \in Jobs : Answer(j)
  <2>0. PICK j \in Jobs : Answer(j) BY <1>1
  <2>1. UNCHANGED <<script, first, written>> /\ answer[j] = "pending" BY <2>0 DEF Answer
  <2>2. PICK a \in Answers : answer' = [answer EXCEPT ![j] = a] BY <2>0 DEF Answer
  <2>3. \A i \in Jobs : i # j => answer'[i] = answer[i] BY <1>n, <2>2
  <2>4. j < first => /\ written[j] # 1
                     /\ script # "failed"
    BY <1>0, <2>1 DEF Recorded, Answers
  <2> QED BY <1>0, <2>1, <2>3, <2>4 DEF Recorded
<1>2. CASE StartConcurrently
  <2>1. UNCHANGED <<script, first, written>> BY <1>2 DEF StartConcurrently
  <2>2. /\ \A j \in Jobs : Waited(j)' <=> first <= j /\ j < next'
        /\ \A j \in Jobs : answer'[j] = IF Waited(j)' THEN "pending" ELSE answer[j]
    BY <1>2, StartFacts
  <2>3. \A j \in Jobs : j < first => ~ (first <= j) BY <1>n
  <2> QED BY <1>k, <2>1, <2>2, <2>3
<1>3. CASE \E k \in DOMAIN promises : Settle(k)
  <2>0. PICK k \in DOMAIN promises : Settle(k) BY <1>3
  <2>1. UNCHANGED <<script, first, written>> BY <2>0 DEF Settle
  <2>2. /\ first <= next
        /\ \A j \in Jobs :
             answer'[j] = IF next <= Last /\ j = next THEN "pending" ELSE answer[j]
    BY <2>0, SettleFacts
  <2>3. \A j \in Jobs : j < first => j # next BY <1>n, <2>2
  <2> QED BY <1>k, <2>1, <2>2, <2>3
<1>4. CASE WriteConcurrently \/ WriteLoop
  <2>1. /\ phase = "batch" /\ written' = Lines /\ first' = first + size
        /\ script' = script /\ answer' = answer
    BY <1>4 DEF WriteConcurrently, WriteLoop
  <2>2. script = "failed" => promises = <<>>
    BY <1>4 DEF WriteConcurrently, WriteLoop
  <2>3. next > Last
    <3>1. CASE WriteConcurrently
      <4>1. script = "failed" /\ promises = <<>> BY <3>1 DEF WriteConcurrently
      <4>2. ~ (next <= Last) BY <1>0, <2>1, <4>1 DEF Raced
      <4> QED BY <1>n, <4>2
    <3>2. CASE WriteLoop BY <3>2 DEF WriteLoop
    <3> QED BY <1>4, <3>1, <3>2
  <2>4. \A j \in Jobs :
          /\ first + size <= j => Lines[j] = 0
          /\ j < first => Lines[j] = written[j]
          /\ first <= j /\ j < first + size =>
               /\ Lines[j] <= 1
               /\ Lines[j] = 1 => answer[j] = "job"
               /\ script = "failed" => /\ answer[j] \in Answers
                                       /\ answer[j] = "job" => Lines[j] = 1
    BY <2>1, <2>2, <2>3, LinesFacts
  <2>5. \A j \in Jobs : j < first \/ (first <= j /\ j < first + size) \/ first + size <= j
    BY <1>n
  <2>6. ASSUME NEW j \in Jobs, first' <= j PROVE written'[j] = 0
    BY <2>1, <2>4, <2>6
  <2>7. ASSUME NEW j \in Jobs, j < first'
        PROVE  /\ written'[j] <= 1
               /\ written'[j] = 1 => answer'[j] = "job"
               /\ script' = "failed" => /\ answer'[j] \in Answers
                                        /\ answer'[j] = "job" => written'[j] = 1
    <3>1. CASE j < first
      <4>1. /\ written[j] <= 1
            /\ written[j] = 1 => answer[j] = "job"
            /\ script = "failed" => /\ answer[j] \in Answers
                                    /\ answer[j] = "job" => written[j] = 1
        BY <1>0, <3>1 DEF Recorded
      <4>2. written'[j] = written[j] BY <2>1, <2>4, <3>1
      <4> QED BY <2>1, <4>1, <4>2
    <3>2. CASE first <= j /\ j < first + size
      BY <2>1, <2>4, <3>2
    <3> QED BY <1>n, <2>1, <2>7, <3>1, <3>2
  <2> QED BY <2>6, <2>7 DEF Recorded
<1>5. CASE Retry BY <1>k, <1>5 DEF Retry
<1>6. CASE StartLoop BY <1>k, <1>6 DEF StartLoop
<1>7. CASE Launch
  <2>1. UNCHANGED <<script, first, written>> /\ phase = "batch" BY <1>7 DEF Launch
  <2>2. first <= next BY <1>0, <2>1 DEF Positioned
  <2>3. \A j \in Jobs : j # next => answer'[j] = answer[j] BY <1>7 DEF Launch, Asked
  <2>4. \A j \in Jobs : j < first => j # next BY <1>n, <2>2
  <2> QED BY <1>k, <2>1, <2>3, <2>4
<1>8. CASE RemoveOldest BY <1>k, <1>8 DEF RemoveOldest
<1>9. CASE Finish BY <1>k, <1>9 DEF Finish
<1>10. CASE UNCHANGED vars BY <1>k, <1>10 DEF vars
<1> QED BY <1>1, <1>2, <1>3, <1>4, <1>5, <1>6, <1>7, <1>8, <1>9, <1>10 DEF Next, Main

LEMMA Invariance == Spec => []Inv
<1>1. Inv /\ [Next]_vars => Inv'
  <2> SUFFICES ASSUME Inv, [Next]_vars PROVE Inv'
    OBVIOUS
  <2>1. TypeOK /\ Positioned BY DEF Inv
  <2> QED BY <2>1, TypeStep, PositionedStep, RacedStep, AnsweredStep, CollectedStep,
             RecordedStep DEF Inv
<1> QED BY InitInv, <1>1, PTL DEF Spec

-----------------------------------------------------------------------------
(* The theorems. *)

\* The variables keep their types; in particular a batch that goes on has at
\* least minBatchSize jobs and at most BATCH_SIZE, however often it was halved
\* and grown.
THEOREM TypeCorrect == Spec => []TypeOK
<1>1. Inv => TypeOK BY DEF Inv
<1> QED BY Invariance, <1>1, PTL

\* When the script for failed jobs is done, every job was answered, and those
\* that exist are in the file once (processInBatches, processEventsConcurrently).
THEOREM ExistingJobsStayWritten == Spec => []ExistingJobsWritten
<1>1. Inv => ExistingJobsWritten
  <2> SUFFICES ASSUME Inv, script = "failed", phase = "done", NEW j \in Jobs
               PROVE  /\ answer[j] \in Answers
                      /\ written[j] = IF answer[j] = "job" THEN 1 ELSE 0
    BY DEF ExistingJobsWritten
  <2>1. TypeOK /\ Positioned /\ Recorded BY DEF Inv
  <2>2. j < first BY <2>1, Numbers DEF Positioned
  <2>3. /\ written[j] <= 1 /\ (written[j] = 1 => answer[j] = "job")
        /\ answer[j] \in Answers /\ (answer[j] = "job" => written[j] = 1)
    BY <2>1, <2>2 DEF Recorded
  <2>4. written[j] \in Nat BY <2>1 DEF TypeOK
  <2> QED BY <2>3, <2>4
<1> QED BY Invariance, <1>1, PTL

\* Neither script writes a job twice, or one that it was not told exists.
THEOREM JobsStayWrittenOnce == Spec => []WrittenAtMostOnce
<1>1. Inv => WrittenAtMostOnce
  <2> SUFFICES ASSUME Inv, NEW j \in Jobs
               PROVE  written[j] <= 1 /\ (phase = "done" /\ written[j] = 1 => answer[j] = "job")
    BY DEF WrittenAtMostOnce
  <2>1. TypeOK /\ Recorded BY DEF Inv
  <2>2. j < first \/ first <= j BY <2>1, Numbers
  <2> QED BY <2>1, <2>2 DEF Recorded
<1> QED BY Invariance, <1>1, PTL

\* processEventsConcurrently has never more queries in flight than its level:
\* the pending ones are among its promises.
THEOREM QueriesStayBounded == Spec => []QueriesBounded
<1>1. Inv => QueriesBounded
  <2> SUFFICES ASSUME Inv, script = "failed" PROVE Cardinality(Pending) <= Level
    BY DEF QueriesBounded
  <2>1. TypeOK /\ Raced /\ Answered BY DEF Inv
  <2>2. /\ Level \in Nat /\ Len(promises) \in Nat /\ Jobs = 0 .. Length - 1
        /\ Length \in Nat /\ DOMAIN promises = 1 .. Len(promises)
    BY <2>1, Numbers
  <2>3. CASE phase # "batch"
    <3>1. Pending = {} BY <2>1, <2>3 DEF Pending, Answered
    <3>2. Cardinality(Pending) = 0 BY <3>1, FS_EmptySet
    <3> QED BY <2>2, <3>2
  <2>4. CASE phase = "batch"
    <3> DEFINE at == [j \in Pending |-> CHOOSE k \in DOMAIN promises : promises[k] = j]
               D == 1 .. Len(promises)
    <3>1. \A j \in Pending : \E k \in D : promises[k] = j
      BY <2>1, <2>2 DEF Pending, Answered, Waited
    <3>2. \A j \in Pending : at[j] \in D /\ promises[at[j]] = j BY <2>2, <3>1
    <3>3. at \in Injection(Pending, D) BY <3>2 DEF Injection, IsInjective
    <3>4. IsFiniteSet(D) /\ Cardinality(D) = Len(promises)
      BY <2>2, FS_Interval
    <3>5. Cardinality(Pending) <= Len(promises) BY <3>3, <3>4, FS_Injection
    <3>6. Len(promises) <= Level BY <2>1, <2>4 DEF Raced
    <3>7. Cardinality(Pending) \in Nat BY <3>3, <3>4, FS_Injection, FS_CardinalityType
    <3> QED BY <2>2, <3>5, <3>6, <3>7
  <2> QED BY <2>3, <2>4
<1> QED BY Invariance, <1>1, PTL


-----------------------------------------------------------------------------
(***************************************************************************)
(* Both scripts run out of steps.                                          *)
(***************************************************************************)
\* What is left to do, the most important first: jobs of the list behind the
\* batches written; the size of the batch, halved by a retry; the phase; queries of
\* the batch to send and promises to take from the list; answers to come.
Left  == IF first < Length THEN Length - first ELSE 0
Stage == IF phase = "next" THEN 2 ELSE IF phase = "batch" THEN 1 ELSE 0
Work  == IF phase = "batch" THEN 2 * (Last + 1 - next) + Len(promises) ELSE 0
ToDo  == <<Left, <<size, <<Stage, <<Work, Cardinality(Pending)>>>>>>>>

\* Compared like words in a dictionary.
NatOrder  == {p \in Nat \X Nat : p[1] < p[2]}
Order2    == LexPairOrdering(NatOrder, NatOrder, Nat, Nat)
Order3    == LexPairOrdering(NatOrder, Order2, Nat, Nat \X Nat)
Order4    == LexPairOrdering(NatOrder, Order3, Nat, Nat \X (Nat \X Nat))
ToDos     == Nat \X (Nat \X (Nat \X (Nat \X Nat)))
ToDoOrder == LexPairOrdering(NatOrder, Order4, Nat, Nat \X (Nat \X (Nat \X Nat)))

\* Nothing can be less forever.
LEMMA ToDoIsWellFounded == IsWellFoundedOn(ToDoOrder, ToDos)
<1>1. IsWellFoundedOn(NatOrder, Nat)
  <2>1. OpToRel(<, Nat) = NatOrder BY DEF OpToRel, NatOrder
  <2> QED BY <2>1, NatLessThanWellFounded
<1>2. IsWellFoundedOn(Order2, Nat \X Nat)
  BY <1>1, WFLexPairOrdering DEF Order2
<1>3. IsWellFoundedOn(Order3, Nat \X (Nat \X Nat))
  BY <1>1, <1>2, WFLexPairOrdering DEF Order3
<1>4. IsWellFoundedOn(Order4, Nat \X (Nat \X (Nat \X Nat)))
  BY <1>1, <1>3, WFLexPairOrdering DEF Order4
<1> QED BY <1>1, <1>4, WFLexPairOrdering DEF ToDoOrder, ToDos

\* Less in the first place that differs.
LEMMA LessToDo ==
    ASSUME NEW a \in Nat, NEW b \in Nat, NEW c \in Nat, NEW d \in Nat, NEW e \in Nat,
           NEW v \in Nat, NEW w \in Nat, NEW x \in Nat, NEW y \in Nat, NEW z \in Nat,
           \/ v < a
           \/ v = a /\ w < b
           \/ v = a /\ w = b /\ x < c
           \/ v = a /\ w = b /\ x = c /\ y < d
           \/ v = a /\ w = b /\ x = c /\ y = d /\ z < e
    PROVE  <<<<v, <<w, <<x, <<y, z>>>>>>>>, <<a, <<b, <<c, <<d, e>>>>>>>>>> \in ToDoOrder
<1>1. \A p, q \in Nat : <<p, q>> \in NatOrder <=> p < q BY DEF NatOrder
<1>2. <<<<y, z>>, <<d, e>>>> \in Order2 <=> y < d \/ (y = d /\ z < e)
  BY <1>1 DEF Order2, LexPairOrdering
<1>3. <<<<x, <<y, z>>>>, <<c, <<d, e>>>>>> \in Order3
        <=> x < c \/ (x = c /\ <<<<y, z>>, <<d, e>>>> \in Order2)
  BY <1>1 DEF Order3, LexPairOrdering
<1>4. <<<<w, <<x, <<y, z>>>>>>, <<b, <<c, <<d, e>>>>>>>> \in Order4
        <=> w < b \/ (w = b /\ <<<<x, <<y, z>>>>, <<c, <<d, e>>>>>> \in Order3)
  BY <1>1 DEF Order4, LexPairOrdering
<1>5. <<<<v, <<w, <<x, <<y, z>>>>>>>>, <<a, <<b, <<c, <<d, e>>>>>>>>>> \in ToDoOrder
        <=> v < a \/ (v = a /\ <<<<w, <<x, <<y, z>>>>>>, <<b, <<c, <<d, e>>>>>>>> \in Order4)
  BY <1>1 DEF ToDoOrder, LexPairOrdering
<1> QED BY <1>2, <1>3, <1>4, <1>5

\* What is left can be counted.
Countable ==
    /\ Left \in Nat /\ size \in Nat /\ Stage \in Nat /\ Work \in Nat
    /\ IsFiniteSet(Pending) /\ Cardinality(Pending) \in Nat

LEMMA ToDoCountable == Inv => Countable
<1> SUFFICES ASSUME Inv PROVE Countable
  OBVIOUS
<1>1. TypeOK /\ Positioned BY DEF Inv
<1>2. /\ Length \in Nat /\ size \in Nat /\ first \in Nat /\ next \in Nat /\ Last \in Int
      /\ Len(promises) \in Nat /\ Jobs = 0 .. Length - 1
  BY <1>1, Numbers
<1>3. Left \in Nat /\ Stage \in Nat BY <1>2 DEF Left, Stage
<1>4. Work \in Nat
  <2>1. phase = "batch" => next <= Last + 1 BY <1>1 DEF Positioned
  <2> QED BY <1>2, <2>1 DEF Work
<1>5. IsFiniteSet(Pending)
  <2>1. IsFiniteSet(Jobs) BY <1>2, FS_Interval
  <2> QED BY <2>1, FS_Subset DEF Pending
<1> QED BY <1>2, <1>3, <1>4, <1>5, FS_CardinalityType DEF Countable

\* What every step does to the measure.
LeavesLessToDo == <<ToDo', ToDo>> \in ToDoOrder

\* Every step of either script leaves less to do: an answer one query less to wait
\* for, a query or a settled promise less work for the batch, a retry a smaller
\* batch, a batch that is written a shorter list.  As nothing can be less forever,
\* the scripts stop, whatever the answers are and whenever they come; that an
\* answer comes at all is up to the provider.
THEOREM EveryStepLeavesLessToDo == Spec => [][LeavesLessToDo]_vars
<1>a. Inv' => Countable'
  BY ToDoCountable, PTL
<1>1. ASSUME Inv, Inv', Next PROVE LeavesLessToDo
  <2> DEFINE c == Cardinality(Pending)
  <2>n. /\ Left \in Nat /\ size \in Nat /\ Stage \in Nat /\ Work \in Nat /\ c \in Nat
        /\ Left' \in Nat /\ size' \in Nat /\ Stage' \in Nat /\ Work' \in Nat /\ c' \in Nat
    BY <1>1, <1>a, ToDoCountable DEF Countable
  <2>i. TypeOK /\ Positioned BY <1>1 DEF Inv
  <2>m. /\ Length \in Nat /\ first \in Nat /\ next \in Nat /\ Last \in Int
        /\ Len(promises) \in Nat /\ promises \in Seq(Jobs) /\ Level \in Nat \ {0}
        /\ MinBatch \in Nat \ {0}
    BY <2>i, Numbers
  <2>l. SUFFICES \/ Left' < Left
                 \/ Left' = Left /\ size' < size
                 \/ Left' = Left /\ size' = size /\ Stage' < Stage
                 \/ Left' = Left /\ size' = size /\ Stage' = Stage /\ Work' < Work
                 \/ Left' = Left /\ size' = size /\ Stage' = Stage /\ Work' = Work /\ c' < c
    BY <2>n, LessToDo DEF ToDo, LeavesLessToDo
  <2>1. CASE \E j \in Jobs : Answer(j)
    <3>0. PICK j \in Jobs : Answer(j) BY <2>1
    <3>1. UNCHANGED <<phase, first, size, next, promises>> BY <3>0 DEF Answer
    <3>2. Left' = Left /\ size' = size /\ Stage' = Stage /\ Work' = Work
      BY <3>1 DEF Left, Stage, Work, Last
    <3>3. Pending' = Pending \ {j} /\ j \in Pending
      BY <3>0, <2>i DEF Answer, Pending, TypeOK, Answers
    <3>4. IsFiniteSet(Pending) BY <1>1, ToDoCountable DEF Countable
    <3>5. c' = c - 1 BY <3>3, <3>4, FS_RemoveElement
    <3>6. c' < c BY <2>n, <3>5
    <3> QED BY <3>2, <3>6
  <2>2. CASE StartConcurrently \/ StartLoop \/ Finish
    <3>1. /\ UNCHANGED <<first, size>> /\ phase = "next" /\ phase' \in {"batch", "done"}
      BY <2>2 DEF StartConcurrently, StartLoop, Finish
    <3> QED BY <3>1 DEF Left, Stage
  <2>3. CASE \E k \in DOMAIN promises : Settle(k)
    <3>0. PICK k \in DOMAIN promises : Settle(k) BY <2>3
    <3>1. UNCHANGED <<phase, first, size>> /\ phase = "batch" BY <3>0 DEF Settle
    <3>2. Left' = Left /\ Stage' = Stage /\ Last' = Last BY <3>1 DEF Left, Stage, Last
    <3>3. Without(promises, k) \in Seq(Jobs)
          /\ Len(Without(promises, k)) = Len(promises) - 1
      BY <2>m, WithoutFacts
    <3>4. CASE next <= Last
      <4>1. next' = next + 1 /\ promises' = Append(Without(promises, k), next)
        BY <3>0, <3>4 DEF Settle
      <4>2. Len(promises') = Len(promises) BY <2>m, <3>3, <4>1
      <4>3. Work' < Work BY <2>m, <3>1, <3>2, <4>1, <4>2 DEF Work
      <4> QED BY <3>1, <3>2, <4>3
    <3>5. CASE ~ (next <= Last)
      <4>1. next' = next /\ promises' = Without(promises, k)
        BY <3>0, <3>5 DEF Settle
      <4>2. Work' < Work BY <2>m, <3>1, <3>2, <3>3, <4>1 DEF Work
      <4> QED BY <3>1, <3>2, <4>2
    <3> QED BY <3>4, <3>5
  <2>4. CASE WriteConcurrently \/ WriteLoop
    <3>1. first' = first + size /\ phase = "batch"
      BY <2>4 DEF WriteConcurrently, WriteLoop
    <3>2. first < Length /\ size >= MinBatch BY <2>i, <3>1 DEF Positioned, TypeOK
    <3> QED BY <2>m, <2>n, <3>1, <3>2 DEF Left
  <2>5. CASE Retry
    <3>1. first' = first /\ size' = size \div 2 /\ phase = "batch" BY <2>5 DEF Retry
    <3>2. size >= MinBatch BY <2>i, <3>1 DEF TypeOK
    <3>3. size' < size BY <2>m, <2>n, <3>1, <3>2
    <3> QED BY <3>1, <3>3 DEF Left
  <2>6. CASE Launch
    <3>1. /\ UNCHANGED <<phase, first, size>> /\ phase = "batch" /\ next' = next + 1
          /\ promises' = Append(promises, next)
      BY <2>6 DEF Launch
    <3>2. Left' = Left /\ Stage' = Stage /\ Last' = Last BY <3>1 DEF Left, Stage, Last
    <3>3. Len(promises') = Len(promises) + 1 BY <2>m, <3>1
    <3>4. Work' < Work BY <2>m, <3>1, <3>2, <3>3 DEF Work
    <3> QED BY <3>1, <3>2, <3>4
  <2>7. CASE RemoveOldest
    <3>1. /\ UNCHANGED <<phase, first, size, next>> /\ phase = "batch"
          /\ promises' = Tail(promises) /\ Len(promises) >= Level
      BY <2>7 DEF RemoveOldest
    <3>2. Left' = Left /\ Stage' = Stage /\ Last' = Last BY <3>1 DEF Left, Stage, Last
    <3>3. Len(promises') = Len(promises) - 1 BY <2>m, <3>1
    <3>4. /\ Work' = 2 * (Last + 1 - next) + (Len(promises) - 1)
          /\ Work = 2 * (Last + 1 - next) + Len(promises)
      BY <3>1, <3>2, <3>3 DEF Work
    <3>5. Work' < Work BY ONLY <2>m, <3>4
    <3> QED BY <3>1, <3>2, <3>5
  <2> HIDE DEF c
  <2> QED BY <1>1, <2>1, <2>2, <2>3, <2>4, <2>5, <2>6, <2>7 DEF Next, Main
<1>2. Inv /\ Inv' /\ [Next]_vars => [LeavesLessToDo]_vars
  BY <1>1
<1> QED BY Invariance, <1>2, PTL DEF Spec

\* A script that is neither done nor aborted waits for an answer or has a step of
\* its own, the condition of which is one of these.
Stuck ==
    /\ phase \notin {"next", "done", "thrown"}
    /\ Pending = {}
    /\ script = "failed" => /\ promises # <<>>
                            /\ \A k \in DOMAIN promises : answer[promises[k]] = "pending"
    /\ script = "incomplete" =>
         /\ ~ (next <= Last /\ Len(promises) < Level)
         /\ ~ (Len(promises) >= Level
                 /\ \E k \in DOMAIN promises : answer[promises[k]] # "pending")
         /\ ~ (next > Last /\ Len(promises) < Level
                 /\ \A k \in DOMAIN promises : answer[promises[k]] # "pending")

\* A batch never waits for a promise that is settled or for a query not sent.
LEMMA NeverStuck == Spec => []~Stuck
<1>1. Inv => ~ Stuck
  <2> SUFFICES ASSUME Inv, Stuck PROVE FALSE OBVIOUS
  <2>1. TypeOK BY DEF Inv
  <2>2. /\ next \in Nat /\ Last \in Int /\ Len(promises) \in Nat /\ Level \in Nat \ {0}
        /\ DOMAIN promises = 1 .. Len(promises) /\ promises \in Seq(Jobs)
        /\ \A k \in DOMAIN promises : promises[k] \in Jobs
    BY <2>1, Numbers
  <2>3. \A k \in DOMAIN promises : answer[promises[k]] # "pending"
    BY <2>2 DEF Stuck, Pending
  <2>4. promises # <<>> => 1 \in DOMAIN promises BY <2>2
  <2>5. script \in {"failed", "incomplete"} BY <2>1, ScriptsType DEF TypeOK
  <2>6. CASE script = "failed" BY <2>3, <2>4, <2>6 DEF Stuck
  <2>7. CASE script = "incomplete"
    <3>1. Len(promises) >= Level => 1 \in DOMAIN promises BY <2>2
    <3> QED BY <2>2, <2>3, <2>7, <3>1 DEF Stuck
  <2> QED BY <2>5, <2>6, <2>7
<1> QED BY Invariance, <1>1, PTL
=============================================================================
