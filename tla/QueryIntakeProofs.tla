-------------------------- MODULE QueryIntakeProofs --------------------------
(*****************************************************************************)
(* For every text, file and prompt: the prefix loop of processQuery reads a   *)
(* text as a reader does who goes through it word by word, and read_from_file *)
(* hands over the pieces of the file, each once and in order.                 *)
(*                                                                            *)
(* The two references, Reading and After, are recursive functions.  That they *)
(* satisfy their equations, and what they give for every text, is shown with  *)
(* a least counterexample in place of an induction.                           *)
(*****************************************************************************)
EXTENDS QueryIntake, SequenceTheorems, WellFoundedInduction, TLAPS

Text == Seq(Token)

-----------------------------------------------------------------------------
(* First positions *)

LEMMA LeastNumber ==
  ASSUME NEW T \in SUBSET Nat, T # {}
  PROVE  \E x \in T : \A y \in T : x <= y
<1> DEFINE less == {ss \in Nat \X Nat : ss[1] < ss[2]}
<1>1. IsWellFoundedOn(less, Nat)
  BY NatLessThanWellFounded DEF OpToRel
<1>2. PICK x \in T : \A y \in T : ~ (<<y, x>> \in less)
  <2>1. \E x \in T : \A y \in T : ~ (<<y, x>> \in less)
    BY <1>1, WFMin
  <2> QED
    BY <2>1
<1>3. ASSUME NEW y \in T PROVE x <= y
  <2>1. <<y, x>> \notin less /\ x \in Nat /\ y \in Nat
    BY <1>2
  <2> QED
    BY <2>1
<1> QED
  BY <1>3

LEMMA TextFacts ==
  ASSUME NEW s \in Text
  PROVE  /\ Len(s) \in Nat /\ DOMAIN s = 1 .. Len(s)
         /\ \A k \in 1 .. Len(s) : s[k] \in Token
         /\ s = <<>> <=> Len(s) = 0
BY DEF Text

\* The least member of a set of positions is what FirstAt chooses.
LEMMA FirstChosen ==
  ASSUME NEW s \in Text, NEW i \in Nat, NEW at \in SUBSET (i .. Len(s)),
         NEW f, f = IF at = {} THEN 0 ELSE CHOOSE k \in at : \A j \in at : k <= j
  PROVE  \/ at = {} /\ f = 0
         \/ /\ f \in at /\ f \in i .. Len(s)
            /\ \A j \in at : f <= j
<1>1. Len(s) \in Nat
  BY TextFacts
<1>2. CASE at = {}
  BY <1>2
<1>3. CASE at # {}
  <2>1. at \in SUBSET Nat
    BY <1>1
  <2>2. \E k \in at : \A j \in at : k <= j
    BY <1>3, <2>1, LeastNumber
  <2> QED
    BY <1>3, <2>2
<1> QED
  BY <1>2, <1>3

LEMMA FirstNotSpace ==
  ASSUME NEW s \in Text, NEW i \in Nat, i >= 1,
         NEW f, f = find_first_not_of(s, i)
  PROVE  \/ f = Npos /\ \A k \in i .. Len(s) : s[k] = Space
         \/ /\ f \in i .. Len(s) /\ s[f] # Space /\ f # Npos
            /\ \A k \in i .. f - 1 : s[k] = Space
<1> DEFINE at == {k \in i .. Len(s) : s[k] # Space}
<1>1. f = IF at = {} THEN 0 ELSE CHOOSE k \in at : \A j \in at : k <= j
  BY DEF find_first_not_of, FirstAt, Npos
<1>2. at \in SUBSET (i .. Len(s)) /\ Len(s) \in Nat
  BY TextFacts
<1>3. \/ at = {} /\ f = 0
      \/ /\ f \in at /\ f \in i .. Len(s)
         /\ \A j \in at : f <= j
  <2> HIDE DEF at
  <2> QED
    BY <1>1, <1>2, FirstChosen
<1> QED
  BY <1>2, <1>3 DEF Npos

LEMMA FirstSpace ==
  ASSUME NEW s \in Text, NEW i \in Nat, i >= 1,
         NEW f, f = find_first_of(s, i)
  PROVE  \/ f = Npos /\ \A k \in i .. Len(s) : s[k] # Space
         \/ /\ f \in i .. Len(s) /\ s[f] = Space /\ f # Npos
            /\ \A k \in i .. f - 1 : s[k] # Space
<1> DEFINE at == {k \in i .. Len(s) : s[k] = Space}
<1>1. f = IF at = {} THEN 0 ELSE CHOOSE k \in at : \A j \in at : k <= j
  BY DEF find_first_of, FirstAt, Npos
<1>2. at \in SUBSET (i .. Len(s)) /\ Len(s) \in Nat
  BY TextFacts
<1>3. \/ at = {} /\ f = 0
      \/ /\ f \in at /\ f \in i .. Len(s)
         /\ \A j \in at : f <= j
  <2> HIDE DEF at
  <2> QED
    BY <1>1, <1>2, FirstChosen
<1> QED
  BY <1>2, <1>3 DEF Npos

LEMMA FirstCut ==
  ASSUME NEW s \in Text, NEW i \in Nat, i >= 1, NEW f, f = Cut(s, i)
  PROVE  \/ f = Npos /\ \A k \in i .. Len(s) : s[k] # Semicolon
         \/ /\ f \in i .. Len(s) /\ s[f] = Semicolon /\ f # Npos
            /\ \A k \in i .. f - 1 : s[k] # Semicolon
<1> DEFINE at == {k \in i .. Len(s) : s[k] = Semicolon}
<1>1. f = IF at = {} THEN 0 ELSE CHOOSE k \in at : \A j \in at : k <= j
  BY DEF Cut, FirstAt, Npos
<1>2. at \in SUBSET (i .. Len(s)) /\ Len(s) \in Nat
  BY TextFacts
<1>3. \/ at = {} /\ f = 0
      \/ /\ f \in at /\ f \in i .. Len(s)
         /\ \A j \in at : f <= j
  <2> HIDE DEF at
  <2> QED
    BY <1>1, <1>2, FirstChosen
<1> QED
  BY <1>2, <1>3 DEF Npos

LEMMA PartOfText ==
  ASSUME NEW s \in Text, NEW i \in Nat, i >= 1, NEW j \in Nat, j <= Len(s)
  PROVE  /\ SubSeq(s, i, j) \in Text
         /\ Len(SubSeq(s, i, j)) = IF i <= j THEN j - i + 1 ELSE 0
         /\ \A k \in 1 .. j - i + 1 : SubSeq(s, i, j)[k] = s[i + k - 1]
<1>1. \A k \in i .. j : s[k] \in Token
  BY TextFacts
<1> QED
  BY <1>1, SubSeqProperties DEF Text

LEMMA BlankFacts ==
  ASSUME NEW s \in Text
  PROVE  Blank(s) <=> \A k \in 1 .. Len(s) : s[k] = Space
<1> DEFINE f == find_first_not_of(s, 1)
<1>1. \/ f = Npos /\ \A k \in 1 .. Len(s) : s[k] = Space
      \/ /\ f \in 1 .. Len(s) /\ s[f] # Space /\ f # Npos
  BY FirstNotSpace
<1> QED
  BY <1>1 DEF Blank

-----------------------------------------------------------------------------
(* Types *)

LEMMA IntakeTypeInit == Init => TypeOK
<1> SUFFICES ASSUME Init PROVE TypeOK
  OBVIOUS
<1>1. /\ file \in Seq(Token) /\ lines \in Seq(Seq(Token)) /\ added \in Seq(Seq(Token))
      /\ Len(added) = 0 /\ query_name \in Seq(Token)
  BY IntakeAssumption DEF Init
<1>2. split \in Seq(Seq(Result)) /\ Len(split) = 0
  BY DEF Init
<1>3. parallel \in BOOLEAN
  BY Zenon DEF Init
<1>4. chore \in {"cli", "file", "prompt", "done"} /\ next = 1 /\ idx = 0
  BY DEF Init, Npos
<1> QED
  BY <1>1, <1>2, <1>3, <1>4 DEF TypeOK

LEMMA SqlFacts ==
  ASSUME TypeOK, next <= Len(added)
  PROVE  /\ sql \in Text /\ sql = added[next] /\ next \in 1 .. Len(added) /\ next \in Nat
         /\ Len(added) \in Nat /\ Len(sql) \in Nat
<1>1. /\ next \in 1 .. Len(added) /\ next \in Nat /\ added \in Seq(Seq(Token))
      /\ Len(added) \in Nat
  BY DEF TypeOK
<1>2. sql \in Text
  BY <1>1 DEF sql, Text
<1> QED
  BY <1>1, <1>2, TextFacts DEF sql

LEMMA IntakeTypeStep == TypeOK /\ [Next]_intakeVars => TypeOK'
<1> SUFFICES ASSUME TypeOK, [Next]_intakeVars
             PROVE  TypeOK'
  OBVIOUS
<1> DEFINE More == /\ added' \in Seq(Seq(Token)) /\ Len(added) \in Nat
                   /\ \/ added' = added
                      \/ Len(added') = Len(added) + 1 /\ \A k \in 1 .. Len(added) : added'[k] = added[k]
           WorkerOK == /\ next \in 1 .. Len(added) + 1
                       /\ idx \in Nat /\ parallel \in BOOLEAN /\ query_name \in Seq(Token)
                       /\ idx # 0 => next <= Len(added) /\ idx <= Len(added[next])
                       /\ split \in Seq(Seq(Result)) /\ Len(split) = next - 1
<1>1. ASSUME NEW q \in Text, addQuery(q) PROVE More
  BY <1>1 DEF addQuery, TypeOK, Text
<1>2. ASSUME UNCHANGED added PROVE More
  BY <1>2 DEF TypeOK
<1>3. ASSUME More, UNCHANGED workerVars PROVE WorkerOK'
  <2>1. /\ next' = next /\ idx' = idx /\ parallel' = parallel /\ query_name' = query_name
        /\ split' = split
    BY <1>3 DEF workerVars
  <2>2. next' \in 1 .. Len(added') + 1
    BY <1>3, <2>1 DEF TypeOK
  <2>3. idx' # 0 => next' <= Len(added') /\ idx' <= Len(added'[next'])
    BY <1>3, <2>1 DEF TypeOK
  <2> QED
    BY <2>1, <2>2, <2>3 DEF TypeOK
<1>4. ASSUME NEW r \in Seq(Result), next <= Len(added), TakeNext(r)
      PROVE  TypeOK'
  <2>1. /\ split' = Append(split, r) /\ next' = next + 1
        /\ idx' = Npos /\ parallel' = FALSE /\ query_name' = <<>> /\ UNCHANGED choreVars
    BY <1>4 DEF TakeNext
  <2>2. split' \in Seq(Seq(Result)) /\ Len(split') = next' - 1
    BY <1>4, <2>1 DEF TypeOK
  <2>3. next' \in 1 .. Len(added') + 1
    BY <1>4, <2>1 DEF TypeOK, choreVars
  <2>4. parallel' \in BOOLEAN
    BY <2>1, Zenon
  <2>5. /\ file' = file /\ chore' = chore /\ lines' = lines /\ added' = added
        /\ idx' = 0 /\ query_name' \in Seq(Token)
    BY <2>1 DEF choreVars, Npos
  <2> QED
    BY <2>2, <2>3, <2>4, <2>5 DEF TypeOK
<1>5. ASSUME NEW i \in Nat, i <= Len(sql), next <= Len(added), NEW p \in BOOLEAN, NEW n \in Text,
             Translate(i, p, n)
      PROVE  TypeOK'
  <2>1. substr(sql, i) \in Text
    BY <1>5, SqlFacts, PartOfText DEF substr, Npos, Text
  <2>2. [parallel |-> p, name |-> n, sql |-> substr(sql, i)] \in Result
    BY <2>1 DEF Result, Text
  <2>3. <<[parallel |-> p, name |-> n, sql |-> substr(sql, i)]>> \in Seq(Result)
    BY <2>2
  <2> QED
    BY <1>4, <1>5, <2>3 DEF Translate
<1>6. ASSUME NEW i \in Nat, i <= Len(sql), next <= Len(added), NEW p \in BOOLEAN, NEW n \in Text,
             GoOn(i, p, n)
      PROVE  TypeOK'
  <2>1. CASE i = Npos
    BY <1>5, <1>6, <2>1 DEF GoOn
  <2>2. CASE i # Npos
    <3>1. /\ idx' = i /\ parallel' = p /\ query_name' = n /\ next' = next /\ split' = split
          /\ file' = file /\ chore' = chore /\ lines' = lines /\ added' = added
      BY <1>6, <2>2 DEF GoOn, choreVars
    <3>2. i <= Len(added[next])
      BY <1>6 DEF sql
    <3> QED
      BY <1>6, <3>1, <3>2 DEF TypeOK, Text
  <2> QED
    BY <2>1, <2>2
<1>7. ASSUME ChoreCli PROVE TypeOK'
  <2>1. PICK q \in Cli : IF q = <<>> THEN UNCHANGED added ELSE addQuery(q)
    BY <1>7 DEF ChoreCli
  <2>2. More
    BY <1>1, <1>2, <2>1, IntakeAssumption DEF Text
  <2>3. WorkerOK'
    BY <1>3, <1>7, <2>2 DEF ChoreCli
  <2> QED
    BY <1>7, <2>2, <2>3 DEF ChoreCli, TypeOK
<1>8. ASSUME read_from_file PROVE TypeOK'
  <2> DEFINE end == Cut(file, 1)
             query == IF end = Npos THEN file ELSE SubSeq(file, 1, end - 1)
  <2>1. /\ file \in Text /\ Len(file) \in Nat
        /\ end = Npos \/ end \in 1 .. Len(file)
    BY FirstCut, TextFacts DEF TypeOK, Text
  <2>2. query \in Text
    BY <2>1, PartOfText
  <2>3. file' \in Text
    <3>1. file' = IF end = Npos THEN <<>> ELSE SubSeq(file, end + 1, Len(file))
      BY <1>8 DEF read_from_file
    <3>2. <<>> \in Text
      BY DEF Text
    <3> HIDE DEF end
    <3> QED
      BY <2>1, <3>1, <3>2, PartOfText
  <2>4. IF Blank(query) THEN UNCHANGED added ELSE addQuery(query)
    BY <1>8 DEF read_from_file
  <2> HIDE DEF query
  <2>5. More
    BY <1>1, <1>2, <2>2, <2>4
  <2>6. WorkerOK'
    BY <1>3, <1>8, <2>5 DEF read_from_file
  <2> QED
    BY <1>8, <2>3, <2>5, <2>6 DEF read_from_file, TypeOK, Text
<1>9. ASSUME EndOfFile PROVE TypeOK'
  <2>1. WorkerOK'
    BY <1>2, <1>3, <1>9 DEF EndOfFile
  <2> QED
    BY <1>9, <2>1 DEF EndOfFile, TypeOK
<1>10. ASSUME ReadLine PROVE TypeOK'
  <2>1. CASE lines = <<>> \/ Head(lines) \in {<<"exit">>, <<"quit">>}
    <3>1. WorkerOK'
      BY <1>2, <1>3, <1>10, <2>1 DEF ReadLine
    <3> QED
      BY <1>10, <2>1, <3>1 DEF ReadLine, TypeOK
  <2>2. CASE ~(lines = <<>> \/ Head(lines) \in {<<"exit">>, <<"quit">>})
    <3>1. Head(lines) \in Text /\ Tail(lines) \in Seq(Seq(Token))
      BY <2>2 DEF TypeOK, Text
    <3>2. /\ lines' = Tail(lines) /\ chore' = chore
          /\ IF Head(lines) = <<>> THEN UNCHANGED added ELSE addQuery(Head(lines))
      BY <1>10, <2>2 DEF ReadLine
    <3>3. More
      BY <1>1, <1>2, <3>1, <3>2
    <3>4. WorkerOK'
      BY <1>3, <1>10, <3>3 DEF ReadLine
    <3> QED
      BY <1>10, <3>1, <3>2, <3>3, <3>4 DEF ReadLine, TypeOK
  <2> QED
    BY <2>1, <2>2
<1>11. ASSUME processQuery PROVE TypeOK'
  <2> DEFINE i == find_first_not_of(sql, 1)
  <2>1. next <= Len(added) /\ sql \in Text /\ Len(sql) \in Nat
    BY <1>11, SqlFacts DEF processQuery
  <2>2. i = Npos \/ i \in 1 .. Len(sql)
    BY <2>1, FirstNotSpace
  <2>3. CASE i = Npos
    <3>1. TakeNext(<<>>)
      BY <1>11, <2>3 DEF processQuery
    <3>2. <<>> \in Seq(Result)
      OBVIOUS
    <3> QED
      BY <1>4, <2>1, <3>1, <3>2
  <2>4. CASE i # Npos
    <3>1. /\ idx' = i /\ i \in Nat /\ i <= Len(added[next])
          /\ UNCHANGED <<next, parallel, query_name, split, choreVars>>
      BY <1>11, <2>2, <2>4 DEF processQuery, sql
    <3> HIDE DEF i
    <3> QED
      BY <2>1, <3>1 DEF TypeOK, choreVars
  <2> QED
    BY <2>3, <2>4
<1>12. ASSUME PrefixParallel PROVE TypeOK'
  <2> DEFINE i == find_first_not_of(sql, idx + 1)
  <2>1. /\ next <= Len(added) /\ sql \in Text /\ Len(sql) \in Nat /\ idx \in Nat
        /\ query_name \in Text
    BY <1>12, SqlFacts DEF PrefixParallel, TypeOK, Npos, Text
  <2>2. i \in Nat /\ i <= Len(sql)
    BY <2>1, FirstNotSpace DEF Npos
  <2> QED
    BY <1>6, <1>12, <2>1, <2>2 DEF PrefixParallel
<1>13. ASSUME PrefixName PROVE TypeOK'
  <2> DEFINE from == find_first_not_of(sql, idx + 1)
             end == find_first_of(sql, from)
             i == find_first_not_of(sql, end)
  <2>1. /\ next <= Len(added) /\ sql \in Text /\ Len(sql) \in Nat /\ idx \in Nat
        /\ query_name \in Text /\ parallel \in BOOLEAN
    BY <1>13, SqlFacts DEF PrefixName, TypeOK, Npos, Text
  <2>2. from = Npos \/ from \in 1 .. Len(sql)
    BY <2>1, FirstNotSpace DEF Npos
  <2>3. CASE from = Npos
    <3>1. Translate(Npos, parallel, query_name)
      BY <1>13, <2>3 DEF PrefixName
    <3> QED
      BY <1>5, <2>1, <3>1 DEF Npos
  <2>4. CASE from # Npos
    <3>1. end = Npos \/ end \in from .. Len(sql)
      BY <2>1, <2>2, <2>4, FirstSpace
    <3>2. CASE end = Npos
      <4>1. Translate(Npos, parallel, substr(sql, from))
        BY <1>13, <2>4, <3>2 DEF PrefixName
      <4>2. substr(sql, from) \in Text
        BY <2>1, <2>2, <2>4, PartOfText DEF substr
      <4> QED
        BY <1>5, <2>1, <4>1, <4>2 DEF Npos
    <3>3. CASE end # Npos
      <4>1. GoOn(i, parallel, SubSeq(sql, from, end - 1))
        BY <1>13, <2>4, <3>3 DEF PrefixName
      <4>2. SubSeq(sql, from, end - 1) \in Text
        BY <2>1, <2>2, <2>4, <3>1, <3>3, PartOfText
      <4>3. i \in Nat /\ i <= Len(sql)
        BY <2>1, <2>2, <2>4, <3>1, <3>3, FirstNotSpace DEF Npos
      <4> HIDE DEF i, end, from
      <4> QED
        BY <1>6, <2>1, <4>1, <4>2, <4>3
    <3> QED
      BY <3>2, <3>3
  <2> QED
    BY <2>3, <2>4
<1>14. ASSUME NoPrefix PROVE TypeOK'
  <2>1. /\ next <= Len(added) /\ idx \in Nat /\ idx <= Len(sql)
        /\ query_name \in Text /\ parallel \in BOOLEAN
    BY <1>14 DEF NoPrefix, TypeOK, Npos, Text, sql
  <2> QED
    BY <1>5, <1>14, <2>1 DEF NoPrefix
<1>15. ASSUME UNCHANGED intakeVars PROVE TypeOK'
  BY <1>15 DEF intakeVars, TypeOK
<1> QED
  BY <1>7, <1>8, <1>9, <1>10, <1>11, <1>12, <1>13, <1>14, <1>15 DEF Next

(* Every variable of the intake keeps its type, and the position of the       *)
(* prefix loop stays within the text it reads, whatever find_first_of and     *)
(* find_first_not_of return.                                                  *)
THEOREM IntakeTypeCorrect == Spec => []TypeOK
<1>1. Init => TypeOK
  BY IntakeTypeInit
<1>2. TypeOK /\ [Next]_intakeVars => TypeOK'
  BY IntakeTypeStep
<1> QED
  BY <1>1, <1>2, PTL DEF Spec

-----------------------------------------------------------------------------
(* Reading word by word *)

IsReading(s, n, g) == g = [k \in 0 .. n |-> IF k = 0 THEN Unread ELSE ReadAt(s, g[k - 1], k)]

\* The recursive function satisfies its equation.
LEMMA ReadingDef ==
  ASSUME NEW s \in Text
  PROVE  /\ Reading(s)[0] = Unread
         /\ \A k \in 1 .. Len(s) : Reading(s)[k] = ReadAt(s, Reading(s)[k - 1], k)
<1> DEFINE T == {n \in Nat : ~\E g : IsReading(s, n, g)}
<1>1. ASSUME T # {} PROVE FALSE
  <2>1. PICK x \in T : \A y \in T : x <= y
    <3>1. T \in SUBSET Nat
      OBVIOUS
    <3> HIDE DEF T
    <3> QED
      BY <1>1, <3>1, LeastNumber
  <2>2. x \in Nat /\ ~\E g : IsReading(s, x, g)
    BY <2>1
  <2>3. CASE x = 0
    <3> DEFINE g == [k \in 0 .. 0 |-> Unread]
    <3>1. IsReading(s, 0, g)
      BY DEF IsReading
    <3> QED
      BY <2>2, <2>3, <3>1
  <2>4. CASE x # 0
    <3>1. x - 1 \in Nat /\ x - 1 \notin T
      BY <2>1, <2>2, <2>4
    <3>2. PICK g : IsReading(s, x - 1, g)
      BY <3>1
    <3> DEFINE h == [k \in 0 .. x |-> IF k \in 0 .. x - 1 THEN g[k] ELSE ReadAt(s, g[x - 1], x)]
    <3>3. ASSUME NEW k \in 0 .. x
          PROVE  h[k] = IF k = 0 THEN Unread ELSE ReadAt(s, h[k - 1], k)
      BY <2>2, <2>4, <3>2 DEF IsReading
    <3>4. IsReading(s, x, h)
      BY <3>3 DEF IsReading
    <3> QED
      BY <2>2, <3>4
  <2> QED
    BY <2>3, <2>4
<1>2. Len(s) \in Nat
  BY TextFacts
<1>3. \E g : IsReading(s, Len(s), g)
  BY <1>1, <1>2
<1>4. IsReading(s, Len(s), Reading(s))
  BY <1>3 DEF IsReading, Reading
<1> QED
  BY <1>2, <1>4 DEF IsReading

\* Where no word begins, or the statement has begun, nothing more is read.
LEMMA ReadingStays ==
  ASSUME NEW s \in Text, NEW i \in 0 .. Len(s), NEW j \in i .. Len(s),
         \A k \in i + 1 .. j : ~WordStart(s, k) \/ Reading(s)[i].at = "sql"
  PROVE  Reading(s)[j] = Reading(s)[i]
<1> DEFINE T == {k \in i .. j : Reading(s)[k] # Reading(s)[i]}
<1>0. Len(s) \in Nat
  BY TextFacts
<1>1. ASSUME T # {} PROVE FALSE
  <2>1. PICK x \in T : \A y \in T : x <= y
    <3>1. T \in SUBSET Nat
      BY <1>0
    <3> HIDE DEF T
    <3> QED
      BY <1>1, <3>1, LeastNumber
  <2>2. x \in i .. j /\ Reading(s)[x] # Reading(s)[i] /\ x # i
    BY <2>1
  <2>3. /\ x - 1 \in i .. j /\ x \in 1 .. Len(s) /\ x \in i + 1 .. j
        /\ ~(x <= x - 1)
    BY <1>0, <2>2
  <2>4. Reading(s)[x - 1] = Reading(s)[i]
    BY <2>1, <2>3
  <2>5. Reading(s)[x] = ReadAt(s, Reading(s)[i], x)
    BY <2>3, <2>4, ReadingDef
  <2>6. ReadAt(s, Reading(s)[i], x) = Reading(s)[i]
    BY <2>3 DEF ReadAt
  <2> QED
    BY <2>2, <2>5, <2>6
<1>2. j \in i .. j
  BY <1>0
<1> QED
  BY <1>1, <1>2

Keyword == {"PARALLEL", "NAME"}

LEMMA KeywordIsNoSpace == Space \notin Keyword
BY DEF Space, Keyword

LEMMA WordFacts ==
  ASSUME NEW s \in Text, NEW k \in 1 .. Len(s), s[k] # Space
  PROVE  /\ WordFrom(s, k) \in Text /\ Len(WordFrom(s, k)) >= 1 /\ WordFrom(s, k)[1] = s[k]
         /\ k = Len(s) \/ s[k + 1] = Space => WordFrom(s, k) = <<s[k]>>
<1> DEFINE e == find_first_of(s, k)
           l == IF e = Npos THEN Len(s) ELSE e - 1
<1>1. Len(s) \in Nat /\ k \in Nat
  BY TextFacts
<1>2. \/ e = Npos /\ \A m \in k .. Len(s) : s[m] # Space
      \/ /\ e \in k .. Len(s) /\ s[e] = Space /\ e # Npos
         /\ \A m \in k .. e - 1 : s[m] # Space
  BY <1>1, FirstSpace
<1>3. l \in k .. Len(s)
  BY <1>1, <1>2
<1>4. WordFrom(s, k) = SubSeq(s, k, l)
  BY DEF WordFrom
<1>5. k = Len(s) \/ s[k + 1] = Space => l = k
  BY <1>1, <1>2
<1> HIDE DEF l
<1>6. /\ SubSeq(s, k, l) \in Text /\ Len(SubSeq(s, k, l)) = l - k + 1
      /\ SubSeq(s, k, l)[1] = s[k]
  <2>1. 1 \in 1 .. l - k + 1 /\ k + 1 - 1 = k
    BY <1>1, <1>3
  <2> QED
    BY <1>1, <1>3, <2>1, PartOfText
<1>7. l = k => SubSeq(s, k, l) = <<s[k]>>
  <2> SUFFICES ASSUME l = k PROVE SubSeq(s, k, l) = <<s[k]>>
    OBVIOUS
  <2>1. Len(SubSeq(s, k, l)) = 1
    BY <1>1, <1>6
  <2>2. <<s[k]>> \in Seq(Token) /\ Len(<<s[k]>>) = 1 /\ <<s[k]>>[1] = s[k]
    BY TextFacts
  <2>3. \A m \in 1 .. Len(SubSeq(s, k, l)) : SubSeq(s, k, l)[m] = <<s[k]>>[m]
    BY <1>6, <2>1, <2>2
  <2> QED
    BY <1>6, <2>1, <2>2, <2>3, SeqEqual DEF Text
<1>8. l - k + 1 >= 1
  BY <1>1, <1>3
<1> QED
  BY <1>4, <1>5, <1>6, <1>7, <1>8

Before(p, n) == [at |-> "key", parallel |-> p, name |-> n, sql |-> <<>>]

Naming(p, n) == [at |-> "name", parallel |-> p, name |-> n, sql |-> <<>>]

\* A keyword where one is expected.
LEMMA ReadsKeyword ==
  ASSUME NEW s \in Text, Separated(s), NEW i \in 1 .. Len(s), WordStart(s, i),
         NEW p, NEW n, Reading(s)[i - 1] = Before(p, n), s[i] \in Keyword
  PROVE  /\ i = Len(s) \/ s[i + 1] = Space
         /\ s[i] = "PARALLEL" => Reading(s)[i] = Before(TRUE, n)
         /\ s[i] = "NAME" => Reading(s)[i] = Naming(p, n)
<1>1. i = Len(s) \/ i \in 1 .. Len(s) - 1
  BY TextFacts
<1>2. i = Len(s) \/ s[i + 1] = Space
  BY <1>1 DEF Separated, Keyword
<1>3. WordFrom(s, i) = <<s[i]>>
  BY <1>2, WordFacts, KeywordIsNoSpace
<1>4. Reading(s)[i] = ReadWord(s, Before(p, n), i)
  BY ReadingDef DEF ReadAt, Before
<1>5. ASSUME s[i] = "PARALLEL" PROVE Reading(s)[i] = Before(TRUE, n)
  <2>1. ReadWord(s, Before(p, n), i) = [Before(p, n) EXCEPT !.parallel = TRUE]
    BY <1>3, <1>5 DEF ReadWord, Before
  <2>2. ASSUME NEW b PROVE [Before(p, n) EXCEPT !.parallel = b] = Before(b, n)
    BY DEF Before
  <2>3. [Before(p, n) EXCEPT !.parallel = TRUE] = Before(TRUE, n)
    BY <2>2, Zenon
  <2> QED
    BY <1>4, <2>1, <2>3, Zenon
<1>6. ASSUME s[i] = "NAME" PROVE Reading(s)[i] = Naming(p, n)
  <2>1. <<s[i]>> # <<"PARALLEL">>
    BY <1>6
  <2> QED
    BY <1>3, <1>4, <1>6, <2>1 DEF ReadWord, Before, Naming
<1> QED
  BY <1>2, <1>5, <1>6

\* A word that is no keyword where one is expected: the statement begins.
LEMMA ReadsStatement ==
  ASSUME NEW s \in Text, NEW i \in 1 .. Len(s), WordStart(s, i),
         NEW p, NEW n, Reading(s)[i - 1] = Before(p, n), s[i] \notin Keyword
  PROVE  ByWords(s) = [parallel |-> p, name |-> n, sql |-> substr(s, i)]
<1> DEFINE end == [at |-> "sql", parallel |-> p, name |-> n, sql |-> substr(s, i)]
<1>1. WordFrom(s, i) # <<"PARALLEL">> /\ WordFrom(s, i) # <<"NAME">>
  BY WordFacts DEF WordStart, Keyword
<1>2. Reading(s)[i] = ReadWord(s, Before(p, n), i)
  BY ReadingDef DEF ReadAt, Before
<1>3. Reading(s)[i] = end
  BY <1>1, <1>2 DEF ReadWord, Before
<1>4. Len(s) \in Nat /\ Len(s) \in i .. Len(s) /\ i \in 0 .. Len(s) /\ end.at = "sql"
  BY TextFacts
<1>5. Reading(s)[Len(s)] = end
  BY <1>3, <1>4, ReadingStays
<1> QED
  BY <1>5 DEF ByWords

\* After the white space behind position i comes the next word, or the end.
LEMMA SkipsSpace ==
  ASSUME NEW s \in Text, NEW i \in 1 .. Len(s), i = Len(s) \/ s[i + 1] = Space,
         NEW f, f = find_first_not_of(s, i + 1)
  PROVE  \/ f = Npos /\ Reading(s)[Len(s)] = Reading(s)[i]
         \/ /\ f # Npos /\ f \in 1 .. Len(s) /\ WordStart(s, f)
            /\ f - 1 \in i .. Len(s) /\ Reading(s)[f - 1] = Reading(s)[i]
<1>1. Len(s) \in Nat /\ i \in Nat
  BY TextFacts
<1>2. \/ f = Npos /\ \A k \in i + 1 .. Len(s) : s[k] = Space
      \/ /\ f \in i + 1 .. Len(s) /\ s[f] # Space /\ f # Npos
         /\ \A k \in i + 1 .. f - 1 : s[k] = Space
  BY <1>1, FirstNotSpace
<1>3. CASE f = Npos /\ \A k \in i + 1 .. Len(s) : s[k] = Space
  <2>1. \A k \in i + 1 .. Len(s) : ~WordStart(s, k)
    BY <1>3 DEF WordStart
  <2>2. i \in 0 .. Len(s) /\ Len(s) \in i .. Len(s)
    BY <1>1
  <2> QED
    BY <1>3, <2>1, <2>2, ReadingStays
<1>4. CASE /\ f \in i + 1 .. Len(s) /\ s[f] # Space /\ f # Npos
           /\ \A k \in i + 1 .. f - 1 : s[k] = Space
  <2>1. \A k \in i + 1 .. f - 1 : ~WordStart(s, k)
    BY <1>4 DEF WordStart
  <2>2. i \in 0 .. Len(s) /\ f - 1 \in i .. Len(s) /\ f \in 1 .. Len(s)
    BY <1>1, <1>4
  <2>3. f # i + 1
    BY <1>1, <1>4
  <2>4. f - 1 \in i + 1 .. f - 1
    BY <1>1, <1>4, <2>3
  <2>5. WordStart(s, f)
    BY <1>4, <2>4 DEF WordStart
  <2> QED
    BY <1>4, <2>1, <2>2, <2>5, ReadingStays
<1> QED
  BY <1>2, <1>3, <1>4

\* The word at i ends before end: it is the name.
LEMMA ReadsName ==
  ASSUME NEW s \in Text, NEW i \in 1 .. Len(s), WordStart(s, i),
         NEW p, NEW n, Reading(s)[i - 1] = Naming(p, n),
         NEW e, e = find_first_of(s, i)
  PROVE  \/ e = Npos /\ Reading(s)[Len(s)] = Before(p, substr(s, i))
         \/ /\ e # Npos /\ e \in 1 .. Len(s) /\ s[e] = Space
            /\ e - 1 \in 1 .. Len(s)
            /\ Reading(s)[e - 1] = Before(p, SubSeq(s, i, e - 1))
<1>1. Len(s) \in Nat /\ i \in Nat /\ s[i] # Space
  BY TextFacts DEF WordStart
<1>2. \/ e = Npos /\ \A k \in i .. Len(s) : s[k] # Space
      \/ /\ e \in i .. Len(s) /\ s[e] = Space /\ e # Npos
         /\ \A k \in i .. e - 1 : s[k] # Space
  BY <1>1, FirstSpace
<1>3. Reading(s)[i] = ReadWord(s, Naming(p, n), i)
  BY ReadingDef DEF ReadAt, Naming
<1>4. Reading(s)[i] = Before(p, WordFrom(s, i))
  BY <1>3 DEF ReadWord, Naming, Before
<1>5. CASE e = Npos /\ \A k \in i .. Len(s) : s[k] # Space
  <2>1. WordFrom(s, i) = substr(s, i)
    BY <1>1, <1>5 DEF WordFrom, substr, Npos
  <2>2. ASSUME NEW k \in i + 1 .. Len(s) PROVE ~WordStart(s, k)
    <3>1. k - 1 \in i .. Len(s) /\ k # 1
      BY <1>1
    <3> QED
      BY <1>5, <3>1 DEF WordStart
  <2>3. i \in 0 .. Len(s) /\ Len(s) \in i .. Len(s)
    BY <1>1
  <2> QED
    BY <1>4, <1>5, <2>1, <2>2, <2>3, ReadingStays
<1>6. CASE /\ e \in i .. Len(s) /\ s[e] = Space /\ e # Npos
           /\ \A k \in i .. e - 1 : s[k] # Space
  <2>1. WordFrom(s, i) = SubSeq(s, i, e - 1)
    BY <1>1, <1>6 DEF WordFrom
  <2>2. e # i /\ e - 1 \in 1 .. Len(s) /\ e \in 1 .. Len(s)
    BY <1>1, <1>6
  <2>3. ASSUME NEW k \in i + 1 .. e - 1 PROVE ~WordStart(s, k)
    <3>1. k - 1 \in i .. e - 1 /\ k # 1
      BY <1>1, <1>6
    <3> QED
      BY <1>6, <3>1 DEF WordStart
  <2>4. i \in 0 .. Len(s) /\ e - 1 \in i .. Len(s)
    BY <1>1, <1>6, <2>2
  <2> QED
    BY <1>4, <1>6, <2>1, <2>2, <2>3, <2>4, ReadingStays
<1> QED
  BY <1>2, <1>5, <1>6

-----------------------------------------------------------------------------
(* The prefix loop *)

\* What the loop has found so far is what the reader has read before idx.
LoopInv ==
  idx # Npos /\ Separated(sql) =>
    WordStart(sql, idx) /\ Reading(sql)[idx - 1] = Before(parallel, query_name)

\* What the loop makes of the texts it is done with does not depend on the order of
\* their keywords: the code accepts NAME before PARALLEL as well.
AnyOrder ==
  \A i \in 1 .. Len(split) : Separated(added[i]) =>
    split[i] = IF Blank(added[i]) THEN <<>> ELSE <<ByWords(added[i])>>

PrefixInv == AnyOrder /\ LoopInv /\ (idx = Npos => Idle)

Outcome(s) == IF Blank(s) THEN <<>> ELSE <<ByWords(s)>>

LEMMA PrefixInit == Init => PrefixInv
BY DEF Init, PrefixInv, AnyOrder, LoopInv, Idle

\* A worker that is done with a text has made of it what it should.
LEMMA PrefixTakeNext ==
  ASSUME TypeOK, TypeOK', PrefixInv, next <= Len(added), NEW r, TakeNext(r),
         Separated(sql) => r = Outcome(sql)
  PROVE  PrefixInv'
<1>1. /\ split' = Append(split, r) /\ next' = next + 1 /\ added' = added
      /\ idx' = Npos /\ ~parallel' /\ query_name' = <<>>
  BY DEF TakeNext, choreVars
<1>2. Len(split) = next - 1 /\ next \in Nat /\ next >= 1 /\ sql = added[next]
  BY DEF TypeOK, sql
<1>3. ASSUME NEW i \in 1 .. Len(split'), Separated(added'[i])
      PROVE  split'[i] = IF Blank(added'[i]) THEN <<>> ELSE <<ByWords(added'[i])>>
  <2>1. Len(split') = next
    BY <1>1, <1>2 DEF TypeOK
  <2>2. CASE i = next
    <3>1. split'[i] = r
      BY <1>1, <1>2, <2>2 DEF TypeOK
    <3> QED
      BY <1>1, <1>2, <1>3, <2>2, <3>1 DEF Outcome
  <2>3. CASE i # next
    <3>1. i \in 1 .. Len(split) /\ split'[i] = split[i]
      BY <1>1, <1>2, <2>1, <2>3 DEF TypeOK
    <3> QED
      BY <1>1, <1>3, <3>1 DEF PrefixInv, AnyOrder
  <2> QED
    BY <2>2, <2>3
<1>4. AnyOrder'
  BY <1>3 DEF AnyOrder
<1>5. LoopInv'
  BY <1>1 DEF LoopInv
<1>6. Idle'
  BY <1>1 DEF Idle
<1> QED
  BY <1>4, <1>5, <1>6 DEF PrefixInv

\* The texts and what was made of them do not change while others are added.
LEMMA PrefixChores ==
  ASSUME TypeOK, TypeOK', PrefixInv, UNCHANGED workerVars,
         UNCHANGED added \/ \E q \in Text : addQuery(q)
  PROVE  PrefixInv'
<1>1. /\ next' = next /\ idx' = idx /\ parallel' = parallel /\ query_name' = query_name
      /\ split' = split
  BY DEF workerVars
<1>2. \A k \in 1 .. Len(added) : added'[k] = added[k]
  <2>1. CASE UNCHANGED added
    BY <2>1
  <2>2. CASE \E q \in Text : addQuery(q)
    BY <2>2 DEF TypeOK, addQuery, Text
  <2> QED
    BY <2>1, <2>2
<1>3. Len(split) = next - 1 /\ next \in 1 .. Len(added) + 1 /\ Len(added) \in Nat
  BY DEF TypeOK
<1>4. ASSUME NEW i \in 1 .. Len(split) PROVE added'[i] = added[i]
  BY <1>2, <1>3
<1>5. AnyOrder'
  <2>1. AnyOrder
    BY DEF PrefixInv
  <2> QED
    BY <1>1, <1>4, <2>1 DEF AnyOrder
<1>6. LoopInv'
  <2>1. ASSUME idx # Npos PROVE sql' = sql
    BY <1>1, <1>2, <1>3, <2>1 DEF TypeOK, sql, Npos
  <2> QED
    BY <1>1, <2>1 DEF PrefixInv, LoopInv
<1>7. (idx = Npos => Idle)'
  BY <1>1 DEF PrefixInv, Idle
<1> QED
  BY <1>5, <1>6, <1>7 DEF PrefixInv

\* The loop goes on at i, where the next word begins, or the text has ended.
LEMMA PrefixGoOn ==
  ASSUME TypeOK, TypeOK', PrefixInv, next <= Len(added), idx # Npos,
         NEW i, NEW p, NEW n, GoOn(i, p, n),
         Separated(sql) =>
           \/ i = Npos /\ Reading(sql)[Len(sql)] \in {Before(p, n), Naming(p, n)}
           \/ i # Npos /\ WordStart(sql, i) /\ Reading(sql)[i - 1] = Before(p, n)
  PROVE  PrefixInv'
<1>1. CASE i = Npos
  <2> DEFINE r == [parallel |-> p, name |-> n, sql |-> substr(sql, i)]
  <2>1. TakeNext(<<r>>)
    BY <1>1 DEF GoOn, Translate
  <2>2. substr(sql, i) = <<>>
    BY <1>1 DEF substr
  <2>3. ASSUME Separated(sql) PROVE <<r>> = Outcome(sql)
    <3>1. Reading(sql)[Len(sql)] = Before(p, n) \/ Reading(sql)[Len(sql)] = Naming(p, n)
      BY <1>1, <2>3
    <3>2. ByWords(sql) = r
      BY <2>2, <3>1 DEF ByWords, Before, Naming
    <3>3. ~Blank(sql)
      <4>1. sql \in Text /\ Len(sql) \in Nat
        BY SqlFacts
      <4>2. idx \in 1 .. Len(sql)
        BY <4>1 DEF TypeOK, Npos, sql
      <4>3. sql[idx] # Space
        BY <2>3 DEF PrefixInv, LoopInv, WordStart
      <4> QED
        BY <4>1, <4>2, <4>3, BlankFacts
    <3> QED
      BY <3>2, <3>3 DEF Outcome
  <2> HIDE DEF r
  <2> QED
    BY <2>1, <2>3, PrefixTakeNext
<1>2. CASE i # Npos
  <2>1. /\ idx' = i /\ parallel' = p /\ query_name' = n
        /\ next' = next /\ split' = split /\ added' = added
    BY <1>2 DEF GoOn, choreVars
  <2>2. sql' = sql
    BY <2>1 DEF sql
  <2>3. LoopInv'
    BY <1>2, <2>1, <2>2 DEF LoopInv
  <2>4. AnyOrder'
    BY <2>1 DEF PrefixInv, AnyOrder
  <2> QED
    BY <1>2, <2>1, <2>3, <2>4 DEF PrefixInv
<1> QED
  BY <1>1, <1>2

LEMMA PrefixStep == TypeOK /\ TypeOK' /\ PrefixInv /\ [Next]_intakeVars => PrefixInv'
<1> SUFFICES ASSUME TypeOK, TypeOK', PrefixInv, [Next]_intakeVars
             PROVE  PrefixInv'
  OBVIOUS
<1>1. ASSUME ChoreCli PROVE PrefixInv'
  <2>1. UNCHANGED added \/ \E q \in Text : addQuery(q)
    BY <1>1, IntakeAssumption DEF ChoreCli, Text
  <2> QED
    BY <1>1, <2>1, PrefixChores DEF ChoreCli
<1>2. ASSUME read_from_file PROVE PrefixInv'
  <2> DEFINE end == Cut(file, 1)
             query == IF end = Npos THEN file ELSE SubSeq(file, 1, end - 1)
  <2>1. /\ file \in Text /\ Len(file) \in Nat
        /\ end = Npos \/ end \in 1 .. Len(file)
    BY FirstCut, TextFacts DEF TypeOK, Text
  <2>2. query \in Text
    BY <2>1, PartOfText
  <2>3. IF Blank(query) THEN UNCHANGED added ELSE addQuery(query)
    BY <1>2 DEF read_from_file
  <2> HIDE DEF query
  <2> QED
    BY <1>2, <2>2, <2>3, PrefixChores DEF read_from_file
<1>3. ASSUME EndOfFile PROVE PrefixInv'
  BY <1>3, PrefixChores DEF EndOfFile
<1>4. ASSUME ReadLine PROVE PrefixInv'
  <2>1. UNCHANGED added \/ (lines # <<>> /\ addQuery(Head(lines)))
    BY <1>4 DEF ReadLine
  <2>2. lines # <<>> => Head(lines) \in Text
    BY DEF TypeOK, Text
  <2> QED
    BY <1>4, <2>1, <2>2, PrefixChores DEF ReadLine
<1>5. ASSUME processQuery PROVE PrefixInv'
  <2> DEFINE i == find_first_not_of(sql, 1)
  <2>1. next <= Len(added) /\ sql \in Text /\ Len(sql) \in Nat /\ Idle
    BY <1>5, SqlFacts DEF processQuery
  <2>2. \/ i = Npos /\ \A k \in 1 .. Len(sql) : sql[k] = Space
        \/ /\ i \in 1 .. Len(sql) /\ sql[i] # Space /\ i # Npos
           /\ \A k \in 1 .. i - 1 : sql[k] = Space
    BY <2>1, FirstNotSpace
  <2>3. CASE i = Npos
    <3>1. TakeNext(<<>>) /\ Blank(sql)
      BY <1>5, <2>3 DEF processQuery, Blank
    <3> QED
      BY <2>1, <3>1, PrefixTakeNext DEF Outcome
  <2>4. CASE i # Npos
    <3>1. /\ idx' = i /\ next' = next /\ parallel' = parallel /\ query_name' = query_name
          /\ split' = split /\ added' = added
      BY <1>5, <2>4 DEF processQuery, choreVars
    <3>2. sql' = sql
      BY <3>1 DEF sql
    <3>3. \A k \in 1 .. i - 1 : ~WordStart(sql, k)
      BY <2>2, <2>4 DEF WordStart
    <3>4. i - 1 \in 0 .. Len(sql) /\ 0 \in 0 .. Len(sql) /\ 0 + 1 = 1
      BY <2>1, <2>2, <2>4
    <3>5. Reading(sql)[i - 1] = Unread
      <4> HIDE DEF i
      <4> QED
        BY <2>1, <3>3, <3>4, ReadingStays, ReadingDef
    <3>6. WordStart(sql, i)
      <4>1. i = 1 \/ i - 1 \in 1 .. i - 1
        BY <2>1, <2>2, <2>4
      <4> QED
        BY <2>2, <2>4, <4>1 DEF WordStart
    <3>7. Unread = Before(parallel, query_name)
      <4>1. parallel = FALSE /\ query_name = <<>>
        <5>1. parallel \in BOOLEAN
          BY DEF TypeOK
        <5> QED
          BY <2>1, <5>1, Zenon DEF Idle
      <4> QED
        BY <4>1, Zenon DEF Unread, Before
    <3>8. LoopInv'
      <4> HIDE DEF i
      <4> QED
        BY <3>1, <3>2, <3>5, <3>6, <3>7 DEF LoopInv
    <3>9. AnyOrder'
      BY <3>1 DEF PrefixInv, AnyOrder
    <3> QED
      BY <2>4, <3>1, <3>8, <3>9 DEF PrefixInv
  <2> QED
    BY <2>3, <2>4
<1>6. ASSUME idx # Npos
      PROVE  /\ next <= Len(added) /\ sql \in Text /\ Len(sql) \in Nat
             /\ idx \in 1 .. Len(sql) /\ idx \in Nat
             /\ Separated(sql) =>
                  WordStart(sql, idx) /\ Reading(sql)[idx - 1] = Before(parallel, query_name)
  <2>1. next <= Len(added) /\ sql \in Text /\ Len(sql) \in Nat
    BY <1>6, SqlFacts DEF TypeOK, Npos
  <2>2. idx \in 1 .. Len(sql)
    BY <1>6, <2>1 DEF TypeOK, Npos, sql
  <2> QED
    BY <1>6, <2>1, <2>2 DEF PrefixInv, LoopInv
<1>7. ASSUME idx # Npos, Separated(sql), sql[idx] \in Keyword
       PROVE  /\ idx = Len(sql) \/ sql[idx + 1] = Space
              /\ sql[idx] = "PARALLEL" => Reading(sql)[idx] = Before(TRUE, query_name)
              /\ sql[idx] = "NAME" => Reading(sql)[idx] = Naming(parallel, query_name)
  <2>1. /\ sql \in Text /\ idx \in 1 .. Len(sql) /\ WordStart(sql, idx)
        /\ Reading(sql)[idx - 1] = Before(parallel, query_name)
    BY <1>6, <1>7
  <2> QED
    BY <1>7, <2>1, ReadsKeyword
<1>8. ASSUME PrefixParallel PROVE PrefixInv'
  <2> DEFINE f == find_first_not_of(sql, idx + 1)
  <2>1. idx # Npos /\ sql[idx] = "PARALLEL" /\ GoOn(f, TRUE, query_name)
    BY <1>8 DEF PrefixParallel
  <2>2. ASSUME Separated(sql)
        PROVE  \/ f = Npos /\ Reading(sql)[Len(sql)] = Before(TRUE, query_name)
               \/ /\ f # Npos /\ WordStart(sql, f)
                  /\ Reading(sql)[f - 1] = Before(TRUE, query_name)
    <3>1. /\ idx = Len(sql) \/ sql[idx + 1] = Space
          /\ Reading(sql)[idx] = Before(TRUE, query_name)
      <4>1. sql[idx] \in Keyword
        BY <2>1 DEF Keyword
      <4> QED
        BY <1>7, <2>1, <2>2, <4>1
    <3> QED
      BY <1>6, <2>1, <3>1, SkipsSpace
  <2> HIDE DEF f
  <2> QED
    BY <1>6, <2>1, <2>2, PrefixGoOn
<1>9. ASSUME PrefixName PROVE PrefixInv'
  <2> DEFINE from == find_first_not_of(sql, idx + 1)
             end == find_first_of(sql, from)
             f == find_first_not_of(sql, end)
  <2>1. /\ idx # Npos /\ sql[idx] = "NAME"
        /\ from = Npos => GoOn(Npos, parallel, query_name)
        /\ from # Npos /\ end = Npos => GoOn(Npos, parallel, substr(sql, from))
        /\ from # Npos /\ end # Npos => GoOn(f, parallel, SubSeq(sql, from, end - 1))
    BY <1>9 DEF PrefixName, GoOn
  <2>2. ASSUME Separated(sql)
        PROVE  \/ from = Npos /\ Reading(sql)[Len(sql)] = Naming(parallel, query_name)
               \/ /\ from # Npos /\ from \in 1 .. Len(sql) /\ WordStart(sql, from)
                  /\ Reading(sql)[from - 1] = Naming(parallel, query_name)
    <3>1. /\ idx = Len(sql) \/ sql[idx + 1] = Space
          /\ Reading(sql)[idx] = Naming(parallel, query_name)
      <4>1. sql[idx] \in Keyword
        BY <2>1 DEF Keyword
      <4> QED
        BY <1>7, <2>1, <2>2, <4>1
    <3> QED
      BY <1>6, <2>1, <3>1, SkipsSpace
  <2>3. CASE from = Npos
    <3>1. Separated(sql) => Reading(sql)[Len(sql)] = Naming(parallel, query_name)
      BY <2>2, <2>3
    <3> HIDE DEF from
    <3> QED
      BY <1>6, <2>1, <2>3, <3>1, PrefixGoOn
  <2>4. CASE from # Npos
    <3>1. ASSUME Separated(sql)
          PROVE  \/ /\ end = Npos
                    /\ Reading(sql)[Len(sql)] = Before(parallel, substr(sql, from))
                 \/ /\ end # Npos /\ end \in 1 .. Len(sql) /\ sql[end] = Space
                    /\ end - 1 \in 1 .. Len(sql)
                    /\ Reading(sql)[end - 1] = Before(parallel, SubSeq(sql, from, end - 1))
      <4> HIDE DEF from
      <4> QED
        BY <1>6, <2>1, <2>2, <2>4, <3>1, ReadsName
    <3>2. CASE end = Npos
      <4>1. GoOn(Npos, parallel, substr(sql, from))
        BY <2>1, <2>4, <3>2
      <4>2. Separated(sql) => Reading(sql)[Len(sql)] = Before(parallel, substr(sql, from))
        BY <3>1, <3>2
      <4> HIDE DEF from, end
      <4> QED
        BY <1>6, <2>1, <4>1, <4>2, PrefixGoOn
    <3>3. CASE end # Npos
      <4> DEFINE n == SubSeq(sql, from, end - 1)
      <4>1. GoOn(f, parallel, n)
        BY <2>1, <2>4, <3>3
      <4>2. ASSUME Separated(sql)
            PROVE  \/ f = Npos /\ Reading(sql)[Len(sql)] = Before(parallel, n)
                   \/ f # Npos /\ WordStart(sql, f) /\ Reading(sql)[f - 1] = Before(parallel, n)
        <5> DEFINE e == end - 1
        <5>1. /\ end \in Nat /\ sql[end] = Space /\ e \in 1 .. Len(sql)
              /\ Reading(sql)[e] = Before(parallel, n)
          BY <3>1, <3>3, <4>2
        <5>2. e + 1 = end
          BY <5>1
        <5>3. f = find_first_not_of(sql, e + 1)
          BY <5>2
        <5> HIDE DEF e, f, n, end
        <5> QED
          BY <1>6, <2>1, <5>1, <5>2, <5>3, SkipsSpace
      <4> HIDE DEF f, n
      <4> QED
        BY <1>6, <2>1, <4>1, <4>2, PrefixGoOn
    <3> QED
      BY <3>2, <3>3
  <2> QED
    BY <2>3, <2>4
<1>10. ASSUME NoPrefix PROVE PrefixInv'
  <2> DEFINE r == [parallel |-> parallel, name |-> query_name, sql |-> substr(sql, idx)]
  <2>1. idx # Npos /\ sql[idx] \notin Keyword /\ TakeNext(<<r>>)
    BY <1>10 DEF NoPrefix, Keyword, Translate
  <2>2. ASSUME Separated(sql) PROVE <<r>> = Outcome(sql)
    <3>1. ByWords(sql) = r
      BY <1>6, <2>1, <2>2, ReadsStatement
    <3>2. ~Blank(sql)
      BY <1>6, <2>1, <2>2, BlankFacts DEF WordStart
    <3> QED
      BY <3>1, <3>2 DEF Outcome
  <2> HIDE DEF r
  <2> QED
    BY <1>6, <2>1, <2>2, PrefixTakeNext
<1>11. ASSUME UNCHANGED intakeVars PROVE PrefixInv'
  BY <1>11, PrefixChores DEF intakeVars, workerVars
<1> QED
  BY <1>1, <1>2, <1>3, <1>4, <1>5, <1>8, <1>9, <1>10, <1>11 DEF Next

(* For every text in the README's form, of any length and however many        *)
(* prefixes it has, the loop of processQuery finds what reading it word by    *)
(* word finds, and starts the next text with nothing left over.               *)
THEOREM PrefixesByWordsHolds == Spec => []PrefixesByWords
<1>1. Init => PrefixInv
  BY PrefixInit
<1>2. TypeOK /\ TypeOK' /\ PrefixInv /\ [Next]_intakeVars => PrefixInv'
  BY PrefixStep
<1>3. PrefixInv => PrefixesByWords
  BY DEF PrefixInv, AnyOrder, PrefixesByWords
<1> QED
  BY <1>1, <1>2, <1>3, IntakeTypeCorrect, PTL DEF Spec

-----------------------------------------------------------------------------
(* The pieces of the file *)

IsAfter(s, n, g) ==
  g = [j \in 0 .. n |-> IF j = 0 THEN <<>> ELSE WithPiece(s, g[j - 1], Len(s) - j + 1)]

LEMMA AfterDef ==
  ASSUME NEW s \in Text
  PROVE  /\ After(s)[0] = <<>>
         /\ \A j \in 1 .. Len(s) :
              After(s)[j] = WithPiece(s, After(s)[j - 1], Len(s) - j + 1)
<1> DEFINE T == {n \in Nat : ~\E g : IsAfter(s, n, g)}
<1>1. ASSUME T # {} PROVE FALSE
  <2>1. PICK x \in T : \A y \in T : x <= y
    <3>1. T \in SUBSET Nat
      OBVIOUS
    <3> HIDE DEF T
    <3> QED
      BY <1>1, <3>1, LeastNumber
  <2>2. x \in Nat /\ ~\E g : IsAfter(s, x, g)
    BY <2>1
  <2>3. CASE x = 0
    <3> DEFINE g == [k \in 0 .. 0 |-> <<>>]
    <3>1. IsAfter(s, 0, g)
      BY DEF IsAfter
    <3> QED
      BY <2>2, <2>3, <3>1
  <2>4. CASE x # 0
    <3>1. x - 1 \in Nat /\ x - 1 \notin T
      BY <2>1, <2>2, <2>4
    <3>2. PICK g : IsAfter(s, x - 1, g)
      BY <3>1
    <3> DEFINE last == WithPiece(s, g[x - 1], Len(s) - x + 1)
               h == [k \in 0 .. x |-> IF k \in 0 .. x - 1 THEN g[k] ELSE last]
    <3>3. ASSUME NEW j \in 0 .. x
          PROVE  h[j] = IF j = 0 THEN <<>> ELSE WithPiece(s, h[j - 1], Len(s) - j + 1)
      BY <2>2, <2>4, <3>2 DEF IsAfter
    <3>4. IsAfter(s, x, h)
      BY <3>3 DEF IsAfter
    <3> QED
      BY <2>2, <3>4
  <2> QED
    BY <2>3, <2>4
<1>2. Len(s) \in Nat
  BY TextFacts
<1>3. \E g : IsAfter(s, Len(s), g)
  BY <1>1, <1>2
<1>4. IsAfter(s, Len(s), After(s))
  BY <1>3 DEF IsAfter, After
<1> QED
  BY <1>2, <1>4 DEF IsAfter

LEMMA PieceFacts ==
  ASSUME NEW s \in Text, NEW k \in 1 .. Len(s)
  PROVE  /\ PieceFrom(s, k) \in Text
         /\ Cut(s, k) = Npos => PieceFrom(s, k) = SubSeq(s, k, Len(s))
         /\ Cut(s, k) # Npos => PieceFrom(s, k) = SubSeq(s, k, Cut(s, k) - 1)
<1> DEFINE e == Cut(s, k)
<1>1. Len(s) \in Nat /\ k \in Nat /\ (e = Npos \/ e \in k .. Len(s))
  BY TextFacts, FirstCut
<1>2. PieceFrom(s, k) = SubSeq(s, k, IF e = Npos THEN Len(s) ELSE e - 1)
  BY DEF PieceFrom
<1> HIDE DEF e
<1>3. PieceFrom(s, k) \in Text
  BY <1>1, <1>2, PartOfText
<1> QED
  BY <1>2, <1>3 DEF e

LEMMA AfterType ==
  ASSUME NEW s \in Text, NEW j \in 0 .. Len(s)
  PROVE  After(s)[j] \in Seq(Text)
<1> DEFINE T == {k \in 0 .. Len(s) : After(s)[k] \notin Seq(Text)}
<1>0. Len(s) \in Nat
  BY TextFacts
<1>1. ASSUME T # {} PROVE FALSE
  <2>1. PICK x \in T : \A y \in T : x <= y
    <3>1. T \in SUBSET Nat
      BY <1>0
    <3> HIDE DEF T
    <3> QED
      BY <1>1, <3>1, LeastNumber
  <2>2. x \in 0 .. Len(s) /\ After(s)[x] \notin Seq(Text)
    BY <2>1
  <2>3. x # 0
    <3>1. <<>> \in Seq(Text)
      OBVIOUS
    <3> QED
      BY <2>2, <3>1, AfterDef
  <2>4. x - 1 \in 0 .. Len(s) /\ ~(x <= x - 1) /\ x \in 1 .. Len(s) /\ Len(s) - x + 1 \in 1 .. Len(s)
    BY <1>0, <2>2, <2>3
  <2>5. After(s)[x - 1] \in Seq(Text)
    BY <2>1, <2>4
  <2>6. <<PieceFrom(s, Len(s) - x + 1)>> \in Seq(Text)
    BY <2>4, PieceFacts
  <2>7. <<PieceFrom(s, Len(s) - x + 1)>> \o After(s)[x - 1] \in Seq(Text)
    BY <2>5, <2>6, ConcatProperties
  <2> QED
    BY <2>2, <2>4, <2>5, <2>7, AfterDef DEF WithPiece
<1> QED
  BY <1>1

\* Where no piece begins nothing is collected.
LEMMA AfterStays ==
  ASSUME NEW s \in Text, NEW i \in 0 .. Len(s), NEW j \in i .. Len(s),
         \A k \in 1 .. Len(s) : Len(s) - j + 1 <= k /\ k <= Len(s) - i => ~PieceStart(s, k)
  PROVE  After(s)[j] = After(s)[i]
<1> DEFINE T == {k \in i .. j : After(s)[k] # After(s)[i]}
<1>0. Len(s) \in Nat
  BY TextFacts
<1>1. ASSUME T # {} PROVE FALSE
  <2>1. PICK x \in T : \A y \in T : x <= y
    <3>1. T \in SUBSET Nat
      BY <1>0
    <3> HIDE DEF T
    <3> QED
      BY <1>1, <3>1, LeastNumber
  <2>2. x \in i .. j /\ After(s)[x] # After(s)[i] /\ x # i
    BY <2>1
  <2>3. /\ x - 1 \in i .. j /\ x \in 1 .. Len(s) /\ ~(x <= x - 1)
        /\ Len(s) - x + 1 \in 1 .. Len(s)
        /\ Len(s) - j + 1 <= Len(s) - x + 1 /\ Len(s) - x + 1 <= Len(s) - i
    BY <1>0, <2>2
  <2>4. After(s)[x - 1] = After(s)[i]
    BY <2>1, <2>3
  <2>5. ~PieceStart(s, Len(s) - x + 1)
    BY <2>3
  <2>6. After(s)[x] = After(s)[x - 1]
    BY <2>3, <2>5, AfterDef DEF WithPiece
  <2> QED
    BY <2>2, <2>4, <2>6
<1>2. j \in i .. j
  BY <1>0
<1> QED
  BY <1>1, <1>2

\* What is left behind a semicolon has its pieces where the text has them.
LEMMA SuffixPiece ==
  ASSUME NEW s \in Text, NEW e \in 1 .. Len(s), s[e] = Semicolon,
         NEW g, g = SubSeq(s, e + 1, Len(s)), NEW k \in 1 .. Len(g)
  PROVE  /\ g \in Text /\ Len(g) = Len(s) - e /\ e + k \in 1 .. Len(s)
         /\ PieceFrom(g, k) = PieceFrom(s, e + k)
         /\ PieceStart(g, k) <=> PieceStart(s, e + k)
<1>1. Len(s) \in Nat /\ e \in Nat
  BY TextFacts
<1>2. /\ g \in Text /\ Len(g) = Len(s) - e
      /\ \A m \in 1 .. Len(s) - e : g[m] = s[e + m]
  <2>1. /\ g \in Text /\ Len(g) = IF e + 1 <= Len(s) THEN Len(s) - (e + 1) + 1 ELSE 0
        /\ \A m \in 1 .. Len(s) - (e + 1) + 1 : g[m] = s[(e + 1) + m - 1]
    BY <1>1, PartOfText
  <2>2. Len(s) - (e + 1) + 1 = Len(s) - e
    BY <1>1
  <2>3. Len(g) = Len(s) - e
    BY <1>1, <2>1
  <2>4. ASSUME NEW m \in 1 .. Len(s) - e PROVE g[m] = s[e + m]
    <3>1. (e + 1) + m - 1 = e + m
      BY <1>1
    <3> QED
      BY <2>1, <2>2, <3>1
  <2> QED
    BY <2>1, <2>3, <2>4
<1>3. k \in Nat /\ k >= 1 /\ k <= Len(s) - e /\ e + k \in 1 .. Len(s) /\ e + k \in Nat /\ e + k >= 1
  BY <1>1, <1>2
<1> DEFINE c == Cut(g, k)
           d == Cut(s, e + k)
<1>4. \/ c = Npos /\ \A m \in k .. Len(g) : g[m] # Semicolon
      \/ /\ c \in k .. Len(g) /\ g[c] = Semicolon /\ c # Npos
         /\ \A m \in k .. c - 1 : g[m] # Semicolon
  BY <1>2, <1>3, FirstCut
<1>5. \/ d = Npos /\ \A m \in e + k .. Len(s) : s[m] # Semicolon
      \/ /\ d \in e + k .. Len(s) /\ s[d] = Semicolon /\ d # Npos
         /\ \A m \in e + k .. d - 1 : s[m] # Semicolon
  BY <1>3, FirstCut
<1> HIDE DEF c, d
<1>6. \/ c = Npos /\ d = Npos
      \/ c # Npos /\ d = e + c /\ c \in k .. Len(g) /\ d # Npos
  <2>1. CASE c = Npos
    <3>1. ASSUME d # Npos PROVE FALSE
      <4>1. d \in e + k .. Len(s) /\ s[d] = Semicolon
        BY <1>5, <3>1
      <4>2. d - e \in k .. Len(g) /\ d - e \in 1 .. Len(s) - e /\ e + (d - e) = d
        BY <1>1, <1>2, <1>3, <4>1
      <4>3. g[d - e] = Semicolon
        BY <1>2, <4>1, <4>2
      <4> QED
        BY <1>4, <2>1, <4>2, <4>3
    <3> QED
      BY <2>1, <3>1
  <2>2. CASE c # Npos
    <3>1. /\ c \in k .. Len(g) /\ g[c] = Semicolon
          /\ \A m \in k .. c - 1 : g[m] # Semicolon
      BY <1>4, <2>2
    <3>2. c \in 1 .. Len(s) - e /\ e + c \in e + k .. Len(s)
      BY <1>1, <1>2, <1>3, <3>1
    <3>3. s[e + c] = Semicolon
      BY <1>2, <3>1, <3>2
    <3>4. d # Npos /\ d \in e + k .. Len(s) /\ s[d] = Semicolon
      BY <1>5, <3>2, <3>3
    <3>5. d <= e + c
      BY <1>1, <1>3, <1>5, <3>2, <3>3, <3>4
    <3>6. ASSUME d < e + c PROVE FALSE
      <4>1. d - e \in k .. c - 1 /\ d - e \in 1 .. Len(s) - e /\ e + (d - e) = d
        BY <1>1, <1>3, <3>2, <3>4, <3>6
      <4>2. g[d - e] = Semicolon
        BY <1>2, <3>4, <4>1
      <4> QED
        BY <3>1, <4>1, <4>2
    <3>7. d = e + c
      BY <1>1, <3>2, <3>4, <3>5, <3>6
    <3> QED
      BY <2>2, <3>1, <3>4, <3>7
  <2> QED
    BY <2>1, <2>2
<1> DEFINE l == IF c = Npos THEN Len(g) ELSE c - 1
<1>7. /\ l \in Nat /\ l <= Len(g) /\ e + l <= Len(s) /\ e + l \in Nat
      /\ PieceFrom(g, k) = SubSeq(g, k, l) /\ PieceFrom(s, e + k) = SubSeq(s, e + k, e + l)
  <2>1. CASE c = Npos
    <3>1. l = Len(g) /\ e + l = Len(s)
      BY <1>1, <1>2, <2>1
    <3>2. PieceFrom(g, k) = SubSeq(g, k, Len(g))
      BY <1>2, <2>1, PieceFacts DEF c
    <3>3. PieceFrom(s, e + k) = SubSeq(s, e + k, Len(s))
      BY <1>3, <1>6, <2>1, PieceFacts DEF d
    <3>4. Len(g) \in Nat
      BY <1>1, <1>2
    <3> HIDE DEF l
    <3>5. /\ l \in Nat /\ l <= Len(g)
          /\ e + l <= Len(s) /\ e + l \in Nat
      <4>1. Len(s) \in Nat
        BY <1>1
      <4> QED
        BY <3>1, <3>4, <4>1
    <3>6. PieceFrom(g, k) = SubSeq(g, k, l)
      BY <3>1, <3>2, Zenon
    <3>7. PieceFrom(s, e + k) = SubSeq(s, e + k, e + l)
      BY <3>1, <3>3, Zenon
    <3> QED
      BY <3>5, <3>6, <3>7, Zenon
  <2>2. CASE c # Npos
    <3>1. l = c - 1 /\ e + l = d - 1 /\ l \in Nat /\ l <= Len(g) /\ e + l <= Len(s) /\ e + l \in Nat
      BY <1>1, <1>2, <1>3, <1>6, <2>2
    <3> QED
      BY <1>2, <1>3, <1>6, <2>2, <3>1, PieceFacts DEF c, d
  <2> QED
    BY <2>1, <2>2
<1> HIDE DEF l
<1>8. PieceFrom(g, k) = PieceFrom(s, e + k)
  <2> DEFINE a == SubSeq(g, k, l)
             b == SubSeq(s, e + k, e + l)
  <2>1. /\ a \in Text /\ Len(a) = (IF k <= l THEN l - k + 1 ELSE 0)
        /\ \A m \in 1 .. l - k + 1 : a[m] = g[k + m - 1]
    <3>1. g \in Text /\ k \in Nat /\ k >= 1 /\ l \in Nat /\ l <= Len(g)
      BY <1>2, <1>3, <1>7
    <3>2. SubSeq(g, k, l) \in Text
      BY <3>1, PartOfText
    <3>3. Len(SubSeq(g, k, l)) = IF k <= l THEN l - k + 1 ELSE 0
      BY <3>1, PartOfText
    <3>4. \A m \in 1 .. l - k + 1 : SubSeq(g, k, l)[m] = g[k + m - 1]
      BY <3>1, PartOfText
    <3> QED
      BY <3>2, <3>3, <3>4
  <2>2. /\ b \in Text /\ Len(b) = (IF e + k <= e + l THEN e + l - (e + k) + 1 ELSE 0)
        /\ \A m \in 1 .. e + l - (e + k) + 1 : b[m] = s[(e + k) + m - 1]
    BY <1>3, <1>7, PartOfText
  <2>3. Len(a) = Len(b)
    BY <1>1, <1>3, <1>7, <2>1, <2>2
  <2>4. ASSUME NEW m \in 1 .. Len(a) PROVE a[m] = b[m]
    <3>1. /\ m \in 1 .. l - k + 1 /\ m \in 1 .. e + l - (e + k) + 1
          /\ k + m - 1 \in 1 .. Len(s) - e /\ e + (k + m - 1) = (e + k) + m - 1
      BY <1>1, <1>2, <1>3, <1>7, <2>1
    <3> QED
      BY <1>2, <2>1, <2>2, <3>1
  <2> HIDE DEF a, b
  <2>5. a = b
    BY <2>1, <2>2, <2>3, <2>4, SeqEqual DEF Text
  <2> QED
    BY <1>7, <2>5 DEF a, b
<1>9. (k = 1 \/ g[k - 1] = Semicolon) <=> (e + k = 1 \/ s[e + k - 1] = Semicolon)
  <2>1. CASE k = 1
    <3>1. e + k - 1 = e
      BY <1>1, <2>1
    <3> QED
      BY <2>1, <3>1
  <2>2. CASE k # 1
    <3>1. k - 1 \in 1 .. Len(s) - e /\ e + (k - 1) = e + k - 1 /\ e + k # 1
      BY <1>1, <1>3, <2>2
    <3> QED
      BY <1>2, <2>2, <3>1
  <2> QED
    BY <2>1, <2>2
<1> QED
  BY <1>2, <1>3, <1>8, <1>9 DEF PieceStart

LEMMA SuffixPieces ==
  ASSUME NEW s \in Text, NEW e \in 1 .. Len(s), s[e] = Semicolon,
         NEW g, g = SubSeq(s, e + 1, Len(s))
  PROVE  Pieces(g) = After(s)[Len(s) - e]
<1>1. Len(s) \in Nat /\ e \in Nat
  BY TextFacts
<1>2. g \in Text /\ Len(g) = Len(s) - e /\ Len(g) \in Nat
  BY <1>1, PartOfText
<1> DEFINE T == {k \in 0 .. Len(g) : After(g)[k] # After(s)[k]}
<1>3. ASSUME T # {} PROVE FALSE
  <2>1. PICK x \in T : \A y \in T : x <= y
    <3>1. T \in SUBSET Nat
      BY <1>2
    <3> HIDE DEF T
    <3> QED
      BY <1>3, <3>1, LeastNumber
  <2>2. x \in 0 .. Len(g) /\ After(g)[x] # After(s)[x]
    BY <2>1
  <2>3. x # 0
    BY <1>2, <2>2, AfterDef
  <2> DEFINE k == Len(g) - x + 1
  <2>4. /\ x - 1 \in 0 .. Len(g) /\ ~(x <= x - 1) /\ x \in 1 .. Len(g) /\ x \in 1 .. Len(s)
        /\ k \in 1 .. Len(g) /\ Len(s) - x + 1 = e + k
    BY <1>1, <1>2, <2>2, <2>3
  <2>5. After(g)[x - 1] = After(s)[x - 1]
    BY <2>1, <2>4
  <2>6. After(g)[x] = WithPiece(g, After(g)[x - 1], k)
    BY <1>2, <2>4, AfterDef
  <2>7. After(s)[x] = WithPiece(s, After(s)[x - 1], e + k)
    BY <2>4, AfterDef
  <2> HIDE DEF k
  <2>8. PieceFrom(g, k) = PieceFrom(s, e + k) /\ (PieceStart(g, k) <=> PieceStart(s, e + k))
    BY <2>4, SuffixPiece
  <2> QED
    BY <2>2, <2>5, <2>6, <2>7, <2>8 DEF WithPiece
<1>4. Len(g) \in 0 .. Len(g)
  BY <1>2
<1>5. After(g)[Len(g)] = After(s)[Len(g)]
  BY <1>3, <1>4
<1> QED
  BY <1>2, <1>5 DEF Pieces

\* The piece read_from_file takes is the first of the file's pieces, unless it
\* is blank, and what it leaves behind holds the others.
LEMMA FirstPiece ==
  ASSUME NEW s \in Text, s # <<>>
  PROVE  LET e == Cut(s, 1)
             p == IF e = Npos THEN s ELSE SubSeq(s, 1, e - 1)
             g == IF e = Npos THEN <<>> ELSE SubSeq(s, e + 1, Len(s))
         IN  /\ Pieces(g) \in Seq(Text)
             /\ Pieces(s) = IF Blank(p) THEN Pieces(g) ELSE <<p>> \o Pieces(g)
<1> DEFINE e == Cut(s, 1)
           p == IF e = Npos THEN s ELSE SubSeq(s, 1, e - 1)
           g == IF e = Npos THEN <<>> ELSE SubSeq(s, e + 1, Len(s))
           r == IF e = Npos THEN 0 ELSE Len(s) - e
<1>1. Len(s) \in Nat /\ Len(s) >= 1 /\ 1 \in 1 .. Len(s)
  <2>1. Len(s) \in Nat
    BY TextFacts
  <2>2. Len(s) # 0
    BY EmptySeq DEF Text
  <2> QED
    BY <2>1, <2>2
<1>2. \/ e = Npos /\ \A m \in 1 .. Len(s) : s[m] # Semicolon
      \/ /\ e \in 1 .. Len(s) /\ s[e] = Semicolon /\ e # Npos
         /\ \A m \in 1 .. e - 1 : s[m] # Semicolon
  BY <1>1, FirstCut
<1>3. p = PieceFrom(s, 1)
  <2>1. s = SubSeq(s, 1, Len(s))
    BY <1>1, SubSeqFull DEF Text
  <2>2. e = Npos => PieceFrom(s, 1) = SubSeq(s, 1, Len(s))
    BY <1>1, PieceFacts
  <2>3. e # Npos => PieceFrom(s, 1) = SubSeq(s, 1, e - 1)
    BY <1>1, PieceFacts
  <2> HIDE DEF e
  <2> QED
    BY <2>1, <2>2, <2>3
<1>4. r \in 0 .. Len(s) - 1 /\ Pieces(g) = After(s)[r]
  <2>1. CASE e = Npos
    <3>1. g = <<>> /\ r = 0
      BY <2>1
    <3>2. Pieces(<<>>) = <<>>
      <4>1. <<>> \in Text /\ Len(<<>>) = 0
        BY DEF Text
      <4> QED
        BY <4>1, AfterDef DEF Pieces
    <3>3. After(s)[0] = <<>>
      BY <1>1, AfterDef
    <3> HIDE DEF g, r, e
    <3> QED
      BY <1>1, <3>1, <3>2, <3>3
  <2>2. CASE e # Npos
    <3>1. g = SubSeq(s, e + 1, Len(s)) /\ r = Len(s) - e /\ e \in 1 .. Len(s) /\ s[e] = Semicolon
      BY <1>2, <2>2
    <3> HIDE DEF g, r, e
    <3>2. Pieces(g) = After(s)[Len(s) - e]
      BY <3>1, SuffixPieces
    <3> QED
      BY <1>1, <3>1, <3>2
  <2> QED
    BY <2>1, <2>2
<1>5. \A k \in 1 .. Len(s) : Len(s) - (Len(s) - 1) + 1 <= k /\ k <= Len(s) - r => ~PieceStart(s, k)
  <2> SUFFICES ASSUME NEW k \in 1 .. Len(s), Len(s) - (Len(s) - 1) + 1 <= k, k <= Len(s) - r
               PROVE  k # 1 /\ s[k - 1] # Semicolon
    BY DEF PieceStart
  <2>1. k >= 2 /\ k - 1 \in 1 .. Len(s)
    BY <1>1
  <2>2. e # Npos => k - 1 \in 1 .. e - 1
    BY <1>1, <1>2, <2>1
  <2> HIDE DEF r, e
  <2> QED
    BY <1>2, <2>1, <2>2
<1> HIDE DEF r, e, g, p
<1>6. After(s)[Len(s) - 1] = After(s)[r]
  <2>1. r \in 0 .. Len(s) /\ Len(s) - 1 \in r .. Len(s)
    BY <1>1, <1>4
  <2> QED
    BY <1>5, <2>1, AfterStays
<1>7. Pieces(s) = WithPiece(s, After(s)[Len(s) - 1], 1)
  <2>1. Len(s) \in 0 .. Len(s) /\ Len(s) # 0 /\ Len(s) - Len(s) + 1 = 1
    BY <1>1
  <2>2. After(s)[Len(s)] = WithPiece(s, After(s)[Len(s) - 1], Len(s) - Len(s) + 1)
    BY <2>1, AfterDef
  <2> QED
    BY <2>1, <2>2 DEF Pieces
<1>8. PieceStart(s, 1) <=> ~Blank(p)
  BY <1>3 DEF PieceStart
<1>9. Pieces(g) \in Seq(Text)
  BY <1>1, <1>4, AfterType
<1>10. Pieces(s) = IF Blank(p) THEN Pieces(g) ELSE <<p>> \o Pieces(g)
  BY <1>3, <1>4, <1>6, <1>7, <1>8 DEF WithPiece
<1> QED
  BY <1>9, <1>10 DEF p, g, e

\* What a step adds while the file is read are pieces taken off the file.
HandedOver ==
  chore = "file" => Pieces(file) = SubSeq(added', Len(added) + 1, Len(added')) \o Pieces(file')

LEMMA NothingAdded ==
  ASSUME TypeOK, added' = added, file' = file
  PROVE  HandedOver
<1>1. file \in Text /\ added \in Seq(Text)
  BY DEF TypeOK, Text
<1>2. Len(added) \in Nat /\ Len(file) \in Nat /\ Len(file) \in 0 .. Len(file)
  BY <1>1, TextFacts
<1>3. SubSeq(added, Len(added) + 1, Len(added)) = <<>>
  BY <1>2, SubSeqEmpty
<1>4. Pieces(file) \in Seq(Text)
  BY <1>1, <1>2, AfterType DEF Pieces
<1>5. <<>> \o Pieces(file) = Pieces(file)
  BY <1>4, ConcatEmptySeq
<1> QED
  BY <1>3, <1>5 DEF HandedOver

LEMMA PieceRead ==
  ASSUME NEW s \in Text, s # <<>>
  PROVE  (IF Cut(s, 1) = Npos THEN s ELSE SubSeq(s, 1, Cut(s, 1) - 1)) \in Text
<1>1. Len(s) \in Nat /\ (Cut(s, 1) = Npos \/ Cut(s, 1) \in 1 .. Len(s))
  BY TextFacts, FirstCut
<1>2. ASSUME Cut(s, 1) # Npos PROVE SubSeq(s, 1, Cut(s, 1) - 1) \in Text
  <2>1. Cut(s, 1) - 1 \in Nat /\ Cut(s, 1) - 1 <= Len(s)
    BY <1>1, <1>2
  <2> QED
    BY <2>1, PartOfText
<1> QED
  BY <1>2

LEMMA HandOverStep ==
  ASSUME TypeOK, [Next]_intakeVars
  PROVE  HandedOver
<1>1. CASE chore # "file"
  BY <1>1 DEF HandedOver
<1>2. CASE chore = "file" /\ read_from_file
  <2> DEFINE e == Cut(file, 1)
             p == IF e = Npos THEN file ELSE SubSeq(file, 1, e - 1)
             g == IF e = Npos THEN <<>> ELSE SubSeq(file, e + 1, Len(file))
  <2>1. /\ file \in Text /\ file # <<>> /\ file' = g /\ added \in Seq(Text)
        /\ IF Blank(p) THEN added' = added ELSE added' = Append(added, p)
    BY <1>2 DEF read_from_file, addQuery, TypeOK, Text
  <2>2. /\ Pieces(g) \in Seq(Text)
        /\ Pieces(file) = IF Blank(p) THEN Pieces(g) ELSE <<p>> \o Pieces(g)
    BY <2>1, FirstPiece
  <2> HIDE DEF p, g, e
  <2>3. Len(added) \in Nat
    BY <2>1
  <2>4. CASE Blank(p)
    <3>1. SubSeq(added, Len(added) + 1, Len(added)) = <<>>
      BY <2>3, SubSeqEmpty
    <3>2. <<>> \o Pieces(g) = Pieces(g)
      BY <2>2, ConcatEmptySeq
    <3> QED
      BY <2>1, <2>2, <2>4, <3>1, <3>2 DEF HandedOver
  <2>5. CASE ~Blank(p)
    <3>1. added' = Append(added, p) /\ Pieces(file) = <<p>> \o Pieces(g)
      BY <2>1, <2>2, <2>5
    <3>2. SubSeq(Append(added, p), Len(added) + 1, Len(Append(added, p))) = <<p>>
      <4>1. p \in Text
        BY <2>1, PieceRead DEF p, e
      <4> DEFINE a == Append(added, p)
                 t == SubSeq(a, Len(added) + 1, Len(added) + 1)
      <4>2. a \in Seq(Text) /\ Len(a) = Len(added) + 1 /\ a[Len(added) + 1] = p
        BY <2>1, <4>1, AppendProperties
      <4>3. \A k \in Len(added) + 1 .. Len(added) + 1 : a[k] \in Text
        BY <2>3, <4>1, <4>2
      <4> HIDE DEF a
      <4>4. /\ t \in Seq(Text) /\ Len(t) = 1
            /\ \A k \in 1 .. (Len(added) + 1) - (Len(added) + 1) + 1 :
                 t[k] = a[(Len(added) + 1) + k - 1]
        BY <2>3, <4>3, SubSeqProperties
      <4>5. t[1] = p
        BY <2>3, <4>2, <4>4
      <4> HIDE DEF t
      <4>6. t = <<p>>
        BY <4>4, <4>5
      <4> QED
        BY <4>2, <4>6 DEF t, a
    <3> QED
      BY <2>1, <3>1, <3>2 DEF HandedOver
  <2> QED
    BY <2>4, <2>5
<1>3. CASE chore = "file" /\ ~read_from_file
  <2>1. added' = added /\ file' = file
    BY <1>3 DEF Next, ChoreCli, EndOfFile, ReadLine, processQuery, PrefixParallel, PrefixName,
                NoPrefix, GoOn, Translate, TakeNext, choreVars, intakeVars
  <2> QED
    BY <2>1, NothingAdded
<1> QED
  BY <1>1, <1>2, <1>3

(* OptimizerUnit's read_from_file hands over the statements of the file: in   *)
(* every step between the command line's query and the prompt, the pieces     *)
(* between semicolons of what the file still holds are the texts the step     *)
(* adds followed by the pieces of what it leaves, for every file.             *)
THEOREM FileHandedOverHolds == Spec => FileHandedOver
<1>1. TypeOK /\ [Next]_intakeVars => HandedOver
  BY HandOverStep
<1>2. Spec => []TypeOK
  BY IntakeTypeCorrect
<1> QED
  BY <1>1, <1>2, PTL DEF Spec, FileHandedOver, HandedOver

=============================================================================
