-------------------------- MODULE DocumentsProofs --------------------------
(***************************************************************************)
(* Proofs about the documents of replies and reports: that a JSON parser   *)
(* takes what the encoders write, and that it tells what was asked for and *)
(* what the switch has.  A text is followed through its parser: Paths are  *)
(* the texts that take the parser from some open brackets to others, and   *)
(* ToldIn and Entries the entries of a text.  Every encoder of ReportText, *)
(* BstDocuments, DropDocuments and PacketDocuments gets one lemma, which   *)
(* says which brackets its text opens and closes and what it tells.        *)
(***************************************************************************)
EXTENDS RequestsProofs, FiniteSetTheorems

(***************************************************************************)
(* Sequences that are joined.                                              *)
(***************************************************************************)
\* FlattenSeq joins the sequences one after the other.
LEMMA FlattenIs ==
  ASSUME NEW S, NEW seqs \in Seq(Seq(S))
  PROVE  \E f \in [0 .. Len(seqs) -> Seq(S)] :
            /\ f[0] = << >> /\ \A i \in 1 .. Len(seqs) : f[i] = f[i - 1] \o seqs[i]
            /\ FlattenSeq(seqs) = f[Len(seqs)]
<1> DEFINE n == Len(seqs)
           step == [p \in (1 .. n) \X Seq(S) |-> p[2] \o seqs[p[1]]]
<1>0. n \in Nat
  OBVIOUS
<1>1. n \in Nat /\ \A i \in 1 .. n : seqs[i] \in Seq(S)
  OBVIOUS
<1>2. step \in [(1 .. n) \X Seq(S) -> Seq(S)]
  BY <1>1
<1>3. PICK f \in [0 .. n -> Seq(S)] : f[0] = << >> /\ \A i \in 1 .. n : f[i] = step[<<i, f[i - 1]>>]
  <2>1. << >> \in Seq(S)
    OBVIOUS
  <2> DEFINE Y == Seq(S)
             none == << >>
  <2>2. step \in StepsOn(n, Y) /\ none \in Y
    BY <1>2, <2>1 DEF StepsOn
  <2> HIDE DEF n, step, Y, none
  <2>3. PICK f : f \in Recursion(n, Y, none, step)
    BY <1>0, <2>2, RecursionExists
  <2> QED BY <2>3 DEF Y, none, Recursion
<1>4. ASSUME NEW i \in 1 .. n PROVE f[i] = f[i - 1] \o seqs[i]
  <2>1. i - 1 \in 0 .. n
    BY <1>0
  <2>2. f[i - 1] \in Seq(S)
    BY <1>3, <2>1
  <2>3. step[<<i, f[i - 1]>>] = f[i - 1] \o seqs[i]
    BY <2>2
  <2> HIDE DEF step
  <2> QED BY <1>3, <2>3
<1>5. CASE n = 0
  <2>1. seqs = << >>
    BY <1>5
  <2> QED BY <1>3, <1>4, <1>5, <2>1 DEF FlattenSeq
<1>6. CASE n # 0
  <2> DEFINE Runs(h) == h = [i \in 1 .. n |-> IF i = 1 THEN seqs[i] ELSE h[i - 1] \o seqs[i]]
             g == [i \in 1 .. n |-> f[i]]
             flatten == CHOOSE h : Runs(h)
  <2>1. FlattenSeq(seqs) = flatten[n]
    BY <1>6 DEF FlattenSeq
  <2>2. Runs(g)
    <3>1. ASSUME NEW i \in 1 .. n PROVE g[i] = IF i = 1 THEN seqs[i] ELSE g[i - 1] \o seqs[i]
      <4>1. g[i] = f[i - 1] \o seqs[i] /\ g[i] = f[i]
        BY <1>4
      <4>2. CASE i = 1
        <5>1. seqs[1] \in Seq(S)
          BY <1>1, <4>2
        <5>2. << >> \o seqs[1] = seqs[1]
          BY <5>1
        <5>3. f[i - 1] = << >>
          BY <1>3, <4>2
        <5> HIDE DEF g
        <5> QED BY <4>1, <4>2, <5>2, <5>3
      <4>3. CASE i # 1
        <5>1. i - 1 \in 1 .. n
          BY <1>0, <4>3
        <5>2. g[i - 1] = f[i - 1]
          BY <5>1
        <5> HIDE DEF g
        <5> QED BY <4>1, <4>3, <5>2
      <4> QED BY <4>2, <4>3
    <3> QED BY <3>1
  <2>3. Runs(flatten)
    <3> HIDE DEF Runs, g
    <3> QED BY <2>2
  <2>4. \A i \in 1 .. n : flatten[i] = IF i = 1 THEN seqs[i] ELSE flatten[i - 1] \o seqs[i]
    <3> HIDE DEF flatten
    <3> QED BY <2>3
  <2> DEFINE P == {i \in Nat : i + 1 <= n => flatten[i + 1] = f[i + 1]}
  <2> HIDE DEF flatten
  <2>5. flatten[1] = f[1]
    <3>1. 1 \in 1 .. n
      BY <1>0, <1>6
    <3>2. f[1] = f[0] \o seqs[1]
      <4> DEFINE j == 1
      <4>1. j \in 1 .. n /\ j - 1 = 0
        BY <3>1
      <4> HIDE DEF j
      <4>2. f[j] = f[0] \o seqs[j]
        BY <1>4, <4>1
      <4> QED BY <4>2 DEF j
    <3>3. << >> \o seqs[1] = seqs[1]
      BY <1>1, <3>1
    <3>4. flatten[1] = seqs[1]
      BY <2>4, <3>1
    <3> QED BY <1>3, <3>2, <3>3, <3>4
  <2>6. ASSUME NEW i \in Nat, i + 2 <= n, flatten[i + 1] = f[i + 1] PROVE flatten[i + 2] = f[i + 2]
    <3> DEFINE j == i + 2
    <3>1. j \in 1 .. n /\ j # 1 /\ j - 1 = i + 1
      BY <1>0, <2>6
    <3> HIDE DEF j
    <3>2. flatten[j] = flatten[j - 1] \o seqs[j]
      BY <2>4, <3>1
    <3>3. f[j] = f[j - 1] \o seqs[j]
      BY <1>4, <3>1
    <3>4. flatten[j] = f[j]
      BY <2>6, <3>1, <3>2, <3>3
    <3> QED BY <3>4 DEF j
  <2>7. 0 \in P /\ \A i \in P : i + 1 \in P
    BY <1>1, <2>5, <2>6
  <2>8. n - 1 \in P
    <3>1. n - 1 \in Nat
      BY <1>0, <1>6
    <3> HIDE DEF n, P
    <3>2. P \in SUBSET Nat
      BY DEF P
    <3> QED BY <2>7, <3>1, <3>2, Induction
  <2>9. flatten[n] = f[n]
    BY <1>0, <1>6, <2>8
  <2> QED BY <1>3, <1>4, <2>1, <2>9
<1> QED BY <1>5, <1>6

LEMMA FlattenIn ==
  ASSUME NEW S, NEW P \in SUBSET Seq(S), << >> \in P, \A a, b \in P : a \o b \in P, NEW seqs \in Seq(P)
  PROVE  FlattenSeq(seqs) \in P
<1>1. seqs \in Seq(Seq(S)) /\ Len(seqs) \in Nat
  OBVIOUS
<1>2. PICK f \in [0 .. Len(seqs) -> Seq(S)] :
         /\ f[0] = << >> /\ \A i \in 1 .. Len(seqs) : f[i] = f[i - 1] \o seqs[i]
         /\ FlattenSeq(seqs) = f[Len(seqs)]
  BY <1>1, FlattenIs
<1> DEFINE Q == {i \in Nat : i <= Len(seqs) => f[i] \in P}
<1>3. ASSUME NEW i \in Q PROVE i + 1 \in Q
  <2>1. CASE i + 1 <= Len(seqs)
    <3> DEFINE j == i + 1
    <3>1. f[i] \in P /\ j \in 1 .. Len(seqs) /\ j - 1 = i
      BY <1>1, <2>1
    <3> HIDE DEF j
    <3>2. seqs[j] \in P
      BY <3>1
    <3>3. f[j] = f[i] \o seqs[j]
      BY <1>2, <3>1
    <3>4. f[j] \in P
      BY <3>1, <3>2, <3>3
    <3> QED BY <1>1, <3>4 DEF j
  <2> QED BY <2>1
<1>4. Len(seqs) \in Q
  BY <1>1, <1>2, <1>3, Induction
<1> QED BY <1>1, <1>2, <1>4

(***************************************************************************)
(* Reading a text made of pieces.                                          *)
(***************************************************************************)
\* Of a text made of pieces: a property that pieces may add to.
LEMMA FlattenSteps ==
  ASSUME NEW S, NEW seqs \in Seq(Seq(S)), NEW P \in [0 .. Len(seqs) -> SUBSET Seq(S)], << >> \in P[0],
         \A i \in 1 .. Len(seqs) : \A a \in P[i - 1] : a \o seqs[i] \in P[i]
  PROVE  FlattenSeq(seqs) \in P[Len(seqs)]
<1>1. PICK f \in [0 .. Len(seqs) -> Seq(S)] :
         /\ f[0] = << >> /\ \A i \in 1 .. Len(seqs) : f[i] = f[i - 1] \o seqs[i]
         /\ FlattenSeq(seqs) = f[Len(seqs)]
  BY FlattenIs
<1>2. Len(seqs) \in Nat
  OBVIOUS
<1> DEFINE Q == {i \in Nat : i <= Len(seqs) => f[i] \in P[i]}
<1>3. ASSUME NEW i \in Q PROVE i + 1 \in Q
  <2>1. CASE i + 1 <= Len(seqs)
    <3> DEFINE j == i + 1
    <3>1. f[i] \in P[i] /\ j \in 1 .. Len(seqs) /\ j - 1 = i
      BY <1>2, <2>1
    <3> HIDE DEF j
    <3>2. f[j] = f[j - 1] \o seqs[j]
      BY <1>1, <3>1
    <3>3. f[j - 1] \o seqs[j] \in P[j]
      BY <3>1
    <3>4. f[j] \in P[j]
      BY <3>2, <3>3
    <3> QED BY <1>2, <3>4 DEF j
  <2> QED BY <2>1
<1>4. 0 \in Q /\ Q \in SUBSET Nat /\ \A i \in Q : i + 1 \in Q
  BY <1>1, <1>3
<1> HIDE DEF Q
<1>5. Len(seqs) \in Q
  BY <1>2, <1>4, Induction
<1> QED BY <1>1, <1>2, <1>5 DEF Q

(***************************************************************************)
(* What a parser does with a text.                                         *)
(***************************************************************************)
Tokens(S) == \A x \in S : x.t \in Names

\* The parsers after each prefix of a text.
RunOf(parser, text) ==
  {f \in [0 .. Len(text) -> Parsers] : f[0] = parser /\ \A i \in 1 .. Len(text) : f[i] = After[<<f[i - 1], text[i].t>>]}

LEMMA FrontIn == ASSUME NEW S, NEW o \in Seq(S), o # << >> PROVE Front(o) \in Seq(S)
<1>1. SubSeq(o, 1, Len(o) - 1) \in Seq(S)
  OBVIOUS
<1> QED BY <1>1 DEF Front

\* What the parser of a text does with one token.
LEMMA AfterType == \A p \in Parsers : \A t \in Names : After[<<p, t>>] \in Parsers
<1> TAKE p \in Parsers
<1> TAKE t \in Names
<1> DEFINE c == Reads(p, t)
           o == p.open
<1>1. After[<<p, t>>] = c
  BY DEF After
<1>2. o \in Seq({"{", "["}) /\ p.last \in Names \cup {"start", "broken"}
  BY DEF Parsers
<1>3. \A q \in Seq({"{", "["}) : \A l \in Names \cup {"start", "broken"} : Parser(q, l) \in Parsers
  BY DEF Parser, Parsers
<1>4. CASE t = " "
  <2>1. c = p
    BY <1>4 DEF Reads, Opens, Closes, Takes
  <2> HIDE DEF c
  <2> QED BY <2>1, <1>1
<1>5. CASE t # " " /\ ~Takes(p, t)
  <2>1. << >> \in Seq({"{", "["})
    OBVIOUS
  <2>2. c = Parser(<< >>, "broken")
    BY <1>5 DEF Reads
  <2> HIDE DEF c
  <2> QED BY <1>1, <1>3, <2>1, <2>2
<1>6. CASE t # " " /\ Takes(p, t) /\ Opens(t)
  <2>1. c = Parser(Append(o, t), t)
    BY <1>6 DEF Reads, Opens, Closes
  <2>2. t \in {"{", "["}
    BY <1>6 DEF Opens
  <2> HIDE DEF c, o
  <2>3. Append(o, t) \in Seq({"{", "["})
    BY <1>2, <2>2, AppendFacts
  <2> QED BY <1>1, <1>3, <2>1, <2>3
<1>7. CASE t # " " /\ Takes(p, t) /\ Closes(t)
  <2>1. c = Parser(Front(o), t)
    BY <1>7 DEF Reads, Opens, Closes
  <2>2. p.last # "start" /\ o # << >>
    BY <1>7 DEF Takes, Opens, Closes
  <2> HIDE DEF c, o
  <2>3. Front(o) \in Seq({"{", "["})
    BY <1>2, <2>2, FrontIn
  <2> QED BY <1>1, <1>3, <2>1, <2>3
<1>8. CASE t # " " /\ Takes(p, t) /\ t \in {"e", ","}
  <2>1. c = Parser(o, t)
    BY <1>8 DEF Reads, Opens, Closes
  <2> HIDE DEF c, o
  <2> QED BY <1>1, <1>2, <1>3, <2>1
<1> QED BY <1>4, <1>5, <1>6, <1>7, <1>8 DEF Names, Opens, Closes

\* A parser reads a text token by token.
LEMMA ReadIs ==
  ASSUME NEW S, Tokens(S), NEW text \in Seq(S), NEW p \in Parsers
  PROVE  \E f \in RunOf(p, text) : ReadBy(p, text) = f[Len(text)]
<1> DEFINE n == Len(text)
           step == [q \in (1 .. n) \X Parsers |-> After[<<q[2], text[q[1]].t>>]]
           Runs(h) == h = [i \in 0 .. n |-> IF i = 0 THEN p ELSE After[<<h[i - 1], text[i].t>>]]
           after == CHOOSE h : Runs(h)
<1>1. n \in Nat
  OBVIOUS
<1>2. \A i \in 1 .. n : text[i].t \in Names
  BY DEF Tokens
<1>3. step \in StepsOn(n, Parsers)
  <2>1. \A q \in (1 .. n) \X Parsers : After[<<q[2], text[q[1]].t>>] \in Parsers
    BY <1>2, AfterType
  <2> QED BY <2>1 DEF StepsOn
<1>4. PICK f : f \in Recursion(n, Parsers, p, step)
  <2> HIDE DEF n, step
  <2> QED BY <1>1, <1>3, RecursionExists
<1>5. f \in [0 .. n -> Parsers] /\ f[0] = p
  BY <1>4 DEF Recursion
<1>6. ASSUME NEW i \in 1 .. n PROVE f[i] = After[<<f[i - 1], text[i].t>>]
  <2>1. f[i] = step[<<i, f[i - 1]>>]
    BY <1>4 DEF Recursion
  <2>2. i - 1 \in 0 .. n
    BY <1>1
  <2>3. f[i - 1] \in Parsers
    BY <1>5, <2>2
  <2>4. step[<<i, f[i - 1]>>] = After[<<f[i - 1], text[i].t>>]
    BY <2>3
  <2> HIDE DEF step
  <2> QED BY <2>1, <2>4
<1>7. f \in RunOf(p, text)
  BY <1>5, <1>6 DEF RunOf
<1>8. Runs(f)
  <2>1. \A i \in 0 .. n : f[i] = IF i = 0 THEN p ELSE After[<<f[i - 1], text[i].t>>]
    <3>1. \A i \in 0 .. n : i # 0 => i \in 1 .. n
      BY <1>1
    <3> QED BY <1>5, <1>6, <3>1
  <2> QED BY <1>5, <2>1
<1>9. Runs(after)
  <2> HIDE DEF Runs
  <2> QED BY <1>8
<1>10. \A i \in 0 .. n : after[i] = IF i = 0 THEN p ELSE After[<<after[i - 1], text[i].t>>]
  <2> HIDE DEF after
  <2> QED BY <1>9
<1>11. ReadBy(p, text) = after[n]
  BY DEF ReadBy
<1> DEFINE Q == {i \in Nat : i <= n => after[i] = f[i]}
<1> HIDE DEF after, n, Runs
<1>12. ASSUME NEW i \in Q PROVE i + 1 \in Q
  <2>1. CASE i + 1 <= n
    <3> DEFINE j == i + 1
    <3>1. after[i] = f[i] /\ j \in 1 .. n /\ j - 1 = i /\ j # 0 /\ j \in 0 .. n
      BY <1>1, <2>1
    <3> HIDE DEF j
    <3>2. after[j] = f[j]
      BY <1>6, <1>10, <3>1
    <3> QED BY <1>1, <3>2 DEF j
  <2> QED BY <2>1
<1>13. 0 \in Q /\ Q \in SUBSET Nat /\ \A i \in Q : i + 1 \in Q
  <2>1. 0 \in 0 .. n
    BY <1>1
  <2>2. after[0] = f[0]
    BY <1>5, <1>10, <2>1
  <2>3. 0 \in Q /\ Q \in SUBSET Nat
    BY <2>2
  <2> HIDE DEF Q
  <2> QED BY <1>12, <2>3
<1> HIDE DEF Q
<1>14. n \in Q
  BY <1>1, <1>13, Induction
<1>15. after[n] = f[n]
  BY <1>1, <1>14 DEF Q
<1> QED BY <1>7, <1>11, <1>15 DEF n

LEMMA ReadType ==
  ASSUME NEW S, Tokens(S), NEW text \in Seq(S), NEW p \in Parsers
  PROVE  ReadBy(p, text) \in Parsers
<1>1. PICK f \in RunOf(p, text) : ReadBy(p, text) = f[Len(text)]
  BY ReadIs
<1>2. Len(text) \in 0 .. Len(text)
  OBVIOUS
<1> QED BY <1>1, <1>2 DEF RunOf

LEMMA ReadNothing == ASSUME NEW p \in Parsers PROVE ReadBy(p, << >>) = p
<1>1. << >> \in Seq({}) /\ Tokens({}) /\ Len(<< >>) = 0
  BY DEF Tokens
<1>2. PICK f \in RunOf(p, << >>) : ReadBy(p, << >>) = f[Len(<< >>)]
  BY <1>1, ReadIs
<1> QED BY <1>1, <1>2 DEF RunOf

LEMMA ReadOne ==
  ASSUME NEW x, x.t \in Names, NEW p \in Parsers PROVE ReadBy(p, <<x>>) = After[<<p, x.t>>]
<1>1. <<x>> \in Seq({x}) /\ Tokens({x}) /\ Len(<<x>>) = 1 /\ <<x>>[1] = x
  BY DEF Tokens
<1>2. PICK f \in RunOf(p, <<x>>) : ReadBy(p, <<x>>) = f[Len(<<x>>)]
  BY <1>1, ReadIs
<1>3. f[0] = p /\ \A i \in 1 .. 1 : f[i] = After[<<f[i - 1], <<x>>[i].t>>]
  BY <1>1, <1>2 DEF RunOf
<1>4. f[1] = After[<<f[0], x.t>>]
  BY <1>1, <1>3
<1> QED BY <1>1, <1>2, <1>3, <1>4

\* Reading two texts, one after the other.
LEMMA ReadJoined ==
  ASSUME NEW S, Tokens(S), NEW a \in Seq(S), NEW b \in Seq(S), NEW p \in Parsers
  PROVE  ReadBy(p, a \o b) = ReadBy(ReadBy(p, a), b)
<1>1. /\ a \o b \in Seq(S) /\ Len(a \o b) = Len(a) + Len(b) /\ Len(a) \in Nat /\ Len(b) \in Nat
      /\ \A i \in 1 .. Len(a) : (a \o b)[i] = a[i]
      /\ \A i \in 1 .. Len(b) : (a \o b)[Len(a) + i] = b[i]
  OBVIOUS
<1> DEFINE c == a \o b
           m == Len(a)
           n == Len(b)
<1>2. PICK f \in RunOf(p, a) : ReadBy(p, a) = f[m]
  BY ReadIs
<1>3. ReadBy(p, a) \in Parsers
  BY ReadType
<1>4. PICK g \in RunOf(ReadBy(p, a), b) : ReadBy(ReadBy(p, a), b) = g[n]
  BY <1>3, ReadIs
<1>5. PICK h \in RunOf(p, c) : ReadBy(p, c) = h[m + n]
  BY <1>1, ReadIs
<1>6. /\ f[0] = p /\ \A i \in 1 .. m : f[i] = After[<<f[i - 1], a[i].t>>]
      /\ g[0] = f[m] /\ \A i \in 1 .. n : g[i] = After[<<g[i - 1], b[i].t>>]
      /\ h[0] = p /\ \A i \in 1 .. m + n : h[i] = After[<<h[i - 1], c[i].t>>]
  BY <1>1, <1>2, <1>4, <1>5 DEF RunOf
<1>7. /\ m \in Nat /\ n \in Nat
      /\ \A i \in 1 .. m : c[i] = a[i]
      /\ \A i \in 1 .. n : c[m + i] = b[i]
  BY <1>1
<1> HIDE DEF c, m, n
<1> DEFINE Q == {i \in Nat : i <= m => h[i] = f[i]}
<1>8. \A i \in Q : i + 1 \in Q
  <2> TAKE i \in Q
  <2>1. CASE i + 1 <= m
    <3> DEFINE j == i + 1
    <3>1. h[i] = f[i] /\ j \in 1 .. m /\ j \in 1 .. m + n /\ j - 1 = i
      BY <1>7, <2>1
    <3> HIDE DEF j
    <3>2. h[j] = f[j]
      BY <1>6, <1>7, <3>1
    <3> QED BY <3>2 DEF j
  <2> QED BY <2>1
<1>9. 0 \in Q /\ Q \in SUBSET Nat
  BY <1>6
<1>10. h[m] = f[m]
  <2> HIDE DEF Q
  <2>1. m \in Q
    BY <1>7, <1>8, <1>9, Induction
  <2> QED BY <1>7, <2>1 DEF Q
<1> DEFINE R == {i \in Nat : i <= n => h[m + i] = g[i]}
<1>11. \A i \in R : i + 1 \in R
  <2> TAKE i \in R
  <2>1. CASE i + 1 <= n
    <3> DEFINE j == m + (i + 1)
               k == i + 1
    <3>1. h[m + i] = g[i] /\ k \in 1 .. n /\ j \in 1 .. m + n /\ j - 1 = m + i /\ k - 1 = i /\ j = m + k
      BY <1>7, <2>1
    <3> HIDE DEF j, k
    <3>2. c[j] = b[k]
      BY <1>7, <3>1
    <3>3. h[j] = After[<<h[j - 1], c[j].t>>] /\ g[k] = After[<<g[k - 1], b[k].t>>]
      BY <1>6, <3>1
    <3>4. h[j] = g[k]
      BY <3>1, <3>2, <3>3
    <3> QED BY <3>4 DEF j, k
  <2> QED BY <2>1
<1>12. 0 \in R /\ R \in SUBSET Nat
  BY <1>6, <1>7, <1>10
<1>13. h[m + n] = g[n]
  <2> HIDE DEF R
  <2>1. n \in R
    BY <1>7, <1>11, <1>12, Induction
  <2> QED BY <1>7, <2>1 DEF R
<1> QED BY <1>4, <1>5, <1>13 DEF c

(***************************************************************************)
(* Ways through a text.                                                    *)
(***************************************************************************)
Ready == {"[", "{", ","}

\* What may come last before a separator or a closing bracket.
Done == {"e", "]", "}"}

\* Some bracket is open.
Inner == Seq({"{", "["}) \ {<< >>}
Push(x, b) == Append(x, b)

\* Texts that take a parser with brackets x open, after one of A, to y open, after one of B.
Paths(S, x, A, y, B) ==
  {m \in Seq(S) : \A l \in A :
     Parser(x, l) \in Parsers => \E k \in B : Parser(y, k) \in Parsers /\ ReadBy(Parser(x, l), m) = Parser(y, k)}

\* Ways can be put together, and a way from more to less is a way as well.
LEMMA PathJoin ==
  ASSUME NEW S, Tokens(S), NEW x, NEW A, NEW y, NEW B, NEW C, B \subseteq C, NEW z, NEW D,
         NEW m \in Paths(S, x, A, y, B), NEW n \in Paths(S, y, C, z, D)
  PROVE  m \o n \in Paths(S, x, A, z, D)
<1>1. m \in Seq(S) /\ n \in Seq(S) /\ m \o n \in Seq(S)
  BY DEF Paths
<1>2. ASSUME NEW l \in A, Parser(x, l) \in Parsers
      PROVE  \E k \in D : Parser(z, k) \in Parsers /\ ReadBy(Parser(x, l), m \o n) = Parser(z, k)
  <2>1. PICK k \in B : Parser(y, k) \in Parsers /\ ReadBy(Parser(x, l), m) = Parser(y, k)
    BY <1>2 DEF Paths
  <2>2. PICK j \in D : Parser(z, j) \in Parsers /\ ReadBy(Parser(y, k), n) = Parser(z, j)
    BY <2>1 DEF Paths
  <2>3. ReadBy(Parser(x, l), m \o n) = ReadBy(ReadBy(Parser(x, l), m), n)
    BY <1>1, <1>2, ReadJoined
  <2> QED BY <2>1, <2>2, <2>3
<1> QED BY <1>1, <1>2 DEF Paths

LEMMA PathWider ==
  ASSUME NEW S, NEW x, NEW A, NEW C, C \subseteq A, NEW y, NEW B, NEW D, B \subseteq D, NEW m \in Paths(S, x, A, y, B)
  PROVE  m \in Paths(S, x, C, y, D)
  BY DEF Paths

LEMMA NothingIn == \A S : << >> \in Seq(S)
  OBVIOUS

LEMMA OneIn == ASSUME NEW S, NEW t \in S PROVE <<t>> \in Seq(S)
  OBVIOUS

LEMMA PathNone == ASSUME NEW S, NEW x, NEW A PROVE << >> \in Paths(S, x, A, x, A)
<1>1. << >> \in Seq(S)
  OBVIOUS
<1> QED BY <1>1, ReadNothing DEF Paths

LEMMA AppendEnds ==
  ASSUME NEW S, NEW x \in Seq(S), NEW b \in S
  PROVE  /\ Append(x, b) \in Seq(S) /\ Append(x, b) # << >>
         /\ Front(Append(x, b)) = x /\ Last(Append(x, b)) = b
  BY DEF Front, Last

LEMMA PushFacts ==
  ASSUME NEW x \in Seq({"{", "["}), NEW b \in {"{", "["}
  PROVE  Push(x, b) \in Inner /\ Front(Push(x, b)) = x /\ Last(Push(x, b)) = b
<1>1. /\ Append(x, b) \in Seq({"{", "["}) /\ Append(x, b) # << >>
      /\ Front(Append(x, b)) = x /\ Last(Append(x, b)) = b
  BY AppendEnds
<1> QED BY <1>1 DEF Inner, Push

LEMMA ParserFacts ==
  /\ \A x, l : Parser(x, l).open = x /\ Parser(x, l).last = l
  /\ \A x, l : Parser(x, l) \in Parsers <=> x \in Seq({"{", "["}) /\ l \in Names \cup {"start", "broken"}
  BY DEF Parser, Parsers

\* One token.
LEMMA OneToken ==
  ASSUME NEW S, NEW t \in S, t.t \in Names, NEW x \in Inner, NEW y, NEW A \in SUBSET Names, NEW k,
         Parser(y, k) \in Parsers,
         \A l \in A : Reads(Parser(x, l), t.t) = Parser(y, k)
  PROVE  <<t>> \in Paths(S, x, A, y, {k})
<1>1. <<t>> \in Seq(S)
  OBVIOUS
<1>2. ASSUME NEW l \in A, Parser(x, l) \in Parsers PROVE ReadBy(Parser(x, l), <<t>>) = Parser(y, k)
  <2>1. ReadBy(Parser(x, l), <<t>>) = After[<<Parser(x, l), t.t>>]
    BY <1>2, ReadOne
  <2>2. After[<<Parser(x, l), t.t>>] = Reads(Parser(x, l), t.t)
    BY <1>2 DEF After
  <2> QED BY <2>1, <2>2
<1> QED BY <1>1, <1>2 DEF Paths

LEMMA SpacePath == ASSUME NEW S, NEW t \in S, t.t = " ", NEW x, NEW A PROVE <<t>> \in Paths(S, x, A, x, A)
<1>1. <<t>> \in Seq(S) /\ " " \in Names
  BY OneIn DEF Names
<1>2. ASSUME NEW l \in A, Parser(x, l) \in Parsers PROVE ReadBy(Parser(x, l), <<t>>) = Parser(x, l)
  <2>1. ReadBy(Parser(x, l), <<t>>) = After[<<Parser(x, l), " ">>]
    BY <1>1, <1>2, ReadOne
  <2>2. After[<<Parser(x, l), " ">>] = Reads(Parser(x, l), " ")
    BY <1>1, <1>2 DEF After
  <2>3. Reads(Parser(x, l), " ") = Parser(x, l)
    BY DEF Reads, Opens, Closes
  <2> QED BY <2>1, <2>2, <2>3
<1> QED BY <1>1, <1>2 DEF Paths

LEMMA EntryPath ==
  ASSUME NEW S, NEW t \in S, t.t = "e", NEW x \in Inner PROVE <<t>> \in Paths(S, x, Ready, x, {"e"})
<1>1. Parser(x, "e") \in Parsers /\ t.t \in Names /\ Ready \in SUBSET Names
  BY ParserFacts DEF Inner, Names, Ready
<1>2. \A l \in Ready : Reads(Parser(x, l), "e") = Parser(x, "e")
  BY ParserFacts DEF Reads, Takes, Opens, Closes, MayFollow, Inner, Ready
<1> QED BY <1>1, <1>2, OneToken

LEMMA CommaPath ==
  ASSUME NEW S, NEW t \in S, t.t = ",", NEW x \in Inner PROVE <<t>> \in Paths(S, x, Done, x, {","})
<1>1. Parser(x, ",") \in Parsers /\ t.t \in Names /\ Done \in SUBSET Names
  BY ParserFacts DEF Inner, Names, Done
<1>2. \A l \in Done : Reads(Parser(x, l), ",") = Parser(x, ",")
  BY ParserFacts, ZenonT(30) DEF Reads, Takes, Opens, Closes, MayFollow, Inner, Done
<1> QED BY <1>1, <1>2, OneToken

\* The brackets.
LEMMA OpenPath ==
  ASSUME NEW S, NEW t \in S, t.t \in {"{", "["}, NEW x \in Inner
  PROVE  <<t>> \in Paths(S, x, Ready, Push(x, t.t), {t.t})
<1>1. Parser(Push(x, t.t), t.t) \in Parsers /\ t.t \in Names /\ Ready \in SUBSET Names
  BY ParserFacts, PushFacts DEF Inner, Names, Ready
<1>2. ASSUME NEW l \in Ready PROVE Reads(Parser(x, l), t.t) = Parser(Push(x, t.t), t.t)
  <2> DEFINE p == Parser(x, l)
  <2>1. p.open = x /\ p.last = l
    BY ParserFacts
  <2> HIDE DEF p
  <2>2. Takes(p, t.t)
    BY <2>1 DEF Takes, Opens, Closes, MayFollow, Inner, Ready
  <2>3. Reads(p, t.t) = Parser(Append(p.open, t.t), t.t)
    BY <2>2 DEF Reads, Opens, Closes
  <2> QED BY <2>1, <2>3 DEF Push, p
<1> QED BY <1>1, <1>2, OneToken

LEMMA ClosePath ==
  ASSUME NEW S, NEW t \in S, NEW b \in {"{", "["}, t.t = Closing[b], NEW x \in Inner
  PROVE  <<t>> \in Paths(S, Push(x, b), Done \cup {"["}, x, {t.t})
<1>1. Parser(x, t.t) \in Parsers /\ t.t \in Names /\ Done \cup {"["} \in SUBSET Names /\ Push(x, b) \in Inner
  BY ParserFacts, PushFacts DEF Inner, Names, Done, Closing
<1>2. ASSUME NEW l \in Done \cup {"["} PROVE Reads(Parser(Push(x, b), l), t.t) = Parser(x, t.t)
  <2> DEFINE p == Parser(Push(x, b), l)
  <2>1. t.t \in {"]", "}"}
    BY DEF Closing
  <2>2. p.open = Push(x, b) /\ p.last = l
    BY ParserFacts
  <2>3. Front(Push(x, b)) = x /\ Last(Push(x, b)) = b /\ Push(x, b) # << >>
    BY PushFacts DEF Inner
  <2> HIDE DEF p
  <2>4. Takes(p, t.t)
    BY <2>1, <2>2, <2>3 DEF Takes, Opens, Closes, MayFollow, Done
  <2>5. Reads(p, t.t) = Parser(Front(p.open), t.t)
    BY <2>1, <2>4 DEF Reads, Opens, Closes
  <2> QED BY <2>2, <2>3, <2>5 DEF p
<1> QED BY <1>1, <1>2, OneToken

LEMMA FirstPath ==
  ASSUME NEW S, NEW t \in S, t.t \in {"{", "["}
  PROVE  <<t>> \in Paths(S, << >>, {"start"}, Push(<< >>, t.t), {t.t}) /\ Push(<< >>, t.t) \in Inner
<1> DEFINE y == Push(<< >>, t.t)
<1>1. << >> \in Seq({"{", "["}) /\ t.t \in Names /\ <<t>> \in Seq(S)
  BY NothingIn, OneIn DEF Names
<1>2. y \in Inner /\ Parser(y, t.t) \in Parsers /\ Parser(<< >>, "start") \in Parsers
  BY <1>1, PushFacts, ParserFacts DEF Inner
<1>3. Reads(Parser(<< >>, "start"), t.t) = Parser(y, t.t)
  BY ParserFacts DEF Reads, Takes, Opens, Closes, Push
<1>4. ReadBy(Parser(<< >>, "start"), <<t>>) = Parser(y, t.t)
  <2>1. ReadBy(Parser(<< >>, "start"), <<t>>) = After[<<Parser(<< >>, "start"), t.t>>]
    BY <1>1, <1>2, ReadOne
  <2>2. After[<<Parser(<< >>, "start"), t.t>>] = Reads(Parser(<< >>, "start"), t.t)
    BY <1>1, <1>2 DEF After
  <2> QED BY <1>3, <2>1, <2>2
<1> QED BY <1>1, <1>2, <1>4 DEF Paths

LEMMA LastPath ==
  ASSUME NEW S, NEW t \in S, NEW b \in {"{", "["}, t.t = Closing[b]
  PROVE  <<t>> \in Paths(S, Push(<< >>, b), Done, << >>, {t.t})
<1> DEFINE x == Push(<< >>, b)
<1>1. << >> \in Seq({"{", "["}) /\ t.t \in Names /\ Done \in SUBSET Names /\ t.t \in {"]", "}"}
  BY NothingIn DEF Names, Closing, Done
<1>2. x \in Inner /\ Parser(<< >>, t.t) \in Parsers /\ Front(x) = << >> /\ Last(x) = b
  BY <1>1, PushFacts, ParserFacts
<1> HIDE DEF x
<1>3. ASSUME NEW l \in Done PROVE Reads(Parser(x, l), t.t) = Parser(<< >>, t.t)
  <2> DEFINE p == Parser(x, l)
  <2>1. p.open = x /\ p.last = l
    BY ParserFacts
  <2> HIDE DEF p
  <2>2. Takes(p, t.t)
    BY <1>1, <1>2, <2>1 DEF Takes, Opens, Closes, MayFollow, Inner, Done
  <2>3. Reads(p, t.t) = Parser(Front(p.open), t.t)
    BY <1>1, <2>2 DEF Reads, Opens, Closes
  <2> QED BY <1>2, <2>1, <2>3 DEF p
<1>4. <<t>> \in Paths(S, x, Done, << >>, {t.t})
  BY <1>1, <1>2, <1>3, OneToken
<1> QED BY <1>4 DEF x

\* A document is a text from its outermost bracket to the end of it.
LEMMA WellFormedPath ==
  ASSUME NEW S, NEW text \in Paths(S, << >>, {"start"}, << >>, {"]", "}"})
  PROVE  IsWellFormed(text)
<1>1. Parser(<< >>, "start") \in Parsers
  BY ParserFacts, NothingIn
<1>2. PICK k \in {"]", "}"} : ReadBy(Parser(<< >>, "start"), text) = Parser(<< >>, k)
  BY <1>1 DEF Paths
<1> DEFINE end == ReadBy(Parser(<< >>, "start"), text)
<1>3. end.open = << >> /\ end.last \in {"]", "}"}
  <2> HIDE DEF end
  <2>1. end = Parser(<< >>, k)
    BY <1>2 DEF end
  <2> QED BY <2>1, ParserFacts
<1> QED BY <1>3 DEF IsWellFormed, Closes

(***************************************************************************)
(* Texts of values, of lists of values, and stepping back in them.         *)
(***************************************************************************)
\* The fixed texts of the encoders, token by token.
LEMMA TextIs ==
  /\ \A a : Text(<<a>>) = <<Token(a)>>
  /\ \A a, b : Text(<<a, b>>) = <<Token(a), Token(b)>>
  /\ \A a, b, c : Text(<<a, b, c>>) = <<Token(a), Token(b), Token(c)>>
  /\ \A a, b, c, d : Text(<<a, b, c, d>>) = <<Token(a), Token(b), Token(c), Token(d)>>
  /\ \A a, b, c, d, e : Text(<<a, b, c, d, e>>) = <<Token(a), Token(b), Token(c), Token(d), Token(e)>>
<1>1. \A a : Text(<<a>>) = <<Token(a)>>
  BY DEF Text
<1>2. \A a, b : Text(<<a, b>>) = <<Token(a), Token(b)>>
  BY DEF Text
<1>3. \A a, b, c : Text(<<a, b, c>>) = <<Token(a), Token(b), Token(c)>>
  BY DEF Text
<1>4. \A a, b, c, d : Text(<<a, b, c, d>>) = <<Token(a), Token(b), Token(c), Token(d)>>
  BY DEF Text
<1>5. \A a, b, c, d, e : Text(<<a, b, c, d, e>>) = <<Token(a), Token(b), Token(c), Token(d), Token(e)>>
  BY DEF Text
<1> QED BY <1>1, <1>2, <1>3, <1>4, <1>5

LEMMA TuplesJoined ==
  /\ \A a, b : <<a, b>> = <<a>> \o <<b>>
  /\ \A a, b, c : <<a, b, c>> = <<a, b>> \o <<c>>
  /\ \A a, b, c, d : <<a, b, c, d>> = <<a, b, c>> \o <<d>>
  /\ \A a, b, c, d, e : <<a, b, c, d, e>> = <<a, b, c, d>> \o <<e>>
<1>1. ASSUME NEW a, NEW b PROVE <<a, b>> = <<a>> \o <<b>>
  <2> DEFINE S == {a, b}
             o == <<a>>
  <2>1. o \in Seq(S) /\ b \in S
    OBVIOUS
  <2>2. <<a, b>> = Append(o, b)
    OBVIOUS
  <2> HIDE DEF S, o
  <2>3. Append(o, b) = o \o <<b>>
    BY <2>1
  <2> QED BY <2>2, <2>3 DEF o
<1>2. ASSUME NEW a, NEW b, NEW c PROVE <<a, b, c>> = <<a, b>> \o <<c>>
  <2> DEFINE S == {a, b, c}
  <2>1. a \in S /\ b \in S /\ c \in S
    OBVIOUS
  <2> HIDE DEF S
  <2> QED BY <2>1
<1>3. ASSUME NEW a, NEW b, NEW c, NEW d PROVE <<a, b, c, d>> = <<a, b, c>> \o <<d>>
  <2> DEFINE S == {a, b, c, d}
  <2>1. a \in S /\ b \in S /\ c \in S /\ d \in S
    OBVIOUS
  <2> HIDE DEF S
  <2> QED BY <2>1
<1>4. ASSUME NEW a, NEW b, NEW c, NEW d, NEW e PROVE <<a, b, c, d, e>> = <<a, b, c, d>> \o <<e>>
  <2> DEFINE S == {a, b, c, d, e}
  <2>1. a \in S /\ b \in S /\ c \in S /\ d \in S /\ e \in S
    OBVIOUS
  <2> HIDE DEF S
  <2> QED BY <2>1
<1> QED BY <1>1, <1>2, <1>3, <1>4

LEMMA TextJoined2 == ASSUME NEW a, NEW b PROVE Text(<<a, b>>) = Text(<<a>>) \o Text(<<b>>)
<1>1. Text(<<a, b>>) = <<Token(a), Token(b)>> /\ Text(<<a>>) = <<Token(a)>> /\ Text(<<b>>) = <<Token(b)>>
  BY TextIs
<1>2. <<Token(a), Token(b)>> = <<Token(a)>> \o <<Token(b)>>
  BY TuplesJoined
<1> QED BY <1>1, <1>2

LEMMA TextJoined3 == ASSUME NEW a, NEW b, NEW c PROVE Text(<<a, b, c>>) = Text(<<a, b>>) \o Text(<<c>>)
<1>1. Text(<<a, b, c>>) = <<Token(a), Token(b), Token(c)>> /\ Text(<<a, b>>) = <<Token(a), Token(b)>> /\ Text(<<c>>) = <<Token(c)>>
  BY TextIs
<1>2. <<Token(a), Token(b), Token(c)>> = <<Token(a), Token(b)>> \o <<Token(c)>>
  BY TuplesJoined
<1> QED BY <1>1, <1>2

LEMMA TextJoined4 == ASSUME NEW a, NEW b, NEW c, NEW d PROVE Text(<<a, b, c, d>>) = Text(<<a, b, c>>) \o Text(<<d>>)
<1>1. Text(<<a, b, c, d>>) = <<Token(a), Token(b), Token(c), Token(d)>> /\ Text(<<a, b, c>>) = <<Token(a), Token(b), Token(c)>> /\ Text(<<d>>) = <<Token(d)>>
  BY TextIs
<1>2. <<Token(a), Token(b), Token(c), Token(d)>> = <<Token(a), Token(b), Token(c)>> \o <<Token(d)>>
  BY TuplesJoined
<1> QED BY <1>1, <1>2

LEMMA TextJoined5 == ASSUME NEW a, NEW b, NEW c, NEW d, NEW e PROVE Text(<<a, b, c, d, e>>) = Text(<<a, b, c, d>>) \o Text(<<e>>)
<1>1. Text(<<a, b, c, d, e>>) = <<Token(a), Token(b), Token(c), Token(d), Token(e)>> /\ Text(<<a, b, c, d>>) = <<Token(a), Token(b), Token(c), Token(d)>> /\ Text(<<e>>) = <<Token(e)>>
  BY TextIs
<1>2. <<Token(a), Token(b), Token(c), Token(d), Token(e)>> = <<Token(a), Token(b), Token(c), Token(d)>> \o <<Token(e)>>
  BY TuplesJoined
<1> QED BY <1>1, <1>2

LEMMA JoinedTwice ==
  ASSUME NEW S, NEW a \in Seq(S), NEW b \in Seq(S), NEW c \in Seq(S) PROVE (a \o b) \o c = a \o (b \o c)
  OBVIOUS

LEMMA JoinIn == ASSUME NEW S, NEW a \in Seq(S), NEW b \in Seq(S) PROVE a \o b \in Seq(S)
  OBVIOUS

\* Stepping back takes the last token away.
LEMMA BackOne == ASSUME NEW S, NEW a \in Seq(S), NEW b \in S PROVE Back(a \o <<b>>) = a
  BY DEF Back, Front

LEMMA BackJoined == ASSUME NEW S, NEW a \in Seq(S), NEW b \in Seq(S), b # << >> PROVE Back(a \o b) = a \o Back(b)
  BY DEF Back, Front

-----------------------------------------------------------------------------
\* The tokens of a document.
Alphabet(S) == Tokens(S) /\ \A n \in Names \ {"e"} : Token(n) \in S

\* The separators, values of JSON, and lists of values each with a separator after it.
Comma == Text(<<",">>)
Space == Text(<<" ">>)

ValueTexts(S) == {m \in Seq(S) : \A x \in Inner : m \in Paths(S, x, Ready, x, Done)}
Spaced == Text(<<" ", ",">>)
Separators == {Comma, Spaced}
ListTexts(S, sep) == {<< >>} \cup {m \o sep : m \in ValueTexts(S)}

LEMMA TokenIn ==
  ASSUME NEW S, Alphabet(S), NEW n \in Names \ {"e"}
  PROVE  Token(n) \in S /\ Token(n).t = n /\ Text(<<n>>) = <<Token(n)>> /\ Text(<<n>>) \in Seq(S)
<1>1. Token(n) \in S /\ Token(n).t = n /\ Text(<<n>>) = <<Token(n)>>
  BY TextIs DEF Alphabet, Token
<1> QED BY <1>1, OneIn

LEMMA TextsIn ==
  ASSUME NEW S, Alphabet(S)
  PROVE  /\ \A a \in Names \ {"e"} : Text(<<a>>) \in Seq(S)
         /\ \A a, b \in Names \ {"e"} : Text(<<a, b>>) \in Seq(S)
         /\ \A a, b, c \in Names \ {"e"} : Text(<<a, b, c>>) \in Seq(S)
         /\ \A a, b, c, d \in Names \ {"e"} : Text(<<a, b, c, d>>) \in Seq(S)
         /\ \A a, b, c, d, e \in Names \ {"e"} : Text(<<a, b, c, d, e>>) \in Seq(S)
<1>1. \A a \in Names \ {"e"} : Text(<<a>>) \in Seq(S)
  BY TokenIn
<1> DEFINE N == Names \ {"e"}
           T == Seq(S)
<1>2. \A p, q \in T : p \o q \in T
  BY JoinIn
<1>3. \A a \in N : Text(<<a>>) \in T
  BY <1>1
<1> HIDE DEF N, T
<1>4. \A a, b \in N : Text(<<a, b>>) \in T
  BY <1>2, <1>3, TextJoined2
<1>5. \A a, b, c \in N : Text(<<a, b, c>>) \in T
  <2> TAKE a, b, c \in N
  <2>1. Text(<<a, b, c>>) = Text(<<a, b>>) \o Text(<<c>>)
    BY TextJoined3
  <2>2. Text(<<a, b>>) \in T /\ Text(<<c>>) \in T
    BY <1>3, <1>4
  <2> QED BY <1>2, <2>1, <2>2
<1>6. \A a, b, c, d \in N : Text(<<a, b, c, d>>) \in T
  <2> TAKE a, b, c, d \in N
  <2>1. Text(<<a, b, c, d>>) = Text(<<a, b, c>>) \o Text(<<d>>)
    BY TextJoined4
  <2>2. Text(<<a, b, c>>) \in T /\ Text(<<d>>) \in T
    BY <1>3, <1>5
  <2> QED BY <1>2, <2>1, <2>2
<1>7. \A a, b, c, d, e \in N : Text(<<a, b, c, d, e>>) \in T
  <2> TAKE a, b, c, d, e \in N
  <2>1. Text(<<a, b, c, d, e>>) = Text(<<a, b, c, d>>) \o Text(<<e>>)
    BY TextJoined5, ZenonT(30)
  <2>2. Text(<<a, b, c, d>>) \in T /\ Text(<<e>>) \in T
    BY <1>3, <1>6
  <2> QED BY <1>2, <2>1, <2>2
<1> QED BY <1>3, <1>4, <1>5, <1>6, <1>7 DEF N, T

\* What each token does to a parser.
LEMMA TokenPaths ==
  ASSUME NEW S, Alphabet(S), NEW x \in Inner
  PROVE  /\ Text(<<"{">>) \in Paths(S, x, Ready, Push(x, "{"), {"{"})
         /\ Text(<<"[">>) \in Paths(S, x, Ready, Push(x, "["), {"["})
         /\ Text(<<"}">>) \in Paths(S, Push(x, "{"), Done, x, {"}"})
         /\ Text(<<"]">>) \in Paths(S, Push(x, "["), Done \cup {"["}, x, {"]"})
         /\ Comma \in Paths(S, x, Done, x, {","})
<1>1. /\ \A n \in Names \ {"e"} : Token(n) \in S /\ Token(n).t = n /\ Text(<<n>>) = <<Token(n)>>
      /\ {"{", "[", "}", "]", ","} \subseteq Names \ {"e"}
  BY TokenIn DEF Names
<1>2. Text(<<"{">>) \in Paths(S, x, Ready, Push(x, "{"), {"{"})
  <2> DEFINE t == Token("{")
  <2>1. t \in S /\ t.t = "{" /\ t.t \in {"{", "["}
    BY <1>1
  <2> HIDE DEF t
  <2>2. <<t>> \in Paths(S, x, Ready, Push(x, t.t), {t.t})
    BY <2>1, OpenPath
  <2> QED BY <1>1, <2>1, <2>2 DEF t
<1>3. Text(<<"[">>) \in Paths(S, x, Ready, Push(x, "["), {"["})
  <2> DEFINE t == Token("[")
  <2>1. t \in S /\ t.t = "[" /\ t.t \in {"{", "["}
    BY <1>1
  <2> HIDE DEF t
  <2>2. <<t>> \in Paths(S, x, Ready, Push(x, t.t), {t.t})
    BY <2>1, OpenPath
  <2> QED BY <1>1, <2>1, <2>2 DEF t
<1>4. Text(<<"}">>) \in Paths(S, Push(x, "{"), Done, x, {"}"})
  <2> DEFINE b == "{"
             t == Token("}")
  <2>1. b \in {"{", "["} /\ t \in S /\ t.t = Closing[b] /\ t.t = "}"
    BY <1>1 DEF Closing
  <2> HIDE DEF b, t
  <2>2. <<t>> \in Paths(S, Push(x, b), Done \cup {"["}, x, {t.t})
    BY <2>1, ClosePath
  <2>3. <<t>> \in Paths(S, Push(x, b), Done, x, {t.t})
    BY <2>2, PathWider
  <2> QED BY <1>1, <2>1, <2>3 DEF b, t
<1>5. Text(<<"]">>) \in Paths(S, Push(x, "["), Done \cup {"["}, x, {"]"})
  <2> DEFINE b == "["
             t == Token("]")
  <2>1. b \in {"{", "["} /\ t \in S /\ t.t = Closing[b] /\ t.t = "]"
    BY <1>1 DEF Closing
  <2> HIDE DEF b, t
  <2>2. <<t>> \in Paths(S, Push(x, b), Done \cup {"["}, x, {t.t})
    BY <2>1, ClosePath
  <2> QED BY <1>1, <2>1, <2>2 DEF b, t
<1>6. Comma \in Paths(S, x, Done, x, {","})
  BY <1>1, CommaPath DEF Comma
<1> QED BY <1>2, <1>3, <1>4, <1>5, <1>6

LEMMA SpacePaths == ASSUME NEW S, Alphabet(S), NEW x, NEW A PROVE Space \in Paths(S, x, A, x, A)
<1>1. Token(" ") \in S /\ Token(" ").t = " " /\ Text(<<" ">>) = <<Token(" ")>>
  BY TokenIn DEF Names
<1> QED BY <1>1, SpacePath DEF Space

LEMMA ValueIn == ASSUME NEW S, NEW m \in ValueTexts(S) PROVE m \in Seq(S) /\ \A x \in Inner : m \in Paths(S, x, Ready, x, Done)
  BY DEF ValueTexts

LEMMA EntryValue == ASSUME NEW S, NEW t \in S, t.t = "e" PROVE <<t>> \in ValueTexts(S)
<1>1. ASSUME NEW x \in Inner PROVE <<t>> \in Paths(S, x, Ready, x, Done)
  <2>1. <<t>> \in Paths(S, x, Ready, x, {"e"}) /\ {"e"} \subseteq Done
    BY EntryPath DEF Done
  <2> QED BY <2>1, PathWider
<1> QED BY <1>1, OneIn DEF ValueTexts

LEMMA ValueSpaced == ASSUME NEW S, Alphabet(S), NEW a \in ValueTexts(S) PROVE a \o Space \in ValueTexts(S)
<1>1. Tokens(S) /\ a \in Seq(S) /\ Space \in Seq(S)
  BY TokenIn, ValueIn DEF Alphabet, Space, Names
<1>2. \A x \in Inner : a \o Space \in Paths(S, x, Ready, x, Done)
  BY <1>1, ValueIn, SpacePaths, PathJoin
<1>3. a \o Space \in Seq(S)
  BY <1>1
<1> QED BY <1>2, <1>3 DEF ValueTexts

LEMMA SeparatorFacts ==
  ASSUME NEW S, Alphabet(S), NEW sep \in Separators
  PROVE  /\ sep \in Seq(S) /\ Comma \in Seq(S) /\ Space \in Seq(S)
         /\ Spaced = Space \o Comma
         /\ \A x \in Inner : sep \in Paths(S, x, Done, x, {","})
<1>1. Comma \in Seq(S) /\ Space \in Seq(S) /\ Tokens(S)
  BY TokenIn DEF Comma, Space, Names, Alphabet
<1>2. Spaced = Space \o Comma
  BY TextJoined2 DEF Space, Comma, Spaced
<1>3. Spaced \in Seq(S)
  BY <1>1, <1>2, JoinIn
<1>4. ASSUME NEW x \in Inner PROVE sep \in Paths(S, x, Done, x, {","})
  <2>1. Comma \in Paths(S, x, Done, x, {","})
    BY TokenPaths
  <2>2. Space \in Paths(S, x, Done, x, Done)
    BY SpacePaths
  <2>3. Space \o Comma \in Paths(S, x, Done, x, {","})
    BY <1>1, <2>1, <2>2, PathJoin
  <2> QED BY <1>2, <2>1, <2>3 DEF Separators
<1> QED BY <1>1, <1>2, <1>3, <1>4 DEF Separators

\* Two values with a separator between them.
LEMMA ValuesJoined ==
  ASSUME NEW S, Alphabet(S), NEW a \in ValueTexts(S), NEW b \in ValueTexts(S), NEW sep \in Separators
  PROVE  (a \o sep) \o b \in ValueTexts(S)
<1>1. Tokens(S) /\ a \in Seq(S) /\ b \in Seq(S) /\ sep \in Seq(S) /\ {","} \subseteq Ready
  BY ValueIn, SeparatorFacts DEF Alphabet, Ready
<1>2. ASSUME NEW x \in Inner PROVE (a \o sep) \o b \in Paths(S, x, Ready, x, Done)
  <2>1. a \o sep \in Paths(S, x, Ready, x, {","})
    BY <1>1, ValueIn, SeparatorFacts, PathJoin
  <2> QED BY <1>1, <2>1, ValueIn, PathJoin
<1>3. (a \o sep) \o b \in Seq(S)
  BY <1>1, JoinIn
<1> QED BY <1>2, <1>3 DEF ValueTexts

LEMMA ListIn == ASSUME NEW S, Alphabet(S), NEW sep \in Separators, NEW l \in ListTexts(S, sep) PROVE l \in Seq(S)
<1>1. << >> \in Seq(S) /\ sep \in Seq(S)
  BY SeparatorFacts, NothingIn
<1>2. CASE l = << >>
  BY <1>1, <1>2
<1>3. CASE \E m \in ValueTexts(S) : l = m \o sep
  BY <1>1, <1>3, ValueIn
<1> QED BY <1>2, <1>3 DEF ListTexts

LEMMA ValueListed == ASSUME NEW S, NEW a \in ValueTexts(S), NEW sep PROVE a \o sep \in ListTexts(S, sep)
  BY DEF ListTexts

LEMMA ListsJoined ==
  ASSUME NEW S, Alphabet(S), NEW sep \in Separators, NEW a \in ListTexts(S, sep), NEW b \in ListTexts(S, sep)
  PROVE  a \o b \in ListTexts(S, sep)
<1>1. a \in Seq(S) /\ b \in Seq(S) /\ sep \in Seq(S)
  BY ListIn, SeparatorFacts
<1>2. CASE a = << >>
  <2>1. a \o b = b
    BY <1>1, <1>2
  <2> QED BY <2>1
<1>3. CASE b = << >>
  <2>1. a \o b = a
    BY <1>1, <1>3
  <2> QED BY <2>1
<1>4. CASE a # << >> /\ b # << >>
  <2>1. PICK m \in ValueTexts(S) : a = m \o sep
    BY <1>4 DEF ListTexts
  <2>2. PICK n \in ValueTexts(S) : b = n \o sep
    BY <1>4 DEF ListTexts
  <2>3. m \in Seq(S) /\ n \in Seq(S)
    BY ValueIn
  <2>4. a \o b = ((m \o sep) \o n) \o sep
    BY <1>1, <2>1, <2>2, <2>3
  <2>5. (m \o sep) \o n \in ValueTexts(S)
    BY ValuesJoined
  <2> QED BY <2>4, <2>5 DEF ListTexts
<1> QED BY <1>2, <1>3, <1>4

\* A text made of lists is a list.
LEMMA ListsFlatten ==
  ASSUME NEW S, Alphabet(S), NEW sep \in Separators, NEW seqs \in Seq(ListTexts(S, sep))
  PROVE  FlattenSeq(seqs) \in ListTexts(S, sep)
<1> DEFINE P == ListTexts(S, sep)
<1>1. P \in SUBSET Seq(S) /\ << >> \in P /\ \A a, b \in P : a \o b \in P
  <2>1. \A l \in P : l \in Seq(S)
    BY ListIn
  <2>2. << >> \in P
    BY DEF ListTexts
  <2>3. \A a, b \in P : a \o b \in P
    BY ListsJoined
  <2> QED BY <2>1, <2>2, <2>3
<1> HIDE DEF P
<1>2. seqs \in Seq(P)
  BY DEF P
<1>3. FlattenSeq(seqs) \in P
  BY <1>1, <1>2, FlattenIn
<1> QED BY <1>3 DEF P

\* Stepping back over the last separator leaves the values of the list.
LEMMA BackComma ==
  ASSUME NEW S, Alphabet(S), NEW a \in ListTexts(S, Comma), a # << >>
  PROVE  Back(a) \in ValueTexts(S) /\ a = Back(a) \o Comma
<1>1. PICK m \in ValueTexts(S) : a = m \o Comma
  BY DEF ListTexts
<1>2. m \in Seq(S) /\ Token(",") \in S /\ Comma = <<Token(",")>>
  BY TokenIn, ValueIn DEF Comma, Names
<1> QED BY <1>1, <1>2, BackOne

LEMMA BackSpaced ==
  ASSUME NEW S, Alphabet(S), NEW a \in ListTexts(S, Spaced), a # << >>
  PROVE  \E m \in ValueTexts(S) : Back(a) = m \o Space /\ Back(m \o Space) = m /\ a = (m \o Space) \o Comma
<1>1. PICK m \in ValueTexts(S) : a = m \o Spaced
  BY DEF ListTexts
<1>2. /\ m \in Seq(S) /\ Token(",") \in S /\ Comma = <<Token(",")>> /\ Token(" ") \in S /\ Space = <<Token(" ")>>
      /\ Comma \in Seq(S) /\ Space \in Seq(S) /\ Spaced = Space \o Comma /\ m \o Space \in Seq(S)
  <2>1. /\ m \in Seq(S) /\ Token(",") \in S /\ Comma = <<Token(",")>> /\ Token(" ") \in S /\ Space = <<Token(" ")>>
    BY TokenIn, ValueIn DEF Comma, Space, Names
  <2>2. Comma \in Seq(S) /\ Space \in Seq(S) /\ Spaced = Space \o Comma
    BY SeparatorFacts DEF Separators
  <2> QED BY <2>1, <2>2, JoinIn
<1>3. a = (m \o Space) \o Comma
  <2>2. m \in Seq(S) /\ Space \in Seq(S) /\ Comma \in Seq(S)
    BY <1>2
  <2>1. (m \o Space) \o Comma = m \o (Space \o Comma)
    BY <2>2, JoinedTwice
  <2> QED BY <1>1, <1>2, <2>1
<1>4. Back((m \o Space) \o Comma) = m \o Space
  BY <1>2, BackOne
<1>5. Back(m \o Space) = m
  BY <1>2, BackOne
<1> QED BY <1>3, <1>4, <1>5

LEMMA BackAfter ==
  ASSUME NEW S, Alphabet(S), NEW sep \in Separators, NEW a \in Seq(S), NEW b \in ListTexts(S, sep), b # << >>
  PROVE  Back(a \o b) = a \o Back(b)
<1>1. b \in Seq(S)
  BY ListIn
<1> QED BY <1>1, BackJoined

(***************************************************************************)
(* What a text tells.                                                      *)
(***************************************************************************)
LEMMA RangeIs == ASSUME NEW S, NEW a \in Seq(S) PROVE Range(a) = {a[i] : i \in 1 .. Len(a)}
<1>1. DOMAIN a = 1 .. Len(a)
  OBVIOUS
<1> QED BY <1>1 DEF Range

LEMMA RangeJoined == ASSUME NEW S, NEW a \in Seq(S), NEW b \in Seq(S) PROVE Range(a \o b) = Range(a) \cup Range(b)
<1> DEFINE c == a \o b
<1>1. /\ c \in Seq(S) /\ Len(c) = Len(a) + Len(b) /\ Len(a) \in Nat /\ Len(b) \in Nat
      /\ \A i \in 1 .. Len(a) : c[i] = a[i]
      /\ \A i \in 1 .. Len(b) : c[Len(a) + i] = b[i]
  OBVIOUS
<1>2. /\ Range(a) = {a[i] : i \in 1 .. Len(a)} /\ Range(b) = {b[i] : i \in 1 .. Len(b)}
      /\ Range(c) = {c[i] : i \in 1 .. Len(c)}
  BY <1>1, RangeIs
<1> HIDE DEF c
<1>3. ASSUME NEW i \in 1 .. Len(c) PROVE c[i] \in Range(a) \cup Range(b)
  <2>1. CASE i <= Len(a)
    BY <1>1, <1>2, <2>1
  <2>2. CASE i > Len(a)
    <3>1. i - Len(a) \in 1 .. Len(b) /\ Len(a) + (i - Len(a)) = i
      BY <1>1, <2>2
    <3> QED BY <1>1, <1>2, <3>1
  <2> QED BY <1>1, <2>1, <2>2
<1>4. ASSUME NEW i \in 1 .. Len(a) PROVE a[i] \in Range(c)
  <2>1. i \in 1 .. Len(c) /\ c[i] = a[i]
    BY <1>1
  <2> QED BY <1>2, <2>1
<1>5. ASSUME NEW i \in 1 .. Len(b) PROVE b[i] \in Range(c)
  <2>1. Len(a) + i \in 1 .. Len(c) /\ c[Len(a) + i] = b[i]
    BY <1>1
  <2> QED BY <1>2, <2>1
<1>6. Range(c) = Range(a) \cup Range(b)
  BY <1>2, <1>3, <1>4, <1>5
<1> QED BY <1>6 DEF c

LEMMA ToldJoined == ASSUME NEW S, NEW a \in Seq(S), NEW b \in Seq(S) PROVE ToldIn(a \o b) = ToldIn(a) \cup ToldIn(b)
  BY RangeJoined DEF ToldIn

LEMMA ToldOne ==
  ASSUME NEW x PROVE ToldIn(<<x>>) = IF x.t = "e" THEN {x} ELSE {}
<1>1. Range(<<x>>) = {x}
  BY DEF Range
<1> QED BY <1>1 DEF ToldIn, IsEntry

LEMMA ToldNone == ToldIn(<< >>) = {}
<1>1. Range(<< >>) = {}
  BY DEF Range
<1> QED BY <1>1 DEF ToldIn

LEMMA NothingTold ==
  ASSUME NEW S, NEW a \in Seq(S), NEW b \in Seq(S), ToldIn(a) = {}, ToldIn(b) = {}
  PROVE  a \o b \in Seq(S) /\ ToldIn(a \o b) = {}
  BY ToldJoined, JoinIn

\* Brackets, commas and spaces tell nothing.
LEMMA ToldTexts ==
  ASSUME NEW S, Alphabet(S)
  PROVE  /\ \A a \in Names \ {"e"} : ToldIn(Text(<<a>>)) = {}
         /\ \A a, b \in Names \ {"e"} : ToldIn(Text(<<a, b>>)) = {}
         /\ \A a, b, c \in Names \ {"e"} : ToldIn(Text(<<a, b, c>>)) = {}
         /\ \A a, b, c, d \in Names \ {"e"} : ToldIn(Text(<<a, b, c, d>>)) = {}
         /\ \A a, b, c, d, e \in Names \ {"e"} : ToldIn(Text(<<a, b, c, d, e>>)) = {}
<1> DEFINE N == Names \ {"e"}
<1>1. \A a \in N : Text(<<a>>) \in Seq(S) /\ ToldIn(Text(<<a>>)) = {}
  <2> TAKE a \in N
  <2>1. Token(a).t = a /\ Text(<<a>>) = <<Token(a)>> /\ Text(<<a>>) \in Seq(S)
    BY TokenIn
  <2>2. ToldIn(<<Token(a)>>) = {}
    BY <2>1, ToldOne
  <2> QED BY <2>1, <2>2
<1> HIDE DEF N
<1>2. \A a, b \in N : Text(<<a, b>>) \in Seq(S) /\ ToldIn(Text(<<a, b>>)) = {}
  <2> TAKE a, b \in N
  <2>1. Text(<<a, b>>) = Text(<<a>>) \o Text(<<b>>)
    BY TextJoined2
  <2>2. /\ Text(<<a>>) \in Seq(S) /\ ToldIn(Text(<<a>>)) = {}
        /\ Text(<<b>>) \in Seq(S) /\ ToldIn(Text(<<b>>)) = {}
    BY <1>1
  <2> QED BY <2>1, <2>2, NothingTold
<1>3. \A a, b, c \in N : Text(<<a, b, c>>) \in Seq(S) /\ ToldIn(Text(<<a, b, c>>)) = {}
  <2> TAKE a, b, c \in N
  <2>1. Text(<<a, b, c>>) = Text(<<a, b>>) \o Text(<<c>>)
    BY TextJoined3
  <2>2. /\ Text(<<a, b>>) \in Seq(S) /\ ToldIn(Text(<<a, b>>)) = {}
        /\ Text(<<c>>) \in Seq(S) /\ ToldIn(Text(<<c>>)) = {}
    BY <1>1, <1>2
  <2> QED BY <2>1, <2>2, NothingTold
<1>4. \A a, b, c, d \in N : Text(<<a, b, c, d>>) \in Seq(S) /\ ToldIn(Text(<<a, b, c, d>>)) = {}
  <2> TAKE a, b, c, d \in N
  <2>1. Text(<<a, b, c, d>>) = Text(<<a, b, c>>) \o Text(<<d>>)
    BY TextJoined4
  <2>2. /\ Text(<<a, b, c>>) \in Seq(S) /\ ToldIn(Text(<<a, b, c>>)) = {}
        /\ Text(<<d>>) \in Seq(S) /\ ToldIn(Text(<<d>>)) = {}
    BY <1>1, <1>3
  <2> QED BY <2>1, <2>2, NothingTold
<1>5. \A a, b, c, d, e \in N : Text(<<a, b, c, d, e>>) \in Seq(S) /\ ToldIn(Text(<<a, b, c, d, e>>)) = {}
  <2> TAKE a, b, c, d, e \in N
  <2>1. Text(<<a, b, c, d, e>>) = Text(<<a, b, c, d>>) \o Text(<<e>>)
    BY TextJoined5, ZenonT(30)
  <2>2. /\ Text(<<a, b, c, d>>) \in Seq(S) /\ ToldIn(Text(<<a, b, c, d>>)) = {}
        /\ Text(<<e>>) \in Seq(S) /\ ToldIn(Text(<<e>>)) = {}
    BY <1>1, <1>4
  <2> QED BY <2>1, <2>2, NothingTold
<1> QED BY <1>1, <1>2, <1>3, <1>4, <1>5 DEF N

\* Nor does stepping back over a separator take away an entry.
LEMMA ToldBackComma ==
  ASSUME NEW S, Alphabet(S), NEW a \in ListTexts(S, Comma), a # << >>
  PROVE  ToldIn(Back(a)) = ToldIn(a)
<1>1. Back(a) \in Seq(S) /\ a = Back(a) \o Comma /\ Comma \in Seq(S)
  BY BackComma, ValueIn, SeparatorFacts DEF Separators
<1>2. ToldIn(Comma) = {}
  BY ToldTexts DEF Comma, Names
<1>3. ToldIn(Back(a) \o Comma) = ToldIn(Back(a)) \cup ToldIn(Comma)
  BY <1>1, ToldJoined
<1> QED BY <1>1, <1>2, <1>3

LEMMA ToldFlatten ==
  ASSUME NEW S, NEW seqs \in Seq(Seq(S))
  PROVE  ToldIn(FlattenSeq(seqs)) = UNION {ToldIn(seqs[i]) : i \in 1 .. Len(seqs)}
<1> DEFINE n == Len(seqs)
           P == [i \in 0 .. n |-> {m \in Seq(S) : ToldIn(m) = UNION {ToldIn(seqs[j]) : j \in 1 .. i}}]
<1>1. n \in Nat /\ \A i \in 1 .. n : seqs[i] \in Seq(S)
  OBVIOUS
<1>2. P \in [0 .. n -> SUBSET Seq(S)]
  OBVIOUS
<1>3. << >> \in P[0]
  BY <1>1, NothingIn, ToldNone
<1>4. ASSUME NEW i \in 1 .. n, NEW a \in P[i - 1] PROVE a \o seqs[i] \in P[i]
  <2> DEFINE before == UNION {ToldIn(seqs[j]) : j \in 1 .. i - 1}
             with == UNION {ToldIn(seqs[j]) : j \in 1 .. i}
  <2>1. i - 1 \in 0 .. n /\ i \in 0 .. n
    BY <1>1
  <2>2. a \in Seq(S) /\ ToldIn(a) = before
    BY <2>1
  <2>3. \A j \in 1 .. i : j \in 1 .. i - 1 \/ j = i
    OBVIOUS
  <2>4. \A j \in 1 .. i - 1 : j \in 1 .. i
    OBVIOUS
  <2>5. with = before \cup ToldIn(seqs[i])
    <3>1. \A x \in with : x \in before \cup ToldIn(seqs[i])
      BY <2>3
    <3>2. \A x \in before : x \in with
      BY <2>4
    <3>3. \A x \in ToldIn(seqs[i]) : x \in with
      OBVIOUS
    <3> HIDE DEF before, with
    <3> QED BY <3>1, <3>2, <3>3
  <2>6. a \o seqs[i] \in Seq(S) /\ ToldIn(a \o seqs[i]) = ToldIn(a) \cup ToldIn(seqs[i])
    BY <1>1, <2>2, JoinIn, ToldJoined
  <2> HIDE DEF before, with
  <2>7. a \o seqs[i] \in {m \in Seq(S) : ToldIn(m) = with}
    BY <2>2, <2>5, <2>6
  <2> QED BY <2>1, <2>7 DEF with
<1> HIDE DEF P
<1>5. FlattenSeq(seqs) \in P[n]
  BY <1>2, <1>3, <1>4, FlattenSteps
<1> QED BY <1>1, <1>5 DEF P

LEMMA ToldBackSpaced ==
  ASSUME NEW S, Alphabet(S), NEW a \in ListTexts(S, Spaced), a # << >>
  PROVE  \E m \in ValueTexts(S) : /\ Back(a) = m \o Space /\ Back(m \o Space) = m
                                  /\ ToldIn(m) = ToldIn(a) /\ ToldIn(m \o Space) = ToldIn(a)
<1>1. PICK m \in ValueTexts(S) : Back(a) = m \o Space /\ Back(m \o Space) = m /\ a = (m \o Space) \o Comma
  BY BackSpaced
<1>2. m \in Seq(S) /\ Space \in Seq(S) /\ Comma \in Seq(S) /\ m \o Space \in Seq(S)
  <2>1. m \in Seq(S) /\ Space \in Seq(S) /\ Comma \in Seq(S)
    BY ValueIn, SeparatorFacts DEF Separators
  <2> QED BY <2>1, JoinIn
<1>3. ToldIn(Space) = {} /\ ToldIn(Comma) = {}
  BY ToldTexts DEF Space, Comma, Names
<1>4. ToldIn(m \o Space) = ToldIn(m) \cup ToldIn(Space)
  BY <1>2, ToldJoined
<1>5. ToldIn((m \o Space) \o Comma) = ToldIn(m \o Space) \cup ToldIn(Comma)
  BY <1>2, ToldJoined, ZenonT(30)
<1> QED BY <1>1, <1>3, <1>4, <1>5

(***************************************************************************)
(* Reports of buffer statistics and thresholds.                            *)
(***************************************************************************)
LEMMA JoinFacts ==
  ASSUME NEW S, NEW a \in Seq(S), NEW b \in Seq(S)
  PROVE  a \o b \in Seq(S) /\ ToldIn(a \o b) = ToldIn(a) \cup ToldIn(b)
  BY JoinIn, ToldJoined

LEMMA MapIn == ASSUME NEW n \in Nat, NEW T, NEW s \in [1 .. n -> T] PROVE s \in Seq(T) /\ Len(s) = n /\ \A i \in 1 .. n : s[i] \in T
  OBVIOUS

\* An object around a list.
Opened == Text(<<"{", "[">>)
Closed == Text(<<"]", "}">>)

LEMMA ListPaths ==
  ASSUME NEW S, Alphabet(S), NEW x \in Inner
  PROVE  /\ Push(x, "{") \in Inner /\ Push(Push(x, "{"), "[") \in Inner
         /\ Opened \in Seq(S) /\ Closed \in Seq(S) /\ ToldIn(Opened) = {} /\ ToldIn(Closed) = {}
         /\ Opened \in Paths(S, x, Ready, Push(Push(x, "{"), "["), {"["})
         /\ Closed \in Paths(S, Push(Push(x, "{"), "["), Done \cup {"["}, x, {"}"})
<1> DEFINE y == Push(x, "{")
           z == Push(y, "[")
<1>1. y \in Inner
  BY PushFacts DEF Inner
<1> HIDE DEF y
<1>2. z \in Inner
  BY <1>1, PushFacts DEF Inner
<1>3. Tokens(S) /\ {"{"} \subseteq Ready /\ {"]"} \subseteq Done
  BY DEF Alphabet, Ready, Done
<1>4. Opened \in Paths(S, x, Ready, z, {"["})
  <2>1. Opened = Text(<<"{">>) \o Text(<<"[">>)
    BY TextJoined2 DEF Opened
  <2>2. Text(<<"{">>) \in Paths(S, x, Ready, y, {"{"})
    BY TokenPaths DEF y
  <2>3. Text(<<"[">>) \in Paths(S, y, Ready, z, {"["})
    BY <1>1, TokenPaths
  <2> HIDE DEF z
  <2> QED BY <1>3, <2>1, <2>2, <2>3, PathJoin
<1>5. Closed \in Paths(S, z, Done \cup {"["}, x, {"}"})
  <2>1. Closed = Text(<<"]">>) \o Text(<<"}">>)
    BY TextJoined2 DEF Closed
  <2>2. Text(<<"]">>) \in Paths(S, z, Done \cup {"["}, y, {"]"})
    BY <1>1, TokenPaths
  <2>3. Text(<<"}">>) \in Paths(S, y, Done, x, {"}"})
    BY TokenPaths DEF y
  <2> HIDE DEF z
  <2> QED BY <1>3, <2>1, <2>2, <2>3, PathJoin
<1>6. Opened \in Seq(S) /\ Closed \in Seq(S) /\ ToldIn(Opened) = {} /\ ToldIn(Closed) = {}
  BY TextsIn, ToldTexts DEF Opened, Closed, Names
<1> QED BY <1>1, <1>2, <1>4, <1>5, <1>6 DEF y

\* The last separator of a list, or the space of its opening, gives way to
\* the brackets that close it.
LEMMA ListClosed ==
  ASSUME NEW S, Alphabet(S), NEW l \in ListTexts(S, Spaced)
  PROVE  /\ CloseList(Open \o l) \in ListTexts(S, Spaced) /\ CloseList(Open \o l) # << >>
         /\ ToldIn(CloseList(Open \o l)) = ToldIn(l)
<1> DEFINE inner == Back(Open \o l)
<1>1. /\ Open \in Seq(S) /\ Opened \in Seq(S) /\ Closed \in Seq(S) /\ Spaced \in Seq(S) /\ l \in Seq(S)
      /\ ToldIn(Open) = {} /\ ToldIn(Opened) = {} /\ ToldIn(Closed) = {} /\ ToldIn(Spaced) = {}
  BY TextsIn, ToldTexts, ListIn, SeparatorFacts DEF Open, Opened, Closed, Names, Separators, Spaced
<1>2. Open = Opened \o Space /\ Space = <<Token(" ")>> /\ Token(" ") \in S
  <2>1. Open = Opened \o Space
    BY TextJoined3 DEF Open, Opened, Space
  <2>2. Space = <<Token(" ")>> /\ Token(" ") \in S
    BY TokenIn DEF Space, Names
  <2> QED BY <2>1, <2>2
<1>3. Close = Closed \o Spaced
  <2>1. Close = (Closed \o Space) \o Comma
    <3>1. Close = Text(<<"]", "}", " ">>) \o Comma
      BY TextJoined4 DEF Close, Comma
    <3>2. Text(<<"]", "}", " ">>) = Closed \o Space
      BY TextJoined3 DEF Closed, Space
    <3> QED BY <3>1, <3>2
  <2>2. Spaced = Space \o Comma /\ Space \in Seq(S) /\ Comma \in Seq(S)
    BY SeparatorFacts DEF Separators
  <2>3. Closed \in Seq(S)
    BY <1>1
  <2>4. (Closed \o Space) \o Comma = Closed \o (Space \o Comma)
    BY <2>2, <2>3, JoinedTwice
  <2> QED BY <2>1, <2>2, <2>4
<1>4. Tokens(S)
  BY DEF Alphabet
<1>5. /\ inner \in Seq(S) /\ ToldIn(inner) = ToldIn(l)
      /\ \A x \in Inner : inner \o Closed \in Paths(S, x, Ready, x, {"}"})
  <2>1. CASE l = << >>
    <3>1. Open \o l = Open
      BY <1>1, <2>1
    <3>2. inner = Opened
      BY <1>1, <1>2, <3>1, BackOne
    <3>3. ToldIn(l) = {}
      BY <2>1, ToldNone
    <3>4. ASSUME NEW x \in Inner PROVE Opened \o Closed \in Paths(S, x, Ready, x, {"}"})
      <4> DEFINE z == Push(Push(x, "{"), "[")
      <4>1. /\ Opened \in Paths(S, x, Ready, z, {"["})
            /\ Closed \in Paths(S, z, Done \cup {"["}, x, {"}"})
        BY ListPaths
      <4>2. {"["} \subseteq Done \cup {"["}
        OBVIOUS
      <4> HIDE DEF z
      <4> QED BY <1>4, <4>1, <4>2, PathJoin
    <3> HIDE DEF inner
    <3> QED BY <1>1, <3>2, <3>3, <3>4
  <2>2. CASE l # << >>
    <3>1. PICK m \in ValueTexts(S) : Back(l) = m \o Space /\ ToldIn(m \o Space) = ToldIn(l)
      BY <2>2, ToldBackSpaced
    <3>2. Spaced \in Separators
      BY DEF Separators
    <3>3. inner = Open \o (m \o Space)
      <4>1. Back(Open \o l) = Open \o Back(l)
        BY <1>1, <2>2, <3>2, BackAfter
      <4> QED BY <3>1, <4>1
    <3>4. m \o Space \in ValueTexts(S)
      BY ValueSpaced
    <3>5. m \o Space \in Seq(S)
      BY <3>4, ValueIn
    <3>6. Open \o (m \o Space) \in Seq(S) /\ ToldIn(Open \o (m \o Space)) = ToldIn(Open) \cup ToldIn(m \o Space)
      <4> DEFINE v == m \o Space
      <4>1. v \in Seq(S) /\ Open \in Seq(S)
        BY <1>1, <3>5
      <4> HIDE DEF v
      <4>2. Open \o v \in Seq(S) /\ ToldIn(Open \o v) = ToldIn(Open) \cup ToldIn(v)
        BY <4>1, JoinFacts
      <4> QED BY <4>2 DEF v
    <3>7. ASSUME NEW x \in Inner PROVE (Open \o (m \o Space)) \o Closed \in Paths(S, x, Ready, x, {"}"})
      <4> DEFINE z == Push(Push(x, "{"), "[")
                 v == m \o Space
      <4>1. /\ z \in Inner
            /\ Opened \in Paths(S, x, Ready, z, {"["})
            /\ Closed \in Paths(S, z, Done \cup {"["}, x, {"}"})
        BY ListPaths
      <4>2. Done \subseteq Done \cup {"["} /\ {"["} \subseteq Ready
        BY DEF Ready
      <4>3. Space \in Paths(S, z, {"["}, z, {"["})
        BY SpacePaths
      <4>4. v \in Paths(S, z, Ready, z, Done)
        BY <3>4, <4>1, ValueIn
      <4> HIDE DEF z, v
      <4>5. Open \in Paths(S, x, Ready, z, {"["})
        BY <1>2, <1>4, <4>1, <4>3, PathJoin
      <4>6. Open \o v \in Paths(S, x, Ready, z, Done)
        BY <1>4, <4>2, <4>4, <4>5, PathJoin
      <4>7. (Open \o v) \o Closed \in Paths(S, x, Ready, x, {"}"})
        BY <1>4, <4>1, <4>2, <4>6, PathJoin
      <4> QED BY <4>7 DEF v
    <3> HIDE DEF inner
    <3> QED BY <1>1, <3>1, <3>3, <3>6, <3>7
  <2> QED BY <2>1, <2>2
<1> HIDE DEF inner
<1>6. inner \o Closed \in ValueTexts(S)
  <2>1. inner \o Closed \in Seq(S)
    BY <1>1, <1>5, JoinIn
  <2>2. ASSUME NEW x \in Inner PROVE inner \o Closed \in Paths(S, x, Ready, x, Done)
    <3>1. {"}"} \subseteq Done
      BY DEF Done
    <3> QED BY <1>5, <3>1, PathWider
  <2> QED BY <2>1, <2>2 DEF ValueTexts
<1>7. CloseList(Open \o l) = (inner \o Closed) \o Spaced
  <2>1. CloseList(Open \o l) = inner \o (Closed \o Spaced)
    BY <1>3 DEF CloseList, inner
  <2>2. inner \in Seq(S) /\ Closed \in Seq(S) /\ Spaced \in Seq(S)
    BY <1>1, <1>5
  <2>3. (inner \o Closed) \o Spaced = inner \o (Closed \o Spaced)
    BY <2>2, JoinedTwice
  <2> QED BY <2>1, <2>3
<1>8. CloseList(Open \o l) \in ListTexts(S, Spaced)
  BY <1>6, <1>7, ValueListed
<1>9. (inner \o Closed) \o Spaced # << >>
  <2>1. inner \o Closed \in Seq(S) /\ Spaced \in Seq(S) /\ Len(Spaced) = 2
    <3>1. Spaced = <<Token(" "), Token(",")>>
      BY TextIs DEF Spaced
    <3> QED BY <1>1, <1>6, <3>1, ValueIn
  <2> HIDE DEF Spaced
  <2> QED BY <2>1
<1>10. ToldIn((inner \o Closed) \o Spaced) = ToldIn(l)
  <2> DEFINE w == inner \o Closed
  <2>1. inner \in Seq(S) /\ Closed \in Seq(S) /\ Spaced \in Seq(S)
    BY <1>1, <1>5
  <2>2. w \in Seq(S) /\ ToldIn(w) = ToldIn(inner) \cup ToldIn(Closed)
    BY <2>1, JoinFacts
  <2> HIDE DEF w
  <2>3. ToldIn(w \o Spaced) = ToldIn(w) \cup ToldIn(Spaced)
    BY <2>1, <2>2, JoinFacts
  <2>4. ToldIn(Closed) = {} /\ ToldIn(Spaced) = {} /\ ToldIn(inner) = ToldIn(l)
    BY <1>1, <1>5
  <2> QED BY <2>2, <2>3, <2>4 DEF w
<1> QED BY <1>7, <1>8, <1>9, <1>10

(***************************************************************************)
(* The report of BST: the lists of its realms.                             *)
(***************************************************************************)
\* What a report says of a counter, and which of them it is asked for.
BstTokens ==
  {Token(n) : n \in Names \ {"e"}}
  \cup [t : {"e"}, realm : DocumentRealms, port : 1 .. NumPorts, index : 1 .. NumIndices, value : 0 .. 1]

EntryOf(name, c) == [t |-> "e", realm |-> name, port |-> c[1], index |-> c[2], value |-> current[c]]
Shown(name, c) == OfTrigger(name, c[1], c[2]) /\ IncludeIndex(c[1], c[2])
Tells(name, cells) == {EntryOf(name, c) : c \in {d \in cells : Shown(name, d)}}
CellsOf(name) == IF name \in PortRealms THEN Cells ELSE {1} \X (1 .. NumIndices)

LEMMA TokenFacts ==
  ASSUME NEW A
  PROVE  LET S == {Token(n) : n \in Names \ {"e"}} \cup A
         IN  (\A x \in A : x.t = "e") => Alphabet(S)
<1> DEFINE S == {Token(n) : n \in Names \ {"e"}} \cup A
<1> SUFFICES ASSUME \A x \in A : x.t = "e" PROVE Alphabet(S)
  OBVIOUS
<1>1. ASSUME NEW x \in S PROVE x.t \in Names
  <2>1. CASE x \in A
    BY <2>1 DEF Names
  <2>2. CASE \E n \in Names \ {"e"} : x = Token(n)
    BY <2>2 DEF Token
  <2> QED BY <2>1, <2>2
<1>2. \A n \in Names \ {"e"} : Token(n) \in S
  OBVIOUS
<1> QED BY <1>1, <1>2 DEF Alphabet, Tokens

LEMMA BstAlphabet == Alphabet(BstTokens)
<1> DEFINE A == [t : {"e"}, realm : DocumentRealms, port : 1 .. NumPorts, index : 1 .. NumIndices, value : 0 .. 1]
<1>1. \A x \in A : x.t = "e"
  OBVIOUS
<1> HIDE DEF A
<1>2. Alphabet({Token(n) : n \in Names \ {"e"}} \cup A)
  BY <1>1, TokenFacts
<1> QED BY <1>2 DEF BstTokens, A

LEMMA RealmsAre ==
  /\ Range(IngressRealms) = {"ippg", "ipsp", "isp"}
  /\ Range(EgressRealms) = {"cpuq", "mcq", "epsp", "rqeq", "esp", "ucq", "ucqg"}
  /\ Len(IngressRealms) = 3 /\ Len(EgressRealms) = 7
  /\ IngressRealms \in Seq(DocumentRealms) /\ EgressRealms \in Seq(DocumentRealms)
<1>1. Range(IngressRealms) = {"ippg", "ipsp", "isp"}
  BY DEF Range, IngressRealms
<1>2. Range(EgressRealms) = {"cpuq", "mcq", "epsp", "rqeq", "esp", "ucq", "ucqg"}
  BY DEF Range, EgressRealms
<1>3. Len(IngressRealms) = 3 /\ Len(EgressRealms) = 7
  BY DEF IngressRealms, EgressRealms
<1>4. {"ippg", "ipsp", "isp"} \subseteq DocumentRealms /\ {"cpuq", "mcq", "epsp", "rqeq", "esp", "ucq", "ucqg"} \subseteq DocumentRealms
  BY <1>1, <1>2 DEF DocumentRealms
<1>5. IngressRealms \in Seq(DocumentRealms) /\ EgressRealms \in Seq(DocumentRealms)
  <2> DEFINE D == DocumentRealms
  <2>1. {"ippg", "ipsp", "isp"} \subseteq D /\ {"cpuq", "mcq", "epsp", "rqeq", "esp", "ucq", "ucqg"} \subseteq D
    BY <1>4
  <2> HIDE DEF D
  <2>2. IngressRealms \in Seq(D) /\ EgressRealms \in Seq(D)
    BY <2>1 DEF IngressRealms, EgressRealms
  <2> QED BY <2>2 DEF D
<1> QED BY <1>1, <1>2, <1>3, <1>5

\* The encoders of one realm: a list, which tells the counters that are shown.
LEMMA EntryFacts ==
  ASSUME current \in Counters, NEW name \in DocumentRealms, NEW c \in Cells
  PROVE  /\ Entry(name, c[1], c[2]) = <<EntryOf(name, c)>>
         /\ EntryOf(name, c) \in BstTokens /\ EntryOf(name, c).t = "e"
<1>1. c = <<c[1], c[2]>> /\ c[1] \in 1 .. NumPorts /\ c[2] \in 1 .. NumIndices
  BY DEF Cells
<1>2. current[c] \in 0 .. 1
  BY DEF Counters
<1>3. EntryOf(name, c) \in [t : {"e"}, realm : DocumentRealms, port : 1 .. NumPorts, index : 1 .. NumIndices, value : 0 .. 1]
  BY <1>1, <1>2 DEF EntryOf
<1>4. Entry(name, c[1], c[2]) = <<EntryOf(name, c)>>
  BY <1>1 DEF Entry, EntryOf
<1> QED BY <1>3, <1>4 DEF BstTokens, EntryOf

\* An entry and its separator.
LEMMA EntryListed ==
  ASSUME current \in Counters, NEW name \in DocumentRealms, NEW c \in Cells
  PROVE  /\ Entry(name, c[1], c[2]) \o Spaced \in ListTexts(BstTokens, Spaced)
         /\ Entry(name, c[1], c[2]) \o Spaced # << >>
         /\ ToldIn(Entry(name, c[1], c[2]) \o Spaced) = {EntryOf(name, c)}
<1> DEFINE S == BstTokens
           x == EntryOf(name, c)
           v == <<x>>
<1>1. Entry(name, c[1], c[2]) = v /\ x \in S /\ x.t = "e"
  BY EntryFacts
<1>2. Alphabet(S)
  BY BstAlphabet
<1> HIDE DEF S, x
<1>3. v \in ValueTexts(S) /\ v \in Seq(S) /\ ToldIn(v) = {x}
  BY <1>1, EntryValue, OneIn, ToldOne
<1>4. Spaced \in Seq(S) /\ ToldIn(Spaced) = {} /\ Len(Spaced) = 2
  <2>1. Spaced \in Seq(S)
    BY <1>2, SeparatorFacts DEF Separators
  <2>2. ToldIn(Spaced) = {}
    BY <1>2, ToldTexts DEF Spaced, Names
  <2>3. Spaced = <<Token(" "), Token(",")>>
    BY TextIs DEF Spaced
  <2> QED BY <2>1, <2>2, <2>3
<1> HIDE DEF v
<1>5. v \o Spaced \in ListTexts(S, Spaced)
  BY <1>3, ValueListed
<1>6. ToldIn(v \o Spaced) = {x}
  BY <1>3, <1>4, JoinFacts
<1>7. v \o Spaced # << >>
  BY <1>3, <1>4
<1> QED BY <1>1, <1>5, <1>6, <1>7 DEF S, x

LEMMA IndexListFacts ==
  ASSUME current \in Counters, NEW name \in DocumentRealms, NEW port \in 1 .. NumPorts
  PROVE  /\ IndexList(name, port) \in ListTexts(BstTokens, Spaced)
         /\ ToldIn(IndexList(name, port)) = Tells(name, {port} \X (1 .. NumIndices))
<1> DEFINE S == BstTokens
           L == ListTexts(S, Spaced)
           piece(i) == IF OfTrigger(name, port, i) /\ IncludeIndex(port, i)
                       THEN Entry(name, port, i) \o Spaced ELSE << >>
           pieces == [i \in 1 .. NumIndices |-> piece(i)]
<1>1. Alphabet(S) /\ NumIndices \in Nat /\ Spaced \in Separators
  BY BstAlphabet, DocumentsAssumption DEF Separators
<1>2. ASSUME NEW i \in 1 .. NumIndices
      PROVE  /\ piece(i) \in L
             /\ ToldIn(piece(i)) = IF Shown(name, <<port, i>>) THEN {EntryOf(name, <<port, i>>)} ELSE {}
  <2> DEFINE c == <<port, i>>
  <2>1. c \in Cells /\ c[1] = port /\ c[2] = i
    BY DEF Cells
  <2> HIDE DEF c
  <2>2. CASE Shown(name, c)
    <3>1. piece(i) = Entry(name, c[1], c[2]) \o Spaced
      BY <2>1, <2>2 DEF Shown
    <3> HIDE DEF piece
    <3> QED BY <2>1, <2>2, <3>1, EntryListed DEF c
  <2>3. CASE ~Shown(name, c)
    <3>1. piece(i) = << >>
      BY <2>1, <2>3 DEF Shown
    <3>2. << >> \in L
      BY DEF ListTexts
    <3> HIDE DEF piece, L
    <3> QED BY <2>3, <3>1, <3>2, ToldNone DEF c
  <2> QED BY <2>2, <2>3
<1>3. IndexList(name, port) = FlattenSeq(pieces)
  BY DEF IndexList, Spaced
<1>4. \A i \in 1 .. NumIndices : piece(i) \in L /\ pieces[i] = piece(i)
  BY <1>2
<1>5. pieces \in [1 .. NumIndices -> L]
  BY <1>4
<1> HIDE DEF pieces, piece, L
<1>6. pieces \in Seq(L) /\ Len(pieces) = NumIndices
  BY <1>1, <1>5, MapIn
<1>7. FlattenSeq(pieces) \in L
  <2>1. pieces \in Seq(ListTexts(S, Spaced))
    BY <1>6 DEF L
  <2> QED BY <1>1, <2>1, ListsFlatten DEF L
<1>8. pieces \in Seq(Seq(S))
  <2>1. \A i \in 1 .. NumIndices : pieces[i] \in Seq(S)
    BY <1>1, <1>4, ListIn DEF L
  <2> QED BY <1>6, <2>1
<1>9. ToldIn(FlattenSeq(pieces)) = UNION {ToldIn(pieces[i]) : i \in 1 .. NumIndices}
  BY <1>6, <1>8, ToldFlatten
<1>10. UNION {ToldIn(pieces[i]) : i \in 1 .. NumIndices} = Tells(name, {port} \X (1 .. NumIndices))
  <2>1. ASSUME NEW i \in 1 .. NumIndices, NEW e \in ToldIn(pieces[i]) PROVE e \in Tells(name, {port} \X (1 .. NumIndices))
    <3>1. <<port, i>> \in {port} \X (1 .. NumIndices) /\ Shown(name, <<port, i>>) /\ e = EntryOf(name, <<port, i>>)
      BY <1>2, <1>4, <2>1
    <3> QED BY <3>1 DEF Tells
  <2>2. ASSUME NEW e \in Tells(name, {port} \X (1 .. NumIndices)) PROVE \E i \in 1 .. NumIndices : e \in ToldIn(pieces[i])
    <3>1. PICK c \in {port} \X (1 .. NumIndices) : Shown(name, c) /\ e = EntryOf(name, c)
      BY DEF Tells
    <3>2. c[2] \in 1 .. NumIndices /\ c = <<port, c[2]>>
      OBVIOUS
    <3>3. e \in ToldIn(pieces[c[2]])
      BY <1>2, <1>4, <3>1, <3>2
    <3> QED BY <3>2, <3>3
  <2> QED BY <2>1, <2>2
<1> QED BY <1>3, <1>7, <1>9, <1>10 DEF L

LEMMA FlattenSome ==
  ASSUME NEW S, NEW seqs \in Seq(Seq(S)), NEW k \in 1 .. Len(seqs), seqs[k] # << >>
  PROVE  FlattenSeq(seqs) # << >>
<1> DEFINE n == Len(seqs)
           P == [i \in 0 .. n |-> {m \in Seq(S) : k <= i => Len(m) > 0}]
<1>1. n \in Nat /\ (\A i \in 1 .. n : seqs[i] \in Seq(S)) /\ k \in 1 .. n
  OBVIOUS
<1>2. P \in [0 .. n -> SUBSET Seq(S)]
  OBVIOUS
<1>3. << >> \in P[0]
  BY <1>1, NothingIn
<1>4. Len(seqs[k]) > 0
  BY <1>1
<1>5. ASSUME NEW i \in 1 .. n, NEW a \in P[i - 1] PROVE a \o seqs[i] \in P[i]
  <2>1. i - 1 \in 0 .. n /\ i \in 0 .. n
    BY <1>1
  <2>2. a \in Seq(S) /\ (k <= i - 1 => Len(a) > 0) /\ seqs[i] \in Seq(S)
    BY <1>1, <2>1
  <2>3. a \o seqs[i] \in Seq(S) /\ Len(a \o seqs[i]) = Len(a) + Len(seqs[i]) /\ Len(a) \in Nat /\ Len(seqs[i]) \in Nat
    BY <2>2, SMTT(30)
  <2>4. k <= i => Len(a) > 0 \/ i = k
    BY <1>1, <2>2
  <2>5. k <= i => Len(a \o seqs[i]) > 0
    BY <1>4, <2>3, <2>4
  <2> QED BY <2>1, <2>3, <2>5
<1> HIDE DEF P
<1>6. FlattenSeq(seqs) \in P[n]
  BY <1>2, <1>3, <1>5, FlattenSteps
<1> QED BY <1>1, <1>6 DEF P

LEMMA FlatRealmFacts ==
  ASSUME current \in Counters, NEW name \in DocumentRealms \ PortRealms
  PROVE  /\ FlatRealm(name) \in ListTexts(BstTokens, Spaced) /\ FlatRealm(name) # << >>
         /\ ToldIn(FlatRealm(name)) = Tells(name, CellsOf(name))
<1>1. Alphabet(BstTokens) /\ 1 \in 1 .. NumPorts
  BY BstAlphabet, DocumentsAssumption
<1>2. IndexList(name, 1) \in ListTexts(BstTokens, Spaced) /\ ToldIn(IndexList(name, 1)) = Tells(name, CellsOf(name))
  BY <1>1, IndexListFacts DEF CellsOf
<1> QED BY <1>1, <1>2, ListClosed DEF FlatRealm

LEMMA PortListFacts ==
  ASSUME current \in Counters, NEW name \in DocumentRealms, NEW port \in 1 .. NumPorts
  PROVE  /\ PortList(name, port) \in ListTexts(BstTokens, Spaced)
         /\ ToldIn(PortList(name, port)) = Tells(name, {port} \X (1 .. NumIndices))
<1>1. Alphabet(BstTokens)
  BY BstAlphabet
<1>2. IndexList(name, port) \in ListTexts(BstTokens, Spaced) /\ ToldIn(IndexList(name, port)) = Tells(name, {port} \X (1 .. NumIndices))
  BY IndexListFacts
<1> QED BY <1>1, <1>2, ListClosed DEF PortList

\* A realm with a list for each of its ports that has something to show, or with none.
LEMMA PortRealmFacts ==
  ASSUME current \in Counters, NEW name \in PortRealms
  PROVE  /\ PortRealm(name) \in ListTexts(BstTokens, Spaced) /\ PortRealm(name) # << >>
         /\ ToldIn(PortRealm(name)) = Tells(name, CellsOf(name))
<1> DEFINE S == BstTokens
           L == ListTexts(S, Spaced)
           lists == [p \in 1 .. NumPorts |-> PortList(name, p)]
<1>1. Alphabet(S) /\ NumPorts \in Nat /\ Spaced \in Separators
  BY BstAlphabet, DocumentsAssumption DEF Separators
<1>2. name \in DocumentRealms
  BY RealmsAre DEF PortRealms, DocumentRealms
<1>3. ASSUME NEW p \in 1 .. NumPorts
      PROVE  lists[p] = PortList(name, p) /\ lists[p] \in L /\ ToldIn(lists[p]) = Tells(name, {p} \X (1 .. NumIndices))
  <2>1. lists[p] = PortList(name, p)
    OBVIOUS
  <2> HIDE DEF lists
  <2> QED BY <1>2, <2>1, PortListFacts
<1>4. lists \in [1 .. NumPorts -> L]
  BY <1>3
<1>5. PortRealm(name) = CloseList(Open \o FlattenSeq(lists))
  BY DEF PortRealm
<1> HIDE DEF lists, L
<1>6. lists \in Seq(L) /\ Len(lists) = NumPorts
  BY <1>1, <1>4, MapIn
<1>7. FlattenSeq(lists) \in L
  <2>1. lists \in Seq(ListTexts(S, Spaced))
    BY <1>6 DEF L
  <2> QED BY <1>1, <2>1, ListsFlatten DEF L
<1>8. lists \in Seq(Seq(S))
  <2>1. \A p \in 1 .. NumPorts : lists[p] \in Seq(S)
    BY <1>1, <1>3, ListIn DEF L
  <2> QED BY <1>6, <2>1
<1>9. ToldIn(FlattenSeq(lists)) = UNION {ToldIn(lists[p]) : p \in 1 .. NumPorts}
  BY <1>6, <1>8, ToldFlatten
<1>10. UNION {ToldIn(lists[p]) : p \in 1 .. NumPorts} = Tells(name, Cells)
  <2>1. ASSUME NEW p \in 1 .. NumPorts, NEW e \in ToldIn(lists[p]) PROVE e \in Tells(name, Cells)
    <3>1. e \in Tells(name, {p} \X (1 .. NumIndices))
      BY <1>3, <2>1
    <3>2. {p} \X (1 .. NumIndices) \subseteq Cells
      BY DEF Cells
    <3> QED BY <3>1, <3>2 DEF Tells
  <2>2. ASSUME NEW e \in Tells(name, Cells) PROVE \E p \in 1 .. NumPorts : e \in ToldIn(lists[p])
    <3>1. PICK c \in Cells : Shown(name, c) /\ e = EntryOf(name, c)
      BY DEF Tells
    <3>2. c[1] \in 1 .. NumPorts /\ c \in {c[1]} \X (1 .. NumIndices)
      BY DEF Cells
    <3>3. e \in Tells(name, {c[1]} \X (1 .. NumIndices))
      BY <3>1, <3>2 DEF Tells
    <3> QED BY <1>3, <3>2, <3>3
  <2> QED BY <2>1, <2>2
<1>11. CellsOf(name) = Cells
  BY DEF CellsOf
<1>12. /\ CloseList(Open \o FlattenSeq(lists)) \in ListTexts(S, Spaced) /\ CloseList(Open \o FlattenSeq(lists)) # << >>
       /\ ToldIn(CloseList(Open \o FlattenSeq(lists))) = ToldIn(FlattenSeq(lists))
  <2> DEFINE l == FlattenSeq(lists)
  <2>1. l \in ListTexts(S, Spaced)
    BY <1>7 DEF L
  <2> HIDE DEF l
  <2>2. /\ CloseList(Open \o l) \in ListTexts(S, Spaced) /\ CloseList(Open \o l) # << >>
        /\ ToldIn(CloseList(Open \o l)) = ToldIn(l)
    BY <1>1, <2>1, ListClosed
  <2> QED BY <2>2 DEF l
<1> QED BY <1>5, <1>9, <1>10, <1>11, <1>12

LEMMA ReportRealmFacts ==
  ASSUME current \in Counters, NEW name \in DocumentRealms \ {"device"}
  PROVE  /\ ReportRealm(name) \in ListTexts(BstTokens, Spaced) /\ ReportRealm(name) # << >>
         /\ ToldIn(ReportRealm(name)) = Tells(name, CellsOf(name))
<1>1. name \in {"ippg", "ipsp", "isp", "cpuq", "mcq", "epsp", "rqeq", "esp", "ucq", "ucqg"}
  BY RealmsAre DEF DocumentRealms
<1>2. CASE name \in PortRealms
  <2>1. ReportRealm(name) = PortRealm(name)
    BY <1>2 DEF PortRealms, ReportRealm, IngressIppg, IngressIpsp, EgressEpsp
  <2> QED BY <1>2, <2>1, PortRealmFacts
<1>3. CASE name \notin PortRealms
  <2>1. ReportRealm(name) = FlatRealm(name)
    BY <1>1, <1>3 DEF PortRealms, ReportRealm, IngressSp, EgressCpuq, EgressMcq, EgressRqeq, EgressSp, EgressUcq, EgressUcqg
  <2> QED BY <1>3, <2>1, FlatRealmFacts
<1> QED BY <1>2, <1>3

\* The realms one after the other.
LEMMA ReportRealmsFacts ==
  ASSUME current \in Counters, NEW realms \in Seq(DocumentRealms \ {"device"})
  PROVE  /\ ReportRealms(realms) \in ListTexts(BstTokens, Spaced)
         /\ ToldIn(ReportRealms(realms)) = UNION {Tells(name, CellsOf(name)) : name \in Include \cap Range(realms)}
         /\ Asked(realms) => ReportRealms(realms) # << >>
<1> DEFINE S == BstTokens
           n == Len(realms)
           L == ListTexts(S, Spaced)
           piece(i) == IF realms[i] \in Include THEN ReportRealm(realms[i]) ELSE << >>
           pieces == [i \in 1 .. n |-> piece(i)]
<1>1. /\ Alphabet(S) /\ n \in Nat /\ Spaced \in Separators /\ \A i \in 1 .. n : realms[i] \in DocumentRealms \ {"device"}
      /\ Range(realms) = {realms[i] : i \in 1 .. n}
  BY BstAlphabet, RangeIs DEF Separators
<1>2. ASSUME NEW i \in 1 .. n
      PROVE  /\ piece(i) \in L
             /\ ToldIn(piece(i)) = IF realms[i] \in Include THEN Tells(realms[i], CellsOf(realms[i])) ELSE {}
             /\ realms[i] \in Include => piece(i) # << >>
  <2>1. CASE realms[i] \in Include
    <3>1. piece(i) = ReportRealm(realms[i])
      BY <2>1
    <3> HIDE DEF piece
    <3> QED BY <1>1, <2>1, <3>1, ReportRealmFacts
  <2>2. CASE realms[i] \notin Include
    <3>1. piece(i) = << >>
      BY <2>2
    <3>2. << >> \in L
      BY DEF ListTexts
    <3> HIDE DEF piece, L
    <3> QED BY <2>2, <3>1, <3>2, ToldNone
  <2> QED BY <2>1, <2>2
<1>3. ReportRealms(realms) = FlattenSeq(pieces)
  BY DEF ReportRealms
<1>4. \A i \in 1 .. n : piece(i) \in L /\ pieces[i] = piece(i)
  BY <1>2
<1>5. pieces \in [1 .. n -> L]
  BY <1>4
<1> HIDE DEF pieces, piece, L, n
<1>6. pieces \in Seq(L) /\ Len(pieces) = n
  BY <1>1, <1>5, MapIn
<1>7. FlattenSeq(pieces) \in L
  <2>1. pieces \in Seq(ListTexts(S, Spaced))
    BY <1>6 DEF L
  <2> QED BY <1>1, <2>1, ListsFlatten DEF L
<1>8. pieces \in Seq(Seq(S))
  <2>1. \A i \in 1 .. n : pieces[i] \in Seq(S)
    BY <1>1, <1>4, ListIn DEF L
  <2> QED BY <1>6, <2>1
<1>9. ToldIn(FlattenSeq(pieces)) = UNION {ToldIn(pieces[i]) : i \in 1 .. n}
  BY <1>6, <1>8, ToldFlatten
<1>10. UNION {ToldIn(pieces[i]) : i \in 1 .. n} = UNION {Tells(name, CellsOf(name)) : name \in Include \cap Range(realms)}
  <2>1. ASSUME NEW i \in 1 .. n, NEW e \in ToldIn(pieces[i])
        PROVE  \E name \in Include \cap Range(realms) : e \in Tells(name, CellsOf(name))
    <3>1. realms[i] \in Include /\ e \in Tells(realms[i], CellsOf(realms[i])) /\ realms[i] \in Range(realms)
      BY <1>1, <1>2, <1>4, <2>1
    <3> QED BY <3>1
  <2>2. ASSUME NEW name \in Include \cap Range(realms), NEW e \in Tells(name, CellsOf(name))
        PROVE  \E i \in 1 .. n : e \in ToldIn(pieces[i])
    <3>1. PICK i \in 1 .. n : realms[i] = name
      BY <1>1
    <3> QED BY <1>2, <1>4, <3>1
  <2> DEFINE told == UNION {ToldIn(pieces[i]) : i \in 1 .. n}
             tells == UNION {Tells(name, CellsOf(name)) : name \in Include \cap Range(realms)}
  <2>3. \A e \in told : e \in tells
    BY <2>1
  <2>4. \A e \in tells : e \in told
    BY <2>2
  <2>5. told = tells
    <3> HIDE DEF told, tells
    <3> QED BY <2>3, <2>4
  <2> QED BY <2>5
<1>11. Asked(realms) => FlattenSeq(pieces) # << >>
  <2> SUFFICES ASSUME Asked(realms) PROVE FlattenSeq(pieces) # << >>
    OBVIOUS
  <2>1. PICK i \in 1 .. n : realms[i] \in Include
    BY <1>1 DEF Asked
  <2>2. pieces[i] # << >> /\ i \in 1 .. Len(pieces)
    BY <1>2, <1>4, <1>6, <2>1
  <2> QED BY <1>8, <2>2, FlattenSome
<1> QED BY <1>3, <1>7, <1>9, <1>10, <1>11 DEF L

\* A value after a list, and the brackets of a document around them.
LEMMA ListValue ==
  ASSUME NEW S, Alphabet(S), NEW sep \in Separators, NEW l \in ListTexts(S, sep), NEW v \in ValueTexts(S)
  PROVE  l \o v \in ValueTexts(S)
<1>1. l \in Seq(S) /\ v \in Seq(S)
  BY ListIn, ValueIn
<1>2. CASE l = << >>
  <2>1. l \o v = v
    BY <1>1, <1>2
  <2> QED BY <2>1
<1>3. CASE l # << >>
  <2>1. PICK m \in ValueTexts(S) : l = m \o sep
    BY <1>3 DEF ListTexts
  <2> QED BY <2>1, ValuesJoined
<1> QED BY <1>2, <1>3

\* The brackets around a report.
Outermost == Push(<< >>, "{")
TopList == Push(Outermost, "[")
ReportEnd == Text(<<" ", "]", " ", "}">>)

LEMMA StartPaths ==
  ASSUME NEW S, Alphabet(S)
  PROVE  /\ Outermost \in Inner /\ TopList \in Inner
         /\ Text(<<"{">>) \in Paths(S, << >>, {"start"}, Outermost, {"{"})
         /\ Text(<<"}">>) \in Paths(S, Outermost, Done, << >>, {"}"})
         /\ Opened \in Paths(S, << >>, {"start"}, TopList, {"["})
         /\ Open \in Paths(S, << >>, {"start"}, TopList, {"["})
<1>1. Token("{") \in S /\ Token("{").t = "{" /\ Text(<<"{">>) = <<Token("{")>>
  BY TokenIn DEF Names
<1>2. Token("}") \in S /\ Token("}").t = "}" /\ Text(<<"}">>) = <<Token("}")>>
  BY TokenIn DEF Names
<1>3. Text(<<"{">>) \in Paths(S, << >>, {"start"}, Outermost, {"{"}) /\ Outermost \in Inner
  <2> DEFINE t == Token("{")
  <2>1. t \in S /\ t.t = "{" /\ t.t \in {"{", "["}
    BY <1>1
  <2> HIDE DEF t
  <2>2. <<t>> \in Paths(S, << >>, {"start"}, Push(<< >>, t.t), {t.t}) /\ Push(<< >>, t.t) \in Inner
    BY <2>1, FirstPath
  <2> QED BY <1>1, <2>1, <2>2 DEF t, Outermost
<1>4. Text(<<"}">>) \in Paths(S, Outermost, Done, << >>, {"}"})
  <2> DEFINE t == Token("}")
             b == "{"
  <2>1. t \in S /\ t.t = "}" /\ b \in {"{", "["} /\ t.t = Closing[b]
    BY <1>2 DEF Closing
  <2> HIDE DEF t, b
  <2>2. <<t>> \in Paths(S, Push(<< >>, b), Done, << >>, {t.t})
    BY <2>1, LastPath
  <2> QED BY <1>2, <2>1, <2>2 DEF t, b, Outermost
<1>5. TopList \in Inner
  BY <1>3, PushFacts DEF TopList, Inner
<1>6. Opened \in Paths(S, << >>, {"start"}, TopList, {"["})
  <2>1. Opened = Text(<<"{">>) \o Text(<<"[">>)
    BY TextJoined2 DEF Opened
  <2>2. Text(<<"[">>) \in Paths(S, Outermost, Ready, TopList, {"["})
    BY <1>3, TokenPaths DEF TopList
  <2>3. Tokens(S) /\ {"{"} \subseteq Ready
    BY DEF Alphabet, Ready
  <2> QED BY <1>3, <2>1, <2>2, <2>3, PathJoin
<1>7. Open \in Paths(S, << >>, {"start"}, TopList, {"["})
  <2>1. Open = Opened \o Space
    BY TextJoined3 DEF Open, Opened, Space
  <2>2. Space \in Paths(S, TopList, {"["}, TopList, {"["})
    BY SpacePaths
  <2>3. Tokens(S)
    BY DEF Alphabet
  <2> QED BY <1>6, <2>1, <2>2, <2>3, PathJoin
<1> QED BY <1>3, <1>4, <1>5, <1>6, <1>7

LEMMA ReportEndFacts ==
  ASSUME NEW S, Alphabet(S)
  PROVE  /\ ReportEnd \in Paths(S, TopList, Done \cup {"["}, << >>, {"}"})
         /\ ReportEnd \in Seq(S) /\ ToldIn(ReportEnd) = {} /\ ReportEnd # << >>
<1> DEFINE t2 == Text(<<" ", "]">>)
           t3 == Text(<<" ", "]", " ">>)
<1>1. t2 = Space \o Text(<<"]">>) /\ t3 = t2 \o Space /\ ReportEnd = t3 \o Text(<<"}">>)
  <2>1. t2 = Space \o Text(<<"]">>)
    BY TextJoined2 DEF Space
  <2>2. t3 = t2 \o Space
    BY TextJoined3 DEF Space
  <2>3. ReportEnd = t3 \o Text(<<"}">>)
    BY TextJoined4 DEF ReportEnd
  <2> QED BY <2>1, <2>2, <2>3
<1>2. /\ Text(<<"]">>) \in Paths(S, TopList, Done \cup {"["}, Outermost, {"]"})
      /\ Text(<<"}">>) \in Paths(S, Outermost, Done, << >>, {"}"})
      /\ Space \in Paths(S, TopList, Done \cup {"["}, TopList, Done \cup {"["})
      /\ Space \in Paths(S, Outermost, {"]"}, Outermost, {"]"})
  BY StartPaths, TokenPaths, SpacePaths DEF TopList
<1>3. Tokens(S) /\ {"]"} \subseteq Done
  BY DEF Alphabet, Done
<1> HIDE DEF t2, t3
<1>4. t2 \in Paths(S, TopList, Done \cup {"["}, Outermost, {"]"})
  BY <1>1, <1>2, <1>3, PathJoin
<1>5. t3 \in Paths(S, TopList, Done \cup {"["}, Outermost, {"]"})
  BY <1>1, <1>2, <1>3, <1>4, PathJoin
<1>6. ReportEnd \in Paths(S, TopList, Done \cup {"["}, << >>, {"}"})
  BY <1>1, <1>2, <1>3, <1>5, PathJoin
<1>7. ReportEnd \in Seq(S) /\ ToldIn(ReportEnd) = {}
  BY TextsIn, ToldTexts DEF ReportEnd, Names
<1>8. ReportEnd # << >>
  <2>1. ReportEnd = <<Token(" "), Token("]"), Token(" "), Token("}")>>
    BY TextIs DEF ReportEnd
  <2> QED BY <2>1
<1> QED BY <1>6, <1>7, <1>8

\* What is asked for, and whether the device has something to tell.
LEMMA AskFacts ==
  ASSUME ask \in ReportAsks
  PROVE  /\ Include \subseteq DocumentRealms
         /\ OneIndex => Include = {ask.realm}
         /\ Trigger => ~HasPrevious
<1>1. \A s \in IncludeSets : s \subseteq DocumentRealms
  BY DEF IncludeSets
<1>2. ask.include \in IncludeSets \/ ask.include \in {{}, DocumentRealms}
  BY DEF ReportAsks
<1>3. ask.realm \in {"device", "ippg"} \cup DocumentRealms
  BY DEF ReportAsks
<1>4. ask.realm \in DocumentRealms
  BY <1>3, RealmsAre DEF DocumentRealms
<1>5. ask.include \subseteq DocumentRealms
  BY <1>1, <1>2
<1> QED BY <1>4, <1>5 DEF Include, OneIndex, Trigger, HasPrevious

DeviceTells == "device" \in Include /\ (HasPrevious => previous[<<1, 1>>] # current[<<1, 1>>])
TellsDevice == IF DeviceTells THEN {EntryOf("device", <<1, 1>>)} ELSE {}
TellsRealms(realms) == UNION {Tells(name, CellsOf(name)) : name \in Include \cap Range(realms)}

LEMMA DeviceFacts ==
  ASSUME current \in Counters
  PROVE  /\ ReportDevice \in ListTexts(BstTokens, Spaced) /\ ToldIn(ReportDevice) = TellsDevice
         /\ DeviceTells => ReportDevice # << >>
<1>1. <<1, 1>> \in Cells /\ "device" \in DocumentRealms
  BY DocumentsAssumption DEF Cells, DocumentRealms
<1>2. CASE DeviceTells
  <2>1. ReportDevice = Entry("device", 1, 1) \o Spaced
    BY <1>2 DEF ReportDevice, DeviceTells, Spaced
  <2> DEFINE c == <<1, 1>>
             d == "device"
  <2>2. c \in Cells /\ d \in DocumentRealms /\ c[1] = 1 /\ c[2] = 1
    BY <1>1
  <2> HIDE DEF c, d
  <2>3. /\ Entry(d, c[1], c[2]) \o Spaced \in ListTexts(BstTokens, Spaced)
        /\ Entry(d, c[1], c[2]) \o Spaced # << >>
        /\ ToldIn(Entry(d, c[1], c[2]) \o Spaced) = {EntryOf(d, c)}
    BY <2>2, EntryListed
  <2>4. Entry(d, c[1], c[2]) = Entry("device", 1, 1)
    BY <2>2 DEF d
  <2> QED BY <1>2, <2>1, <2>3, <2>4 DEF c, d, TellsDevice
<1>3. CASE ~DeviceTells
  <2>1. ReportDevice = << >>
    BY <1>3 DEF ReportDevice, DeviceTells
  <2>2. << >> \in ListTexts(BstTokens, Spaced)
    BY DEF ListTexts
  <2> QED BY <1>3, <2>1, <2>2, ToldNone DEF TellsDevice
<1> QED BY <1>2, <1>3

LEMMA RealmListsFacts ==
  ASSUME current \in Counters
  PROVE  \A realms \in {IngressRealms, EgressRealms} :
           /\ ReportRealms(realms) \in ListTexts(BstTokens, Spaced)
           /\ ToldIn(ReportRealms(realms)) = TellsRealms(realms)
           /\ Asked(realms) => ReportRealms(realms) # << >>
           /\ ~Asked(realms) => TellsRealms(realms) = {}
<1> DEFINE D == DocumentRealms \ {"device"}
<1>1. {"ippg", "ipsp", "isp"} \subseteq D /\ {"cpuq", "mcq", "epsp", "rqeq", "esp", "ucq", "ucqg"} \subseteq D
  BY RealmsAre DEF DocumentRealms
<1> HIDE DEF D
<1>2. IngressRealms \in Seq(D) /\ EgressRealms \in Seq(D)
  BY <1>1 DEF IngressRealms, EgressRealms
<1> TAKE realms \in {IngressRealms, EgressRealms}
<1>3. realms \in Seq(DocumentRealms \ {"device"})
  BY <1>2 DEF D
<1>4. ~Asked(realms) => TellsRealms(realms) = {}
  BY DEF Asked, TellsRealms
<1> QED BY <1>3, <1>4, ReportRealmsFacts DEF TellsRealms

(***************************************************************************)
(* The report of BST as a whole, and what a collector has of it.           *)
(***************************************************************************)
LEMMA JoinSome == ASSUME NEW S, NEW a \in Seq(S), NEW b \in Seq(S), b # << >> PROVE a \o b # << >>
  OBVIOUS

\* What comes after the opening of a report: nothing, or values with a
\* separator, or half of one, to step back over.
Bodies(S) == {b \in Seq(S) : b # << >> => Back(b) \in ValueTexts(S) /\ ToldIn(Back(b)) = ToldIn(b)}
Body == (ReportDevice \o ReportIngress) \o ReportEgress

\* A list can be stepped back over, also after another that was stepped back over already.
LEMMA ListBody ==
  ASSUME NEW S, Alphabet(S), NEW l \in ListTexts(S, Spaced)
  PROVE  l \in Bodies(S)
<1>1. l \in Seq(S)
  BY ListIn DEF Separators
<1>2. ASSUME l # << >> PROVE Back(l) \in ValueTexts(S) /\ ToldIn(Back(l)) = ToldIn(l)
  <2>1. PICK m \in ValueTexts(S) : Back(l) = m \o Space /\ ToldIn(m \o Space) = ToldIn(l)
    BY <1>2, ToldBackSpaced
  <2> QED BY <2>1, ValueSpaced
<1> QED BY <1>1, <1>2 DEF Bodies

LEMMA SpacedBody ==
  ASSUME NEW S, Alphabet(S), NEW a \in ListTexts(S, Spaced), NEW l \in ListTexts(S, Spaced), l # << >>
  PROVE  /\ a \o Back(l) \in Bodies(S) /\ a \o Back(l) # << >>
         /\ ToldIn(a \o Back(l)) = ToldIn(a) \cup ToldIn(l)
<1>1. PICK m \in ValueTexts(S) : /\ Back(l) = m \o Space
                                 /\ ToldIn(m) = ToldIn(l)
  BY ToldBackSpaced
<1> DEFINE v == a \o m
<1>2. a \in Seq(S) /\ m \in Seq(S)
  BY <1>1, ListIn, ValueIn DEF Separators
<1>3. Space \in Seq(S) /\ Space = <<Token(" ")>> /\ Token(" ") \in S
  BY TokenIn DEF Space, Names
<1>4. Spaced \in Separators
  BY DEF Separators
<1>5. v \in ValueTexts(S)
  BY <1>1, <1>4, ListValue
<1>6. v \in Seq(S) /\ ToldIn(v) = ToldIn(a) \cup ToldIn(l)
  <2>1. a \o m \in Seq(S) /\ ToldIn(a \o m) = ToldIn(a) \cup ToldIn(m)
    BY <1>2, JoinFacts
  <2> QED BY <1>1, <2>1
<1>7. a \o Back(l) = v \o Space
  <2>1. Space \in Seq(S)
    BY <1>3
  <2>2. (a \o m) \o Space = a \o (m \o Space)
    BY <1>2, <2>1, JoinedTwice
  <2> QED BY <1>1, <2>2
<1> HIDE DEF v
<1>8. Back(v \o Space) = v
  BY <1>3, <1>6, BackOne
<1>9. v \o Space \in Seq(S) /\ ToldIn(v \o Space) = ToldIn(v)
  <2>1. Space \in Seq(S)
    BY <1>3
  <2>2. v \o Space \in Seq(S) /\ ToldIn(v \o Space) = ToldIn(v) \cup ToldIn(Space)
    BY <1>6, <2>1, JoinFacts
  <2>3. ToldIn(Space) = {}
    BY ToldTexts DEF Space, Names
  <2> QED BY <2>2, <2>3
<1>10. v \o Space # << >>
  <2> DEFINE s == Space
  <2>1. s \in Seq(S) /\ Len(s) = 1
    BY <1>3
  <2> HIDE DEF s
  <2>2. v \o s # << >>
    BY <1>6, <2>1, SMTT(30)
  <2> QED BY <2>2 DEF s
<1> QED BY <1>5, <1>6, <1>7, <1>8, <1>9, <1>10 DEF Bodies

\* The body of a report tells the realms that were asked for.
LEMMA BodyFacts ==
  ASSUME current \in Counters, ask \in ReportAsks
  PROVE  /\ Body \in Bodies(BstTokens)
         /\ ToldIn(Body) = (TellsDevice \cup TellsRealms(IngressRealms)) \cup TellsRealms(EgressRealms)
         /\ DeviceTells \/ Asked(IngressRealms) \/ Asked(EgressRealms) => Body # << >>
<1> DEFINE S == BstTokens
           d == ReportDevice
           i == ReportRealms(IngressRealms)
           e == ReportRealms(EgressRealms)
<1>1. Alphabet(S) /\ Spaced \in Separators
  BY BstAlphabet DEF Separators
<1>2. /\ d \in ListTexts(S, Spaced) /\ ToldIn(d) = TellsDevice /\ (DeviceTells => d # << >>)
      /\ i \in ListTexts(S, Spaced) /\ ToldIn(i) = TellsRealms(IngressRealms)
      /\ e \in ListTexts(S, Spaced) /\ ToldIn(e) = TellsRealms(EgressRealms)
      /\ Asked(IngressRealms) => i # << >>
      /\ ~Asked(IngressRealms) => TellsRealms(IngressRealms) = {}
      /\ Asked(EgressRealms) => e # << >>
      /\ ~Asked(EgressRealms) => TellsRealms(EgressRealms) = {}
  BY DeviceFacts, RealmListsFacts
<1>3. /\ ReportIngress = IF ~Asked(IngressRealms) THEN << >> ELSE IF Asked(EgressRealms) THEN i ELSE Back(i)
      /\ ReportEgress = IF Asked(EgressRealms) THEN Back(e) ELSE << >>
      /\ Body = (d \o ReportIngress) \o ReportEgress
  BY DEF ReportIngress, ReportEgress, Body
<1> HIDE DEF d, i, e, S
<1>4. d \in Seq(S) /\ i \in Seq(S)
  BY <1>1, <1>2, ListIn
<1>5. CASE Asked(EgressRealms)
  <2> DEFINE a == d \o ReportIngress
  <2>1. a \in ListTexts(S, Spaced) /\ ToldIn(a) = TellsDevice \cup TellsRealms(IngressRealms)
    <3>1. CASE Asked(IngressRealms)
      <4>1. ReportIngress = i
        BY <1>3, <1>5, <3>1
      <4>2. d \o i \in ListTexts(S, Spaced)
        BY <1>1, <1>2, ListsJoined
      <4>3. ToldIn(d \o i) = ToldIn(d) \cup ToldIn(i)
        BY <1>4, JoinFacts
      <4> QED BY <1>2, <4>1, <4>2, <4>3
    <3>2. CASE ~Asked(IngressRealms)
      <4>1. a = d
        BY <1>3, <1>4, <3>2
      <4> HIDE DEF a
      <4> QED BY <1>2, <3>2, <4>1
    <3> QED BY <3>1, <3>2
  <2>2. Body = a \o Back(e)
    BY <1>3, <1>5
  <2> HIDE DEF a
  <2>3. /\ a \o Back(e) \in Bodies(S) /\ a \o Back(e) # << >>
        /\ ToldIn(a \o Back(e)) = ToldIn(a) \cup ToldIn(e)
    BY <1>1, <1>2, <1>5, <2>1, SpacedBody
  <2> QED BY <1>2, <2>1, <2>2, <2>3 DEF S
<1>6. CASE ~Asked(EgressRealms) /\ Asked(IngressRealms)
  <2>1. /\ d \o Back(i) \in Bodies(S) /\ d \o Back(i) # << >>
        /\ ToldIn(d \o Back(i)) = ToldIn(d) \cup ToldIn(i)
    BY <1>1, <1>2, <1>6, SpacedBody
  <2>2. Body = (d \o Back(i)) \o << >>
    BY <1>3, <1>6
  <2> DEFINE b == d \o Back(i)
  <2>3. b \in Seq(S)
    BY <2>1 DEF Bodies
  <2> HIDE DEF b
  <2>4. b \o << >> = b
    BY <2>3
  <2>5. Body = b
    BY <2>2, <2>4 DEF b
  <2> QED BY <1>2, <1>6, <2>1, <2>5 DEF S, b
<1>7. CASE ~Asked(EgressRealms) /\ ~Asked(IngressRealms)
  <2>1. Body = (d \o << >>) \o << >>
    BY <1>3, <1>7
  <2>2. Body = d
    BY <1>4, <2>1
  <2>3. d \in Bodies(S)
    BY <1>1, <1>2, ListBody
  <2> QED BY <1>2, <1>7, <2>2, <2>3 DEF S
<1> QED BY <1>5, <1>6, <1>7

\* A report is read by a parser and tells the realms that were asked for.
LEMMA EncodeReportFacts ==
  ASSUME current \in Counters, ask \in ReportAsks
  PROVE  /\ EncodeReport # << >>
         /\ ToldIn(EncodeReport) = (TellsDevice \cup TellsRealms(IngressRealms)) \cup TellsRealms(EgressRealms)
         /\ ~(Trigger /\ Include = {}) => IsWellFormed(EncodeReport)
<1> DEFINE S == BstTokens
           st == ReportStart
           b == Body
           r == Back(st \o b)
<1>1. Alphabet(S) /\ Tokens(S)
  BY BstAlphabet DEF Alphabet
<1>2. b \in Bodies(S) /\ b \in Seq(S)
  BY BodyFacts DEF Bodies
<1>3. /\ st \in {Opened, Open} /\ (~Trigger => st = Open)
      /\ Opened \in Seq(S) /\ Open \in Seq(S) /\ ToldIn(Opened) = {} /\ ToldIn(Open) = {}
  <2>1. st \in {Opened, Open} /\ (~Trigger => st = Open)
    BY DEF ReportStart, Opened, Open
  <2>2. Opened \in Seq(S) /\ Open \in Seq(S) /\ ToldIn(Opened) = {} /\ ToldIn(Open) = {}
    BY <1>1, TextsIn, ToldTexts DEF Opened, Open, Names
  <2> QED BY <2>1, <2>2
<1>4. st \in Seq(S) /\ ToldIn(st) = {}
  BY <1>3
<1>5. EncodeReport = r \o ReportEnd
  <2>1. ((st \o ReportDevice) \o ReportIngress) \o ReportEgress = st \o b
    <3> DEFINE i == ReportIngress
               e == ReportEgress
               d == ReportDevice
    <3>1. d \in Seq(S) /\ i \in Seq(S) /\ e \in Seq(S)
      <4> DEFINE j == ReportRealms(IngressRealms)
                 k == ReportRealms(EgressRealms)
      <4>1. /\ d \in ListTexts(S, Spaced) /\ j \in ListTexts(S, Spaced) /\ k \in ListTexts(S, Spaced)
            /\ (Asked(IngressRealms) => j # << >>) /\ (Asked(EgressRealms) => k # << >>)
        BY DeviceFacts, RealmListsFacts
      <4>2. /\ i = IF ~Asked(IngressRealms) THEN << >> ELSE IF Asked(EgressRealms) THEN j ELSE Back(j)
            /\ e = IF Asked(EgressRealms) THEN Back(k) ELSE << >>
        BY DEF ReportIngress, ReportEgress
      <4> HIDE DEF i, e, d, j, k
      <4>3. \A l \in ListTexts(S, Spaced) : l \in Seq(S)
        BY <1>1, ListIn DEF Separators
      <4>4. \A l \in ListTexts(S, Spaced) : l # << >> => Back(l) \in Seq(S)
        BY <4>3, FrontIn DEF Back
      <4>5. << >> \in Seq(S)
        BY NothingIn
      <4> QED BY <4>1, <4>2, <4>3, <4>4, <4>5
    <3>2. b = (d \o i) \o e
      BY DEF Body
    <3> HIDE DEF i, e, d, b, st
    <3>3. ((st \o d) \o i) \o e = st \o ((d \o i) \o e)
      <4> DEFINE x == (st \o d) \o i
                 y == st \o (d \o i)
                 z == st \o ((d \o i) \o e)
      <4>1. x = y
        BY <1>4, <3>1, JoinedTwice
      <4>2. d \o i \in Seq(S)
        BY <3>1, JoinIn
      <4>3. y \o e = z
        BY <1>4, <3>1, <4>2, JoinedTwice, SMTT(30)
      <4> HIDE DEF x, y, z
      <4>4. x \o e = z
        BY <4>1, <4>3
      <4> QED BY <4>4 DEF x, z
    <3> QED BY <3>2, <3>3 DEF i, e, d
  <2> QED BY <2>1 DEF EncodeReport, ReportEnd
<1> HIDE DEF st, b, r, S
<1> DEFINE Told2 == r \in Seq(S) /\ ToldIn(r) = ToldIn(b)
           Parses == r \in Paths(S, << >>, {"start"}, TopList, Done \cup {"["})
           Goal == Told2 /\ (~(Trigger /\ Include = {}) => Parses)
<1>6. ASSUME b = << >> PROVE Goal
  <2>1. st \o b = st
    BY <1>4, <1>6
  <2>2. r = Back(st)
    BY <2>1 DEF r
  <2>3. Token("[") \in S /\ Token(" ") \in S /\ Space = <<Token(" ")>> /\ Text(<<"[">>) = <<Token("[")>>
    BY <1>1, TokenIn DEF Names, Space
  <2>4. ToldIn(b) = {}
    BY <1>6, ToldNone
  <2>5. CASE st = Open
    <3>1. Open = Opened \o <<Token(" ")>>
      <4>1. Open = Opened \o Space
        BY TextJoined3 DEF Open, Opened, Space
      <4> QED BY <2>3, <4>1
    <3>2. r = Opened
      BY <1>3, <2>2, <2>3, <2>5, <3>1, BackOne
    <3>3. Opened \in Paths(S, << >>, {"start"}, TopList, {"["}) /\ {"["} \subseteq Done \cup {"["}
      BY <1>1, StartPaths
    <3>4. Parses
      BY <3>2, <3>3, PathWider
    <3> QED BY <1>3, <2>4, <3>2, <3>4
  <2>6. CASE st # Open
    <3>1. Opened = Text(<<"{">>) \o <<Token("[")>>
      <4>1. Opened = Text(<<"{">>) \o Text(<<"[">>)
        BY TextJoined2 DEF Opened
      <4> QED BY <2>3, <4>1
    <3>2. Text(<<"{">>) \in Seq(S) /\ ToldIn(Text(<<"{">>)) = {}
      BY <1>1, TextsIn, ToldTexts DEF Names
    <3>3. st = Opened
      BY <1>3, <2>6
    <3>4. r = Text(<<"{">>)
      BY <2>2, <2>3, <3>1, <3>2, <3>3, BackOne
    <3>5. Trigger
      BY <1>3, <2>6
    <3>6. ~DeviceTells /\ ~Asked(IngressRealms) /\ ~Asked(EgressRealms)
      BY <1>6, BodyFacts DEF b
    <3>7. Include = {}
      BY <3>5, <3>6, AskFacts DEF DeviceTells, Asked, DocumentRealms
    <3> QED BY <2>4, <3>2, <3>4, <3>5, <3>7
  <2> QED BY <2>5, <2>6
<1>7. ASSUME b # << >> PROVE Goal
  <2>1. Back(b) \in ValueTexts(S) /\ ToldIn(Back(b)) = ToldIn(b)
    BY <1>2, <1>7 DEF Bodies
  <2> DEFINE v == Back(b)
  <2>2. v \in ValueTexts(S) /\ ToldIn(v) = ToldIn(b)
    BY <2>1
  <2>3. r = st \o v
    <3>1. Back(st \o b) = st \o Back(b)
      BY <1>2, <1>4, <1>7, BackJoined
    <3> QED BY <3>1 DEF r
  <2> HIDE DEF v
  <2>4. v \in Seq(S)
    BY <2>2, ValueIn
  <2>5. st \o v \in Seq(S) /\ ToldIn(st \o v) = ToldIn(st) \cup ToldIn(v)
    <3>1. st \in Seq(S)
      BY <1>4
    <3> QED BY <2>4, <3>1, JoinFacts
  <2>6. st \in Paths(S, << >>, {"start"}, TopList, {"["}) /\ TopList \in Inner
    BY <1>1, <1>3, StartPaths
  <2>7. v \in Paths(S, TopList, Ready, TopList, Done)
    BY <2>2, <2>6, ValueIn
  <2>8. {"["} \subseteq Ready /\ Done \subseteq Done \cup {"["}
    BY DEF Ready
  <2>9. st \o v \in Paths(S, << >>, {"start"}, TopList, Done)
    BY <1>1, <2>6, <2>7, <2>8, PathJoin
  <2>10. st \o v \in Paths(S, << >>, {"start"}, TopList, Done \cup {"["})
    BY <2>8, <2>9, PathWider
  <2> QED BY <1>4, <2>2, <2>3, <2>5, <2>10
<1>8. Goal
  BY <1>6, <1>7
<1>9. /\ ReportEnd \in Paths(S, TopList, Done \cup {"["}, << >>, {"}"})
      /\ ReportEnd \in Seq(S) /\ ToldIn(ReportEnd) = {} /\ ReportEnd # << >>
  BY <1>1, ReportEndFacts
<1>10. ToldIn(EncodeReport) = ToldIn(b)
  <2>1. r \in Seq(S) /\ ReportEnd \in Seq(S)
    BY <1>8, <1>9
  <2>2. ToldIn(r \o ReportEnd) = ToldIn(r) \cup ToldIn(ReportEnd)
    BY <2>1, JoinFacts
  <2> QED BY <1>5, <1>8, <1>9, <2>2
<1>11. EncodeReport # << >>
  <2>1. r \in Seq(S) /\ ReportEnd \in Seq(S) /\ ReportEnd # << >>
    BY <1>8, <1>9
  <2>3. r \o ReportEnd # << >>
    BY <2>1, JoinSome
  <2> QED BY <1>5, <2>3
<1>12. ASSUME Parses PROVE IsWellFormed(EncodeReport)
  <2>1. Done \cup {"["} \subseteq Done \cup {"["}
    OBVIOUS
  <2>2. EncodeReport \in Paths(S, << >>, {"start"}, << >>, {"}"})
    BY <1>1, <1>5, <1>9, <1>12, <2>1, PathJoin
  <2>3. {"}"} \subseteq {"]", "}"}
    OBVIOUS
  <2>4. EncodeReport \in Paths(S, << >>, {"start"}, << >>, {"]", "}"})
    BY <2>2, <2>3, PathWider
  <2> QED BY <2>4, WellFormedPath
<1>13. ToldIn(b) = (TellsDevice \cup TellsRealms(IngressRealms)) \cup TellsRealms(EgressRealms)
  BY BodyFacts DEF b
<1> HIDE DEF Parses
<1> QED BY <1>8, <1>10, <1>11, <1>12, <1>13

(* The document is the one the encoder makes of what was asked; it has the  *)
(* values of before only if they are compared with.                         *)
DocumentInv ==
  /\ ask \in ReportAsks /\ current \in Counters /\ previous \in Counters
  /\ ~HasPrevious => previous = [c \in Cells |-> 0]
  /\ document # << >> => document = EncodeReport

LEMMA NoCounters == [c \in Cells |-> 0] \in Counters
  BY DEF Counters

\* The invariant holds: a report is encoded from the counters as they are.
LEMMA DocumentInvHolds == DocumentSpec => []DocumentInv
<1>1. DocumentInit => DocumentInv
  BY NoCounters DEF DocumentInit, DocumentInv, HasPrevious
<1>2. DocumentInv /\ [DocumentNext]_documentVars => DocumentInv'
  <2> SUFFICES ASSUME DocumentInv, [DocumentNext]_documentVars PROVE DocumentInv'
    OBVIOUS
  <2>1. UNCHANGED <<ask, current, previous>>
    BY DEF DocumentNext, SendResponse, DocumentSent, documentVars
  <2>2. /\ ask' \in ReportAsks /\ current' \in Counters /\ previous' \in Counters
        /\ ~HasPrevious' => previous' = [c \in Cells |-> 0]
    BY <2>1 DEF DocumentInv, HasPrevious
  <2>3. EncodeReport' = EncodeReport
    BY <2>1 DEF EncodeReport, ReportStart, Trigger, ReportDevice, Include, OneIndex, HasPrevious, Entry,
                ReportIngress, ReportEgress, Asked, ReportRealms, ReportRealm, IngressIppg, IngressIpsp, IngressSp,
                EgressCpuq, EgressMcq, EgressEpsp, EgressRqeq, EgressSp, EgressUcq, EgressUcqg, FlatRealm, PortRealm,
                PortList, IndexList, OfTrigger, IncludeIndex, Incremental
  <2>4. document' # << >> => document' = EncodeReport
    BY DEF DocumentInv, DocumentNext, SendResponse, DocumentSent, documentVars
  <2> QED BY <2>2, <2>3, <2>4 DEF DocumentInv
<1> QED BY <1>1, <1>2, PTL DEF DocumentSpec

\* What a report tells: the device, and of every realm in it the indices
\* that are to be shown.
LEMMA ToldIs ==
  ASSUME DocumentInv, NEW e \in Told
  PROVE  \/ DeviceTells /\ e = EntryOf("device", <<1, 1>>)
         \/ \E name \in Include \ {"device"} : \E c \in CellsOf(name) : Shown(name, c) /\ e = EntryOf(name, c)
<1>1. document = EncodeReport
  BY ToldNone DEF Told, DocumentInv
<1>2. e \in (TellsDevice \cup TellsRealms(IngressRealms)) \cup TellsRealms(EgressRealms)
  BY <1>1, EncodeReportFacts DEF Told, DocumentInv
<1>3. CASE e \in TellsDevice
  BY <1>3 DEF TellsDevice
<1>4. CASE \E realms \in {IngressRealms, EgressRealms} : e \in TellsRealms(realms)
  <2>1. PICK realms \in {IngressRealms, EgressRealms} : e \in TellsRealms(realms)
    BY <1>4
  <2>2. PICK name \in Include \cap Range(realms) : e \in Tells(name, CellsOf(name))
    BY <2>1 DEF TellsRealms
  <2>3. name # "device"
    BY <2>2, RealmsAre
  <2> QED BY <2>2, <2>3 DEF Tells
<1> QED BY <1>2, <1>3, <1>4

LEMMA ShownTold ==
  ASSUME DocumentInv, document # << >>, NEW name \in Include \ {"device"}, NEW c \in CellsOf(name), Shown(name, c)
  PROVE  EntryOf(name, c) \in Told
<1>1. name \in Range(IngressRealms) \/ name \in Range(EgressRealms)
  BY AskFacts DEF DocumentInv, DocumentRealms
<1>2. EntryOf(name, c) \in Tells(name, CellsOf(name))
  BY DEF Tells
<1>3. EntryOf(name, c) \in TellsRealms(IngressRealms) \/ EntryOf(name, c) \in TellsRealms(EgressRealms)
  BY <1>1, <1>2 DEF TellsRealms
<1> QED BY <1>3, EncodeReportFacts DEF Told, DocumentInv

LEMMA CellsFacts ==
  ASSUME NEW name PROVE CellsOf(name) \subseteq Cells /\ <<1, 1>> \in Cells
  BY DocumentsAssumption DEF CellsOf, Cells

\* A report names realms, ports and indices of the switch (bst_json_encoder.c:400-560).
THEOREM ReportTypes == DocumentSpec => []DocumentsTypeOK
<1>1. ASSUME DocumentInv PROVE DocumentsTypeOK
  <2>1. ASSUME NEW e \in Told PROVE e.realm \in Include /\ <<e.port, e.index>> \in Cells /\ e.value \in 0 .. 1
    <3>1. ASSUME NEW name, NEW c \in Cells, e = EntryOf(name, c)
          PROVE  e.realm = name /\ <<e.port, e.index>> \in Cells /\ e.value \in 0 .. 1
      <4>1. current[c] \in 0 .. 1
        BY <1>1 DEF DocumentInv, Counters
      <4> QED BY <3>1, <4>1 DEF EntryOf, Cells
    <3>2. CASE DeviceTells /\ e = EntryOf("device", <<1, 1>>)
      BY <3>1, <3>2, CellsFacts DEF DeviceTells
    <3>3. CASE \E name \in Include \ {"device"} : \E c \in CellsOf(name) : Shown(name, c) /\ e = EntryOf(name, c)
      BY <3>1, <3>3, CellsFacts
    <3> QED BY <1>1, <3>2, <3>3, ToldIs
  <2> QED BY <1>1, <2>1 DEF DocumentsTypeOK, DocumentInv
<1> QED BY <1>1, DocumentInvHolds, PTL

\* A report is a document that a JSON parser takes, however many realms, ports and
\* indices it leaves out (the steps back of bst_json_encoder.c); the one exception is a
\* trigger report with a snapshot while nothing is tracked.
THEOREM ReportParses == DocumentSpec => []ReportWellFormed
<1>1. ASSUME DocumentInv PROVE ReportWellFormed
  BY <1>1, EncodeReportFacts DEF DocumentInv, ReportWellFormed
<1> QED BY <1>1, DocumentInvHolds, PTL

\* A collector that takes zero for what it was not told, or in incremental reports the
\* value of the last one, has the counters of the switch.
THEOREM CollectorKnows == DocumentSpec => []CollectorSees
<1>1. ASSUME DocumentInv PROVE CollectorSees
  <2> SUFFICES ASSUME document # << >>, ~OneIndex, NEW name \in Include \ {"device"},
                      NEW c \in (IF name \in PortRealms THEN Cells ELSE {1} \X (1 .. NumIndices))
               PROVE  LET told == {e \in Told : e.realm = name /\ <<e.port, e.index>> = c}
                      IN  IF told = {} THEN current[c] = previous[c] ELSE \A e \in told : e.value = current[c]
    BY DEF CollectorSees
  <2> DEFINE told == {e \in Told : e.realm = name /\ <<e.port, e.index>> = c}
  <2>1. c \in CellsOf(name) /\ c \in Cells /\ c = <<c[1], c[2]>>
    BY CellsFacts DEF CellsOf, Cells
  <2>2. ASSUME NEW e \in told PROVE e.value = current[c]
    <3>1. ASSUME NEW n, NEW d \in Cells, e = EntryOf(n, d) PROVE e.value = current[c]
      <4>1. d = <<e.port, e.index>> /\ e.value = current[d]
        BY <3>1 DEF EntryOf, Cells
      <4> QED BY <4>1
    <3>2. e \in Told
      OBVIOUS
    <3> QED BY <1>1, <3>1, <3>2, ToldIs, CellsFacts
  <2>3. ASSUME told = {} PROVE current[c] = previous[c]
    <3>1. ~Shown(name, c)
      <4> SUFFICES ASSUME Shown(name, c) PROVE FALSE
        OBVIOUS
      <4>1. EntryOf(name, c) \in Told
        BY <1>1, <2>1, ShownTold
      <4>2. EntryOf(name, c).realm = name /\ <<EntryOf(name, c).port, EntryOf(name, c).index>> = c
        BY <2>1 DEF EntryOf
      <4>3. EntryOf(name, c) \in told
        BY <4>1, <4>2
      <4> QED BY <2>3, <4>3
    <3>2. ~IncludeIndex(c[1], c[2])
      BY <3>1 DEF Shown, OfTrigger
    <3>3. current[c] \in 0 .. 1
      BY <1>1, <2>1 DEF DocumentInv, Counters
    <3>4. IF HasPrevious THEN previous[c] = current[c] ELSE current[c] = 0
      BY <2>1, <3>2 DEF IncludeIndex
    <3>5. ~HasPrevious => previous[c] = 0
      BY <1>1, <2>1 DEF DocumentInv
    <3> QED BY <3>4, <3>5
  <2> QED BY <2>2, <2>3
<1> QED BY <1>1, DocumentInvHolds, PTL

\* Without a snapshot, a trigger report tells only the counter that passed its threshold.
THEOREM TriggerTells == DocumentSpec => []OnlyTheTrigger
<1>1. ASSUME DocumentInv PROVE OnlyTheTrigger
  <2> SUFFICES ASSUME document # << >>, OneIndex, NEW e \in Told
               PROVE  /\ e.realm = ask.realm
                      /\ e.realm # "device" => e.index = ask.queue + 1
                      /\ e.realm \in PortRealms => e.port = ask.port
    BY DEF OnlyTheTrigger
  <2>1. Include = {ask.realm}
    BY <1>1, AskFacts DEF DocumentInv
  <2>2. CASE DeviceTells /\ e = EntryOf("device", <<1, 1>>)
    <3>1. e.realm = "device"
      BY <2>2 DEF EntryOf
    <3> QED BY <2>1, <2>2, <3>1 DEF DeviceTells, PortRealms
  <2>3. CASE \E name \in Include \ {"device"} : \E c \in CellsOf(name) : Shown(name, c) /\ e = EntryOf(name, c)
    <3>0. PICK name \in Include \ {"device"} : \E c \in CellsOf(name) : Shown(name, c) /\ e = EntryOf(name, c)
      BY <2>3
    <3>1. PICK c \in CellsOf(name) : Shown(name, c) /\ e = EntryOf(name, c)
      BY <3>0
    <3>2. e.realm = name /\ e.port = c[1] /\ e.index = c[2] /\ name = ask.realm
      BY <2>1, <3>1 DEF EntryOf
    <3>3. c[2] - 1 = ask.queue /\ (name \in PortRealms => c[1] = ask.port)
      BY <3>1 DEF Shown, OfTrigger
    <3>4. c[2] \in Int
      BY <3>1, CellsFacts DEF Cells
    <3> QED BY <3>2, <3>3, <3>4
  <2> QED BY <1>1, <2>2, <2>3, ToldIs
<1> QED BY <1>1, DocumentInvHolds, PTL

(***************************************************************************)
(* Reports of congestion drops: the array and its order.                   *)
(***************************************************************************)
Arrays == [Indices -> [index : Indices, ctr : 0 .. 2]]

\* The counters that were read, in some order.
Reordered(a) ==
  /\ a \in Arrays
  /\ \A i \in Indices : a[i] = ReadCounters[a[i].index]
  /\ \A i, j \in Indices : a[i].index = a[j].index => i = j
  /\ \A i \in Indices : \E j \in Indices : a[j].index = i

\* The first n places hold the largest, in order.
Descending(a, n) == \A j, l \in Indices : j <= n /\ j <= l => a[l].ctr <= a[j].ctr
\* So do those before place i, which has the largest of the next k.
Filling(a, i, k) ==
  /\ Reordered(a) /\ Descending(a, i - 1)
  /\ \A l \in Indices : i <= l /\ l <= i + k => a[l].ctr <= a[i].ctr

\* A request asks for fewer counters than the array has.
LEMMA TotalIs == TotalDropCtrs \in Nat /\ TotalDropCtrs >= 1 /\ MaxCount \in Nat /\ MaxCount + 1 <= TotalDropCtrs
<1>1. DropPorts \in Nat /\ Queues \in Nat /\ MaxCount \in Nat \ {0} /\ MaxCount < TotalDropCtrs
  BY DropsAssumption, CountAssumption
<1>2. TotalDropCtrs \in Int
  BY <1>1 DEF TotalDropCtrs
<1> QED BY <1>1, <1>2

\* The array as it is read, and what one exchange does to it (bst.c:1421-1429).
LEMMA ReadReordered == ASSUME switch \in [Indices -> 0 .. 2] PROVE Reordered(ReadCounters)
<1>1. \A i \in Indices : ReadCounters[i] \in [index : Indices, ctr : 0 .. 2] /\ ReadCounters[i].index = i
  BY DEF ReadCounters
<1>2. ReadCounters \in Arrays
  BY <1>1 DEF Arrays, ReadCounters
<1> HIDE DEF ReadCounters
<1> QED BY <1>1, <1>2 DEF Reordered

LEMMA ExchangeIs ==
  ASSUME NEW a \in Arrays, NEW i \in Indices, NEW k \in Indices
  PROVE  /\ Exchange(a, i, k) \in Arrays
         /\ a[i].ctr < a[k].ctr =>
              /\ Exchange(a, i, k)[i] = a[k] /\ Exchange(a, i, k)[k] = a[i]
              /\ \A l \in Indices : l # i /\ l # k => Exchange(a, i, k)[l] = a[l]
         /\ ~(a[i].ctr < a[k].ctr) => Exchange(a, i, k) = a
  BY DEF Exchange, Arrays

LEMMA ExchangeReorders ==
  ASSUME NEW a, Reordered(a), NEW i \in Indices, NEW k \in Indices
  PROVE  Reordered(Exchange(a, i, k))
<1> DEFINE b == Exchange(a, i, k)
<1>1. a \in Arrays
  BY DEF Reordered
<1>2. CASE ~(a[i].ctr < a[k].ctr)
  <2>1. b = a
    BY <1>1, <1>2, ExchangeIs
  <2> QED BY <2>1
<1>3. CASE a[i].ctr < a[k].ctr
  <2>1. b \in Arrays /\ b[i] = a[k] /\ b[k] = a[i] /\ \A l \in Indices : l # i /\ l # k => b[l] = a[l]
    BY <1>1, <1>3, ExchangeIs
  <2> HIDE DEF b
  <2> DEFINE swapped(l) == IF l = i THEN k ELSE IF l = k THEN i ELSE l
  <2>2. \A l \in Indices : swapped(l) \in Indices /\ b[l] = a[swapped(l)] /\ swapped(swapped(l)) = l
    BY <2>1
  <2>3. \A l, m \in Indices : swapped(l) = swapped(m) => l = m
    BY <2>2
  <2> HIDE DEF swapped
  <2>4. \A l \in Indices : b[l] = ReadCounters[b[l].index]
    BY <2>2 DEF Reordered
  <2>5. \A l, m \in Indices : b[l].index = b[m].index => l = m
    BY <2>2, <2>3 DEF Reordered
  <2>6. ASSUME NEW l \in Indices PROVE \E m \in Indices : b[m].index = l
    <3>1. PICK m \in Indices : a[m].index = l
      BY DEF Reordered
    <3>2. b[swapped(m)] = a[m] /\ swapped(m) \in Indices
      BY <2>2
    <3> QED BY <3>1, <3>2
  <2>7. Reordered(b)
    BY <2>1, <2>4, <2>5, <2>6 DEF Reordered
  <2> QED BY <2>7 DEF b
<1> QED BY <1>2, <1>3

LEMMA ExchangeFills ==
  ASSUME NEW i \in Indices, NEW k \in Nat, i + (k + 1) \in Indices, NEW a, Filling(a, i, k)
  PROVE  Filling(Exchange(a, i, i + (k + 1)), i, k + 1)
<1> DEFINE m == i + (k + 1)
           b == Exchange(a, i, m)
<1>1. a \in Arrays /\ m \in Indices /\ i \in Nat /\ i < m
  BY TotalIs DEF Filling, Reordered, Indices
<1>2. Reordered(b)
  BY <1>1, ExchangeReorders DEF Filling
<1>3. \A l \in Indices : a[l].ctr \in Int /\ l \in Int
  BY <1>1, TotalIs, SMTT(30) DEF Arrays, Indices
<1>4. /\ \A j, l \in Indices : j <= i - 1 /\ j <= l => a[l].ctr <= a[j].ctr
      /\ \A l \in Indices : i <= l /\ l <= i + k => a[l].ctr <= a[i].ctr
  BY DEF Filling, Descending
<1>5. \A l \in Indices : l <= m => l <= i + k \/ l = m
  BY <1>3
<1>6. CASE ~(a[i].ctr < a[m].ctr)
  <2>1. b = a
    BY <1>1, <1>6, ExchangeIs
  <2> HIDE DEF b
  <2>2. \A l \in Indices : i <= l /\ l <= m => b[l].ctr <= b[i].ctr
    BY <1>1, <1>3, <1>4, <1>5, <1>6, <2>1
  <2>3. Descending(b, i - 1)
    BY <2>1 DEF Filling
  <2> QED BY <1>2, <2>2, <2>3 DEF Filling, b
<1>7. CASE a[i].ctr < a[m].ctr
  <2>1. b[i] = a[m] /\ b[m] = a[i] /\ \A l \in Indices : l # i /\ l # m => b[l] = a[l]
    BY <1>1, <1>7, ExchangeIs
  <2> HIDE DEF b
  <2>2. ASSUME NEW l \in Indices, i <= l, l <= m PROVE b[l].ctr <= b[i].ctr
    <3>1. CASE l = i
      BY <1>1, <1>3, <2>1, <3>1
    <3>2. CASE l = m
      BY <1>1, <1>3, <1>7, <2>1, <3>2
    <3>3. CASE l # i /\ l # m
      <4>1. a[l].ctr <= a[i].ctr
        BY <1>4, <1>5, <2>2, <3>3
      <4> QED BY <1>1, <1>3, <1>7, <2>1, <3>3, <4>1
    <3> QED BY <3>1, <3>2, <3>3
  <2>3. ASSUME NEW j \in Indices, NEW l \in Indices, j <= i - 1, j <= l PROVE b[l].ctr <= b[j].ctr
    <3>1. j # i /\ j # m /\ j <= i /\ j <= m
      BY <1>1, <1>3, <2>3
    <3>2. b[j] = a[j]
      BY <2>1, <3>1
    <3>3. b[l] \in {a[i], a[m], a[l]}
      BY <2>1
    <3>4. a[i].ctr <= a[j].ctr /\ a[m].ctr <= a[j].ctr /\ a[l].ctr <= a[j].ctr
      BY <1>1, <1>4, <2>3, <3>1
    <3> QED BY <3>2, <3>3, <3>4
  <2>4. Descending(b, i - 1)
    BY <2>3 DEF Descending
  <2> QED BY <1>2, <2>2, <2>4 DEF Filling, b
<1> QED BY <1>6, <1>7

\* One pass puts the largest of the rest in its place, by induction over the pass.
LEMMA FillFacts ==
  ASSUME NEW i \in Indices, NEW a, Reordered(a), Descending(a, i - 1)
  PROVE  Reordered(Fill(a, i)) /\ Descending(Fill(a, i), i)
<1> DEFINE n == TotalDropCtrs - i
           step == [p \in (1 .. n) \X Arrays |-> Exchange(p[2], i, i + p[1])]
           Runs(h) == h = [k \in 0 .. n |-> IF k = 0 THEN a ELSE Exchange(h[k - 1], i, i + k)]
           after == CHOOSE h : Runs(h)
<1>1. n \in Nat /\ (\A k \in 1 .. n : i + k \in Indices) /\ a \in Arrays /\ i \in Nat
  BY TotalIs DEF Indices, Reordered
<1>2. step \in StepsOn(n, Arrays)
  <2>1. \A p \in (1 .. n) \X Arrays : Exchange(p[2], i, i + p[1]) \in Arrays
    BY <1>1, ExchangeIs
  <2> QED BY <2>1 DEF StepsOn
<1>3. PICK f : f \in Recursion(n, Arrays, a, step)
  <2> HIDE DEF n, step
  <2> QED BY <1>1, <1>2, RecursionExists
<1>4. f \in [0 .. n -> Arrays] /\ f[0] = a /\ \A k \in 1 .. n : f[k] = step[<<k, f[k - 1]>>]
  BY <1>3 DEF Recursion
<1>5. ASSUME NEW k \in 1 .. n PROVE f[k] = Exchange(f[k - 1], i, i + k)
  <2>1. k - 1 \in 0 .. n
    BY <1>1
  <2>2. f[k - 1] \in Arrays
    BY <1>4, <2>1
  <2>3. step[<<k, f[k - 1]>>] = Exchange(f[k - 1], i, i + k)
    BY <2>2
  <2> HIDE DEF step
  <2> QED BY <1>4, <2>3
<1>6. Runs(f)
  <2>1. \A k \in 0 .. n : f[k] = IF k = 0 THEN a ELSE Exchange(f[k - 1], i, i + k)
    <3>1. \A k \in 0 .. n : k # 0 => k \in 1 .. n
      BY <1>1
    <3> QED BY <1>4, <1>5, <3>1
  <2> QED BY <1>4, <2>1
<1>7. Runs(after)
  <2> HIDE DEF Runs
  <2> QED BY <1>6
<1>8. \A k \in 0 .. n : after[k] = IF k = 0 THEN a ELSE Exchange(after[k - 1], i, i + k)
  <2> HIDE DEF after
  <2> QED BY <1>7
<1>9. Fill(a, i) = after[n]
  BY DEF Fill
<1> DEFINE Q == {k \in Nat : k <= n => Filling(after[k], i, k)}
<1> HIDE DEF after, Runs, step
<1>10. 0 \in Q
  <2>1. after[0] = a
    BY <1>1, <1>8
  <2>2. \A l \in Indices : i <= l /\ l <= i + 0 => a[l].ctr <= a[i].ctr
    <3>1. \A l \in Indices : l \in Int
      BY TotalIs DEF Indices
    <3>2. a[i].ctr \in Int
      BY <1>1 DEF Arrays
    <3>3. \A l \in Indices : i <= l /\ l <= i + 0 => l = i
      BY <1>1, <3>1
    <3> QED BY <3>2, <3>3
  <2> QED BY <2>1, <2>2 DEF Filling
<1>11. ASSUME NEW k \in Q PROVE k + 1 \in Q
  <2>1. CASE k + 1 <= n
    <3> DEFINE j == k + 1
    <3>1. Filling(after[k], i, k) /\ j \in 0 .. n /\ j # 0 /\ j - 1 = k /\ k \in Nat
      BY <1>1, <2>1
    <3>2. i + (k + 1) \in Indices
      BY <1>1, <2>1
    <3>3. after[j] = Exchange(after[k], i, i + j)
      <4> HIDE DEF j
      <4> QED BY <1>8, <3>1
    <3>4. Filling(Exchange(after[k], i, i + (k + 1)), i, k + 1)
      BY <3>1, <3>2, ExchangeFills
    <3> QED BY <3>3, <3>4
  <2>2. CASE ~(k + 1 <= n)
    BY <2>2
  <2> QED BY <2>1, <2>2
<1>12. n \in Q
  <2>1. Q \in SUBSET Nat
    OBVIOUS
  <2> HIDE DEF Q, n
  <2> QED BY <1>1, <1>10, <1>11, <2>1, Induction
<1>13. Filling(after[n], i, n)
  BY <1>1, <1>12
<1> DEFINE b == after[n]
<1>14. Reordered(b) /\ Descending(b, i)
  <2>1. Filling(b, i, n)
    BY <1>13
  <2> HIDE DEF b
  <2>2. \A j, l \in Indices : j <= i - 1 /\ j <= l => b[l].ctr <= b[j].ctr
    BY <2>1 DEF Filling, Descending
  <2>3. \A l \in Indices : i <= l /\ l <= i + n => b[l].ctr <= b[i].ctr
    BY <2>1 DEF Filling
  <2>4. \A l \in Indices : l <= i + n /\ l \in Int
    BY TotalIs DEF Indices
  <2>5. \A j \in Indices : j <= i => j <= i - 1 \/ j = i
    BY <1>1, <2>4
  <2>6. Descending(b, i)
    BY <2>2, <2>3, <2>4, <2>5 DEF Descending
  <2> QED BY <2>1, <2>6 DEF Filling
<1> QED BY <1>9, <1>14

\* The two kinds of request.
TopInput ==
  /\ input.type \in {"top_drops", "top_q_drops"} /\ input.count \in 1 .. MaxCount
  /\ ~input.all /\ input.queue_type \in {"all", "ucast", "mcast"}
NamedInput ==
  /\ input.type \in {"port_drops", "q_drops"} /\ input.count = 0
  /\ input.all \in BOOLEAN /\ input.queue_type \in {"all", "ucast", "mcast"}
  /\ input.ports \subseteq 1 .. DropPorts /\ input.queues \subseteq 1 .. Queues

LEMMA InputIs == ASSUME input \in Inputs PROVE TopInput \/ NamedInput
<1> DEFINE A == [type : {"top_drops"}, count : 1 .. MaxCount, ports : {{}}, all : {FALSE}, queue_type : {"all"}, queues : {{}}]
           B == [type : {"top_q_drops"}, count : 1 .. MaxCount, ports : {{}}, all : {FALSE},
                 queue_type : {"all", "ucast", "mcast"}, queues : {{}}]
           ports == {[type |-> "port_drops", count |-> 0, ports |-> l.ports, all |-> l.all,
                      queue_type |-> "all", queues |-> {}] : l \in PortLists}
           queues == {[type |-> "q_drops", count |-> 0, ports |-> l.ports, all |-> l.all, queue_type |-> t, queues |-> q] :
                      l \in PortLists, t \in {"all", "ucast", "mcast"}, q \in NonEmpty(1 .. Queues)}
<1>1. input \in A => TopInput
  BY DEF TopInput
<1>2. input \in B => TopInput
  BY DEF TopInput
<1>3. \A l \in PortLists : l.ports \subseteq 1 .. DropPorts /\ l.all \in BOOLEAN
  <2> TAKE l \in PortLists
  <2>1. CASE \E p \in NonEmpty(1 .. DropPorts) : l = [ports |-> p, all |-> FALSE]
    BY <2>1 DEF NonEmpty
  <2>2. CASE l = [ports |-> 1 .. DropPorts, all |-> TRUE]
    <3>1. l.ports = 1 .. DropPorts /\ l.all = TRUE
      BY <2>2
    <3> QED BY <3>1
  <2> QED BY <2>1, <2>2 DEF PortLists
<1>4. ASSUME input \in ports PROVE NamedInput
  <2>1. PICK l \in PortLists : input = [type |-> "port_drops", count |-> 0, ports |-> l.ports, all |-> l.all,
                                       queue_type |-> "all", queues |-> {}]
    BY <1>4
  <2>2. /\ input.type = "port_drops" /\ input.count = 0 /\ input.ports = l.ports /\ input.all = l.all
        /\ input.queue_type = "all" /\ input.queues = {}
    BY <2>1
  <2> QED BY <1>3, <2>2 DEF NamedInput
<1>5. ASSUME input \in queues PROVE NamedInput
  <2>1. PICK l \in PortLists, t \in {"all", "ucast", "mcast"}, q \in NonEmpty(1 .. Queues) :
          input = [type |-> "q_drops", count |-> 0, ports |-> l.ports, all |-> l.all, queue_type |-> t, queues |-> q]
    BY <1>5
  <2>2. /\ input.type = "q_drops" /\ input.count = 0 /\ input.ports = l.ports /\ input.all = l.all
        /\ input.queue_type = t /\ input.queues = q /\ q \subseteq 1 .. Queues
    BY <2>1 DEF NonEmpty
  <2> QED BY <1>3, <2>2 DEF NamedInput
<1>6. Inputs = ((A \cup B) \cup ports) \cup queues
  BY DEF Inputs
<1> HIDE DEF A, B, ports, queues
<1> QED BY <1>1, <1>2, <1>4, <1>5, <1>6

LEMMA CountIs == ASSUME input \in Inputs PROVE input.count \in 0 .. MaxCount
<1>1. MaxCount \in Nat
  BY TotalIs
<1>2. input.count \in 1 .. MaxCount \/ input.count = 0
  BY InputIs DEF TopInput, NamedInput
<1> QED BY <1>1, <1>2

\* The passes put as many in order as are asked for, by induction over the passes.
LEMMA SortedFacts ==
  ASSUME input \in Inputs, switch \in [Indices -> 0 .. 2]
  PROVE  Reordered(Sorted) /\ Descending(Sorted, input.count)
<1> DEFINE n == input.count
           Good == {a \in Arrays : Reordered(a)}
           step == [p \in (1 .. n) \X Arrays |-> IF Fill(p[2], p[1]) \in Arrays THEN Fill(p[2], p[1]) ELSE p[2]]
           Runs(h) == h = [i \in 0 .. n |-> IF i = 0 THEN ReadCounters ELSE Fill(h[i - 1], i)]
           filled == CHOOSE h : Runs(h)
<1>1. n \in Nat /\ 1 .. n \subseteq Indices /\ Reordered(ReadCounters) /\ ReadCounters \in Arrays
  <2>1. n \in 0 .. MaxCount /\ MaxCount \in Nat /\ TotalDropCtrs \in Nat /\ MaxCount + 1 <= TotalDropCtrs
    BY CountIs, TotalIs
  <2>2. n \in Nat /\ 1 .. n \subseteq Indices
    BY <2>1 DEF Indices
  <2> QED BY <2>2, ReadReordered DEF Reordered
<1>2. step \in StepsOn(n, Arrays) /\ ReadCounters \in Arrays
  BY <1>1 DEF StepsOn
<1>3. PICK f : f \in Recursion(n, Arrays, ReadCounters, step)
  <2> DEFINE base == ReadCounters
  <2> HIDE DEF n, step, base
  <2>1. PICK f : f \in Recursion(n, Arrays, base, step)
    BY <1>1, <1>2, RecursionExists DEF base
  <2> QED BY <2>1 DEF base
<1>4. f \in [0 .. n -> Arrays] /\ f[0] = ReadCounters /\ \A i \in 1 .. n : f[i] = step[<<i, f[i - 1]>>]
  BY <1>3 DEF Recursion
<1> DEFINE Q == {i \in Nat : i <= n => Reordered(f[i]) /\ Descending(f[i], i)}
<1>5. ASSUME NEW i \in 0 .. n, i + 1 <= n, Reordered(f[i]), Descending(f[i], i)
      PROVE  f[i + 1] = Fill(f[i], i + 1) /\ Reordered(f[i + 1]) /\ Descending(f[i + 1], i + 1)
  <2> DEFINE j == i + 1
  <2>1. j \in 1 .. n /\ j \in Indices /\ j - 1 = i
    BY <1>1, <1>5
  <2> HIDE DEF j
  <2>2. Reordered(Fill(f[i], j)) /\ Descending(Fill(f[i], j), j)
    BY <1>5, <2>1, FillFacts
  <2>3. f[i] \in Arrays /\ Fill(f[i], j) \in Arrays
    BY <1>5, <2>2 DEF Reordered
  <2>4. step[<<j, f[i]>>] = Fill(f[i], j)
    BY <2>1, <2>3
  <2>5. f[j] = Fill(f[i], j)
    <3> HIDE DEF step
    <3> QED BY <1>4, <2>1, <2>4
  <2> QED BY <2>2, <2>5 DEF j
<1>6. 0 \in Q
  <2>1. Descending(ReadCounters, 0)
    BY TotalIs DEF Descending, Indices
  <2> QED BY <1>1, <1>4, <2>1
<1>7. \A i \in Q : i + 1 \in Q
  <2> TAKE i \in Q
  <2>1. CASE i + 1 <= n
    <3>1. i \in 0 .. n /\ Reordered(f[i]) /\ Descending(f[i], i)
      BY <1>1, <2>1
    <3> QED BY <1>5, <2>1, <3>1
  <2> QED BY <2>1
<1>8. ASSUME NEW i \in 0 .. n PROVE Reordered(f[i]) /\ Descending(f[i], i)
  <2>1. Q \in SUBSET Nat /\ i \in Nat
    OBVIOUS
  <2> HIDE DEF Q
  <2>2. i \in Q
    BY <1>6, <1>7, <2>1, Induction
  <2> QED BY <2>2 DEF Q
<1>9. ASSUME NEW i \in 1 .. n PROVE f[i] = Fill(f[i - 1], i)
  <2> DEFINE j == i - 1
  <2>1. j \in 0 .. n /\ j + 1 = i
    BY <1>1
  <2> HIDE DEF j
  <2>2. f[j + 1] = Fill(f[j], j + 1)
    BY <1>5, <1>8, <2>1
  <2> QED BY <2>1, <2>2 DEF j
<1>10. Runs(f)
  <2>1. \A i \in 0 .. n : f[i] = IF i = 0 THEN ReadCounters ELSE Fill(f[i - 1], i)
    <3>1. \A i \in 0 .. n : i # 0 => i \in 1 .. n
      BY <1>1
    <3> QED BY <1>4, <1>9, <3>1
  <2> QED BY <1>4, <2>1
<1>11. Runs(filled)
  <2> HIDE DEF Runs
  <2> QED BY <1>10
<1>12. \A i \in 0 .. n : filled[i] = IF i = 0 THEN ReadCounters ELSE Fill(filled[i - 1], i)
  <2> HIDE DEF filled
  <2> QED BY <1>11
<1>13. Sorted = filled[n]
  BY DEF Sorted
<1> DEFINE R == {i \in Nat : i <= n => Reordered(filled[i]) /\ Descending(filled[i], i)}
<1> HIDE DEF filled, Runs, step, n
<1>14. 0 \in R
  <2>1. filled[0] = f[0]
    BY <1>1, <1>4, <1>12
  <2> QED BY <1>1, <1>8, <2>1
<1>15. \A i \in R : i + 1 \in R
  <2> TAKE i \in R
  <2>1. CASE i + 1 <= n
    <3> DEFINE j == i + 1
    <3>1. Reordered(filled[i]) /\ Descending(filled[i], i) /\ j \in 0 .. n /\ j # 0 /\ j - 1 = i /\ j \in Indices
      BY <1>1, <2>1
    <3> HIDE DEF j
    <3>2. filled[j] = Fill(filled[i], j)
      BY <1>12, <3>1
    <3>3. Reordered(filled[j]) /\ Descending(filled[j], j)
      BY <3>1, <3>2, FillFacts
    <3> QED BY <3>3 DEF j
  <2> QED BY <2>1
<1>16. n \in R
  <2>1. R \in SUBSET Nat
    OBVIOUS
  <2> HIDE DEF R
  <2> QED BY <1>1, <1>14, <1>15, <2>1, Induction
<1> QED BY <1>1, <1>13, <1>16 DEF n

(***************************************************************************)
(* The entries of a text, in their order.                                  *)
(***************************************************************************)
LEMMA JoinNothing == ASSUME NEW S, NEW a \in Seq(S) PROVE a \o << >> = a /\ << >> \o a = a
  OBVIOUS

LEMMA JoinPlaces ==
  ASSUME NEW S, NEW a \in Seq(S), NEW b \in Seq(S)
  PROVE  /\ a \o b \in Seq(S) /\ Len(a \o b) = Len(a) + Len(b) /\ Len(a) \in Nat /\ Len(b) \in Nat
         /\ \A i \in 1 .. Len(a) : (a \o b)[i] = a[i]
         /\ \A i \in 1 .. Len(b) : (a \o b)[Len(a) + i] = b[i]
  OBVIOUS

\* Joining sequences of texts.
LEMMA FlattenJoined ==
  ASSUME NEW S, NEW s \in Seq(Seq(S)), NEW t \in Seq(Seq(S))
  PROVE  FlattenSeq(s \o t) = FlattenSeq(s) \o FlattenSeq(t)
<1> DEFINE n == Len(s)
           u == s \o t
<1>1. PICK f \in [0 .. n -> Seq(S)] :
         /\ f[0] = << >> /\ \A i \in 1 .. n : f[i] = f[i - 1] \o s[i]
         /\ FlattenSeq(s) = f[n]
  BY FlattenIs
<1>2. PICK g \in [0 .. Len(t) -> Seq(S)] :
         /\ g[0] = << >> /\ \A i \in 1 .. Len(t) : g[i] = g[i - 1] \o t[i]
         /\ FlattenSeq(t) = g[Len(t)]
  BY FlattenIs
<1>3. /\ u \in Seq(Seq(S)) /\ Len(u) = n + Len(t) /\ n \in Nat /\ Len(t) \in Nat
      /\ \A i \in 1 .. n : u[i] = s[i]
      /\ \A i \in 1 .. Len(t) : u[n + i] = t[i]
  <2> DEFINE T == Seq(S)
  <2>1. s \in Seq(T) /\ t \in Seq(T)
    OBVIOUS
  <2> HIDE DEF T
  <2>2. u \in Seq(T) /\ Len(u) = n + Len(t) /\ n \in Nat /\ Len(t) \in Nat
        /\ (\A i \in 1 .. n : u[i] = s[i]) /\ \A i \in 1 .. Len(t) : u[n + i] = t[i]
    BY <2>1, JoinPlaces
  <2> QED BY <2>2 DEF T
<1> HIDE DEF u, n
<1> DEFINE upto(i) == IF i <= n THEN f[i] ELSE f[n] \o g[i - n]
           P == [i \in 0 .. Len(u) |-> {upto(i)}]
<1>4. \A i \in 0 .. Len(u) : upto(i) \in Seq(S)
  <2> TAKE i \in 0 .. Len(u)
  <2>1. CASE i <= n
    <3>1. i \in 0 .. n
      BY <1>3, <2>1
    <3> QED BY <2>1, <3>1
  <2>2. CASE ~(i <= n)
    <3>1. i - n \in 0 .. Len(t) /\ n \in 0 .. n
      BY <1>3, <2>2
    <3>2. f[n] \in Seq(S) /\ g[i - n] \in Seq(S)
      BY <3>1
    <3>3. f[n] \o g[i - n] \in Seq(S)
      BY <3>2, JoinIn
    <3> QED BY <2>2, <3>3
  <2> QED BY <2>1, <2>2
<1>5. P \in [0 .. Len(u) -> SUBSET Seq(S)]
  <2> HIDE DEF upto
  <2> QED BY <1>4
<1>6. << >> \in P[0]
  BY <1>1, <1>3
<1>7. ASSUME NEW i \in 1 .. Len(u) PROVE upto(i - 1) \o u[i] = upto(i)
  <2>1. CASE i <= n
    <3>1. i \in 1 .. n /\ i - 1 <= n
      BY <1>3, <2>1
    <3>2. f[i] = f[i - 1] \o s[i] /\ u[i] = s[i]
      BY <1>1, <1>3, <3>1
    <3> QED BY <2>1, <3>1, <3>2
  <2>2. CASE ~(i <= n)
    <3> DEFINE j == i - n
    <3>1. j \in 1 .. Len(t) /\ n + j = i /\ j - 1 \in 0 .. Len(t) /\ j - 1 = (i - 1) - n /\ n \in 0 .. n
      BY <1>3, <2>2
    <3>2. g[j] = g[j - 1] \o t[j] /\ u[n + j] = t[j]
      <4> HIDE DEF j
      <4> QED BY <1>2, <1>3, <3>1
    <3>3. f[n] \in Seq(S) /\ g[j - 1] \in Seq(S) /\ t[j] \in Seq(S)
      <4> HIDE DEF j
      <4> QED BY <1>3, <3>1
    <3>4. upto(i - 1) = f[n] \o g[j - 1]
      <4>1. CASE i - 1 <= n
        <5>1. i - 1 = n /\ j - 1 = 0
          BY <1>3, <2>2, <4>1
        <5>2. g[j - 1] = << >>
          BY <1>2, <5>1
        <5> HIDE DEF j
        <5>3. f[n] \o << >> = f[n]
          BY <3>3, JoinNothing
        <5> QED BY <4>1, <5>1, <5>2, <5>3
      <4>2. CASE ~(i - 1 <= n)
        BY <3>1, <4>2
      <4> QED BY <4>1, <4>2
    <3>5. upto(i) = f[n] \o g[j]
      BY <2>2
    <3> HIDE DEF upto, j
    <3>6. (f[n] \o g[j - 1]) \o t[j] = f[n] \o (g[j - 1] \o t[j])
      <4> DEFINE p == f[n]
                 q == g[j - 1]
                 r == t[j]
      <4>1. p \in Seq(S) /\ q \in Seq(S) /\ r \in Seq(S)
        BY <3>3
      <4> HIDE DEF p, q, r
      <4>2. (p \o q) \o r = p \o (q \o r)
        BY <4>1, JoinedTwice, SMTT(30)
      <4> QED BY <4>2 DEF p, q, r
    <3>7. u[i] = t[j]
      BY <3>1, <3>2
    <3> QED BY <3>2, <3>4, <3>5, <3>6, <3>7
  <2> QED BY <2>1, <2>2
<1>8. \A i \in 1 .. Len(u) : \A a \in P[i - 1] : a \o u[i] \in P[i]
  <2>1. \A i \in 1 .. Len(u) : i \in 0 .. Len(u) /\ i - 1 \in 0 .. Len(u)
    BY <1>3
  <2> HIDE DEF upto
  <2> QED BY <1>7, <2>1
<1>9. FlattenSeq(u) \in P[Len(u)]
  <2> HIDE DEF P
  <2> QED BY <1>3, <1>5, <1>6, <1>8, FlattenSteps
<1>10. FlattenSeq(u) = upto(Len(u))
  <2>1. Len(u) \in 0 .. Len(u)
    BY <1>3
  <2> HIDE DEF upto
  <2> QED BY <1>9, <2>1
<1>11. upto(Len(u)) = f[n] \o g[Len(t)]
  <2>1. CASE Len(t) = 0
    <3>1. Len(u) <= n /\ Len(u) = n /\ n \in 0 .. n
      BY <1>3, <2>1
    <3>2. f[n] \o << >> = f[n]
      <4>1. f[n] \in Seq(S)
        BY <3>1
      <4> QED BY <4>1, JoinNothing
    <3> QED BY <1>2, <2>1, <3>1, <3>2
  <2>2. CASE Len(t) # 0
    <3>1. ~(Len(u) <= n) /\ Len(u) - n = Len(t)
      BY <1>3, <2>2
    <3> QED BY <3>1
  <2> QED BY <2>1, <2>2
<1> HIDE DEF upto
<1> QED BY <1>1, <1>2, <1>10, <1>11 DEF u

\* The entries of a text are those of its tokens.
Pieces(text) == [i \in 1 .. Len(text) |-> IF IsEntry(text[i]) THEN <<text[i]>> ELSE << >>]

LEMMA PiecesIn ==
  ASSUME NEW S, NEW a \in Seq(S)
  PROVE  /\ Pieces(a) \in Seq(Seq(S)) /\ Len(Pieces(a)) = Len(a) /\ Entries(a) = FlattenSeq(Pieces(a))
         /\ \A i \in 1 .. Len(a) : Pieces(a)[i] = IF IsEntry(a[i]) THEN <<a[i]>> ELSE << >>
<1>1. Len(a) \in Nat /\ \A i \in 1 .. Len(a) : a[i] \in S
  OBVIOUS
<1>2. \A i \in 1 .. Len(a) : <<a[i]>> \in Seq(S) /\ << >> \in Seq(S)
  BY <1>1, NothingIn, OneIn
<1> DEFINE T == Seq(S)
           s == Pieces(a)
           n == Len(a)
<1>3. s \in [1 .. n -> T]
  BY <1>2 DEF Pieces
<1> HIDE DEF T, s, n
<1>4. s \in Seq(T) /\ Len(s) = n
  <2>1. n \in Nat
    BY <1>1 DEF n
  <2> QED BY <1>3, <2>1, MapIn
<1> QED BY <1>4 DEF T, s, n, Entries, Pieces

LEMMA EntriesIn == ASSUME NEW S, NEW a \in Seq(S) PROVE Entries(a) \in Seq(S)
<1>1. Pieces(a) \in Seq(Seq(S)) /\ Entries(a) = FlattenSeq(Pieces(a))
  BY PiecesIn
<1> DEFINE s == Pieces(a)
<1>2. PICK f \in [0 .. Len(s) -> Seq(S)] : FlattenSeq(s) = f[Len(s)]
  BY <1>1, FlattenIs
<1>3. Len(s) \in 0 .. Len(s)
  <2>1. Len(s) \in Nat
    BY <1>1
  <2> QED BY <2>1
<1> QED BY <1>1, <1>2, <1>3

\* Entries of texts one after the other, and of texts with none.
LEMMA EntriesJoined ==
  ASSUME NEW S, NEW a \in Seq(S), NEW b \in Seq(S)
  PROVE  Entries(a \o b) = Entries(a) \o Entries(b)
<1> DEFINE c == a \o b
<1>1. /\ c \in Seq(S) /\ Len(c) = Len(a) + Len(b) /\ Len(a) \in Nat /\ Len(b) \in Nat
      /\ \A i \in 1 .. Len(a) : c[i] = a[i]
      /\ \A i \in 1 .. Len(b) : c[Len(a) + i] = b[i]
  BY JoinPlaces
<1> DEFINE s == Pieces(a)
           t == Pieces(b)
           u == Pieces(c)
           n == Len(a)
<1> HIDE DEF c
<1>2. /\ s \in Seq(Seq(S)) /\ t \in Seq(Seq(S)) /\ u \in Seq(Seq(S))
      /\ Len(s) = n /\ Len(t) = Len(b) /\ Len(u) = Len(c)
  BY <1>1, PiecesIn
<1>3. Entries(a) = FlattenSeq(s) /\ Entries(b) = FlattenSeq(t) /\ Entries(c) = FlattenSeq(u)
  BY <1>1, PiecesIn
<1>4. \A i \in 1 .. n : u[i] = s[i]
  <2> TAKE i \in 1 .. n
  <2>1. i \in 1 .. Len(c) /\ i \in 1 .. Len(a) /\ c[i] = a[i]
    BY <1>1
  <2> QED BY <1>1, <2>1, PiecesIn
<1>5. \A i \in 1 .. Len(b) : u[n + i] = t[i]
  <2> TAKE i \in 1 .. Len(b)
  <2>1. n + i \in 1 .. Len(c) /\ c[n + i] = b[i]
    BY <1>1
  <2> HIDE DEF n
  <2> QED BY <1>1, <2>1, PiecesIn
<1> HIDE DEF s, t, u
<1> DEFINE T == Seq(S)
           v == s \o t
<1>6. /\ v \in Seq(T) /\ Len(v) = Len(s) + Len(t)
      /\ \A i \in 1 .. Len(s) : v[i] = s[i]
      /\ \A i \in 1 .. Len(t) : v[Len(s) + i] = t[i]
  <2>1. s \in Seq(T) /\ t \in Seq(T)
    BY <1>2
  <2> HIDE DEF T
  <2> QED BY <2>1, JoinPlaces
<1>7. u = v
  <2> HIDE DEF v
  <2>1. u \in Seq(T) /\ Len(u) = Len(v)
    BY <1>1, <1>2, <1>6
  <2>2. ASSUME NEW i \in 1 .. Len(u) PROVE u[i] = v[i]
    <3>1. CASE i <= n
      <4>1. i \in 1 .. n /\ i \in 1 .. Len(s)
        BY <1>1, <1>2, <3>1
      <4> QED BY <1>4, <1>6, <4>1
    <3>2. CASE ~(i <= n)
      <4> DEFINE j == i - n
      <4>1. j \in 1 .. Len(b) /\ n + j = i /\ j \in 1 .. Len(t) /\ Len(s) + j = i
        BY <1>1, <1>2, <3>2
      <4> HIDE DEF j
      <4>2. u[n + j] = t[j] /\ v[Len(s) + j] = t[j]
        BY <1>5, <1>6, <4>1
      <4> QED BY <4>1, <4>2
    <3> QED BY <3>1, <3>2
  <2> HIDE DEF T
  <2> QED BY <1>6, <2>1, <2>2
<1>8. FlattenSeq(v) = FlattenSeq(s) \o FlattenSeq(t)
  BY <1>2, FlattenJoined
<1> QED BY <1>3, <1>7, <1>8 DEF c

\* The entries in order are the entries there are.
LEMMA EntriesRange == ASSUME NEW S, NEW a \in Seq(S) PROVE Range(Entries(a)) = ToldIn(a)
<1> DEFINE s == Pieces(a)
           n == Len(a)
           P == [i \in 0 .. n |-> {b \in Seq(S) : Range(b) = {a[j] : j \in {k \in 1 .. i : IsEntry(a[k])}}}]
<1>1. /\ s \in Seq(Seq(S)) /\ Len(s) = n /\ n \in Nat /\ Entries(a) = FlattenSeq(s)
      /\ \A i \in 1 .. n : s[i] = IF IsEntry(a[i]) THEN <<a[i]>> ELSE << >>
  <2>1. n \in Nat
    OBVIOUS
  <2> QED BY <2>1, PiecesIn
<1> HIDE DEF s
<1>2. P \in [0 .. n -> SUBSET Seq(S)] /\ << >> \in P[0]
  <2>1. Range(<< >>) = {} /\ << >> \in Seq(S)
    BY NothingIn DEF Range
  <2>2. 0 \in 0 .. n /\ 1 .. 0 = {}
    BY <1>1
  <2> QED BY <2>1, <2>2
<1>3. ASSUME NEW i \in 1 .. n, NEW b \in P[i - 1] PROVE b \o s[i] \in P[i]
  <2>1. i - 1 \in 0 .. n /\ i \in 0 .. n /\ i \in Nat
    BY <1>1
  <2>2. b \in Seq(S) /\ Range(b) = {a[j] : j \in {k \in 1 .. (i - 1) : IsEntry(a[k])}}
    BY <2>1
  <2>3. s[i] \in Seq(S)
    BY <1>1
  <2>4. b \o s[i] \in Seq(S) /\ Range(b \o s[i]) = Range(b) \cup Range(s[i])
    BY <2>2, <2>3, JoinIn, RangeJoined
  <2>5. Range(s[i]) = IF IsEntry(a[i]) THEN {a[i]} ELSE {}
    <3>1. Range(<< >>) = {} /\ Range(<<a[i]>>) = {a[i]}
      BY DEF Range
    <3> QED BY <1>1, <3>1
  <2>6. \A k : k \in 1 .. i <=> k \in 1 .. (i - 1) \/ k = i
    BY <2>1
  <2>7. Range(b) \cup Range(s[i]) = {a[j] : j \in {k \in 1 .. i : IsEntry(a[k])}}
    BY <2>2, <2>5, <2>6
  <2> QED BY <2>1, <2>4, <2>7
<1>4. FlattenSeq(s) \in P[n]
  <2> HIDE DEF P, n
  <2> QED BY <1>1, <1>2, <1>3, FlattenSteps
<1>5. Range(FlattenSeq(s)) = {a[j] : j \in {k \in 1 .. n : IsEntry(a[k])}}
  <2>1. n \in 0 .. n
    BY <1>1
  <2> QED BY <1>4, <2>1
<1>6. Range(a) = {a[j] : j \in 1 .. n}
  BY RangeIs
<1>7. {a[j] : j \in {k \in 1 .. n : IsEntry(a[k])}} = ToldIn(a)
  BY <1>6 DEF ToldIn
<1> QED BY <1>1, <1>5, <1>7

LEMMA EntriesNone == ASSUME NEW S, NEW a \in Seq(S), ToldIn(a) = {} PROVE Entries(a) = << >>
<1> DEFINE e == Entries(a)
<1>1. e \in Seq(S) /\ Range(e) = {}
  BY EntriesIn, EntriesRange
<1> HIDE DEF e
<1>2. Range(e) = {e[i] : i \in 1 .. Len(e)} /\ Len(e) \in Nat
  <2>1. e \in Seq(S)
    BY <1>1
  <2>2. Len(e) \in Nat
    BY <2>1
  <2> QED BY <2>1, <2>2, RangeIs
<1>3. Len(e) = 0
  <2>1. ASSUME Len(e) # 0 PROVE FALSE
    <3>1. 1 \in 1 .. Len(e)
      BY <1>2, <2>1
    <3> QED BY <1>1, <1>2, <3>1
  <2> QED BY <2>1
<1>4. e = << >>
  BY <1>1, <1>3
<1> QED BY <1>4 DEF e

LEMMA EntriesOne == ASSUME NEW x, x.t = "e" PROVE Entries(<<x>>) = <<x>>
<1> DEFINE a == <<x>>
           S == {x}
<1>1. a \in Seq(S) /\ Len(a) = 1 /\ a[1] = x
  OBVIOUS
<1> HIDE DEF a
<1>2. /\ Pieces(a) \in Seq(Seq(S)) /\ Len(Pieces(a)) = Len(a) /\ Entries(a) = FlattenSeq(Pieces(a))
      /\ \A i \in 1 .. Len(a) : Pieces(a)[i] = IF IsEntry(a[i]) THEN <<a[i]>> ELSE << >>
  BY <1>1, PiecesIn
<1> DEFINE s == Pieces(a)
<1>3. PICK f \in [0 .. Len(s) -> Seq(S)] :
         /\ f[0] = << >> /\ \A i \in 1 .. Len(s) : f[i] = f[i - 1] \o s[i]
         /\ FlattenSeq(s) = f[Len(s)]
  BY <1>2, FlattenIs
<1>4. s[1] = <<x>> /\ Len(s) = 1
  BY <1>1, <1>2 DEF IsEntry
<1>5. f[1] = << >> \o <<x>>
  <2> DEFINE j == 1
  <2>1. j \in 1 .. Len(s) /\ j - 1 = 0
    BY <1>4
  <2> HIDE DEF j, s
  <2>2. f[j] = f[j - 1] \o s[j]
    BY <1>3, <2>1
  <2>3. f[j] = f[0] \o s[j]
    BY <2>1, <2>2
  <2> QED BY <1>3, <1>4, <2>3 DEF j
<1>6. << >> \o <<x>> = <<x>>
  OBVIOUS
<1> QED BY <1>2, <1>3, <1>4, <1>5, <1>6 DEF a

(***************************************************************************)
(* Items and what separates them.                                          *)
(***************************************************************************)
Upto(m, i) == [k \in 1 .. i |-> m[k]]

LEMMA UptoStep ==
  ASSUME NEW S, NEW n \in Nat, NEW m \in [1 .. n -> S], NEW i \in 1 .. n
  PROVE  Upto(m, i - 1) \o <<m[i]>> = Upto(m, i)
<1> DEFINE a == Upto(m, i - 1)
           c == Upto(m, i)
           b == <<m[i]>>
<1>1. i - 1 \in Nat /\ i \in Nat /\ (\A k \in 1 .. (i - 1) : k \in 1 .. n) /\ \A k \in 1 .. i : k \in 1 .. n
  OBVIOUS
<1>2. a \in [1 .. (i - 1) -> S] /\ c \in [1 .. i -> S]
  BY <1>1 DEF Upto
<1>3. a \in Seq(S) /\ Len(a) = i - 1
  <2> HIDE DEF a
  <2> DEFINE j == i - 1
  <2>1. a \in [1 .. j -> S] /\ j \in Nat
    BY <1>1, <1>2
  <2> HIDE DEF j
  <2>2. a \in Seq(S) /\ Len(a) = j
    BY <2>1, MapIn
  <2> QED BY <2>2 DEF j
<1>4. c \in Seq(S) /\ Len(c) = i
  <2> HIDE DEF c
  <2> QED BY <1>1, <1>2, MapIn
<1>5. b \in Seq(S) /\ Len(b) = 1 /\ b[1] = m[i]
  OBVIOUS
<1>6. (\A k \in 1 .. (i - 1) : a[k] = m[k]) /\ \A k \in 1 .. i : c[k] = m[k]
  BY DEF Upto
<1> HIDE DEF a, b, c
<1>7. /\ a \o b \in Seq(S) /\ Len(a \o b) = Len(a) + Len(b)
      /\ \A k \in 1 .. Len(a) : (a \o b)[k] = a[k]
      /\ \A k \in 1 .. Len(b) : (a \o b)[Len(a) + k] = b[k]
  <2>1. a \in Seq(S) /\ b \in Seq(S)
    BY <1>3, <1>5
  <2> QED BY <2>1, JoinPlaces
<1> DEFINE d == a \o b
<1>8. d \in Seq(S) /\ Len(d) = i
  BY <1>1, <1>3, <1>5, <1>7
<1>9. ASSUME NEW k \in 1 .. i PROVE d[k] = c[k]
  <2>1. CASE k < i
    <3>1. k \in 1 .. (i - 1)
      BY <1>1, <2>1
    <3> QED BY <1>3, <1>6, <1>7, <3>1
  <2>2. CASE ~(k < i)
    <3>1. k = i
      BY <1>1, <2>2
    <3>2. 1 \in 1 .. Len(b) /\ Len(a) + 1 = i
      BY <1>1, <1>3, <1>5
    <3>3. d[Len(a) + 1] = b[1]
      BY <1>7, <3>2
    <3> QED BY <1>5, <1>6, <3>1, <3>2, <3>3
  <2> QED BY <2>1, <2>2
<1> HIDE DEF d
<1>10. d = c
  BY <1>4, <1>8, <1>9
<1> QED BY <1>10 DEF a, b, c, d

LEMMA UptoEnds ==
  ASSUME NEW S, NEW n \in Nat, NEW m \in [1 .. n -> S]
  PROVE  Upto(m, 0) = << >> /\ Upto(m, n) = m
<1>1. 1 .. 0 = {}
  OBVIOUS
<1>2. Upto(m, 0) = << >>
  BY <1>1 DEF Upto
<1> QED BY <1>2 DEF Upto

\* Values, and the entry each of them tells.
Valued(S, n, items, marks) ==
  /\ n \in Nat /\ items \in [1 .. n -> ValueTexts(S)] /\ marks \in [1 .. n -> S]
  /\ \A i \in 1 .. n : Entries(items[i]) = <<marks[i]>>

LEMMA NoEntries ==
  ASSUME NEW S, Alphabet(S)
  PROVE  /\ \A a \in Names \ {"e"} : Entries(Text(<<a>>)) = << >>
         /\ \A a, b \in Names \ {"e"} : Entries(Text(<<a, b>>)) = << >>
         /\ \A a, b, c, d \in Names \ {"e"} : Entries(Text(<<a, b, c, d>>)) = << >>
         /\ \A a, b, c, d, e \in Names \ {"e"} : Entries(Text(<<a, b, c, d, e>>)) = << >>
<1> DEFINE T == Names \ {"e"}
<1> HIDE DEF T
<1>1. /\ \A a \in T : Text(<<a>>) \in Seq(S) /\ ToldIn(Text(<<a>>)) = {}
      /\ \A a, b \in T : Text(<<a, b>>) \in Seq(S) /\ ToldIn(Text(<<a, b>>)) = {}
      /\ \A a, b, c, d \in T : Text(<<a, b, c, d>>) \in Seq(S) /\ ToldIn(Text(<<a, b, c, d>>)) = {}
      /\ \A a, b, c, d, e \in T : Text(<<a, b, c, d, e>>) \in Seq(S) /\ ToldIn(Text(<<a, b, c, d, e>>)) = {}
  BY TextsIn, ToldTexts DEF T
<1>2. \A a \in T : Entries(Text(<<a>>)) = << >>
  BY <1>1, EntriesNone
<1>3. \A a, b \in T : Entries(Text(<<a, b>>)) = << >>
  BY <1>1, EntriesNone
<1>4. \A a, b, c, d \in T : Entries(Text(<<a, b, c, d>>)) = << >>
  BY <1>1, EntriesNone
<1>5. \A a, b, c, d, e \in T : Entries(Text(<<a, b, c, d, e>>)) = << >>
  BY <1>1, EntriesNone
<1> QED BY <1>2, <1>3, <1>4, <1>5 DEF T

LEMMA EntriesAfter ==
  ASSUME NEW S, NEW a \in Seq(S), NEW b \in Seq(S), Entries(a) = << >>
  PROVE  a \o b \in Seq(S) /\ Entries(a \o b) = Entries(b)
<1>1. a \o b \in Seq(S) /\ Entries(a \o b) = Entries(a) \o Entries(b) /\ Entries(b) \in Seq(S)
  BY JoinIn, EntriesJoined, EntriesIn
<1> DEFINE e == Entries(b)
<1>2. e \in Seq(S)
  BY <1>1
<1> HIDE DEF e
<1>3. << >> \o e = e
  BY <1>2, JoinNothing
<1> QED BY <1>1, <1>3 DEF e

LEMMA EntriesBefore ==
  ASSUME NEW S, NEW a \in Seq(S), NEW b \in Seq(S), Entries(b) = << >>
  PROVE  a \o b \in Seq(S) /\ Entries(a \o b) = Entries(a)
<1>1. a \o b \in Seq(S) /\ Entries(a \o b) = Entries(a) \o Entries(b) /\ Entries(a) \in Seq(S)
  BY JoinIn, EntriesJoined, EntriesIn
<1> DEFINE e == Entries(a)
<1>2. e \in Seq(S)
  BY <1>1
<1> HIDE DEF e
<1>3. e \o << >> = e
  BY <1>2, JoinNothing
<1> QED BY <1>1, <1>3 DEF e

LEMMA CommaFacts ==
  ASSUME NEW S, Alphabet(S)
  PROVE  Comma \in Separators /\ Comma \in Seq(S) /\ Entries(Comma) = << >> /\ Comma = Text(<<",">>)
  BY TextsIn, NoEntries DEF Comma, Separators, Names

\* A comma before every item but the first.
LEMMA JoinedFacts ==
  ASSUME NEW S, Alphabet(S), NEW n, NEW items, NEW marks, Valued(S, n, items, marks)
  PROVE  /\ Joined(items) \in Seq(S) /\ Entries(Joined(items)) = marks
         /\ IF n = 0 THEN Joined(items) = << >> ELSE Joined(items) \in ValueTexts(S)
<1> DEFINE V == ValueTexts(S)
           T == Seq(S)
           seqs == [i \in 1 .. n |-> (IF i = 1 THEN << >> ELSE Text(<<",">>)) \o items[i]]
           Good(i) == {b \in T : Entries(b) = Upto(marks, i) /\ IF i = 0 THEN b = << >> ELSE b \in V}
           P == [i \in 0 .. n |-> Good(i)]
<1>1. /\ n \in Nat /\ items \in [1 .. n -> V] /\ marks \in [1 .. n -> S]
      /\ \A i \in 1 .. n : Entries(items[i]) = <<marks[i]>>
  BY DEF Valued
<1>2. \A v \in V : v \in T
  BY ValueIn
<1>3. Comma \in Separators /\ Comma \in T /\ Entries(Comma) = << >> /\ Comma = Text(<<",">>)
  BY CommaFacts
<1> HIDE DEF V, T
<1>4. Joined(items) = FlattenSeq(seqs)
  <2>1. items \in Seq(V) /\ Len(items) = n
    BY <1>1, MapIn
  <2> QED BY <2>1 DEF Joined
<1>5. ASSUME NEW i \in 1 .. n
      PROVE  /\ items[i] \in V /\ items[i] \in T
             /\ seqs[i] = IF i = 1 THEN items[i] ELSE Comma \o items[i]
             /\ seqs[i] \in T
  <2>1. items[i] \in V /\ items[i] \in T
    BY <1>1, <1>2
  <2>2. Comma \o items[i] \in T /\ << >> \o items[i] = items[i]
    <3> DEFINE m == items[i]
    <3>1. m \in T
      BY <2>1
    <3> HIDE DEF m
    <3>2. Comma \o m \in T
      BY <1>3, <3>1, JoinIn DEF T
    <3>3. << >> \o m = m
      BY <3>1, JoinNothing DEF T
    <3> QED BY <3>2, <3>3 DEF m
  <2>3. seqs[i] = (IF i = 1 THEN << >> ELSE Comma) \o items[i]
    BY <1>3
  <2> QED BY <2>1, <2>2, <2>3
<1>6. seqs \in Seq(T) /\ Len(seqs) = n
  <2>1. seqs \in [1 .. n -> T]
    BY <1>5
  <2> HIDE DEF seqs
  <2> QED BY <1>1, <2>1, MapIn
<1>7. P \in [0 .. n -> SUBSET T]
  OBVIOUS
<1>8. << >> \in P[0]
  <2>1. << >> \in T /\ Entries(<< >>) = << >>
    BY NothingIn, ToldNone, EntriesNone DEF T
  <2>2. Upto(marks, 0) = << >>
    BY <1>1, UptoEnds
  <2>3. 0 \in 0 .. n
    BY <1>1
  <2> QED BY <2>1, <2>2, <2>3
<1>9. ASSUME NEW i \in 1 .. n, NEW b \in P[i - 1] PROVE b \o seqs[i] \in P[i]
  <2>1. i - 1 \in 0 .. n /\ i \in 0 .. n /\ i # 0
    BY <1>1
  <2>2. b \in T /\ Entries(b) = Upto(marks, i - 1) /\ IF i - 1 = 0 THEN b = << >> ELSE b \in V
    <3> DEFINE j == i - 1
    <3>1. j \in 0 .. n /\ b \in P[j]
      BY <2>1
    <3> HIDE DEF j
    <3>2. b \in Good(j)
      BY <3>1
    <3> QED BY <3>2 DEF j
  <2> DEFINE m == items[i]
             s == seqs[i]
  <2>3. m \in V /\ m \in T /\ Entries(m) = <<marks[i]>> /\ s = (IF i = 1 THEN m ELSE Comma \o m) /\ s \in T
    BY <1>1, <1>5
  <2> HIDE DEF m, s, seqs
  <2>4. Entries(s) = <<marks[i]>>
    <3>1. Entries(Comma \o m) = Entries(m)
      BY <1>3, <2>3, EntriesAfter DEF T
    <3> QED BY <2>3, <3>1
  <2>5. b \o s \in T /\ Entries(b \o s) = Entries(b) \o Entries(s)
    BY <2>2, <2>3, JoinIn, EntriesJoined DEF T
  <2>6. Entries(b \o s) = Upto(marks, i)
    <3>1. Upto(marks, i - 1) \o <<marks[i]>> = Upto(marks, i)
      BY <1>1, UptoStep
    <3> QED BY <2>2, <2>4, <2>5, <3>1
  <2>7. b \o s \in V
    <3>1. CASE i = 1
      <4>1. b = << >> /\ s = m
        BY <2>2, <2>3, <3>1
      <4>2. << >> \o m = m
        BY <2>3, JoinNothing DEF T
      <4> QED BY <2>3, <4>1, <4>2
    <3>2. CASE i # 1
      <4>1. b \in V /\ s = Comma \o m
        BY <2>1, <2>2, <2>3, <3>2
      <4>2. (b \o Comma) \o m \in V
        BY <1>3, <2>3, <4>1, ValuesJoined DEF V
      <4>3. (b \o Comma) \o m = b \o (Comma \o m)
        <5>1. b \in Seq(S) /\ Comma \in Seq(S) /\ m \in Seq(S)
          BY <1>3, <2>2, <2>3 DEF T
        <5> QED BY <5>1, JoinedTwice
      <4> QED BY <4>1, <4>2, <4>3
    <3> QED BY <3>1, <3>2
  <2>8. b \o s \in Good(i)
    BY <2>1, <2>5, <2>6, <2>7
  <2> QED BY <2>1, <2>8 DEF s
<1>10. FlattenSeq(seqs) \in P[n]
  <2> HIDE DEF P, seqs
  <2> QED BY <1>6, <1>7, <1>8, <1>9, FlattenSteps DEF T
<1>11. FlattenSeq(seqs) \in Good(n)
  <2>1. n \in 0 .. n
    BY <1>1
  <2> HIDE DEF Good, seqs
  <2> QED BY <1>10, <2>1
<1>12. Upto(marks, n) = marks
  BY <1>1, UptoEnds
<1> HIDE DEF seqs
<1> QED BY <1>4, <1>11, <1>12 DEF V, T

\* A comma after each item, the last of which is written over.
LEMMA EndedFacts ==
  ASSUME NEW S, Alphabet(S), NEW n, NEW items, NEW marks, Valued(S, n, items, marks), n # 0
  PROVE  Ended(items) \in ValueTexts(S) /\ Ended(items) \in Seq(S) /\ Entries(Ended(items)) = marks
<1> DEFINE V == ValueTexts(S)
           T == Seq(S)
           L == ListTexts(S, Comma)
           seqs == [i \in 1 .. n |-> items[i] \o Text(<<",">>)]
           Good(i) == {b \in T : Entries(b) = Upto(marks, i)}
           P == [i \in 0 .. n |-> Good(i)]
           text == FlattenSeq(seqs)
<1>1. /\ n \in Nat /\ items \in [1 .. n -> V] /\ marks \in [1 .. n -> S]
      /\ \A i \in 1 .. n : Entries(items[i]) = <<marks[i]>>
  BY DEF Valued
<1>2. \A v \in V : v \in T
  BY ValueIn
<1>3. Comma \in Separators /\ Comma \in T /\ Entries(Comma) = << >> /\ Comma = Text(<<",">>)
  BY CommaFacts
<1> HIDE DEF V, T
<1>4. Ended(items) = Back(text)
  <2>1. items \in Seq(V) /\ Len(items) = n
    BY <1>1, MapIn
  <2> QED BY <2>1 DEF Ended
<1>5. ASSUME NEW i \in 1 .. n
      PROVE  seqs[i] \in L /\ seqs[i] \in T /\ Entries(seqs[i]) = <<marks[i]>>
  <2> DEFINE m == items[i]
  <2>1. m \in V /\ m \in T /\ Entries(m) = <<marks[i]>>
    BY <1>1, <1>2
  <2>2. seqs[i] = m \o Comma
    BY <1>3
  <2> HIDE DEF m, seqs
  <2>3. m \o Comma \in L
    BY <2>1, ValueListed DEF V
  <2>4. m \o Comma \in T /\ Entries(m \o Comma) = Entries(m)
    BY <1>3, <2>1, EntriesBefore DEF T
  <2> QED BY <2>1, <2>2, <2>3, <2>4
<1>6. seqs \in Seq(T) /\ Len(seqs) = n /\ seqs \in Seq(L)
  <2>1. seqs \in [1 .. n -> T] /\ seqs \in [1 .. n -> L]
    BY <1>5
  <2> HIDE DEF seqs, L
  <2>2. seqs \in Seq(T) /\ Len(seqs) = n
    BY <1>1, <2>1, MapIn
  <2>3. seqs \in Seq(L)
    BY <1>1, <2>1, MapIn
  <2> QED BY <2>2, <2>3
<1>7. P \in [0 .. n -> SUBSET T]
  OBVIOUS
<1>8. << >> \in P[0]
  <2>1. << >> \in T /\ Entries(<< >>) = << >>
    BY NothingIn, ToldNone, EntriesNone DEF T
  <2>2. Upto(marks, 0) = << >>
    BY <1>1, UptoEnds
  <2>3. 0 \in 0 .. n
    BY <1>1
  <2> QED BY <2>1, <2>2, <2>3
<1>9. ASSUME NEW i \in 1 .. n, NEW b \in P[i - 1] PROVE b \o seqs[i] \in P[i]
  <2>1. i - 1 \in 0 .. n /\ i \in 0 .. n
    BY <1>1
  <2>2. b \in T /\ Entries(b) = Upto(marks, i - 1)
    BY <2>1
  <2> DEFINE s == seqs[i]
  <2>3. s \in T /\ Entries(s) = <<marks[i]>>
    BY <1>5
  <2> HIDE DEF s, seqs
  <2>4. b \o s \in T /\ Entries(b \o s) = Entries(b) \o Entries(s)
    BY <2>2, <2>3, JoinIn, EntriesJoined DEF T
  <2>5. Upto(marks, i - 1) \o <<marks[i]>> = Upto(marks, i)
    BY <1>1, UptoStep
  <2>6. b \o s \in Good(i)
    BY <2>2, <2>3, <2>4, <2>5
  <2> QED BY <2>1, <2>6 DEF s
<1>10. text \in T /\ Entries(text) = marks
  <2>1. text \in P[n]
    <3> HIDE DEF P, seqs
    <3> QED BY <1>6, <1>7, <1>8, <1>9, FlattenSteps DEF T
  <2>2. n \in 0 .. n
    BY <1>1
  <2>3. text \in Good(n)
    <3> HIDE DEF Good, text
    <3> QED BY <2>1, <2>2
  <2>4. Upto(marks, n) = marks
    BY <1>1, UptoEnds
  <2> HIDE DEF text
  <2> QED BY <2>3, <2>4
<1>11. text \in L
  <2> HIDE DEF seqs
  <2> QED BY <1>3, <1>6, ListsFlatten
<1> HIDE DEF text
<1>12. text # << >>
  <2>1. ASSUME text = << >> PROVE FALSE
    <3>1. marks = << >>
      BY <1>10, <2>1, ToldNone, EntriesNone, NothingIn DEF T
    <3>2. DOMAIN marks = 1 .. n /\ 1 \in 1 .. n
      BY <1>1
    <3>3. DOMAIN << >> = {}
      OBVIOUS
    <3> QED BY <3>1, <3>2, <3>3
  <2> QED BY <2>1
<1>13. Back(text) \in V /\ text = Back(text) \o Comma
  BY <1>11, <1>12, BackComma DEF V
<1> DEFINE r == Back(text)
<1>14. r \in V /\ r \in T /\ text = r \o Comma
  BY <1>2, <1>13
<1> HIDE DEF r
<1>15. Entries(r \o Comma) = Entries(r)
  BY <1>3, <1>14, EntriesBefore DEF T
<1> QED BY <1>4, <1>10, <1>14, <1>15 DEF r, V, T

(***************************************************************************)
(* The text of a report of drops.                                          *)
(***************************************************************************)
JsonValues(S) == {<< >>} \cup ValueTexts(S)

\* An object with a list around a value, or around nothing.
LEMMA BracketValue ==
  ASSUME NEW S, Alphabet(S), NEW v \in JsonValues(S)
  PROVE  /\ Opened \in Seq(S) /\ Closed \in Seq(S) /\ v \in Seq(S) /\ (Opened \o v) \o Closed \in ValueTexts(S)
         /\ \A x \in Inner : v \in Paths(S, x, {"["}, x, Done \cup {"["})
<1>1. Opened \in Seq(S) /\ Closed \in Seq(S)
  BY TextsIn DEF Opened, Closed, Names
<1>2. v \in Seq(S)
  BY NothingIn, ValueIn DEF JsonValues
<1>3. ASSUME NEW x \in Inner PROVE v \in Paths(S, x, {"["}, x, Done \cup {"["})
  <2>1. {"["} \subseteq Ready /\ Done \subseteq Done \cup {"["} /\ {"["} \subseteq {"["} /\ {"["} \subseteq Done \cup {"["}
    BY DEF Ready
  <2>2. CASE v = << >>
    <3>1. v \in Paths(S, x, {"["}, x, {"["})
      BY <2>2, PathNone
    <3> QED BY <2>1, <3>1, PathWider
  <2>3. CASE v # << >>
    <3>1. v \in Paths(S, x, Ready, x, Done)
      BY <2>3, ValueIn DEF JsonValues
    <3> QED BY <2>1, <3>1, PathWider
  <2> QED BY <2>2, <2>3
<1>4. ASSUME NEW x \in Inner PROVE (Opened \o v) \o Closed \in Paths(S, x, Ready, x, Done)
  <2> DEFINE z == Push(Push(x, "{"), "[")
  <2>1. /\ z \in Inner /\ Opened \in Paths(S, x, Ready, z, {"["})
        /\ Closed \in Paths(S, z, Done \cup {"["}, x, {"}"})
    BY ListPaths
  <2> HIDE DEF z
  <2>2. v \in Paths(S, z, {"["}, z, Done \cup {"["})
    BY <1>3, <2>1
  <2>3. Tokens(S) /\ {"["} \subseteq {"["} /\ Done \cup {"["} \subseteq Done \cup {"["} /\ {"}"} \subseteq Done /\ Ready \subseteq Ready
    BY DEF Alphabet, Done
  <2>4. Opened \o v \in Paths(S, x, Ready, z, Done \cup {"["})
    BY <2>1, <2>2, <2>3, PathJoin
  <2>5. (Opened \o v) \o Closed \in Paths(S, x, Ready, x, {"}"})
    BY <2>1, <2>3, <2>4, PathJoin
  <2> QED BY <2>3, <2>5, PathWider
<1>5. (Opened \o v) \o Closed \in Seq(S)
  <2>1. Opened \o v \in Seq(S)
    BY <1>1, <1>2, JoinIn
  <2> QED BY <1>1, <2>1, JoinIn
<1> QED BY <1>1, <1>2, <1>3, <1>4, <1>5 DEF ValueTexts

\* The tokens of a report of drops, and what it tells of a counter.
DropCounters == [index : Indices, ctr : 0 .. 2]
DropTokens == {Token(n) : n \in Names \ {"e"}} \cup [t : {"e"}, index : Indices, ctr : 0 .. 2]
Mark(c) == [t |-> "e", index |-> c.index, ctr |-> c.ctr]
Marks(places) == [i \in 1 .. Len(places) |-> Mark(places[i])]

LEMMA DropAlphabet == Alphabet(DropTokens)
<1> DEFINE A == [t : {"e"}, index : Indices, ctr : 0 .. 2]
<1>1. \A x \in A : x.t = "e"
  OBVIOUS
<1> HIDE DEF A
<1>2. Alphabet({Token(n) : n \in Names \ {"e"}} \cup A)
  BY <1>1, TokenFacts
<1> QED BY <1>2 DEF A, DropTokens

\* One item, and the items of a list.
LEMMA ItemFacts ==
  ASSUME NEW c \in DropCounters
  PROVE  /\ Mark(c) \in DropTokens
         /\ Item(c) \in ValueTexts(DropTokens) /\ Entries(Item(c)) = <<Mark(c)>>
         /\ QueueItem(c) \in ValueTexts(DropTokens) /\ Entries(QueueItem(c)) = <<Mark(c)>>
<1> DEFINE S == DropTokens
           m == Mark(c)
           v == Item(c)
<1>1. m \in S /\ m.t = "e" /\ v = <<m>>
  BY DEF Mark, DropTokens, DropCounters, Item
<1>2. Alphabet(S)
  BY DropAlphabet
<1> HIDE DEF S, m
<1>3. v \in ValueTexts(S) /\ v \in JsonValues(S) /\ Entries(v) = <<m>>
  BY <1>1, EntryValue, EntriesOne DEF JsonValues
<1> HIDE DEF v
<1>4. Opened \in Seq(S) /\ Closed \in Seq(S) /\ v \in Seq(S) /\ (Opened \o v) \o Closed \in ValueTexts(S)
  BY <1>2, <1>3, BracketValue
<1>5. Entries(Opened) = << >> /\ Entries(Closed) = << >>
  BY <1>2, NoEntries DEF Opened, Closed, Names
<1>6. Opened \o v \in Seq(S) /\ Entries(Opened \o v) = <<m>>
  BY <1>3, <1>4, <1>5, EntriesAfter
<1> DEFINE w == Opened \o v
<1>7. w \in Seq(S) /\ Entries(w) = <<m>> /\ w \o Closed \in ValueTexts(S)
  BY <1>4, <1>6
<1> HIDE DEF w
<1>8. Entries(w \o Closed) = <<m>>
  BY <1>4, <1>5, <1>7, EntriesBefore
<1>9. QueueItem(c) = w \o Closed
  BY DEF QueueItem, Opened, Closed, w, v
<1> QED BY <1>1, <1>3, <1>7, <1>8, <1>9 DEF S, m, v

LEMMA ItemsFacts ==
  ASSUME NEW places \in Seq(DropCounters)
  PROVE  /\ Valued(DropTokens, Len(places), Items(places), Marks(places))
         /\ Valued(DropTokens, Len(places), QueueItems(places), Marks(places))
<1>1. Len(places) \in Nat /\ \A i \in 1 .. Len(places) : places[i] \in DropCounters
  OBVIOUS
<1>2. \A i \in 1 .. Len(places) :
        /\ Mark(places[i]) \in DropTokens
        /\ Item(places[i]) \in ValueTexts(DropTokens) /\ Entries(Item(places[i])) = <<Mark(places[i])>>
        /\ QueueItem(places[i]) \in ValueTexts(DropTokens) /\ Entries(QueueItem(places[i])) = <<Mark(places[i])>>
  BY <1>1, ItemFacts
<1> QED BY <1>1, <1>2 DEF Valued, Items, QueueItems, Marks

\* The places a report tells.
Chosen ==
  IF input.type \in {"top_drops", "top_q_drops"} THEN TopPlaces
  ELSE IF input.type = "port_drops" THEN PortPlaces ELSE QueuePlaces

\* The four lists of the encoders.
DropBody ==
  CASE input.type = "top_drops" -> Joined(Items(TopPlaces))
    [] input.type = "port_drops" -> Joined(Items(PortPlaces))
    [] input.type = "q_drops" -> Joined(QueueItems(QueuePlaces))
    [] input.type = "top_q_drops" /\ TopPlaces # << >> -> Ended(QueueItems(TopPlaces))
    [] OTHER -> << >>

LEMMA DropBodyFacts ==
  ASSUME input \in Inputs, Chosen \in Seq(DropCounters)
  PROVE  DropBody \in JsonValues(DropTokens) /\ Entries(DropBody) = Marks(Chosen)
<1> DEFINE S == DropTokens
           c == Chosen
           n == Len(Chosen)
<1>1. Alphabet(S) /\ Valued(S, n, Items(c), Marks(c)) /\ Valued(S, n, QueueItems(c), Marks(c))
  BY DropAlphabet, ItemsFacts
<1>2. input.type \in {"top_drops", "top_q_drops", "port_drops", "q_drops"}
  BY InputIs DEF TopInput, NamedInput
<1>3. n \in Nat /\ (c = << >> <=> n = 0)
  OBVIOUS
<1> HIDE DEF S, c, n
<1>4. /\ Joined(Items(c)) \in JsonValues(S) /\ Entries(Joined(Items(c))) = Marks(c)
      /\ Joined(QueueItems(c)) \in JsonValues(S) /\ Entries(Joined(QueueItems(c))) = Marks(c)
  <2>1. /\ Entries(Joined(Items(c))) = Marks(c)
        /\ IF n = 0 THEN Joined(Items(c)) = << >> ELSE Joined(Items(c)) \in ValueTexts(S)
    BY <1>1, JoinedFacts
  <2>2. /\ Entries(Joined(QueueItems(c))) = Marks(c)
        /\ IF n = 0 THEN Joined(QueueItems(c)) = << >> ELSE Joined(QueueItems(c)) \in ValueTexts(S)
    BY <1>1, JoinedFacts
  <2> QED BY <2>1, <2>2 DEF JsonValues
<1>5. CASE input.type = "top_drops"
  <2>1. DropBody = Joined(Items(c))
    BY <1>5 DEF DropBody, Chosen, c
  <2> QED BY <1>4, <2>1 DEF S, c
<1>6. CASE input.type = "port_drops"
  <2>1. DropBody = Joined(Items(c))
    BY <1>6 DEF DropBody, Chosen, c
  <2> QED BY <1>4, <2>1 DEF S, c
<1>7. CASE input.type = "q_drops"
  <2>1. DropBody = Joined(QueueItems(c))
    BY <1>7 DEF DropBody, Chosen, c
  <2> QED BY <1>4, <2>1 DEF S, c
<1>8. CASE input.type = "top_q_drops" /\ c # << >>
  <2>1. DropBody = Ended(QueueItems(c))
    BY <1>8 DEF DropBody, Chosen, c
  <2>2. Ended(QueueItems(c)) \in ValueTexts(S) /\ Entries(Ended(QueueItems(c))) = Marks(c)
    BY <1>1, <1>3, <1>8, EndedFacts
  <2> QED BY <2>1, <2>2 DEF S, c, JsonValues
<1>9. CASE input.type = "top_q_drops" /\ c = << >>
  <2>1. DropBody = << >>
    BY <1>9 DEF DropBody, Chosen, c
  <2>2. Entries(<< >>) = << >>
    BY NothingIn, ToldNone, EntriesNone
  <2>3. Marks(c) = << >>
    <3>1. n = 0 /\ 1 .. 0 = {}
      BY <1>3, <1>9
    <3>2. Len(c) = n
      BY DEF c, n
    <3> QED BY <3>1, <3>2 DEF Marks
  <2> QED BY <2>1, <2>2, <2>3 DEF JsonValues, c
<1> QED BY <1>2, <1>5, <1>6, <1>7, <1>8, <1>9

LEMMA TextPairs ==
  ASSUME NEW S, Alphabet(S), NEW a \in Names \ {"e"}, NEW b \in Names \ {"e"}, NEW c \in Names \ {"e"}, NEW d \in Names \ {"e"}
  PROVE  Text(<<a, b, c, d>>) = Text(<<a, b>>) \o Text(<<c, d>>)
<1> DEFINE p == Text(<<a, b>>)
           q == Text(<<c>>)
           r == Text(<<d>>)
<1>1. p \in Seq(S) /\ q \in Seq(S) /\ r \in Seq(S)
  BY TextsIn
<1>2. Text(<<a, b, c, d>>) = (p \o q) \o r /\ Text(<<c, d>>) = q \o r
  <2>1. Text(<<a, b, c, d>>) = Text(<<a, b, c>>) \o r
    BY TextJoined4
  <2>2. Text(<<a, b, c>>) = p \o q
    BY TextJoined3
  <2>3. Text(<<c, d>>) = q \o r
    BY TextJoined2
  <2> QED BY <2>1, <2>2, <2>3
<1> HIDE DEF p, q, r
<1>3. (p \o q) \o r = p \o (q \o r)
  BY <1>1, JoinedTwice
<1> QED BY <1>2, <1>3 DEF p

\* The brackets around them.
InnerList == Push(Push(TopList, "{"), "[")
DropOpen == Text(<<"{", "[", "{", "[">>)
LEMMA DropEndsFacts ==
  ASSUME NEW S, Alphabet(S)
  PROVE  /\ InnerList \in Inner
         /\ DropOpen \in Seq(S) /\ DropStart \in Seq(S) /\ DropEnd \in Seq(S)
         /\ Entries(DropOpen) = << >> /\ Entries(DropStart) = << >> /\ Entries(DropEnd) = << >>
         /\ Back(DropStart) = DropOpen /\ DropEnd # << >>
         /\ DropOpen \in Paths(S, << >>, {"start"}, InnerList, {"["})
         /\ DropStart \in Paths(S, << >>, {"start"}, InnerList, {"["})
         /\ DropEnd \in Paths(S, InnerList, Done \cup {"["}, << >>, {"}"})
<1>1. /\ DropOpen \in Seq(S) /\ DropStart \in Seq(S) /\ DropEnd \in Seq(S)
      /\ Entries(DropOpen) = << >> /\ Entries(DropStart) = << >> /\ Entries(DropEnd) = << >>
  BY TextsIn, NoEntries DEF DropOpen, DropStart, DropEnd, Names
<1>2. DropEnd # << >>
  <2>1. DropEnd = <<Token("]"), Token("}"), Token("]"), Token("}")>>
    BY TextIs DEF DropEnd
  <2> QED BY <2>1
<1>3. DropStart = DropOpen \o Space
  BY TextJoined5, ZenonT(30) DEF DropStart, DropOpen, Space
<1>4. Back(DropStart) = DropOpen
  <2>1. Space = <<Token(" ")>> /\ Token(" ") \in S
    BY TokenIn DEF Space, Names
  <2> QED BY <1>1, <1>3, <2>1, BackOne
<1>5. DropOpen = Opened \o Opened
  <2> DEFINE l == "{"
             m == "["
  <2>1. l \in Names \ {"e"} /\ m \in Names \ {"e"}
    BY DEF Names
  <2> HIDE DEF l, m
  <2>2. Text(<<l, m, l, m>>) = Text(<<l, m>>) \o Text(<<l, m>>)
    BY <2>1, TextPairs
  <2> QED BY <2>2 DEF DropOpen, Opened, l, m
<1>6. DropEnd = Closed \o Closed
  <2> DEFINE l == "]"
             m == "}"
  <2>1. l \in Names \ {"e"} /\ m \in Names \ {"e"}
    BY DEF Names
  <2> HIDE DEF l, m
  <2>2. Text(<<l, m, l, m>>) = Text(<<l, m>>) \o Text(<<l, m>>)
    BY <2>1, TextPairs
  <2> QED BY <2>2 DEF DropEnd, Closed, l, m
<1>7. /\ TopList \in Inner /\ Outermost \in Inner
      /\ Opened \in Paths(S, << >>, {"start"}, TopList, {"["})
      /\ Text(<<"}">>) \in Paths(S, Outermost, Done, << >>, {"}"})
  BY StartPaths
<1>8. /\ InnerList \in Inner
      /\ Opened \in Paths(S, TopList, Ready, InnerList, {"["})
      /\ Closed \in Paths(S, InnerList, Done \cup {"["}, TopList, {"}"})
  BY <1>7, ListPaths DEF InnerList
<1>9. Tokens(S) /\ {"["} \subseteq Ready /\ {"}"} \subseteq Done \cup {"["} /\ {"]"} \subseteq Done /\ {"["} \subseteq {"["}
  BY DEF Alphabet, Ready, Done
<1>10. DropOpen \in Paths(S, << >>, {"start"}, InnerList, {"["})
  BY <1>5, <1>7, <1>8, <1>9, PathJoin
<1>11. DropStart \in Paths(S, << >>, {"start"}, InnerList, {"["})
  <2>1. Space \in Paths(S, InnerList, {"["}, InnerList, {"["})
    BY SpacePaths
  <2> QED BY <1>3, <1>9, <1>10, <2>1, PathJoin
<1>12. Closed \in Paths(S, TopList, Done \cup {"["}, << >>, {"}"})
  <2>1. Closed = Text(<<"]">>) \o Text(<<"}">>)
    BY TextJoined2 DEF Closed
  <2>2. Text(<<"]">>) \in Paths(S, TopList, Done \cup {"["}, Outermost, {"]"})
    BY <1>7, TokenPaths DEF TopList
  <2> QED BY <1>7, <1>9, <2>1, <2>2, PathJoin
<1>13. DropEnd \in Paths(S, InnerList, Done \cup {"["}, << >>, {"}"})
  BY <1>6, <1>8, <1>9, <1>12, PathJoin
<1> QED BY <1>1, <1>2, <1>4, <1>8, <1>10, <1>11, <1>13

\* A report of drops is read by a parser and tells, in order, the counters that were chosen.
LEMMA EncodeDropsFacts ==
  ASSUME input \in Inputs, Chosen \in Seq(DropCounters)
  PROVE  /\ EncodeDrops # << >> /\ EncodeDrops \in Seq(DropTokens)
         /\ Entries(EncodeDrops) = Marks(Chosen) /\ IsWellFormed(EncodeDrops)
<1> DEFINE S == DropTokens
           b == DropBody
           st == IF input.type = "top_q_drops" /\ b = << >> THEN Back(DropStart) ELSE DropStart
<1>1. Alphabet(S)
  BY DropAlphabet
<1>2. b \in JsonValues(S) /\ Entries(b) = Marks(Chosen)
  BY DropBodyFacts
<1>3. EncodeDrops = (st \o b) \o DropEnd
  BY DEF EncodeDrops, DropBody
<1> HIDE DEF S, b
<1>4. /\ st \in Seq(S) /\ DropEnd \in Seq(S) /\ Entries(st) = << >> /\ Entries(DropEnd) = << >> /\ DropEnd # << >>
      /\ InnerList \in Inner
      /\ st \in Paths(S, << >>, {"start"}, InnerList, {"["})
      /\ DropEnd \in Paths(S, InnerList, Done \cup {"["}, << >>, {"}"})
  BY <1>1, DropEndsFacts
<1> HIDE DEF st
<1>5. b \in Seq(S) /\ b \in Paths(S, InnerList, {"["}, InnerList, Done \cup {"["})
  BY <1>1, <1>2, <1>4, BracketValue
<1>6. Tokens(S) /\ {"["} \subseteq {"["} /\ Done \cup {"["} \subseteq Done \cup {"["} /\ {"}"} \subseteq {"]", "}"} /\ {"start"} \subseteq {"start"}
  BY <1>1 DEF Alphabet
<1> DEFINE a == st \o b
<1>7. a \in Paths(S, << >>, {"start"}, InnerList, Done \cup {"["})
  BY <1>4, <1>5, <1>6, PathJoin
<1>8. a \in Seq(S) /\ Entries(a) = Entries(b)
  <2>1. st \in Seq(S) /\ b \in Seq(S) /\ Entries(st) = << >>
    BY <1>4, <1>5
  <2> QED BY <2>1, EntriesAfter
<1> HIDE DEF a
<1>9. a \o DropEnd \in Seq(S) /\ Entries(a \o DropEnd) = Entries(a)
  BY <1>4, <1>8, EntriesBefore
<1>10. a \o DropEnd # << >>
  BY <1>4, <1>8, JoinSome
<1>11. a \o DropEnd \in Paths(S, << >>, {"start"}, << >>, {"}"})
  BY <1>4, <1>6, <1>7, PathJoin
<1>12. a \o DropEnd \in Paths(S, << >>, {"start"}, << >>, {"]", "}"})
  BY <1>6, <1>11, PathWider
<1>13. IsWellFormed(a \o DropEnd)
  BY <1>12, WellFormedPath
<1> QED BY <1>2, <1>3, <1>8, <1>9, <1>10, <1>13 DEF a, S

(***************************************************************************)
(* Which places a report tells.                                            *)
(***************************************************************************)
Distinct(b) == \A k, l \in DOMAIN b : k # l => b[k].index # b[l].index
NotZero(J) == {ReadCounters[j] : j \in {k \in J : ReadCounters[k].ctr # 0}}
\* The counters J that are not zero, each once.
Exactly(b, J) == b \in Seq(DropCounters) /\ Range(b) = NotZero(J) /\ Distinct(b)
\* Counters that were read and are not zero, each once.
Sound(b) ==
  /\ b \in Seq(DropCounters) /\ Distinct(b)
  /\ \A k \in DOMAIN b : b[k].ctr # 0 /\ b[k] = ReadCounters[b[k].index]

\* The first places of the array, up to the first that is zero: by induction over the places.
LEMMA TopPlacesFacts ==
  ASSUME NEW n \in Nat, n + 1 \in Indices, NEW a, Reordered(a), Descending(a, n)
  PROVE  \E z \in 0 .. (n + 1) :
           /\ Places(a, 1, n + 1) \in Seq(DropCounters) /\ Len(Places(a, 1, n + 1)) = z
           /\ \A k \in 1 .. z : Places(a, 1, n + 1)[k] = a[k] /\ a[k].ctr # 0
           /\ z < n => \A j \in Indices : j > z => a[j].ctr = 0
<1> DEFINE T == DropCounters
           m == n + 1
           seqs == [k \in 1 .. m |-> IF a[k].ctr # 0 THEN <<a[k]>> ELSE << >>]
           Z == {i \in Nat : i = m \/ (i < m /\ a[i + 1].ctr = 0)}
<1>1. /\ a \in [Indices -> T] /\ TotalDropCtrs \in Nat /\ m \in Nat /\ m <= TotalDropCtrs
      /\ \A k \in 1 .. m : k \in Indices
  <2>1. a \in [Indices -> T]
    BY DEF Reordered, Arrays, DropCounters
  <2>2. TotalDropCtrs \in Nat
    BY TotalIs
  <2>3. m \in 1 .. TotalDropCtrs
    BY DEF Indices
  <2> HIDE DEF T, m
  <2> QED BY <2>1, <2>2, <2>3 DEF Indices
<1>2. \A j \in Indices : a[j] \in T /\ a[j].ctr \in 0 .. 2 /\ j \in Nat /\ 1 <= j
  BY <1>1 DEF DropCounters, Indices
<1>3. PICK z \in Z : \A y \in Z : z <= y
  <2>1. Z \in SUBSET Nat /\ m \in Z
    BY <1>1
  <2> HIDE DEF Z
  <2> QED BY <2>1, LeastExists
<1>4. z \in 0 .. m /\ z \in Nat /\ (z < m => a[z + 1].ctr = 0)
  <2>1. m \in Z
    BY <1>1
  <2> QED BY <1>1, <1>3, <2>1
<1>5. ASSUME NEW k \in 1 .. z PROVE a[k].ctr # 0
  <2> DEFINE i == k - 1
  <2>1. i \in Nat /\ i < m /\ i < z /\ i + 1 = k
    BY <1>1, <1>4
  <2>2. i \notin Z
    <3> HIDE DEF Z
    <3> QED BY <1>3, <1>4, <2>1
  <2>3. a[i + 1].ctr # 0
    BY <2>1, <2>2
  <2> QED BY <2>1, <2>3
<1>6. ASSUME z < n, NEW j \in Indices, j > z PROVE a[j].ctr = 0
  <2> DEFINE i == z + 1
  <2>1. i \in Indices /\ i <= n /\ i <= j /\ a[i].ctr = 0
    BY <1>1, <1>2, <1>4, <1>6
  <2> HIDE DEF i
  <2>2. a[j].ctr <= a[i].ctr
    BY <2>1 DEF Descending
  <2> QED BY <1>2, <2>1, <2>2
<1>7. ASSUME NEW i \in 1 .. m, i > z PROVE a[i].ctr = 0
  <2>1. CASE z < n
    <3>1. i \in Indices
      BY <1>1
    <3> QED BY <1>6, <1>7, <2>1, <3>1
  <2>2. CASE ~(z < n)
    <3>1. i = z + 1 /\ z < m
      BY <1>1, <1>4, <1>7, <2>2
    <3> QED BY <1>4, <3>1
  <2> QED BY <2>1, <2>2
<1> HIDE DEF Z
<1>8. Places(a, 1, n + 1) = FlattenSeq(seqs)
  <2>1. (n + 1) - 1 + 1 = m /\ \A k \in 1 .. m : 1 + k - 1 = k
    BY <1>1
  <2>2. [k \in 1 .. ((n + 1) - 1 + 1) |-> IF a[1 + k - 1].ctr # 0 THEN <<a[1 + k - 1]>> ELSE << >>] = seqs
    BY <2>1
  <2> QED BY <2>2 DEF Places
<1>9. \A i \in 1 .. m : seqs[i] = IF a[i].ctr # 0 THEN <<a[i]>> ELSE << >>
  OBVIOUS
<1>10. seqs \in Seq(Seq(T)) /\ Len(seqs) = m
  <2>1. \A i \in 1 .. m : <<a[i]>> \in Seq(T) /\ << >> \in Seq(T)
    BY <1>1, <1>2, OneIn, NothingIn
  <2> DEFINE U == Seq(T)
  <2>2. seqs \in [1 .. m -> U]
    BY <2>1
  <2> HIDE DEF U, seqs, m
  <2>3. seqs \in Seq(U) /\ Len(seqs) = m
    BY <1>1, <2>2, MapIn
  <2> QED BY <2>3 DEF U
<1> HIDE DEF seqs, m, T
<1> DEFINE upto(i) == IF i <= z THEN Upto(a, i) ELSE Upto(a, z)
           P == [i \in 0 .. m |-> {upto(i)}]
<1>11. a \in [1 .. TotalDropCtrs -> T]
  BY <1>1 DEF Indices
<1>12. ASSUME NEW i \in 0 .. m PROVE Upto(a, i) \in Seq(T) /\ Len(Upto(a, i)) = i
  <2>1. i \in Nat /\ \A k \in 1 .. i : k \in Indices
    BY <1>1
  <2>2. Upto(a, i) \in [1 .. i -> T]
    BY <1>2, <2>1 DEF Upto
  <2> QED BY <2>1, <2>2, MapIn
<1>13. P \in [0 .. m -> SUBSET Seq(T)]
  <2>1. \A i \in 0 .. m : upto(i) \in Seq(T)
    BY <1>4, <1>12
  <2> HIDE DEF upto
  <2> QED BY <2>1
<1>14. << >> \in P[0]
  <2>1. 0 \in 0 .. m /\ 0 <= z
    BY <1>1, <1>4
  <2>2. Upto(a, 0) = << >>
    BY <1>1, <1>11, UptoEnds
  <2> QED BY <2>1, <2>2
<1>15. ASSUME NEW i \in 1 .. m PROVE upto(i - 1) \o seqs[i] = upto(i)
  <2>1. CASE i <= z
    <3>1. i - 1 <= z /\ i \in 1 .. TotalDropCtrs /\ i \in 1 .. z
      BY <1>1, <1>4, <2>1
    <3>2. seqs[i] = <<a[i]>>
      BY <1>5, <1>9, <3>1
    <3>3. Upto(a, i - 1) \o <<a[i]>> = Upto(a, i)
      BY <1>1, <1>11, <3>1, UptoStep, ZenonT(30)
    <3> QED BY <2>1, <3>1, <3>2, <3>3
  <2>2. CASE ~(i <= z)
    <3>1. seqs[i] = << >>
      <4>1. i > z
        BY <1>1, <1>4, <2>2
      <4>2. a[i].ctr = 0
        BY <1>7, <4>1
      <4> QED BY <1>9, <4>2
    <3>2. upto(i - 1) = Upto(a, z)
      <4>1. CASE i - 1 <= z
        <5>1. i - 1 = z
          BY <1>1, <1>4, <2>2, <4>1
        <5> QED BY <5>1
      <4>2. CASE ~(i - 1 <= z)
        BY <4>2
      <4> QED BY <4>1, <4>2
    <3>3. Upto(a, z) \o << >> = Upto(a, z)
      <4> DEFINE u == Upto(a, z)
      <4>1. u \in Seq(T)
        BY <1>4, <1>12
      <4> HIDE DEF u
      <4>2. u \o << >> = u
        BY <4>1, JoinNothing
      <4> QED BY <4>2 DEF u
    <3>4. upto(i) = Upto(a, z)
      BY <2>2
    <3> HIDE DEF upto
    <3> QED BY <3>1, <3>2, <3>3, <3>4
  <2> QED BY <2>1, <2>2
<1>16. \A i \in 1 .. m : \A b \in P[i - 1] : b \o seqs[i] \in P[i]
  <2>1. \A i \in 1 .. m : i \in 0 .. m /\ i - 1 \in 0 .. m
    BY <1>1
  <2> HIDE DEF upto
  <2> QED BY <1>15, <2>1
<1>17. FlattenSeq(seqs) \in P[m]
  <2> HIDE DEF P
  <2> QED BY <1>10, <1>13, <1>14, <1>16, FlattenSteps
<1>18. FlattenSeq(seqs) = Upto(a, z)
  <2>1. m \in 0 .. m
    BY <1>1
  <2>2. FlattenSeq(seqs) = upto(m)
    <3> HIDE DEF upto
    <3> QED BY <1>17, <2>1
  <2>3. CASE m <= z
    <3>1. m = z
      BY <1>1, <1>4, <2>3
    <3> QED BY <2>2, <3>1
  <2>4. CASE ~(m <= z)
    BY <2>2, <2>4
  <2> QED BY <2>3, <2>4
<1>19. \A k \in 1 .. z : Upto(a, z)[k] = a[k]
  BY DEF Upto
<1> DEFINE b == Places(a, 1, n + 1)
<1>20. b = Upto(a, z)
  BY <1>8, <1>18
<1> HIDE DEF b
<1>21. b \in Seq(DropCounters) /\ Len(b) = z
  BY <1>4, <1>12, <1>20 DEF T
<1>22. \A k \in 1 .. z : b[k] = a[k] /\ a[k].ctr # 0
  BY <1>5, <1>19, <1>20
<1> QED BY <1>4, <1>6, <1>21, <1>22 DEF b, m

-----------------------------------------------------------------------------
LEMMA ReadIsAt ==
  ASSUME switch \in [Indices -> 0 .. 2], NEW j \in Indices
  PROVE  /\ ReadCounters[j] \in DropCounters /\ ReadCounters[j].index = j
         /\ ReadCounters[j].ctr = IF j \in Collected THEN switch[j] ELSE 0
<1>1. ReadCounters[j] = [index |-> j, ctr |-> IF j \in Collected THEN switch[j] ELSE 0]
  BY DEF ReadCounters
<1> DEFINE c == IF j \in Collected THEN switch[j] ELSE 0
<1>2. c \in 0 .. 2
  OBVIOUS
<1> HIDE DEF c
<1>3. ReadCounters[j] = [index |-> j, ctr |-> c]
  BY <1>1 DEF c
<1>4. ReadCounters[j] \in DropCounters /\ ReadCounters[j].index = j /\ ReadCounters[j].ctr = c
  BY <1>2, <1>3 DEF DropCounters
<1> QED BY <1>4 DEF c

\* Counters told one after the other.
LEMMA ExactlyNone == Exactly(<< >>, {})
<1>1. DOMAIN << >> = {} /\ Range(<< >>) = {}
  BY DEF Range
<1> QED BY <1>1, NothingIn DEF Exactly, Distinct, NotZero

LEMMA ExactlyOne ==
  ASSUME switch \in [Indices -> 0 .. 2], NEW j \in Indices
  PROVE  Exactly(IF ReadCounters[j].ctr # 0 THEN <<ReadCounters[j]>> ELSE << >>, {j})
<1> DEFINE c == ReadCounters[j]
<1>1. c \in DropCounters
  BY ReadIsAt
<1>2. CASE c.ctr # 0
  <2>1. NotZero({j}) = {c}
    BY <1>2 DEF NotZero
  <2> HIDE DEF c
  <2> DEFINE b == <<c>>
  <2>2. b \in Seq(DropCounters) /\ DOMAIN b = {1} /\ Range(b) = {c}
    BY <1>1 DEF Range
  <2> HIDE DEF b
  <2>3. Exactly(b, {j})
    BY <2>1, <2>2 DEF Exactly, Distinct
  <2> QED BY <1>2, <2>3 DEF b, c
<1>3. CASE c.ctr = 0
  <2>1. NotZero({j}) = {}
    BY <1>3 DEF NotZero
  <2>2. DOMAIN << >> = {} /\ Range(<< >>) = {}
    BY DEF Range
  <2>3. Exactly(<< >>, {j})
    BY <2>1, <2>2, NothingIn DEF Exactly, Distinct
  <2> QED BY <1>3, <2>3
<1> QED BY <1>2, <1>3

LEMMA ExactlyJoin ==
  ASSUME switch \in [Indices -> 0 .. 2], NEW b, NEW c, NEW J \in SUBSET Indices, NEW K \in SUBSET Indices,
         J \cap K = {}, Exactly(b, J), Exactly(c, K)
  PROVE  Exactly(b \o c, J \cup K)
<1> DEFINE d == b \o c
<1>1. b \in Seq(DropCounters) /\ c \in Seq(DropCounters) /\ Range(b) = NotZero(J) /\ Range(c) = NotZero(K)
  BY DEF Exactly
<1>2. /\ d \in Seq(DropCounters) /\ Len(d) = Len(b) + Len(c) /\ Len(b) \in Nat /\ Len(c) \in Nat
      /\ \A i \in 1 .. Len(b) : d[i] = b[i]
      /\ \A i \in 1 .. Len(c) : d[Len(b) + i] = c[i]
  BY <1>1, JoinPlaces
<1>3. Range(d) = Range(b) \cup Range(c)
  BY <1>1, RangeJoined
<1>4. NotZero(J) \cup NotZero(K) = NotZero(J \cup K)
  BY DEF NotZero
<1>5. DOMAIN b = 1 .. Len(b) /\ DOMAIN c = 1 .. Len(c) /\ DOMAIN d = 1 .. Len(d)
  BY <1>1, <1>2
<1> HIDE DEF d
<1>6. \A i \in 1 .. Len(b) : b[i].index \in J
  <2> TAKE i \in 1 .. Len(b)
  <2>1. b[i] \in NotZero(J)
    BY <1>1, <1>5 DEF Range
  <2>2. PICK j \in J : b[i] = ReadCounters[j]
    BY <2>1 DEF NotZero
  <2>3. ReadCounters[j].index = j
    BY ReadIsAt
  <2> QED BY <2>2, <2>3
<1>7. \A i \in 1 .. Len(c) : c[i].index \in K
  <2> TAKE i \in 1 .. Len(c)
  <2>1. c[i] \in NotZero(K)
    BY <1>1, <1>5 DEF Range
  <2>2. PICK j \in K : c[i] = ReadCounters[j]
    BY <2>1 DEF NotZero
  <2>3. ReadCounters[j].index = j
    BY ReadIsAt
  <2> QED BY <2>2, <2>3
<1>8. \A i \in 1 .. Len(d) : i \in 1 .. Len(b) \/ \E j \in 1 .. Len(c) : i = Len(b) + j
  <2> TAKE i \in 1 .. Len(d)
  <2>1. i \in 1 .. Len(b) \/ (i - Len(b) \in 1 .. Len(c) /\ i = Len(b) + (i - Len(b)))
    BY <1>2
  <2> QED BY <2>1
<1>9. Distinct(b) /\ Distinct(c)
  BY DEF Exactly
<1>10. ASSUME NEW k \in DOMAIN d, NEW l \in DOMAIN d, k # l PROVE d[k].index # d[l].index
  <2>1. CASE k \in 1 .. Len(b) /\ l \in 1 .. Len(b)
    BY <1>2, <1>5, <1>9, <1>10, <2>1 DEF Distinct
  <2>2. CASE k \in 1 .. Len(b) /\ l \notin 1 .. Len(b)
    <3>1. PICK j \in 1 .. Len(c) : l = Len(b) + j
      BY <1>5, <1>8, <2>2
    <3>2. d[k].index \in J /\ d[l].index \in K
      BY <1>2, <1>6, <1>7, <2>2, <3>1
    <3> QED BY <3>2
  <2>3. CASE k \notin 1 .. Len(b) /\ l \in 1 .. Len(b)
    <3>1. PICK j \in 1 .. Len(c) : k = Len(b) + j
      BY <1>5, <1>8, <2>3
    <3>2. d[l].index \in J /\ d[k].index \in K
      BY <1>2, <1>6, <1>7, <2>3, <3>1
    <3> QED BY <3>2
  <2>4. CASE k \notin 1 .. Len(b) /\ l \notin 1 .. Len(b)
    <3>1. PICK i \in 1 .. Len(c) : k = Len(b) + i
      BY <1>5, <1>8, <2>4
    <3>2. PICK j \in 1 .. Len(c) : l = Len(b) + j
      BY <1>5, <1>8, <2>4
    <3>3. i # j /\ d[k] = c[i] /\ d[l] = c[j]
      BY <1>2, <1>10, <3>1, <3>2
    <3> QED BY <1>5, <1>9, <3>3 DEF Distinct
  <2> QED BY <2>1, <2>2, <2>3, <2>4
<1>11. Distinct(d)
  BY <1>10 DEF Distinct
<1>12. Exactly(d, J \cup K)
  BY <1>1, <1>2, <1>3, <1>4, <1>11 DEF Exactly
<1> QED BY <1>12 DEF d

LEMMA ExactlySound ==
  ASSUME switch \in [Indices -> 0 .. 2], NEW J \in SUBSET Indices, NEW b, Exactly(b, J)
  PROVE  Sound(b)
<1>1. ASSUME NEW k \in DOMAIN b PROVE b[k].ctr # 0 /\ b[k] = ReadCounters[b[k].index]
  <2>1. b[k] \in NotZero(J)
    BY DEF Range, Exactly
  <2>2. PICK j \in J : b[k] = ReadCounters[j] /\ ReadCounters[j].ctr # 0
    BY <2>1 DEF NotZero
  <2>3. ReadCounters[j].index = j
    BY ReadIsAt
  <2> QED BY <2>2, <2>3
<1> QED BY <1>1 DEF Sound, Exactly

\* The counters of a run of places, and of a sequence of them.
LEMMA ExactlyFlatten ==
  ASSUME switch \in [Indices -> 0 .. 2], NEW n \in Nat, NEW seqs, NEW J \in [1 .. n -> SUBSET Indices],
         DOMAIN seqs = 1 .. n, seqs = [i \in 1 .. n |-> seqs[i]],
         \A i \in 1 .. n : Exactly(seqs[i], J[i]),
         \A i, k \in 1 .. n : i < k => J[i] \cap J[k] = {}
  PROVE  Exactly(FlattenSeq(seqs), UNION {J[i] : i \in 1 .. n})
<1> DEFINE T == Seq(DropCounters)
           All(i) == UNION {J[k] : k \in 1 .. i}
           P == [i \in 0 .. n |-> {b \in T : Exactly(b, All(i))}]
<1>1. \A i \in 1 .. n : seqs[i] \in T
  BY DEF Exactly
<1>2. seqs \in Seq(T) /\ Len(seqs) = n
  <2>1. seqs \in [1 .. n -> T]
    BY <1>1
  <2> HIDE DEF T
  <2> QED BY <2>1, MapIn
<1>3. P \in [0 .. n -> SUBSET T]
  OBVIOUS
<1>4. << >> \in P[0]
  <2>1. All(0) = {}
    OBVIOUS
  <2>2. << >> \in T /\ Exactly(<< >>, All(0))
    BY <2>1, ExactlyNone, NothingIn
  <2>3. 0 \in 0 .. n
    OBVIOUS
  <2> HIDE DEF All
  <2> QED BY <2>2, <2>3
<1>5. ASSUME NEW i \in 1 .. n, NEW b \in P[i - 1] PROVE b \o seqs[i] \in P[i]
  <2> DEFINE j == i - 1
  <2>1. j \in 0 .. n /\ i \in 0 .. n /\ (\A k \in 1 .. j : k \in 1 .. n /\ k < i) /\ \A k : k \in 1 .. i <=> k \in 1 .. j \/ k = i
    OBVIOUS
  <2>2. Exactly(b, All(j))
    <3> HIDE DEF j, All
    <3>1. b \in P[j]
      BY DEF j
    <3> QED BY <2>1, <3>1
  <2> HIDE DEF j
  <2>3. All(j) \in SUBSET Indices /\ J[i] \in SUBSET Indices /\ All(j) \cap J[i] = {} /\ All(i) = All(j) \cup J[i]
    <3>1. All(j) \in SUBSET Indices /\ J[i] \in SUBSET Indices
      BY <2>1
    <3>2. All(j) \cap J[i] = {}
      BY <2>1
    <3>3. All(i) = All(j) \cup J[i]
      BY <2>1
    <3> QED BY <3>1, <3>2, <3>3
  <2> DEFINE A == All(j)
             B == J[i]
             s == seqs[i]
  <2>4. A \in SUBSET Indices /\ B \in SUBSET Indices /\ A \cap B = {} /\ Exactly(b, A) /\ Exactly(s, B) /\ All(i) = A \cup B
    BY <2>2, <2>3
  <2> HIDE DEF A, B, All, s
  <2>5. Exactly(b \o s, A \cup B)
    BY <2>4, ExactlyJoin
  <2>6. b \o s \in T
    BY <2>5 DEF Exactly
  <2> QED BY <2>1, <2>4, <2>5, <2>6 DEF s
<1>6. FlattenSeq(seqs) \in P[n]
  <2> DEFINE D == DropCounters
  <2>1. seqs \in Seq(Seq(D)) /\ P \in [0 .. Len(seqs) -> SUBSET Seq(D)] /\ Len(seqs) = n
    BY <1>2, <1>3
  <2> HIDE DEF P, D
  <2>2. FlattenSeq(seqs) \in P[Len(seqs)]
    BY <1>4, <1>5, <2>1, FlattenSteps
  <2> QED BY <2>1, <2>2
<1>7. n \in 0 .. n
  OBVIOUS
<1>8. Exactly(FlattenSeq(seqs), All(n))
  <2> HIDE DEF All
  <2> QED BY <1>6, <1>7
<1> QED BY <1>8

LEMMA ProductMono ==
  ASSUME NEW a \in Nat, NEW b \in Nat, NEW c \in Nat, a <= b
  PROVE  a * c <= b * c /\ a * c \in Nat
<1> DEFINE d == b - a
<1>1. d \in Nat /\ b = a + d
  OBVIOUS
<1> HIDE DEF d
<1>2. b * c = a * c + d * c
  BY <1>1
<1>3. d * c \in Nat /\ a * c \in Nat
  BY <1>1
<1> QED BY <1>2, <1>3

\* The rows of the array of a port.
UcastRun(p) == UcastIndex(p, 1) .. UcastIndex(p, Queues)
McastRun(p) == McastIndex(p, 1) .. McastIndex(p, Queues)

\* Where the counters of a port are: rows of Queues places, a row for every
\* port, then the rows of the multicast counters, then the totals.
LEMMA RowsAre ==
  ASSUME NEW p \in 1 .. DropPorts
  PROVE  \E base \in Nat :
           /\ base + Queues <= DropPorts * Queues /\ DropPorts * Queues \in Nat /\ Queues \in Nat /\ Queues >= 1
           /\ TotalDropCtrs = 2 * (DropPorts * Queues) + DropPorts
           /\ base = (p - 1) * Queues /\ base + Queues = p * Queues
           /\ \A q \in Int : UcastIndex(p, q) = base + q /\ McastIndex(p, q) = DropPorts * Queues + base + q
           /\ TotalIndex(p) = 2 * (DropPorts * Queues) + p
<1>1. DropPorts \in Nat /\ Queues \in Nat /\ Queues >= 1 /\ p \in Nat /\ p - 1 \in Nat /\ p <= DropPorts
  BY DropsAssumption
<1> DEFINE base == (p - 1) * Queues
           all == DropPorts * Queues
<1>2. base \in Nat /\ all \in Nat /\ p * Queues <= all
  BY <1>1, ProductMono
<1>3. base + Queues = p * Queues
  <2> DEFINE j == p - 1
  <2>1. j \in Nat /\ p = j + 1
    BY <1>1
  <2> HIDE DEF j
  <2>2. j * Queues + Queues = (j + 1) * Queues
    BY <1>1, <2>1
  <2>3. base = j * Queues
    BY DEF j
  <2> QED BY <2>1, <2>2, <2>3
<1>4. TotalDropCtrs = 2 * all + DropPorts
  BY <1>1 DEF TotalDropCtrs
<1>5. TotalIndex(p) = 2 * all + p
  BY <1>1 DEF TotalIndex
<1>6. \A q \in Int : UcastIndex(p, q) = base + q /\ McastIndex(p, q) = all + base + q
  BY DEF UcastIndex, McastIndex
<1> HIDE DEF base, all
<1>7. base + Queues <= all
  BY <1>1, <1>2, <1>3
<1>8. \E x \in Nat : /\ x + Queues <= all /\ x = base
                     /\ \A q \in Int : UcastIndex(p, q) = x + q /\ McastIndex(p, q) = all + x + q
  BY <1>2, <1>6, <1>7
<1> QED BY <1>1, <1>2, <1>3, <1>4, <1>5, <1>8 DEF base, all

LEMMA RowsFacts ==
  ASSUME NEW p \in 1 .. DropPorts
  PROVE  /\ UcastIndex(p, 1) \in Nat /\ McastIndex(p, 1) \in Nat /\ Queues \in Nat
         /\ UcastIndex(p, Queues) = UcastIndex(p, 1) + (Queues - 1)
         /\ McastIndex(p, Queues) = McastIndex(p, 1) + (Queues - 1)
         /\ UcastRun(p) \subseteq Indices /\ McastRun(p) \subseteq Indices /\ UcastRun(p) \cap McastRun(p) = {}
         /\ \A q \in 1 .. Queues : UcastIndex(p, q) \in UcastRun(p) /\ McastIndex(p, q) \in McastRun(p)
         /\ TotalIndex(p) \in Indices /\ TotalIndex(p) \in TotalIndex(1) .. TotalIndex(DropPorts)
         /\ TotalIndex(1) \in Nat /\ TotalIndex(1) >= 1 /\ TotalIndex(DropPorts) = TotalIndex(1) + (DropPorts - 1)
         /\ TotalIndex(1) .. TotalIndex(DropPorts) \subseteq Indices
<1> DEFINE all == DropPorts * Queues
           total == TotalDropCtrs
           D == DropPorts
<1>1. PICK base \in Nat :
           /\ base + Queues <= all /\ all \in Nat /\ Queues \in Nat /\ Queues >= 1
           /\ total = 2 * all + D
           /\ \A q \in Int : UcastIndex(p, q) = base + q /\ McastIndex(p, q) = all + base + q
           /\ TotalIndex(p) = 2 * all + p
  BY RowsAre
<1>2. D \in Nat /\ D >= 1 /\ p \in Nat /\ 1 <= p /\ p <= D
  BY DropsAssumption
<1>3. TotalIndex(1) = 2 * all + 1 /\ TotalIndex(DropPorts) = 2 * all + D
  BY <1>2, DropsAssumption DEF TotalIndex
<1> HIDE DEF all, total, D
<1>4. /\ UcastIndex(p, 1) = base + 1 /\ UcastIndex(p, Queues) = base + Queues
      /\ McastIndex(p, 1) = all + base + 1 /\ McastIndex(p, Queues) = all + base + Queues
  BY <1>1
<1>5. Indices = 1 .. total
  BY DEF Indices, total
<1>6. UcastRun(p) = (base + 1) .. (base + Queues) /\ McastRun(p) = (all + base + 1) .. (all + base + Queues)
  BY <1>4 DEF UcastRun, McastRun
<1>7. UcastRun(p) \subseteq Indices /\ McastRun(p) \subseteq Indices /\ UcastRun(p) \cap McastRun(p) = {}
  <2> DEFINE n == Queues
  <2>1. all \in Nat /\ n \in Nat /\ base + n <= all /\ total = 2 * all + D /\ D \in Nat /\ base \in Nat
    BY <1>1, <1>2
  <2> HIDE DEF n
  <2>2. (base + 1) .. (base + n) \subseteq 1 .. total
    BY <2>1
  <2>3. (all + base + 1) .. (all + base + n) \subseteq 1 .. total
    BY <2>1
  <2>4. (base + 1) .. (base + n) \cap (all + base + 1) .. (all + base + n) = {}
    BY <2>1
  <2> QED BY <1>5, <1>6, <2>2, <2>3, <2>4 DEF n
<1>8. \A q \in 1 .. Queues : UcastIndex(p, q) \in UcastRun(p) /\ McastIndex(p, q) \in McastRun(p)
  <2> TAKE q \in 1 .. Queues
  <2>1. UcastIndex(p, q) = base + q /\ McastIndex(p, q) = all + base + q /\ q \in Int /\ 1 <= q /\ q <= Queues
    BY <1>1
  <2> QED BY <1>1, <1>6, <2>1
<1>9. TotalIndex(p) \in (2 * all + 1) .. (2 * all + D) /\ (2 * all + 1) .. (2 * all + D) \subseteq 1 .. total
  BY <1>1, <1>2
<1>10. TotalIndex(1) \in Nat /\ TotalIndex(1) >= 1 /\ TotalIndex(DropPorts) = TotalIndex(1) + (D - 1)
  BY <1>1, <1>2, <1>3
<1>11. /\ UcastIndex(p, 1) \in Nat /\ McastIndex(p, 1) \in Nat
       /\ UcastIndex(p, Queues) = UcastIndex(p, 1) + (Queues - 1)
       /\ McastIndex(p, Queues) = McastIndex(p, 1) + (Queues - 1)
  BY <1>1, <1>4
<1> QED BY <1>1, <1>3, <1>5, <1>7, <1>8, <1>9, <1>10, <1>11 DEF D

\* The rows of two ports have no place in common.
LEMMA RowsApart ==
  ASSUME NEW p \in 1 .. DropPorts, NEW r \in 1 .. DropPorts, p < r
  PROVE  (UcastRun(p) \cup McastRun(p)) \cap (UcastRun(r) \cup McastRun(r)) = {}
<1> DEFINE all == DropPorts * Queues
<1>1. PICK b \in Nat :
           /\ b + Queues <= all /\ all \in Nat /\ Queues \in Nat /\ Queues >= 1
           /\ b + Queues = p * Queues
           /\ \A q \in Int : UcastIndex(p, q) = b + q /\ McastIndex(p, q) = all + b + q
  BY RowsAre
<1>2. PICK c \in Nat :
           /\ c + Queues <= all
           /\ c = (r - 1) * Queues
           /\ \A q \in Int : UcastIndex(r, q) = c + q /\ McastIndex(r, q) = all + c + q
  BY RowsAre
<1>3. b + Queues <= c
  <2>1. p \in Nat /\ r - 1 \in Nat /\ p <= r - 1
    BY DropsAssumption
  <2>2. p * Queues <= (r - 1) * Queues
    BY <1>1, <2>1, ProductMono
  <2> QED BY <1>1, <1>2, <2>2
<1> HIDE DEF all
<1>4. UcastRun(p) = (b + 1) .. (b + Queues) /\ McastRun(p) = (all + b + 1) .. (all + b + Queues)
  <2>1. /\ UcastIndex(p, 1) = b + 1 /\ UcastIndex(p, Queues) = b + Queues
        /\ McastIndex(p, 1) = all + b + 1 /\ McastIndex(p, Queues) = all + b + Queues
    BY <1>1
  <2> QED BY <2>1 DEF UcastRun, McastRun
<1>5. UcastRun(r) = (c + 1) .. (c + Queues) /\ McastRun(r) = (all + c + 1) .. (all + c + Queues)
  <2>1. /\ UcastIndex(r, 1) = c + 1 /\ UcastIndex(r, Queues) = c + Queues
        /\ McastIndex(r, 1) = all + c + 1 /\ McastIndex(r, Queues) = all + c + Queues
    BY <1>1, <1>2
  <2> QED BY <2>1 DEF UcastRun, McastRun
<1> DEFINE n == Queues
<1>6. all \in Nat /\ n \in Nat /\ b + n <= all /\ c + n <= all /\ b + n <= c
  BY <1>1, <1>2, <1>3
<1> HIDE DEF n
<1>7. (b + 1) .. (b + n) \cap (c + 1) .. (c + n) = {}
  BY <1>6
<1>8. (all + b + 1) .. (all + b + n) \cap (all + c + 1) .. (all + c + n) = {}
  BY <1>6
<1>9. (b + 1) .. (b + n) \cap (all + c + 1) .. (all + c + n) = {}
  BY <1>6
<1>10. (all + b + 1) .. (all + b + n) \cap (c + 1) .. (c + n) = {}
  BY <1>6
<1> QED BY <1>4, <1>5, <1>7, <1>8, <1>9, <1>10 DEF n

\* A run of places tells the counters in it that are not zero: by induction over its length.
LEMMA PlacesExactly ==
  ASSUME switch \in [Indices -> 0 .. 2], NEW from \in Nat, NEW n \in Nat,
         from .. (from + (n - 1)) \subseteq Indices
  PROVE  Exactly(Places(ReadCounters, from, from + (n - 1)), from .. (from + (n - 1)))
<1> DEFINE to == from + (n - 1)
           r == ReadCounters
           seqs == [k \in 1 .. n |-> IF r[from + k - 1].ctr # 0 THEN <<r[from + k - 1]>> ELSE << >>]
           J == [k \in 1 .. n |-> {from + k - 1}]
<1>1. Places(r, from, to) = FlattenSeq(seqs)
  <2>1. to - from + 1 = n
    OBVIOUS
  <2> HIDE DEF r
  <2> QED BY <2>1 DEF Places
<1>2. \A k \in 1 .. n : from + k - 1 \in Indices
  <2>1. \A k \in 1 .. n : from + k - 1 \in from .. to
    OBVIOUS
  <2> QED BY <2>1
<1>3. J \in [1 .. n -> SUBSET Indices]
  BY <1>2
<1>4. DOMAIN seqs = 1 .. n /\ seqs = [i \in 1 .. n |-> seqs[i]]
  OBVIOUS
<1>5. ASSUME NEW k \in 1 .. n PROVE Exactly(seqs[k], J[k])
  <2> DEFINE j == from + k - 1
  <2>1. j \in Indices
    BY <1>2
  <2>2. seqs[k] = (IF r[j].ctr # 0 THEN <<r[j]>> ELSE << >>) /\ J[k] = {j}
    OBVIOUS
  <2> HIDE DEF j, seqs, J
  <2> QED BY <2>1, <2>2, ExactlyOne
<1>6. \A i, k \in 1 .. n : i < k => J[i] \cap J[k] = {}
  OBVIOUS
<1>7. UNION {J[i] : i \in 1 .. n} = from .. to
  <2>1. \A j \in from .. to : (j - from) + 1 \in 1 .. n /\ from + ((j - from) + 1) - 1 = j
    OBVIOUS
  <2>2. \A k \in 1 .. n : from + k - 1 \in from .. to
    OBVIOUS
  <2>3. \A k \in 1 .. n : J[k] = {from + k - 1}
    OBVIOUS
  <2> HIDE DEF J, to
  <2>4. UNION {J[i] : i \in 1 .. n} \subseteq from .. to
    BY <2>2, <2>3
  <2>5. ASSUME NEW j \in from .. to PROVE j \in UNION {J[i] : i \in 1 .. n}
    <3> DEFINE k == (j - from) + 1
    <3>1. k \in 1 .. n /\ from + k - 1 = j
      BY <2>1
    <3> HIDE DEF k
    <3> QED BY <2>3, <3>1
  <2> QED BY <2>4, <2>5
<1> HIDE DEF seqs, J, to
<1>8. Exactly(FlattenSeq(seqs), UNION {J[i] : i \in 1 .. n})
  BY <1>3, <1>4, <1>5, <1>6, ExactlyFlatten
<1> QED BY <1>1, <1>7, <1>8 DEF to

\* All queues of the ports but the last, and the totals of all ports.
Rows(p) == UcastRun(p) \cup McastRun(p)
QueueRows == UNION {Rows(p) : p \in 1 .. (DropPorts - 1)}

LEMMA PortQueuesExactly ==
  ASSUME switch \in [Indices -> 0 .. 2], NEW p \in 1 .. DropPorts
  PROVE  Exactly(PortQueues(p), Rows(p)) /\ Rows(p) \subseteq Indices
<1> DEFINE u == UcastIndex(p, 1)
           m == McastIndex(p, 1)
           n == Queues
<1>1. /\ u \in Nat /\ m \in Nat /\ n \in Nat
      /\ UcastIndex(p, Queues) = u + (n - 1) /\ McastIndex(p, Queues) = m + (n - 1)
      /\ UcastRun(p) \subseteq Indices /\ McastRun(p) \subseteq Indices /\ UcastRun(p) \cap McastRun(p) = {}
  BY RowsFacts
<1>2. UcastRun(p) = u .. (u + (n - 1)) /\ McastRun(p) = m .. (m + (n - 1))
  BY <1>1 DEF UcastRun, McastRun
<1>3. PortQueues(p) = Places(ReadCounters, u, u + (n - 1)) \o Places(ReadCounters, m, m + (n - 1))
  BY <1>1 DEF PortQueues
<1> HIDE DEF u, m, n
<1>4. Exactly(Places(ReadCounters, u, u + (n - 1)), u .. (u + (n - 1)))
  BY <1>1, <1>2, PlacesExactly
<1>5. Exactly(Places(ReadCounters, m, m + (n - 1)), m .. (m + (n - 1)))
  BY <1>1, <1>2, PlacesExactly
<1> DEFINE A == Places(ReadCounters, u, u + (n - 1))
           B == Places(ReadCounters, m, m + (n - 1))
<1>6. Exactly(A, UcastRun(p)) /\ Exactly(B, McastRun(p))
  BY <1>2, <1>4, <1>5
<1> HIDE DEF A, B
<1>7. Exactly(A \o B, UcastRun(p) \cup McastRun(p))
  BY <1>1, <1>6, ExactlyJoin
<1> QED BY <1>1, <1>3, <1>7 DEF Rows, A, B

LEMMA QueuePlacesExactly ==
  ASSUME switch \in [Indices -> 0 .. 2]
  PROVE  Exactly(QueuePlaces, QueueRows) /\ QueueRows \subseteq Indices
<1> DEFINE n == DropPorts - 1
           seqs == [p \in 1 .. n |-> PortQueues(p)]
           J == [p \in 1 .. n |-> Rows(p)]
<1>1. n \in Nat /\ \A p \in 1 .. n : p \in 1 .. DropPorts
  BY DropsAssumption
<1>2. \A p \in 1 .. n : Exactly(seqs[p], J[p]) /\ J[p] \in SUBSET Indices
  BY <1>1, PortQueuesExactly
<1>3. J \in [1 .. n -> SUBSET Indices]
  BY <1>2
<1>4. DOMAIN seqs = 1 .. n /\ seqs = [i \in 1 .. n |-> seqs[i]]
  OBVIOUS
<1>5. \A i, k \in 1 .. n : i < k => J[i] \cap J[k] = {}
  BY <1>1, RowsApart DEF Rows
<1>6. UNION {J[i] : i \in 1 .. n} = QueueRows
  BY DEF QueueRows
<1>7. QueuePlaces = FlattenSeq(seqs)
  BY DEF QueuePlaces
<1> HIDE DEF seqs, J, n
<1>8. Exactly(FlattenSeq(seqs), UNION {J[i] : i \in 1 .. n})
  BY <1>1, <1>2, <1>3, <1>4, <1>5, ExactlyFlatten
<1>9. UNION {J[i] : i \in 1 .. n} \subseteq Indices
  BY <1>2
<1> QED BY <1>6, <1>7, <1>8, <1>9

TotalRun == TotalIndex(1) .. TotalIndex(DropPorts)

LEMMA PortPlacesExactly ==
  ASSUME switch \in [Indices -> 0 .. 2]
  PROVE  Exactly(PortPlaces, TotalRun) /\ TotalRun \subseteq Indices
<1> DEFINE from == TotalIndex(1)
           n == DropPorts
<1>1. 1 \in 1 .. DropPorts /\ n \in Nat
  BY DropsAssumption
<1>2. from \in Nat /\ TotalIndex(DropPorts) = from + (n - 1) /\ TotalRun \subseteq Indices
  <2> DEFINE p == 1
  <2>1. p \in 1 .. DropPorts
    BY <1>1
  <2> HIDE DEF p
  <2> QED BY <2>1, RowsFacts DEF TotalRun
<1>3. TotalRun = from .. (from + (n - 1)) /\ PortPlaces = Places(ReadCounters, from, from + (n - 1))
  BY <1>2 DEF TotalRun, PortPlaces
<1> HIDE DEF from, n
<1> QED BY <1>1, <1>2, <1>3, PlacesExactly

(* The report is the one the encoder makes of the counters. *)
DropInv ==
  /\ input \in Inputs /\ switch \in [Indices -> 0 .. 2]
  /\ report # << >> => report = EncodeDrops

\* The invariant holds: a report is encoded from the counters as they are.
LEMMA DropInvHolds == DropSpec => []DropInv
<1>1. DropInit => DropInv
  <2> SUFFICES ASSUME DropInit PROVE switch \in [Indices -> 0 .. 2]
    BY DEF DropInit, DropInv
  <2>1. PICK d \in Dropping(MaxDropping) : \E values \in [d -> 1 .. 2] :
          switch = [i \in Indices |-> IF i \in d THEN values[i] ELSE 0]
    BY DEF DropInit
  <2>2. PICK values \in [d -> 1 .. 2] : switch = [i \in Indices |-> IF i \in d THEN values[i] ELSE 0]
    BY <2>1
  <2>3. \A i \in Indices : (IF i \in d THEN values[i] ELSE 0) \in 0 .. 2
    OBVIOUS
  <2> QED BY <2>2, <2>3
<1>2. DropInv /\ [DropNext]_dropVars => DropInv'
  <2> SUFFICES ASSUME DropInv, [DropNext]_dropVars PROVE DropInv'
    OBVIOUS
  <2>1. input' = input /\ switch' = switch
    BY DEF DropNext, SendDrops, DropsSent, dropVars
  <2>2. input' \in Inputs /\ switch' \in [Indices -> 0 .. 2]
    BY <2>1 DEF DropInv
  <2>3. EncodeDrops' = EncodeDrops
    <3>1. ReadCounters' = ReadCounters
      BY <2>1 DEF ReadCounters, Collected, DropPortList, QueueList, EveryPort
    <3>2. Sorted' = Sorted
      BY <2>1, <3>1 DEF Sorted
    <3>3. TopPlaces' = TopPlaces /\ PortPlaces' = PortPlaces
      BY <2>1, <3>1, <3>2 DEF TopPlaces, PortPlaces
    <3>4. QueuePlaces' = QueuePlaces
      BY <3>1 DEF QueuePlaces, PortQueues
    <3> QED BY <2>1, <3>3, <3>4 DEF EncodeDrops
  <2>4. report' # << >> => report' = EncodeDrops
    BY DEF DropInv, DropNext, SendDrops, DropsSent, dropVars
  <2> QED BY <2>2, <2>3, <2>4 DEF DropInv
<1> QED BY <1>1, <1>2, PTL DEF DropSpec

LEMMA CollectedIn == ASSUME input \in Inputs PROVE Collected \subseteq Indices /\ DropPortList \subseteq 1 .. DropPorts
<1>1. /\ DropPortList \subseteq 1 .. DropPorts /\ QueueList \subseteq 1 .. Queues
  BY InputIs DEF TopInput, NamedInput, DropPortList, QueueList, EveryPort
<1>2. \A p \in 1 .. DropPorts : TotalIndex(p) \in Indices
  BY RowsFacts
<1>3. \A p \in 1 .. DropPorts : \A q \in 1 .. Queues : UcastIndex(p, q) \in Indices /\ McastIndex(p, q) \in Indices
  BY RowsFacts
<1>4. {TotalIndex(p) : p \in DropPortList} \subseteq Indices
  BY <1>1, <1>2
<1>5. {UcastIndex(p, q) : p \in DropPortList, q \in IF input.queue_type # "mcast" THEN QueueList ELSE {}} \subseteq Indices
  <2> DEFINE Q == IF input.queue_type # "mcast" THEN QueueList ELSE {}
  <2>1. Q \subseteq 1 .. Queues
    BY <1>1
  <2> HIDE DEF Q
  <2>2. {UcastIndex(p, q) : p \in DropPortList, q \in Q} \subseteq Indices
    BY <1>1, <1>3, <2>1
  <2> QED BY <2>2 DEF Q
<1>6. {McastIndex(p, q) : p \in DropPortList, q \in IF input.queue_type # "ucast" THEN QueueList ELSE {}} \subseteq Indices
  BY <1>1, <1>3
<1> QED BY <1>1, <1>4, <1>5, <1>6 DEF Collected

\* The first places of the array that was sorted, as far as they are not
\* zero; every counter that is not zero is among them if they are fewer
\* than were asked for.
TopHas(z) ==
  /\ TopPlaces \in Seq(DropCounters) /\ Len(TopPlaces) = z
  /\ \A k \in 1 .. z : TopPlaces[k] = Sorted[k] /\ Sorted[k].ctr # 0
  /\ z < input.count => \A j \in Indices : j > z => Sorted[j].ctr = 0

\* The largest: the first places of the array that are not zero, one more than was asked for.
LEMMA TopChosen ==
  ASSUME input \in Inputs, switch \in [Indices -> 0 .. 2]
  PROVE  \E z \in 0 .. (input.count + 1) : TopHas(z)
<1> DEFINE n == input.count
           a == Sorted
<1>1. n \in Nat /\ n + 1 \in Indices
  <2>1. n \in 0 .. MaxCount /\ MaxCount \in Nat /\ TotalDropCtrs \in Nat /\ MaxCount + 1 <= TotalDropCtrs
    BY CountIs, TotalIs
  <2> HIDE DEF n
  <2>2. n \in Nat /\ n + 1 \in 1 .. TotalDropCtrs
    BY <2>1
  <2> QED BY <2>2 DEF Indices
<1>2. Reordered(a) /\ Descending(a, n)
  BY SortedFacts
<1>3. TopPlaces = Places(a, 1, n + 1)
  BY DEF TopPlaces
<1> HIDE DEF n, a
<1>4. \E z \in 0 .. (n + 1) :
           /\ Places(a, 1, n + 1) \in Seq(DropCounters) /\ Len(Places(a, 1, n + 1)) = z
           /\ \A k \in 1 .. z : Places(a, 1, n + 1)[k] = a[k] /\ a[k].ctr # 0
           /\ z < n => \A j \in Indices : j > z => a[j].ctr = 0
  BY <1>1, <1>2, TopPlacesFacts
<1> QED BY <1>3, <1>4 DEF TopHas, n, a

LEMMA TopIndices ==
  ASSUME input \in Inputs
  PROVE  \A z \in 0 .. (input.count + 1) : z \in Nat /\ \A k \in 1 .. z : k \in Indices
<1> DEFINE n == input.count
<1>1. n \in 0 .. MaxCount /\ MaxCount \in Nat /\ TotalDropCtrs \in Nat /\ MaxCount + 1 <= TotalDropCtrs
  BY CountIs, TotalIs
<1> HIDE DEF n
<1>2. \A z \in 0 .. (n + 1) : z \in Nat /\ \A k \in 1 .. z : k \in 1 .. TotalDropCtrs
  BY <1>1
<1> QED BY <1>2 DEF n, Indices

\* Whatever was asked for, what is told was read and is told once.
LEMMA ChosenSound ==
  ASSUME input \in Inputs, switch \in [Indices -> 0 .. 2]
  PROVE  Sound(Chosen)
<1>1. CASE input.type \in {"top_drops", "top_q_drops"}
  <2> DEFINE b == TopPlaces
             a == Sorted
  <2>1. PICK z \in 0 .. (input.count + 1) : TopHas(z)
    BY TopChosen
  <2>2. b \in Seq(DropCounters) /\ Len(b) = z /\ \A k \in 1 .. z : b[k] = a[k] /\ a[k].ctr # 0
    BY <2>1 DEF TopHas
  <2>3. \A k \in 1 .. z : k \in Indices
    BY TopIndices
  <2>4. Reordered(a)
    BY SortedFacts
  <2>5. DOMAIN b = 1 .. z
    BY <2>2
  <2>6. Chosen = b
    BY <1>1 DEF Chosen
  <2> HIDE DEF a, b
  <2>7. Distinct(b)
    BY <2>2, <2>3, <2>4, <2>5 DEF Distinct, Reordered
  <2>8. \A k \in DOMAIN b : b[k].ctr # 0 /\ b[k] = ReadCounters[b[k].index]
    BY <2>2, <2>3, <2>4, <2>5 DEF Reordered
  <2> QED BY <2>2, <2>6, <2>7, <2>8 DEF Sound
<1>2. CASE input.type = "port_drops"
  <2>1. Chosen = PortPlaces
    BY <1>2 DEF Chosen
  <2> QED BY <2>1, PortPlacesExactly, ExactlySound
<1>3. CASE input.type \notin {"top_drops", "top_q_drops", "port_drops"}
  <2>1. Chosen = QueuePlaces
    BY <1>3 DEF Chosen
  <2> QED BY <2>1, QueuePlacesExactly, ExactlySound
<1> QED BY <1>1, <1>2, <1>3

\* The entries of a report, in order, are the chosen counters.
LEMMA ReportTells ==
  ASSUME DropInv, report # << >>
  PROVE  /\ Sound(Chosen) /\ Entries(report) = Marks(Chosen) /\ ToldItems = Range(Marks(Chosen))
         /\ DOMAIN Chosen = 1 .. Len(Chosen) /\ DOMAIN Marks(Chosen) = DOMAIN Chosen
         /\ \A k \in DOMAIN Chosen : /\ Marks(Chosen)[k] = Mark(Chosen[k]) /\ Chosen[k] \in DropCounters
                                     /\ Mark(Chosen[k]).index = Chosen[k].index /\ Mark(Chosen[k]).ctr = Chosen[k].ctr
         /\ IsWellFormed(report)
<1>1. report = EncodeDrops /\ input \in Inputs /\ switch \in [Indices -> 0 .. 2]
  BY DEF DropInv
<1>2. Sound(Chosen)
  BY <1>1, ChosenSound
<1>3. Chosen \in Seq(DropCounters)
  BY <1>2 DEF Sound
<1>4. EncodeDrops \in Seq(DropTokens) /\ Entries(EncodeDrops) = Marks(Chosen) /\ IsWellFormed(EncodeDrops)
  BY <1>1, <1>3, EncodeDropsFacts
<1>5. Range(Entries(EncodeDrops)) = ToldIn(EncodeDrops)
  <2> DEFINE x == EncodeDrops
  <2>1. x \in Seq(DropTokens)
    BY <1>4
  <2> HIDE DEF x
  <2>2. Range(Entries(x)) = ToldIn(x)
    BY <2>1, EntriesRange
  <2> QED BY <2>2 DEF x
<1>6. DOMAIN Chosen = 1 .. Len(Chosen) /\ \A k \in DOMAIN Chosen : Chosen[k] \in DropCounters
  <2> DEFINE c == Chosen
  <2>1. c \in Seq(DropCounters)
    BY <1>3
  <2> HIDE DEF c
  <2>2. DOMAIN c = 1 .. Len(c) /\ \A k \in DOMAIN c : c[k] \in DropCounters
    BY <2>1
  <2> QED BY <2>2 DEF c
<1>7. ToldItems = Range(Marks(Chosen))
  BY <1>1, <1>4, <1>5 DEF ToldItems
<1>8. /\ DOMAIN Marks(Chosen) = DOMAIN Chosen
      /\ \A k \in DOMAIN Chosen : /\ Marks(Chosen)[k] = Mark(Chosen[k])
                                  /\ Mark(Chosen[k]).index = Chosen[k].index /\ Mark(Chosen[k]).ctr = Chosen[k].ctr
  BY <1>6 DEF Marks, Mark
<1> QED BY <1>1, <1>2, <1>4, <1>6, <1>7, <1>8

LEMMA ItemIs ==
  ASSUME DropInv, NEW e \in ToldItems
  PROVE  /\ report # << >>
         /\ \E k \in DOMAIN Chosen :
              /\ Chosen[k] \in DropCounters /\ e.index = Chosen[k].index /\ e.ctr = Chosen[k].ctr /\ e.ctr # 0
              /\ Chosen[k] = ReadCounters[e.index]
<1>1. report # << >>
  BY ToldNone DEF ToldItems
<1>2. /\ Sound(Chosen) /\ ToldItems = Range(Marks(Chosen)) /\ DOMAIN Marks(Chosen) = DOMAIN Chosen
      /\ \A k \in DOMAIN Chosen : /\ Marks(Chosen)[k] = Mark(Chosen[k]) /\ Chosen[k] \in DropCounters
                                  /\ Mark(Chosen[k]).index = Chosen[k].index /\ Mark(Chosen[k]).ctr = Chosen[k].ctr
  BY <1>1, ReportTells
<1>3. PICK k \in DOMAIN Chosen : e = Marks(Chosen)[k]
  BY <1>2 DEF Range
<1>4. Chosen[k].ctr # 0 /\ Chosen[k] = ReadCounters[Chosen[k].index]
  BY <1>2 DEF Sound
<1> QED BY <1>1, <1>2, <1>3, <1>4

LEMMA ChosenTold ==
  ASSUME DropInv, report # << >>, NEW k \in DOMAIN Chosen
  PROVE  ToldOf(Chosen[k].index)
<1>1. /\ ToldItems = Range(Marks(Chosen)) /\ DOMAIN Marks(Chosen) = DOMAIN Chosen
      /\ Marks(Chosen)[k] = Mark(Chosen[k]) /\ Mark(Chosen[k]).index = Chosen[k].index
  BY ReportTells
<1>2. Mark(Chosen[k]) \in ToldItems
  BY <1>1 DEF Range
<1> QED BY <1>1, <1>2 DEF ToldOf

LEMMA NoEntriesYet == Entries(<< >>) = << >>
<1> DEFINE a == << >>
<1>1. ToldIn(a) = {}
  BY NothingIn, ToldNone
<1>2. a \in Seq(Nat)
  BY NothingIn
<1>3. Entries(a) = << >>
  <2> HIDE DEF a
  <2> QED BY <1>1, <1>2, EntriesNone
<1> QED BY <1>3

LEMMA DropTypesHold == ASSUME DropInv PROVE DropDocumentsTypeOK
<1>1. ASSUME NEW e \in ToldItems PROVE e.index \in Indices /\ e.ctr \in 1 .. 2
  <2>1. PICK k \in DOMAIN Chosen : Chosen[k] \in DropCounters /\ e.index = Chosen[k].index /\ e.ctr = Chosen[k].ctr /\ e.ctr # 0
    BY ItemIs
  <2>2. e.index \in Indices /\ e.ctr \in 0 .. 2
    BY <2>1 DEF DropCounters
  <2> QED BY <2>1, <2>2
<1>2. ASSUME NEW k \in DOMAIN Entries(report), NEW l \in DOMAIN Entries(report), k # l
      PROVE  Entries(report)[k].index # Entries(report)[l].index
  <2>1. report # << >>
    <3>1. Entries(<< >>) = << >>
      BY NoEntriesYet
    <3>2. DOMAIN << >> = {}
      OBVIOUS
    <3> QED BY <1>2, <3>1, <3>2
  <2>2. /\ Sound(Chosen) /\ Entries(report) = Marks(Chosen) /\ DOMAIN Marks(Chosen) = DOMAIN Chosen
        /\ \A j \in DOMAIN Chosen : Marks(Chosen)[j] = Mark(Chosen[j]) /\ Mark(Chosen[j]).index = Chosen[j].index
    BY <2>1, ReportTells
  <2> QED BY <1>2, <2>2 DEF Sound, Distinct
<1> QED BY <1>1, <1>2 DEF DropDocumentsTypeOK, DropInv

\* A report tells counters of the array, each at most once.
THEOREM DropReportTypes == DropSpec => []DropDocumentsTypeOK
<1>1. DropSpec => []DropInv
  BY DropInvHolds
<1>2. DropInv => DropDocumentsTypeOK
  BY DropTypesHold
<1> QED BY <1>1, <1>2, PTL

\* A report of drops is a document that a JSON parser takes, also when no counter is to
\* be told (bst_json_encoder.c:680-1018).
THEOREM DropReportParses == DropSpec => []DropsWellFormed
<1>1. ASSUME DropInv PROVE DropsWellFormed
  BY <1>1, ReportTells DEF DropsWellFormed
<1> QED BY <1>1, DropInvHolds, PTL

\* What is told is what the switch counted, of a port and a queue that were asked for.
THEOREM DropsAreCounted == DropSpec => []ToldAsCounted
<1>1. ASSUME DropInv PROVE ToldAsCounted
  <2> SUFFICES ASSUME NEW e \in ToldItems PROVE e.ctr = switch[e.index] /\ e.index \in Collected
    BY DEF ToldAsCounted
  <2>1. PICK k \in DOMAIN Chosen :
          /\ Chosen[k] \in DropCounters /\ e.index = Chosen[k].index /\ e.ctr = Chosen[k].ctr /\ e.ctr # 0
          /\ Chosen[k] = ReadCounters[e.index]
    BY <1>1, ItemIs
  <2>2. e.index \in Indices
    BY <2>1 DEF DropCounters
  <2>3. ReadCounters[e.index].ctr = IF e.index \in Collected THEN switch[e.index] ELSE 0
    BY <1>1, <2>2, ReadIsAt DEF DropInv
  <2> QED BY <2>1, <2>3
<1> QED BY <1>1, DropInvHolds, PTL

\* Of the ports and queues that were named, every counter that is not zero is told; the
\* queues of the last port are left out (bst_json_encoder.c:881).
THEOREM NamedTold == DropSpec => []NamedDropsTold
<1>1. ASSUME DropInv PROVE NamedDropsTold
  <2> USE <1>1
  <2>1. input \in Inputs /\ switch \in [Indices -> 0 .. 2]
    BY DEF DropInv
  <2>2. ASSUME report # << >>, NEW J \in SUBSET Indices, Exactly(Chosen, J), NEW i \in J, i \in Collected, switch[i] # 0
        PROVE  ToldOf(i)
    <3>1. ReadCounters[i].ctr # 0 /\ ReadCounters[i].index = i
      BY <2>1, <2>2, ReadIsAt
    <3>2. ReadCounters[i] \in Range(Chosen)
      BY <2>2, <3>1 DEF Exactly, NotZero
    <3>3. PICK k \in DOMAIN Chosen : Chosen[k] = ReadCounters[i]
      BY <3>2 DEF Range
    <3> QED BY <2>2, <3>1, <3>3, ChosenTold
  <2>3. ASSUME report # << >>, input.type = "port_drops",
               NEW p \in (IF input.all THEN 1 .. DropPorts ELSE input.ports), switch[TotalIndex(p)] # 0
        PROVE  ToldOf(TotalIndex(p))
    <3>1. Chosen = PortPlaces
      BY <2>3 DEF Chosen
    <3>2. Exactly(Chosen, TotalRun) /\ TotalRun \in SUBSET Indices
      BY <2>1, <3>1, PortPlacesExactly
    <3>3. p \in DropPortList /\ TotalIndex(p) \in Collected
      BY <2>3 DEF DropPortList, EveryPort, Collected
    <3>4. TotalIndex(p) \in TotalRun
      <4>1. p \in 1 .. DropPorts
        BY <2>1, <3>3, CollectedIn
      <4> QED BY <4>1, RowsFacts DEF TotalRun
    <3> QED BY <2>2, <2>3, <3>2, <3>3, <3>4
  <2>4. ASSUME report # << >>, input.type = "q_drops", ~input.all, NEW i \in NamedQueues, switch[i] # 0
        PROVE  ToldOf(i)
    <3>1. Chosen = QueuePlaces
      BY <2>4 DEF Chosen
    <3>2. Exactly(Chosen, QueueRows) /\ QueueRows \in SUBSET Indices
      BY <2>1, <3>1, QueuePlacesExactly
    <3>3. input.ports \subseteq 1 .. DropPorts /\ input.queues \subseteq 1 .. Queues
      BY <2>1, <2>4, InputIs DEF TopInput, NamedInput
    <3>4. DropPortList = input.ports /\ QueueList = input.queues
      BY <2>4 DEF DropPortList, QueueList, EveryPort
    <3>5. \A p \in 1 .. DropPorts : p # DropPorts => p \in 1 .. (DropPorts - 1)
      BY DropsAssumption
    <3>6. i \in Collected
      BY <2>4, <3>4 DEF Collected, NamedQueues
    <3>7. i \in QueueRows
      <4>1. \A p \in 1 .. DropPorts : \A q \in 1 .. Queues : UcastIndex(p, q) \in Rows(p) /\ McastIndex(p, q) \in Rows(p)
        BY RowsFacts DEF Rows
      <4>2. \E p \in input.ports \ {DropPorts} : i \in Rows(p)
        BY <3>3, <4>1 DEF NamedQueues
      <4> QED BY <3>3, <3>5, <4>2 DEF QueueRows
    <3> QED BY <2>2, <2>4, <3>2, <3>6, <3>7
  <2> QED BY <2>3, <2>4 DEF NamedDropsTold
<1> QED BY <1>1, DropInvHolds, PTL

\* As many as there are, when no two are the same.
LEMMA CountedBy ==
  ASSUME NEW w \in Nat, NEW S, NEW f \in [1 .. w -> S], \A k, l \in 1 .. w : f[k] = f[l] => k = l,
         \A x \in S : \E k \in 1 .. w : f[k] = x
  PROVE  IsFiniteSet(S) /\ Cardinality(S) = w
<1>2. f \in Injection(1 .. w, S)
  BY DEF Injection, IsInjective
<1>3. f \in Surjection(1 .. w, S)
  BY DEF Surjection
<1>4. ExistsBijection(1 .. w, S)
  BY <1>2, <1>3 DEF ExistsBijection, Bijection
<1> QED BY <1>4, FS_NatBijection, FS_CountingElements

\* A report of the largest drops leaves out no counter larger than one it tells, and has
\* as many as were asked for if there are that many (bst.c:1407-1433).
THEOREM LargestTold == DropSpec => []TopIsTop
<1>1. ASSUME DropInv, report # << >>, input.type \in {"top_drops", "top_q_drops"}
      PROVE  /\ \A e \in First(input.count) : \A i \in Wanted : switch[i] > e.ctr => ToldOf(i)
             /\ Cardinality(First(input.count)) = IF Cardinality(Wanted) < input.count THEN Cardinality(Wanted) ELSE input.count
  <2> USE <1>1
  <2> DEFINE n == input.count
             a == Sorted
             b == Chosen
             m == Marks(Chosen)
  <2>1. input \in Inputs /\ switch \in [Indices -> 0 .. 2]
    BY DEF DropInv
  <2>2. b = TopPlaces
    BY DEF Chosen
  <2>3. PICK z \in 0 .. (n + 1) : TopHas(z)
    BY <2>1, TopChosen
  <2>4. /\ Len(b) = z /\ \A k \in 1 .. z : b[k] = a[k] /\ a[k].ctr # 0
        /\ z < n => \A j \in Indices : j > z => a[j].ctr = 0
    BY <2>2, <2>3 DEF TopHas
  <2>5. n \in Nat /\ z \in Nat /\ \A k \in 1 .. z : k \in Indices
    <3>1. n \in 0 .. MaxCount /\ MaxCount \in Nat
      BY <2>1, CountIs, TotalIs
    <3>2. z \in Nat /\ \A k \in 1 .. z : k \in Indices
      BY <2>1, TopIndices
    <3> HIDE DEF n
    <3> QED BY <3>1, <3>2
  <2>6. Reordered(a) /\ Descending(a, n)
    BY <2>1, SortedFacts
  <2>7. /\ Entries(report) = m /\ DOMAIN m = 1 .. z
        /\ \A k \in 1 .. z : m[k] = Mark(b[k]) /\ m[k].index = a[k].index /\ m[k].ctr = a[k].ctr
    <3>1. /\ Entries(report) = m /\ DOMAIN b = 1 .. Len(b) /\ DOMAIN m = DOMAIN b
          /\ \A k \in DOMAIN b : m[k] = Mark(b[k]) /\ Mark(b[k]).index = b[k].index /\ Mark(b[k]).ctr = b[k].ctr
      BY ReportTells
    <3> HIDE DEF b, m, a, n
    <3> QED BY <2>4, <3>1
  <2>8. \A k \in 1 .. z : ToldOf(a[k].index)
    <3>1. DOMAIN b = 1 .. z
      <4>1. DOMAIN b = 1 .. Len(b)
        BY ReportTells
      <4> HIDE DEF b
      <4> QED BY <2>4, <4>1
    <3>2. \A k \in DOMAIN b : ToldOf(b[k].index)
      BY ChosenTold
    <3> HIDE DEF b, a, n
    <3> QED BY <2>4, <3>1, <3>2
  <2>9. \A i \in Indices : (i \in Wanted <=> ReadCounters[i].ctr # 0) /\ (i \in Wanted => ReadCounters[i].ctr = switch[i])
    BY <2>1, ReadIsAt DEF Wanted
  <2>10. Wanted \subseteq Indices
    BY <2>1, CollectedIn DEF Wanted
  <2>11. \A j \in Indices : a[j] = ReadCounters[a[j].index] /\ a[j].index \in Indices /\ a[j].ctr \in 0 .. 2 /\ j \in Nat /\ 1 <= j
    <3>1. \A j \in Indices : a[j] \in [index : Indices, ctr : 0 .. 2]
      BY <2>6 DEF Reordered, Arrays
    <3>2. \A j \in Indices : j \in Nat /\ 1 <= j
      BY TotalIs DEF Indices
    <3> HIDE DEF a
    <3> QED BY <2>6, <3>1, <3>2 DEF Reordered
  <2>12. First(n) = {m[k] : k \in {l \in 1 .. z : l <= n}}
    BY <2>7 DEF First
  <2> HIDE DEF n, a, b, m
  <2>13. ASSUME NEW e \in First(n), NEW i \in Wanted, switch[i] > e.ctr PROVE ToldOf(i)
    <3>1. PICK k \in 1 .. z : k <= n /\ e = m[k]
      BY <2>12
    <3>2. PICK j \in Indices : a[j].index = i
      BY <2>6, <2>10 DEF Reordered
    <3>3. a[j].ctr = switch[i] /\ e.ctr = a[k].ctr /\ k \in Indices
      BY <2>5, <2>7, <2>9, <2>10, <2>11, <3>1, <3>2
    <3>4. ~(k <= j)
      <4>1. k <= j => a[j].ctr <= a[k].ctr
        BY <2>6, <3>1, <3>3 DEF Descending
      <4> QED BY <2>11, <2>13, <3>3, <4>1
    <3>5. j \in 1 .. z
      <4>1. j \in Nat /\ 1 <= j /\ k \in Nat /\ k <= z
        BY <2>5, <2>11
      <4> QED BY <2>5, <3>4, <4>1
    <3> QED BY <2>8, <3>2, <3>5
  <2> DEFINE w == IF z < n THEN z ELSE n
  <2>14. w \in Nat /\ {l \in 1 .. z : l <= n} = 1 .. w /\ \A k \in 1 .. w : k \in 1 .. z /\ k <= n
    BY <2>5
  <2> HIDE DEF w
  <2>15. Cardinality(First(n)) = w
    <3> DEFINE f == [k \in 1 .. w |-> m[k]]
    <3>1. \A k, l \in 1 .. w : f[k] = f[l] => k = l
      <4>1. \A k \in 1 .. w : f[k].index = a[k].index /\ k \in Indices
        BY <2>5, <2>7, <2>14
      <4> HIDE DEF f
      <4> QED BY <2>6, <4>1 DEF Reordered
    <3> DEFINE S == First(n)
    <3>3. w \in Nat /\ f \in [1 .. w -> S] /\ \A x \in S : \E k \in 1 .. w : f[k] = x
      BY <2>12, <2>14
    <3> HIDE DEF f, S
    <3>5. Cardinality(S) = w
      BY <3>1, <3>3, CountedBy
    <3> QED BY <3>5 DEF S
  <2> DEFINE g == [k \in 1 .. w |-> a[k].index]
             G == {g[k] : k \in 1 .. w}
  <2>16. G \subseteq Wanted /\ Cardinality(G) = w /\ IsFiniteSet(G)
    <3>1. \A k \in 1 .. w : g[k] \in Wanted
      <4>1. \A k \in 1 .. w : k \in Indices /\ a[k].ctr # 0
        BY <2>4, <2>5, <2>14
      <4> QED BY <2>9, <2>11, <4>1
    <3>2. \A k, l \in 1 .. w : g[k] = g[l] => k = l
      <4>1. \A k \in 1 .. w : k \in Indices
        BY <2>5, <2>14
      <4> QED BY <2>6, <4>1 DEF Reordered
    <3>3. w \in Nat /\ g \in [1 .. w -> G] /\ \A x \in G : \E k \in 1 .. w : g[k] = x
      BY <2>14
    <3>4. G \subseteq Wanted
      BY <3>1
    <3> HIDE DEF g, G
    <3>5. IsFiniteSet(G) /\ Cardinality(G) = w
      BY <3>2, <3>3, CountedBy
    <3> QED BY <3>4, <3>5
  <2>17. CASE z < n
    <3>1. Wanted \subseteq G
      <4> SUFFICES ASSUME NEW i \in Wanted PROVE i \in G
        OBVIOUS
      <4>1. PICK j \in Indices : a[j].index = i
        BY <2>6, <2>10 DEF Reordered
      <4>2. a[j].ctr # 0
        BY <2>9, <2>10, <2>11, <4>1
      <4>3. j \in 1 .. z
        BY <2>4, <2>5, <2>11, <2>17, <4>2
      <4>4. j \in 1 .. w /\ g[j] = i
        BY <2>17, <4>1, <4>3 DEF w
      <4> QED BY <4>4
    <3>2. Cardinality(Wanted) = w
      <4> HIDE DEF G
      <4>1. Wanted = G
        BY <2>16, <3>1
      <4> QED BY <2>16, <4>1
    <3>3. w = z
      BY <2>17 DEF w
    <3>4. Cardinality(First(n)) = IF Cardinality(Wanted) < n THEN Cardinality(Wanted) ELSE n
      BY <2>15, <2>17, <3>2, <3>3
    <3> QED BY <2>13, <3>4 DEF n
  <2>18. CASE ~(z < n)
    <3>1. w = n
      BY <2>18 DEF w
    <3>2. IsFiniteSet(Wanted)
      <4>1. IsFiniteSet(Indices)
        BY TotalIs, FS_Interval DEF Indices
      <4> QED BY <2>10, <4>1, FS_Subset
    <3>3. Cardinality(G) <= Cardinality(Wanted) /\ Cardinality(Wanted) \in Nat
      <4> HIDE DEF G
      <4> QED BY <2>16, <3>2, FS_Subset, FS_CardinalityType
    <3>4. ~(Cardinality(Wanted) < n)
      <4> HIDE DEF G
      <4> QED BY <2>5, <2>16, <3>1, <3>3
    <3>5. Cardinality(First(n)) = IF Cardinality(Wanted) < n THEN Cardinality(Wanted) ELSE n
      BY <2>15, <3>1, <3>4
    <3> QED BY <2>13, <3>5 DEF n
  <2> QED BY <2>17, <2>18
<1>2. ASSUME DropInv PROVE TopIsTop
  BY <1>1, <1>2 DEF TopIsTop
<1> QED BY <1>2, DropInvHolds, PTL

(***************************************************************************)
(* Documents of packet trace, black hole detection and the agent.          *)
(***************************************************************************)
EachOf(set, f) == FlattenSeq([i \in 1 .. Cardinality(set) |-> f[SetToSeq(set)[i]]])

\* The sequence the library makes of a set has each member of it.
LEMMA Enumeration ==
  ASSUME NEW set, IsFiniteSet(set)
  PROVE  /\ Cardinality(set) \in Nat /\ SetToSeq(set) \in [1 .. Cardinality(set) -> set]
         /\ \A v \in set : \E i \in 1 .. Cardinality(set) : SetToSeq(set)[i] = v
<1> DEFINE n == Cardinality(set)
           s == SetToSeq(set)
<1>1. n \in Nat /\ ExistsBijection(1 .. n, set)
  BY FS_CardinalityType
<1>2. \E f \in [1 .. n -> set] : IsInjective(f)
  BY <1>1 DEF ExistsBijection, Bijection, Injection
<1>3. s \in [1 .. n -> set] /\ IsInjective(s)
  BY <1>2 DEF SetToSeq
<1> HIDE DEF s
<1>4. s \in Injection(1 .. n, set)
  BY <1>3 DEF Injection
<1>5. Cardinality(1 .. n) = n
  <2>1. Cardinality(1 .. n) = IF 1 > n THEN 0 ELSE n - 1 + 1
    BY <1>1, FS_Interval
  <2> QED BY <1>1, <2>1
<1>6. s \in Surjection(1 .. n, set)
  BY <1>4, <1>5, FS_Injection
<1> QED BY <1>1, <1>3, <1>6 DEF Surjection, s

\* A text with a part for each member of a set.
LEMMA EachFacts ==
  ASSUME NEW S, NEW P \in SUBSET Seq(S), << >> \in P, \A a, b \in P : a \o b \in P,
         NEW set, IsFiniteSet(set), NEW f \in [set -> P]
  PROVE  /\ EachOf(set, f) \in P /\ ToldIn(EachOf(set, f)) = UNION {ToldIn(f[v]) : v \in set}
         /\ set = {} => EachOf(set, f) = << >>
         /\ set # {} /\ (\A v \in set : f[v] # << >>) => EachOf(set, f) # << >>
<1> DEFINE n == Cardinality(set)
           s == SetToSeq(set)
           q == [i \in 1 .. n |-> f[s[i]]]
<1>1. n \in Nat /\ s \in [1 .. n -> set] /\ \A v \in set : \E i \in 1 .. n : s[i] = v
  BY Enumeration
<1> HIDE DEF n, s
<1>2. q \in [1 .. n -> P] /\ \A i \in 1 .. n : q[i] = f[s[i]] /\ s[i] \in set
  BY <1>1
<1>3. EachOf(set, f) = FlattenSeq(q)
  BY DEF EachOf, n, s
<1> HIDE DEF q
<1>4. q \in Seq(P) /\ q \in Seq(Seq(S)) /\ Len(q) = n
  BY <1>1, <1>2
<1>5. FlattenSeq(q) \in P
  BY <1>4, FlattenIn
<1>6. ToldIn(FlattenSeq(q)) = UNION {ToldIn(f[v]) : v \in set}
  <2> DEFINE A == UNION {ToldIn(q[i]) : i \in 1 .. Len(q)}
             B == UNION {ToldIn(f[v]) : v \in set}
  <2>1. ToldIn(FlattenSeq(q)) = A
    BY <1>4, ToldFlatten
  <2>2. \A x \in A : x \in B
    BY <1>2, <1>4
  <2>3. \A x \in B : x \in A
    BY <1>1, <1>2, <1>4
  <2> HIDE DEF A, B
  <2>4. A = B
    BY <2>2, <2>3
  <2> QED BY <2>1, <2>4 DEF B
<1>7. ASSUME set = {} PROVE FlattenSeq(q) = << >>
  <2>1. n = 0
    BY <1>1, <1>7
  <2>2. q = << >>
    BY <1>4, <2>1
  <2> DEFINE N == {<< >>}
  <2>3. N \in SUBSET Seq(S) /\ << >> \in N /\ (\A a, b \in N : a \o b \in N) /\ q \in Seq(N)
    BY <2>2
  <2>4. FlattenSeq(q) \in N
    <3> HIDE DEF N
    <3> QED BY <2>3, FlattenIn
  <2> QED BY <2>4
<1>8. ASSUME set # {}, \A v \in set : f[v] # << >> PROVE FlattenSeq(q) # << >>
  <2>1. PICK v \in set : TRUE
    BY <1>8
  <2>2. PICK i \in 1 .. n : s[i] = v
    BY <1>1
  <2>3. i \in 1 .. Len(q) /\ q[i] # << >>
    BY <1>2, <1>4, <1>8, <2>2
  <2> QED BY <1>4, <2>3, FlattenSome
<1> QED BY <1>3, <1>5, <1>6, <1>7, <1>8

(***************************************************************************)
(* Parts of a document of packets: what a parser makes of them and what    *)
(* they tell.                                                              *)
(***************************************************************************)
\* What a document says of packets.
PacketKinds ==
  {"port", "realm", "method", "packet", "id", "no_lag", "lag_id", "lag", "lag_member", "fabric_id", "fabric",
   "no_ecmp", "ecmp_group", "ecmp1", "ecmp2", "ecmp_dst", "dest", "sampling", "params", "encap", "mirror", "ingress",
   "asics", "feature", "uid"}
PacketTokens ==
  {Token(n) : n \in Names \ {"e"}}
  \cup [t : {"e"}, kind : PacketKinds, port : TracePorts \cup {"none"}, value : TracePorts \cup GroupMembers \cup Features \cup {"none"}]

LEMMA PacketAlphabet == Alphabet(PacketTokens)
<1> DEFINE A == [t : {"e"}, kind : PacketKinds, port : TracePorts \cup {"none"}, value : TracePorts \cup GroupMembers \cup Features \cup {"none"}]
<1>1. \A x \in A : x.t = "e"
  OBVIOUS
<1> HIDE DEF A
<1>2. Alphabet({Token(n) : n \in Names \ {"e"}} \cup A)
  BY <1>1, TokenFacts
<1> QED BY <1>2 DEF PacketTokens, A

\* A document in which every list of ECMP members that is closed was opened.
Parseable == ~EcmpWithoutMembers

\* After an opening bracket of a list, and before a closing one.
AtList == {"["}
Empty == Done \cup AtList
Within(A, B) == A \subseteq B
Obj(x) == Push(x, "{")
Lst(x) == Push(x, "[")

\* Pieces of a document: what a parser makes of them, and what they tell.
Parts(x, A, y, B, T) ==
  {m \in Seq(PacketTokens) : ToldIn(m) = T /\ (Parseable => m \in Paths(PacketTokens, x, A, y, B))}

\* Parts can be put together.
LEMMA PartIn == ASSUME NEW x, NEW A, NEW y, NEW B, NEW T, NEW m \in Parts(x, A, y, B, T)
                PROVE  m \in Seq(PacketTokens) /\ ToldIn(m) = T
  BY DEF Parts

LEMMA PartWider ==
  ASSUME NEW x, NEW A, NEW C, C \subseteq A, NEW y, NEW B, NEW D, B \subseteq D, NEW T, NEW m \in Parts(x, A, y, B, T)
  PROVE  m \in Parts(x, C, y, D, T)
  BY PathWider DEF Parts

LEMMA PartJoin ==
  ASSUME NEW x, NEW A, NEW y, NEW B, NEW C, Within(B, C), NEW z, NEW D, NEW T, NEW U,
         NEW m \in Parts(x, A, y, B, T), NEW n \in Parts(y, C, z, D, U)
  PROVE  m \o n \in Parts(x, A, z, D, T \cup U)
<1>1. m \in Seq(PacketTokens) /\ n \in Seq(PacketTokens) /\ ToldIn(m) = T /\ ToldIn(n) = U
  BY PartIn
<1>2. m \o n \in Seq(PacketTokens) /\ ToldIn(m \o n) = T \cup U
  BY <1>1, JoinFacts
<1>3. ASSUME Parseable PROVE m \o n \in Paths(PacketTokens, x, A, z, D)
  <2>1. Tokens(PacketTokens)
    BY PacketAlphabet DEF Alphabet
  <2>2. m \in Paths(PacketTokens, x, A, y, B) /\ n \in Paths(PacketTokens, y, C, z, D)
    BY <1>3 DEF Parts
  <2>3. B \subseteq C
    BY DEF Within
  <2> QED BY <2>1, <2>2, <2>3, PathJoin
<1> QED BY <1>2, <1>3 DEF Parts

\* A separator or a bracket tells nothing.
LEMMA PartMore ==
  ASSUME NEW x, NEW A, NEW y, NEW B, NEW C, Within(B, C), NEW z, NEW D, NEW T,
         NEW m \in Parts(x, A, y, B, T), NEW n \in Parts(y, C, z, D, {})
  PROVE  m \o n \in Parts(x, A, z, D, T)
<1>1. m \o n \in Parts(x, A, z, D, T \cup {})
  BY PartJoin
<1> QED BY <1>1

LEMMA PartNext ==
  ASSUME NEW x, NEW A, NEW y, NEW B, NEW z, NEW D, NEW T, NEW m \in Parts(x, A, y, B, T), NEW n \in Parts(y, B, z, D, {})
  PROVE  m \o n \in Parts(x, A, z, D, T)
<1>1. Within(B, B)
  BY DEF Within
<1> QED BY <1>1, PartMore

LEMMA StackFacts == \A x \in Inner : Obj(x) \in Inner /\ Lst(x) \in Inner
  BY PushFacts DEF Inner, Obj, Lst

LEMMA AfterFacts ==
  /\ Within(AtList, Ready) /\ Within(AtList, Empty) /\ Within(Done, Empty)
  /\ Within(Ready, Ready) /\ Within(Done, Done) /\ Within(AtList, AtList) /\ Within(Empty, Empty)
  BY DEF Ready, Done, AtList, Empty, Within

\* One character of a template.
LEMMA OnePart ==
  ASSUME NEW x \in Inner
  PROVE  /\ Text(<<"{">>) \in Parts(x, Ready, Obj(x), Ready, {})
         /\ Text(<<"[">>) \in Parts(x, Ready, Lst(x), AtList, {})
         /\ Text(<<"}">>) \in Parts(Obj(x), Done, x, Done, {})
         /\ Text(<<"]">>) \in Parts(Lst(x), Empty, x, Done, {})
         /\ Comma \in Parts(x, Done, x, Ready, {})
         /\ \A A : Space \in Parts(x, A, x, A, {})
<1> DEFINE S == PacketTokens
<1>1. Alphabet(S)
  BY PacketAlphabet
<1>2. /\ Text(<<"{">>) \in Seq(S) /\ Text(<<"[">>) \in Seq(S) /\ Text(<<"}">>) \in Seq(S) /\ Text(<<"]">>) \in Seq(S)
      /\ Comma \in Seq(S) /\ Space \in Seq(S)
  <2> HIDE DEF S
  <2> QED BY <1>1, TextsIn DEF Names, Comma, Space
<1>3. /\ ToldIn(Text(<<"{">>)) = {} /\ ToldIn(Text(<<"[">>)) = {} /\ ToldIn(Text(<<"}">>)) = {} /\ ToldIn(Text(<<"]">>)) = {}
      /\ ToldIn(Comma) = {} /\ ToldIn(Space) = {}
  BY <1>1, ToldTexts DEF Names, Comma, Space
<1>4. /\ Text(<<"{">>) \in Paths(S, x, Ready, Push(x, "{"), {"{"})
      /\ Text(<<"[">>) \in Paths(S, x, Ready, Push(x, "["), {"["})
      /\ Text(<<"}">>) \in Paths(S, Push(x, "{"), Done, x, {"}"})
      /\ Text(<<"]">>) \in Paths(S, Push(x, "["), Done \cup {"["}, x, {"]"})
      /\ Comma \in Paths(S, x, Done, x, {","})
      /\ \A A : Space \in Paths(S, x, A, x, A)
  <2> HIDE DEF S
  <2> QED BY <1>1, TokenPaths, SpacePaths
<1>5. /\ Text(<<"{">>) \in Paths(S, x, Ready, Push(x, "{"), Ready)
      /\ Text(<<"}">>) \in Paths(S, Push(x, "{"), Done, x, Done)
      /\ Text(<<"]">>) \in Paths(S, Push(x, "["), Done \cup {"["}, x, Done)
      /\ Comma \in Paths(S, x, Done, x, Ready)
  <2> HIDE DEF S
  <2>0. /\ {"{"} \subseteq Ready /\ {","} \subseteq Ready /\ {"}"} \subseteq Done /\ {"]"} \subseteq Done
        /\ Ready \subseteq Ready /\ Done \subseteq Done /\ Done \cup {"["} \subseteq Done \cup {"["}
    BY DEF Ready, Done
  <2>1. Text(<<"{">>) \in Paths(S, x, Ready, Push(x, "{"), Ready)
    BY <1>4, <2>0, PathWider
  <2>2. Text(<<"}">>) \in Paths(S, Push(x, "{"), Done, x, Done)
    BY <1>4, <2>0, PathWider
  <2>3. Text(<<"]">>) \in Paths(S, Push(x, "["), Done \cup {"["}, x, Done)
    BY <1>4, <2>0, PathWider
  <2>4. Comma \in Paths(S, x, Done, x, Ready)
    BY <1>4, <2>0, PathWider
  <2> QED BY <2>1, <2>2, <2>3, <2>4
<1> QED BY <1>2, <1>3, <1>4, <1>5 DEF Parts, Obj, Lst, Empty, AtList

LEMMA ValuePart ==
  ASSUME NEW m \in Seq(PacketTokens), Parseable => m \in ValueTexts(PacketTokens), NEW x \in Inner
  PROVE  m \in Parts(x, Ready, x, Done, ToldIn(m))
  BY ValueIn DEF Parts

LEMMA PartValue ==
  ASSUME NEW T, NEW m, \A x \in Inner : m \in Parts(x, Ready, x, Done, T)
  PROVE  m \in Seq(PacketTokens) /\ ToldIn(m) = T /\ (Parseable => m \in ValueTexts(PacketTokens))
<1>1. PICK x : x \in Inner
  <2>1. << >> \in Seq({"{", "["})
    BY NothingIn
  <2> QED BY <2>1, PushFacts
<1> QED BY <1>1 DEF Parts, ValueTexts

\* The templates of the encoders.
LEMMA Templates == \A x \in Inner :
  /\ Text(<<"}", "}">>) \in Parts(Obj(Obj(x)), Done, x, Done, {})
  /\ Text(<<"}", ",">>) \in Parts(Obj(x), Done, x, Ready, {})
  /\ Text(<<"]", ",">>) \in Parts(Lst(x), Empty, x, Ready, {})
  /\ Text(<<",", "[">>) \in Parts(x, Done, Lst(x), AtList, {})
  /\ Text(<<",", "[", " ">>) \in Parts(x, Done, Lst(x), AtList, {})
  /\ Text(<<",", "[", "{">>) \in Parts(x, Done, Obj(Lst(x)), Ready, {})
  /\ Text(<<",", "{">>) \in Parts(x, Done, Obj(x), Ready, {})
  /\ Text(<<"[", " ">>) \in Parts(x, Ready, Lst(x), AtList, {})
  /\ Text(<<"]", "}">>) \in Parts(Lst(Obj(x)), Empty, x, Done, {})
  /\ Text(<<"]", "}", "}">>) \in Parts(Lst(Obj(Obj(x))), Empty, x, Done, {})
  /\ Text(<<"]", "}", ",">>) \in Parts(Lst(Obj(x)), Empty, x, Ready, {})
  /\ Text(<<"]", "}", "]">>) \in Parts(Lst(Obj(Lst(x))), Empty, x, Done, {})
  /\ Text(<<"]", "}", "]", "}">>) \in Parts(Lst(Obj(Lst(Obj(x)))), Empty, x, Done, {})
  /\ Text(<<"]", "}", "]", "}", ",">>) \in Parts(Lst(Obj(Lst(Obj(x)))), Empty, x, Ready, {})
  /\ Text(<<"}", "]">>) \in Parts(Obj(Lst(x)), Done, x, Done, {})
  /\ Text(<<"}", "]", ",">>) \in Parts(Obj(Lst(x)), Done, x, Ready, {})
  /\ Text(<<"}", "]", ",", "[">>) \in Parts(Obj(Lst(x)), Done, Lst(x), AtList, {})
  /\ Text(<<"}", "}", ",">>) \in Parts(Obj(Obj(x)), Done, x, Ready, {})
  /\ Text(<<" ", "]">>) \in Parts(Lst(x), Empty, x, Done, {})
  /\ Text(<<" ", "]", ",">>) \in Parts(Lst(x), Empty, x, Ready, {})
<1>1. \A x \in Inner : /\ Obj(x) \in Inner /\ Lst(x) \in Inner /\ Lst(Obj(x)) \in Inner /\ Obj(Lst(x)) \in Inner /\ Obj(Obj(x)) \in Inner
                       /\ Obj(Lst(Obj(x))) \in Inner
  BY StackFacts
<1>2. \A x \in Inner : Text(<<"}", "}">>) \in Parts(Obj(Obj(x)), Done, x, Done, {})
  <2> TAKE x \in Inner
  <2>1. Text(<<"}", "}">>) = Text(<<"}">>) \o Text(<<"}">>)
    BY TextJoined2
  <2>2. /\ Text(<<"}">>) \in Parts(Obj(Obj(x)), Done, Obj(x), Done, {})
        /\ Text(<<"}">>) \in Parts(Obj(x), Done, x, Done, {})
    BY <1>1, OnePart
  <2>3. Text(<<"}">>) \o Text(<<"}">>) \in Parts(Obj(Obj(x)), Done, x, Done, {})
    BY <2>2, PartNext
  <2> QED BY <2>1, <2>3
<1>3. \A x \in Inner : Text(<<"}", ",">>) \in Parts(Obj(x), Done, x, Ready, {})
  <2> TAKE x \in Inner
  <2>1. Text(<<"}", ",">>) = Text(<<"}">>) \o Comma
    BY TextJoined2 DEF Comma
  <2>2. /\ Text(<<"}">>) \in Parts(Obj(x), Done, x, Done, {})
        /\ Comma \in Parts(x, Done, x, Ready, {})
    BY <1>1, OnePart
  <2>3. Text(<<"}">>) \o Comma \in Parts(Obj(x), Done, x, Ready, {})
    BY <2>2, PartNext
  <2> QED BY <2>1, <2>3
<1>4. \A x \in Inner : Text(<<"]", ",">>) \in Parts(Lst(x), Empty, x, Ready, {})
  <2> TAKE x \in Inner
  <2>1. Text(<<"]", ",">>) = Text(<<"]">>) \o Comma
    BY TextJoined2 DEF Comma
  <2>2. /\ Text(<<"]">>) \in Parts(Lst(x), Empty, x, Done, {})
        /\ Comma \in Parts(x, Done, x, Ready, {})
    BY <1>1, OnePart
  <2>3. Text(<<"]">>) \o Comma \in Parts(Lst(x), Empty, x, Ready, {})
    BY <2>2, PartNext
  <2> QED BY <2>1, <2>3
<1>5. \A x \in Inner : Text(<<",", "[">>) \in Parts(x, Done, Lst(x), AtList, {})
  <2> TAKE x \in Inner
  <2>1. Text(<<",", "[">>) = Comma \o Text(<<"[">>)
    BY TextJoined2 DEF Comma
  <2>2. /\ Comma \in Parts(x, Done, x, Ready, {})
        /\ Text(<<"[">>) \in Parts(x, Ready, Lst(x), AtList, {})
    BY <1>1, OnePart
  <2>3. Comma \o Text(<<"[">>) \in Parts(x, Done, Lst(x), AtList, {})
    BY <2>2, PartNext
  <2> QED BY <2>1, <2>3
<1>6. \A x \in Inner : Text(<<",", "[", " ">>) \in Parts(x, Done, Lst(x), AtList, {})
  <2> TAKE x \in Inner
  <2>1. Text(<<",", "[", " ">>) = Text(<<",", "[">>) \o Space
    BY TextJoined3 DEF Space
  <2>2. Space \in Parts(Lst(x), AtList, Lst(x), AtList, {})
    BY <1>1, OnePart
  <2>3. Text(<<",", "[">>) \o Space \in Parts(x, Done, Lst(x), AtList, {})
    BY <1>5, <2>2, PartNext
  <2> QED BY <2>1, <2>3
<1>7. \A x \in Inner : Text(<<",", "[", "{">>) \in Parts(x, Done, Obj(Lst(x)), Ready, {})
  <2> TAKE x \in Inner
  <2>1. Text(<<",", "[", "{">>) = Text(<<",", "[">>) \o Text(<<"{">>)
    BY TextJoined3
  <2>2. Text(<<"{">>) \in Parts(Lst(x), Ready, Obj(Lst(x)), Ready, {})
    BY <1>1, OnePart
  <2>3. Text(<<",", "[">>) \o Text(<<"{">>) \in Parts(x, Done, Obj(Lst(x)), Ready, {})
    BY <1>5, <2>2, AfterFacts, PartMore
  <2> QED BY <2>1, <2>3
<1>8. \A x \in Inner : Text(<<",", "{">>) \in Parts(x, Done, Obj(x), Ready, {})
  <2> TAKE x \in Inner
  <2>1. Text(<<",", "{">>) = Comma \o Text(<<"{">>)
    BY TextJoined2 DEF Comma
  <2>2. /\ Comma \in Parts(x, Done, x, Ready, {})
        /\ Text(<<"{">>) \in Parts(x, Ready, Obj(x), Ready, {})
    BY <1>1, OnePart
  <2>3. Comma \o Text(<<"{">>) \in Parts(x, Done, Obj(x), Ready, {})
    BY <2>2, PartNext
  <2> QED BY <2>1, <2>3
<1>9. \A x \in Inner : Text(<<"[", " ">>) \in Parts(x, Ready, Lst(x), AtList, {})
  <2> TAKE x \in Inner
  <2>1. Text(<<"[", " ">>) = Text(<<"[">>) \o Space
    BY TextJoined2 DEF Space
  <2>2. /\ Text(<<"[">>) \in Parts(x, Ready, Lst(x), AtList, {})
        /\ Space \in Parts(Lst(x), AtList, Lst(x), AtList, {})
    BY <1>1, OnePart
  <2>3. Text(<<"[">>) \o Space \in Parts(x, Ready, Lst(x), AtList, {})
    BY <2>2, PartNext
  <2> QED BY <2>1, <2>3
<1>10. \A x \in Inner : Text(<<"]", "}">>) \in Parts(Lst(Obj(x)), Empty, x, Done, {})
  <2> TAKE x \in Inner
  <2>1. Text(<<"]", "}">>) = Text(<<"]">>) \o Text(<<"}">>)
    BY TextJoined2
  <2>2. /\ Text(<<"]">>) \in Parts(Lst(Obj(x)), Empty, Obj(x), Done, {})
        /\ Text(<<"}">>) \in Parts(Obj(x), Done, x, Done, {})
    BY <1>1, OnePart
  <2>3. Text(<<"]">>) \o Text(<<"}">>) \in Parts(Lst(Obj(x)), Empty, x, Done, {})
    BY <2>2, PartNext
  <2> QED BY <2>1, <2>3
<1>11. \A x \in Inner : Text(<<"]", "}", "}">>) \in Parts(Lst(Obj(Obj(x))), Empty, x, Done, {})
  <2> TAKE x \in Inner
  <2>1. Text(<<"]", "}", "}">>) = Text(<<"]", "}">>) \o Text(<<"}">>)
    BY TextJoined3
  <2>2. Text(<<"}">>) \in Parts(Obj(x), Done, x, Done, {})
    BY <1>1, OnePart
  <2>3. Text(<<"]", "}">>) \in Parts(Lst(Obj(Obj(x))), Empty, Obj(x), Done, {})
    BY <1>1, <1>10
  <2>4. Text(<<"]", "}">>) \o Text(<<"}">>) \in Parts(Lst(Obj(Obj(x))), Empty, x, Done, {})
    BY <2>3, <2>2, PartNext
  <2> QED BY <2>1, <2>4
<1>12. \A x \in Inner : Text(<<"]", "}", ",">>) \in Parts(Lst(Obj(x)), Empty, x, Ready, {})
  <2> TAKE x \in Inner
  <2>1. Text(<<"]", "}", ",">>) = Text(<<"]", "}">>) \o Comma
    BY TextJoined3 DEF Comma
  <2>2. Comma \in Parts(x, Done, x, Ready, {})
    BY <1>1, OnePart
  <2>3. Text(<<"]", "}">>) \o Comma \in Parts(Lst(Obj(x)), Empty, x, Ready, {})
    BY <1>10, <2>2, PartNext
  <2> QED BY <2>1, <2>3
<1>13. \A x \in Inner : Text(<<"]", "}", "]">>) \in Parts(Lst(Obj(Lst(x))), Empty, x, Done, {})
  <2> TAKE x \in Inner
  <2>1. Text(<<"]", "}", "]">>) = Text(<<"]", "}">>) \o Text(<<"]">>)
    BY TextJoined3
  <2>2. Text(<<"]">>) \in Parts(Lst(x), Empty, x, Done, {})
    BY <1>1, OnePart
  <2>3. Text(<<"]", "}">>) \in Parts(Lst(Obj(Lst(x))), Empty, Lst(x), Done, {})
    BY <1>1, <1>10
  <2>4. Text(<<"]", "}">>) \o Text(<<"]">>) \in Parts(Lst(Obj(Lst(x))), Empty, x, Done, {})
    BY <2>3, <2>2, AfterFacts, PartMore
  <2> QED BY <2>1, <2>4
<1>14. \A x \in Inner : Text(<<"]", "}", "]", "}">>) \in Parts(Lst(Obj(Lst(Obj(x)))), Empty, x, Done, {})
  <2> TAKE x \in Inner
  <2>1. Text(<<"]", "}", "]", "}">>) = Text(<<"]", "}", "]">>) \o Text(<<"}">>)
    BY TextJoined4
  <2>2. Text(<<"}">>) \in Parts(Obj(x), Done, x, Done, {})
    BY <1>1, OnePart
  <2>3. Text(<<"]", "}", "]">>) \in Parts(Lst(Obj(Lst(Obj(x)))), Empty, Obj(x), Done, {})
    BY <1>1, <1>13
  <2>4. Text(<<"]", "}", "]">>) \o Text(<<"}">>) \in Parts(Lst(Obj(Lst(Obj(x)))), Empty, x, Done, {})
    BY <2>3, <2>2, PartNext
  <2> QED BY <2>1, <2>4
<1>15. \A x \in Inner : Text(<<"]", "}", "]", "}", ",">>) \in Parts(Lst(Obj(Lst(Obj(x)))), Empty, x, Ready, {})
  <2> TAKE x \in Inner
  <2>1. Text(<<"]", "}", "]", "}", ",">>) = Text(<<"]", "}", "]", "}">>) \o Comma
    BY TextJoined5, ZenonT(30) DEF Comma
  <2>2. Comma \in Parts(x, Done, x, Ready, {})
    BY <1>1, OnePart
  <2>3. Text(<<"]", "}", "]", "}">>) \o Comma \in Parts(Lst(Obj(Lst(Obj(x)))), Empty, x, Ready, {})
    BY <1>14, <2>2, PartNext
  <2> QED BY <2>1, <2>3
<1>16. \A x \in Inner : Text(<<"}", "]">>) \in Parts(Obj(Lst(x)), Done, x, Done, {})
  <2> TAKE x \in Inner
  <2>1. Text(<<"}", "]">>) = Text(<<"}">>) \o Text(<<"]">>)
    BY TextJoined2
  <2>2. /\ Text(<<"}">>) \in Parts(Obj(Lst(x)), Done, Lst(x), Done, {})
        /\ Text(<<"]">>) \in Parts(Lst(x), Empty, x, Done, {})
    BY <1>1, OnePart
  <2>3. Text(<<"}">>) \o Text(<<"]">>) \in Parts(Obj(Lst(x)), Done, x, Done, {})
    BY <2>2, AfterFacts, PartMore
  <2> QED BY <2>1, <2>3
<1>17. \A x \in Inner : Text(<<"}", "]", ",">>) \in Parts(Obj(Lst(x)), Done, x, Ready, {})
  <2> TAKE x \in Inner
  <2>1. Text(<<"}", "]", ",">>) = Text(<<"}", "]">>) \o Comma
    BY TextJoined3 DEF Comma
  <2>2. Comma \in Parts(x, Done, x, Ready, {})
    BY <1>1, OnePart
  <2>3. Text(<<"}", "]">>) \o Comma \in Parts(Obj(Lst(x)), Done, x, Ready, {})
    BY <1>16, <2>2, PartNext
  <2> QED BY <2>1, <2>3
<1>18. \A x \in Inner : Text(<<"}", "]", ",", "[">>) \in Parts(Obj(Lst(x)), Done, Lst(x), AtList, {})
  <2> TAKE x \in Inner
  <2>1. Text(<<"}", "]", ",", "[">>) = Text(<<"}", "]", ",">>) \o Text(<<"[">>)
    BY TextJoined4
  <2>2. Text(<<"[">>) \in Parts(x, Ready, Lst(x), AtList, {})
    BY <1>1, OnePart
  <2>3. Text(<<"}", "]", ",">>) \o Text(<<"[">>) \in Parts(Obj(Lst(x)), Done, Lst(x), AtList, {})
    BY <1>17, <2>2, PartNext
  <2> QED BY <2>1, <2>3
<1>19. \A x \in Inner : Text(<<"}", "}", ",">>) \in Parts(Obj(Obj(x)), Done, x, Ready, {})
  <2> TAKE x \in Inner
  <2>1. Text(<<"}", "}", ",">>) = Text(<<"}", "}">>) \o Comma
    BY TextJoined3 DEF Comma
  <2>2. Comma \in Parts(x, Done, x, Ready, {})
    BY <1>1, OnePart
  <2>3. Text(<<"}", "}">>) \o Comma \in Parts(Obj(Obj(x)), Done, x, Ready, {})
    BY <1>2, <2>2, PartNext
  <2> QED BY <2>1, <2>3
<1>20. \A x \in Inner : Text(<<" ", "]">>) \in Parts(Lst(x), Empty, x, Done, {})
  <2> TAKE x \in Inner
  <2>1. Text(<<" ", "]">>) = Space \o Text(<<"]">>)
    BY TextJoined2 DEF Space
  <2>2. /\ Space \in Parts(Lst(x), Empty, Lst(x), Empty, {})
        /\ Text(<<"]">>) \in Parts(Lst(x), Empty, x, Done, {})
    BY <1>1, OnePart
  <2>3. Space \o Text(<<"]">>) \in Parts(Lst(x), Empty, x, Done, {})
    BY <2>2, PartNext
  <2> QED BY <2>1, <2>3
<1>21. \A x \in Inner : Text(<<" ", "]", ",">>) \in Parts(Lst(x), Empty, x, Ready, {})
  <2> TAKE x \in Inner
  <2>1. Text(<<" ", "]", ",">>) = Text(<<" ", "]">>) \o Comma
    BY TextJoined3 DEF Comma
  <2>2. Comma \in Parts(x, Done, x, Ready, {})
    BY <1>1, OnePart
  <2>3. Text(<<" ", "]">>) \o Comma \in Parts(Lst(x), Empty, x, Ready, {})
    BY <1>20, <2>2, PartNext
  <2> QED BY <2>1, <2>3
<1> QED BY <1>2, <1>3, <1>4, <1>5, <1>6, <1>7, <1>8, <1>9, <1>10, <1>11, <1>12, <1>13, <1>14, <1>15, <1>16, <1>17, <1>18, <1>19, <1>20, <1>21

LEMMA PartFirst ==
  ASSUME NEW x, NEW A, NEW y, NEW B, NEW C, Within(B, C), NEW z, NEW D, NEW U,
         NEW m \in Parts(x, A, y, B, {}), NEW n \in Parts(y, C, z, D, U)
  PROVE  m \o n \in Parts(x, A, z, D, U)
<1>1. m \o n \in Parts(x, A, z, D, {} \cup U)
  BY PartJoin
<1> QED BY <1>1

\* An entry of a document.
Telling(kind, port, value) == [t |-> "e", kind |-> kind, port |-> port, value |-> value]

\* What an entry may be about.
Ports == TracePorts \cup {"none"}
Shownable == TracePorts \cup GroupMembers \cup Features \cup {"none"}

LEMMA FieldTells ==
  ASSUME NEW kind \in PacketKinds, NEW port \in Ports, NEW value \in Shownable
  PROVE  /\ Field(kind, port, value) \in Seq(PacketTokens) /\ ToldIn(Field(kind, port, value)) = {Telling(kind, port, value)}
         /\ Field(kind, port, value) \in ValueTexts(PacketTokens)
         /\ \A x \in Inner : Field(kind, port, value) \in Parts(x, Ready, x, Done, {Telling(kind, port, value)})
<1> DEFINE e == Telling(kind, port, value)
           f == Field(kind, port, value)
<1>1. e \in PacketTokens /\ e.t = "e" /\ f = <<e>>
  BY DEF Telling, PacketTokens, Field, Ports, Shownable
<1> HIDE DEF e, f
<1>2. f \in Seq(PacketTokens)
  BY <1>1, OneIn
<1>3. ToldIn(f) = {e}
  BY <1>1, ToldOne
<1>4. f \in ValueTexts(PacketTokens)
  BY <1>1, EntryValue
<1>5. \A x \in Inner : f \in Parts(x, Ready, x, Done, {e})
  BY <1>2, <1>3, <1>4, ValuePart
<1> QED BY <1>2, <1>3, <1>4, <1>5 DEF e, f

\* Values, each with a comma after it.
Lists ==
  {l \in Seq(PacketTokens) : /\ l = << >> \/ \E m \in Seq(PacketTokens) : l = m \o Comma
                             /\ Parseable => l \in ListTexts(PacketTokens, Comma)}

LEMMA CommaIs == /\ Comma \in Seq(PacketTokens) /\ Comma = <<Token(",")>> /\ Token(",") \in PacketTokens
                 /\ ToldIn(Comma) = {} /\ Comma \in Separators
<1>1. Alphabet(PacketTokens)
  BY PacketAlphabet
<1>2. Token(",") \in PacketTokens /\ Comma = <<Token(",")>>
  BY <1>1, TokenIn DEF Comma, Names
<1>3. ToldIn(Comma) = {}
  BY <1>1, ToldTexts DEF Comma, Names
<1> QED BY <1>2, <1>3, OneIn DEF Separators

LEMMA ListsClosed == Lists \in SUBSET Seq(PacketTokens) /\ << >> \in Lists /\ \A a, b \in Lists : a \o b \in Lists
<1> DEFINE S == PacketTokens
<1>1. << >> \in Lists
  BY NothingIn DEF Lists, ListTexts
<1>2. ASSUME NEW a \in Lists, NEW b \in Lists PROVE a \o b \in Lists
  <2>1. a \in Seq(S) /\ b \in Seq(S)
    BY DEF Lists
  <2>2. a \o b \in Seq(S)
    BY <2>1, JoinIn
  <2>3. CASE b = << >>
    <3>1. a \o b = a
      BY <2>1, <2>3
    <3> QED BY <3>1
  <2>4. CASE b # << >>
    <3>1. PICK m \in Seq(S) : b = m \o Comma
      BY <2>4 DEF Lists
    <3>2. a \o b = (a \o m) \o Comma
      <4>1. Comma \in Seq(S)
        BY CommaIs
      <4>2. (a \o m) \o Comma = a \o (m \o Comma)
        BY <2>1, <3>1, <4>1, JoinedTwice
      <4> QED BY <3>1, <4>2
    <3>3. a \o m \in Seq(S)
      BY <2>1, <3>1, JoinIn
    <3>4. ASSUME Parseable PROVE a \o b \in ListTexts(S, Comma)
      <4>1. a \in ListTexts(S, Comma) /\ b \in ListTexts(S, Comma)
        BY <3>4 DEF Lists
      <4> QED BY <4>1, PacketAlphabet, CommaIs, ListsJoined
    <3> QED BY <2>2, <3>2, <3>3, <3>4 DEF Lists
  <2> QED BY <2>3, <2>4
<1>3. Lists \in SUBSET Seq(S)
  BY DEF Lists
<1> QED BY <1>1, <1>2, <1>3

LEMMA BlockIn ==
  ASSUME NEW m \in Seq(PacketTokens), Parseable => m \in ValueTexts(PacketTokens)
  PROVE  m \o Comma \in Lists /\ m \o Comma # << >> /\ ToldIn(m \o Comma) = ToldIn(m)
<1> DEFINE S == PacketTokens
<1>1. Comma \in Seq(S) /\ Comma # << >> /\ ToldIn(Comma) = {}
  BY CommaIs
<1>2. m \o Comma \in Seq(S) /\ ToldIn(m \o Comma) = ToldIn(m) \cup ToldIn(Comma)
  BY <1>1, JoinFacts
<1>3. m \o Comma # << >>
  BY <1>1, JoinSome
<1>4. Parseable => m \o Comma \in ListTexts(S, Comma)
  BY ValueListed
<1> QED BY <1>1, <1>2, <1>3, <1>4 DEF Lists

LEMMA ListBack ==
  ASSUME NEW l \in Lists, l # << >>
  PROVE  /\ l \in Seq(PacketTokens) /\ Back(l) \in Seq(PacketTokens) /\ ToldIn(Back(l)) = ToldIn(l)
         /\ Parseable => Back(l) \in ValueTexts(PacketTokens)
<1> DEFINE S == PacketTokens
<1>1. PICK m \in Seq(S) : l = m \o Comma
  BY DEF Lists
<1>2. Back(l) = m
  BY <1>1, CommaIs, BackOne
<1>3. ToldIn(l) = ToldIn(m)
  <2>1. Comma \in Seq(S) /\ ToldIn(Comma) = {}
    BY CommaIs
  <2>2. ToldIn(m \o Comma) = ToldIn(m) \cup ToldIn(Comma)
    BY <2>1, JoinFacts
  <2> QED BY <1>1, <2>1, <2>2
<1>4. ASSUME Parseable PROVE Back(l) \in ValueTexts(S)
  <2>1. l \in ListTexts(S, Comma)
    BY <1>4 DEF Lists
  <2> QED BY <2>1, PacketAlphabet, BackComma
<1> QED BY <1>2, <1>3, <1>4 DEF Lists

\* Stepping back in a list that is open.
LEMMA ListAfter ==
  ASSUME NEW x, NEW A, NEW y \in Inner, NEW T, NEW m \in Parts(x, A, y, AtList, T), NEW l \in Lists
  PROVE  /\ l # << >> => Back(m \o l) = m \o Back(l) /\ m \o Back(l) \in Parts(x, A, y, Done, T \cup ToldIn(l))
         /\ (IF l = << >> THEN m ELSE Back(m \o l)) \in Parts(x, A, y, Empty, T \cup ToldIn(l))
<1> DEFINE S == PacketTokens
<1>1. m \in Seq(S) /\ l \in Seq(S)
  BY PartIn DEF Lists
<1>2. ASSUME l # << >> PROVE Back(m \o l) = m \o Back(l) /\ m \o Back(l) \in Parts(x, A, y, Done, T \cup ToldIn(l))
  <2>1. Back(m \o l) = m \o Back(l)
    BY <1>1, <1>2, BackJoined
  <2>2. Back(l) \in Parts(y, Ready, y, Done, ToldIn(l))
    <3>1. Back(l) \in Seq(S) /\ ToldIn(Back(l)) = ToldIn(l) /\ (Parseable => Back(l) \in ValueTexts(S))
      BY <1>2, ListBack
    <3>2. Back(l) \in Parts(y, Ready, y, Done, ToldIn(Back(l)))
      BY <3>1, ValuePart
    <3> QED BY <3>1, <3>2
  <2>3. Within(AtList, Ready)
    BY AfterFacts
  <2>4. m \o Back(l) \in Parts(x, A, y, Done, T \cup ToldIn(l))
    BY <2>2, <2>3, PartJoin
  <2> QED BY <2>1, <2>4
<1> DEFINE k == IF l = << >> THEN m ELSE Back(m \o l)
<1>3. ASSUME l = << >> PROVE k \in Parts(x, A, y, Empty, T \cup ToldIn(l))
  <2>1. ToldIn(l) = {}
    BY <1>3, ToldNone
  <2>2. m \in Parts(x, A, y, Empty, T)
    <3>1. A \subseteq A /\ AtList \subseteq Empty
      BY DEF Empty
    <3> QED BY <3>1, PartWider
  <2>3. m \in Parts(x, A, y, Empty, T \cup ToldIn(l))
    BY <2>1, <2>2
  <2> QED BY <1>3, <2>3
<1>4. ASSUME l # << >> PROVE k \in Parts(x, A, y, Empty, T \cup ToldIn(l))
  <2>1. m \o Back(l) \in Parts(x, A, y, Empty, T \cup ToldIn(l))
    <3>1. A \subseteq A /\ Done \subseteq Empty
      BY DEF Empty
    <3>2. m \o Back(l) \in Parts(x, A, y, Done, T \cup ToldIn(l))
      BY <1>2, <1>4
    <3> QED BY <3>1, <3>2, PartWider
  <2>2. Back(m \o l) \in Parts(x, A, y, Empty, T \cup ToldIn(l))
    BY <1>2, <1>4, <2>1
  <2> QED BY <1>4, <2>2
<1>5. k \in Parts(x, A, y, Empty, T \cup ToldIn(l))
  <2> HIDE DEF k
  <2> QED BY <1>3, <1>4
<1>6. l # << >> => Back(m \o l) = m \o Back(l) /\ m \o Back(l) \in Parts(x, A, y, Done, T \cup ToldIn(l))
  BY <1>2
<1> QED BY <1>5, <1>6

\* A text made of lists, one for each member of a set.
LEMMA EachList ==
  ASSUME NEW set, IsFiniteSet(set), NEW f \in [set -> Lists]
  PROVE  /\ EachOf(set, f) \in Lists /\ ToldIn(EachOf(set, f)) = UNION {ToldIn(f[v]) : v \in set}
         /\ set = {} => EachOf(set, f) = << >>
         /\ set # {} /\ (\A v \in set : f[v] # << >>) => EachOf(set, f) # << >>
<1> DEFINE P == Lists
           S == PacketTokens
<1>1. P \in SUBSET Seq(S) /\ << >> \in P /\ (\A a, b \in P : a \o b \in P) /\ f \in [set -> P]
  BY ListsClosed
<1> HIDE DEF P, S
<1>2. /\ EachOf(set, f) \in P /\ ToldIn(EachOf(set, f)) = UNION {ToldIn(f[v]) : v \in set}
      /\ set = {} => EachOf(set, f) = << >>
      /\ set # {} /\ (\A v \in set : f[v] # << >>) => EachOf(set, f) # << >>
  BY <1>1, EachFacts
<1> QED BY <1>2 DEF P

LEMMA ListedFacts ==
  ASSUME NEW kind \in PacketKinds, NEW port \in Ports, NEW set \in SUBSET Shownable, IsFiniteSet(set)
  PROVE  /\ Listed(kind, port, set) \in Lists /\ ToldIn(Listed(kind, port, set)) = {Telling(kind, port, v) : v \in set}
         /\ set = {} <=> Listed(kind, port, set) = << >>
<1> DEFINE f == [v \in set |-> Field(kind, port, v) \o Text(<<",">>)]
           l == EachOf(set, f)
<1>1. Listed(kind, port, set) = l
  <2>1. /\ Cardinality(set) \in Nat
        /\ \A i \in 1 .. Cardinality(set) : SetToSeq(set)[i] \in set
    BY Enumeration
  <2>2. \A i \in 1 .. Cardinality(set) :
          f[SetToSeq(set)[i]] = Field(kind, port, SetToSeq(set)[i]) \o Text(<<",">>)
    BY <2>1
  <2>3. [i \in 1 .. Cardinality(set) |-> f[SetToSeq(set)[i]]]
        = [i \in 1 .. Cardinality(set) |-> Field(kind, port, SetToSeq(set)[i]) \o Text(<<",">>)]
    BY <2>2
  <2> HIDE DEF f
  <2> QED BY <2>3 DEF Listed, Each, EachOf
<1>2. ASSUME NEW v \in set
      PROVE  f[v] \in Lists /\ f[v] # << >> /\ ToldIn(f[v]) = {Telling(kind, port, v)}
  <2> DEFINE m == Field(kind, port, v)
  <2>1. m \in Seq(PacketTokens) /\ ToldIn(m) = {Telling(kind, port, v)} /\ m \in ValueTexts(PacketTokens)
    BY FieldTells
  <2>2. f[v] = m \o Comma
    BY DEF Comma
  <2> HIDE DEF m, f
  <2>3. m \o Comma \in Lists /\ m \o Comma # << >> /\ ToldIn(m \o Comma) = ToldIn(m)
    BY <2>1, BlockIn
  <2> QED BY <2>1, <2>2, <2>3
<1>3. f \in [set -> Lists]
  <2>1. \A v \in set : f[v] \in Lists
    BY <1>2
  <2>2. f = [v \in set |-> f[v]]
    OBVIOUS
  <2> HIDE DEF f
  <2> QED BY <2>1, <2>2
<1>4. /\ l \in Lists /\ ToldIn(l) = UNION {ToldIn(f[v]) : v \in set}
      /\ set = {} => l = << >>
      /\ set # {} /\ (\A v \in set : f[v] # << >>) => l # << >>
  <2> HIDE DEF f
  <2> QED BY <1>3, EachList
<1>5. UNION {ToldIn(f[v]) : v \in set} = {Telling(kind, port, v) : v \in set}
  <2> HIDE DEF f
  <2> QED BY <1>2
<1>6. set = {} <=> l = << >>
  <2> HIDE DEF f, l
  <2> QED BY <1>2, <1>4
<1> HIDE DEF l, f
<1> QED BY <1>1, <1>4, <1>5, <1>6

\* What the switch found is of the sets the document is made from.
LEMMA TraceFacts ==
  ASSUME wanted \in Traces
  PROVE  /\ wanted.what \in {"profile", "lag", "ecmp"}
         /\ wanted.ports \in SUBSET TracePorts /\ wanted.ports # {} /\ IsFiniteSet(wanted.ports)
         /\ \A p \in wanted.ports : Flags(p) \in SUBSET Resolutions
         /\ \A g \in {wanted.lag, wanted.fabric, wanted.ecmp1, wanted.ecmp2} : g \in SUBSET Shownable /\ IsFiniteSet(g)
         /\ wanted.dest \in SUBSET TracePorts /\ IsFiniteSet(wanted.dest)
<1>1. /\ wanted.what \in {"profile", "lag", "ecmp"}
      /\ wanted.ports \in SUBSET TracePorts /\ wanted.ports # {}
      /\ wanted.flags \in [TracePorts -> SUBSET Resolutions]
      /\ wanted.lag \in Group /\ wanted.fabric \in Group /\ wanted.ecmp1 \in Group /\ wanted.ecmp2 \in Group
      /\ wanted.dest \in SUBSET TracePorts
  BY DEF Traces
<1>2. \A g \in Group : g \in SUBSET Shownable /\ IsFiniteSet(g)
  <2>1. IsFiniteSet({}) /\ IsFiniteSet(GroupMembers)
    BY PacketDocumentsAssumption, FS_EmptySet
  <2> QED BY <2>1 DEF Group, Shownable
<1>3. \A s \in SUBSET TracePorts : IsFiniteSet(s)
  BY PacketDocumentsAssumption, FS_Subset
<1>4. \A p \in wanted.ports : Flags(p) \in SUBSET Resolutions
  BY <1>1 DEF Flags
<1> QED BY <1>1, <1>2, <1>3, <1>4

(***************************************************************************)
(* The report of a trace: trunks, ECMP groups and links.                   *)
(***************************************************************************)
\* What a trace tells of a port's trunk.
LagTells(p) ==
  IF "trunk" \notin Flags(p) THEN {Telling("no_lag", p, "none")}
  ELSE ({Telling("lag_id", p, "none")} \cup {Telling("lag", p, v) : v \in wanted.lag})
       \cup (({Telling("lag_member", p, "none")} \cup {Telling("fabric_id", p, "none")})
             \cup {Telling("fabric", p, v) : v \in wanted.fabric})

\* The kinds of entries.
LEMMA KindFacts ==
  /\ "port" \in PacketKinds /\ "realm" \in PacketKinds /\ "method" \in PacketKinds /\ "packet" \in PacketKinds /\ "id" \in PacketKinds
  /\ "no_lag" \in PacketKinds /\ "lag_id" \in PacketKinds /\ "lag" \in PacketKinds /\ "lag_member" \in PacketKinds /\ "fabric_id" \in PacketKinds
  /\ "fabric" \in PacketKinds /\ "no_ecmp" \in PacketKinds /\ "ecmp_group" \in PacketKinds /\ "ecmp1" \in PacketKinds /\ "ecmp2" \in PacketKinds
  /\ "ecmp_dst" \in PacketKinds /\ "dest" \in PacketKinds /\ "sampling" \in PacketKinds /\ "params" \in PacketKinds /\ "encap" \in PacketKinds
  /\ "mirror" \in PacketKinds /\ "ingress" \in PacketKinds /\ "asics" \in PacketKinds /\ "feature" \in PacketKinds /\ "uid" \in PacketKinds
  BY DEF PacketKinds

LEMMA BackIfAnyPart ==
  ASSUME NEW x, NEW A, NEW y \in Inner, NEW T, NEW m \in Parts(x, A, y, AtList, T), NEW l \in Lists,
         NEW set, set = {} <=> l = << >>
  PROVE  BackIfAny(m \o l, set) \in Parts(x, A, y, Empty, T \cup ToldIn(l))
<1>1. (IF l = << >> THEN m ELSE Back(m \o l)) \in Parts(x, A, y, Empty, T \cup ToldIn(l))
  BY ListAfter
<1>2. CASE l = << >>
  <2>1. m \o l = m
    <3>1. m \in Seq(PacketTokens)
      BY PartIn
    <3> QED BY <1>2, <3>1
  <2> QED BY <1>1, <1>2, <2>1 DEF BackIfAny
<1>3. CASE l # << >>
  BY <1>1, <1>3 DEF BackIfAny
<1> QED BY <1>2, <1>3

LEMMA NoneFacts == "none" \in Shownable /\ "none" \in Ports /\ TracePorts \subseteq Ports /\ TracePorts \subseteq Shownable
                   /\ GroupMembers \subseteq Shownable /\ Features \subseteq Shownable
  BY DEF Shownable, Ports

LEMMA LagPart ==
  ASSUME wanted \in Traces, NEW p \in wanted.ports, NEW w \in Inner
  PROVE  EncodeProfileLag(p) \in Parts(Obj(w), Ready, w, Done, LagTells(p))
<1>1. /\ p \in Ports /\ "none" \in Shownable /\ wanted.lag \in SUBSET Shownable /\ IsFiniteSet(wanted.lag)
      /\ wanted.fabric \in SUBSET Shownable /\ IsFiniteSet(wanted.fabric)
  <2>1. wanted.ports \in SUBSET TracePorts
    BY TraceFacts
  <2>2. /\ wanted.lag \in SUBSET Shownable /\ IsFiniteSet(wanted.lag)
        /\ wanted.fabric \in SUBSET Shownable /\ IsFiniteSet(wanted.fabric)
    BY TraceFacts
  <2> QED BY <2>1, <2>2, NoneFacts
<1>2. /\ Obj(w) \in Inner /\ Obj(Obj(w)) \in Inner /\ Lst(Obj(Obj(w))) \in Inner
  BY StackFacts
<1>3. CASE "trunk" \notin Flags(p)
  <2> DEFINE q1 == Text(<<"{">>)
             q2 == q1 \o Field("no_lag", p, "none")
             q3 == q2 \o Text(<<"}", "}">>)
  <2>1. Text(<<"{">>) \in Parts(Obj(w), Ready, Obj(Obj(w)), Ready, {})
    BY <1>1, <1>2, OnePart
  <2>2. Field("no_lag", p, "none") \in Parts(Obj(Obj(w)), Ready, Obj(Obj(w)), Done, {Telling("no_lag", p, "none")})
    BY <1>1, <1>2, KindFacts, FieldTells
  <2>3. Text(<<"}", "}">>) \in Parts(Obj(Obj(w)), Done, w, Done, {})
    BY <1>1, <1>2, Templates
  <2> HIDE DEF q1, q2, q3
  <2>4. q1 \in Parts(Obj(w), Ready, Obj(Obj(w)), Ready, {})
    BY <2>1 DEF q1
  <2>5. q2 \in Parts(Obj(w), Ready, Obj(Obj(w)), Done, {Telling("no_lag", p, "none")})
    BY <2>4, <2>2, AfterFacts, PartFirst DEF q2
  <2>6. q3 \in Parts(Obj(w), Ready, w, Done, {Telling("no_lag", p, "none")})
    BY <2>5, <2>3, PartNext DEF q3
  <2> QED BY <1>3, <2>6 DEF EncodeProfileLag, LagTells, q1, q2, q3
<1>4. CASE "trunk" \in Flags(p)
  <2> DEFINE lag == Listed("lag", p, wanted.lag)
             fabric == Listed("fabric", p, wanted.fabric)
             lags == {Telling("lag", p, v) : v \in wanted.lag}
             fabrics == {Telling("fabric", p, v) : v \in wanted.fabric}
  <2>1. lag \in Lists /\ ToldIn(lag) = lags /\ (wanted.lag = {} <=> lag = << >>)
    BY <1>1, KindFacts, ListedFacts
  <2>2. fabric \in Lists /\ ToldIn(fabric) = fabrics /\ (wanted.fabric = {} <=> fabric = << >>)
    BY <1>1, KindFacts, ListedFacts
  <2> HIDE DEF lag, fabric, lags, fabrics
  <2> DEFINE a1 == Text(<<"{">>)
             a2 == a1 \o Field("lag_id", p, "none")
             a3 == a2 \o Text(<<",", "[", " ">>)
  <2>3. Text(<<"{">>) \in Parts(Obj(w), Ready, Obj(Obj(w)), Ready, {})
    BY <1>1, <1>2, OnePart
  <2>4. Field("lag_id", p, "none") \in Parts(Obj(Obj(w)), Ready, Obj(Obj(w)), Done, {Telling("lag_id", p, "none")})
    BY <1>1, <1>2, KindFacts, FieldTells
  <2>5. Text(<<",", "[", " ">>) \in Parts(Obj(Obj(w)), Done, Lst(Obj(Obj(w))), AtList, {})
    BY <1>1, <1>2, Templates
  <2> HIDE DEF a1, a2, a3
  <2>6. a1 \in Parts(Obj(w), Ready, Obj(Obj(w)), Ready, {})
    BY <2>3 DEF a1
  <2>7. a2 \in Parts(Obj(w), Ready, Obj(Obj(w)), Done, {Telling("lag_id", p, "none")})
    BY <2>6, <2>4, AfterFacts, PartFirst DEF a2
  <2>8. a3 \in Parts(Obj(w), Ready, Lst(Obj(Obj(w))), AtList, {Telling("lag_id", p, "none")})
    BY <2>7, <2>5, PartNext DEF a3
  <2> DEFINE members == BackIfAny(a3 \o lag, wanted.lag)
  <2>9. members \in Parts(Obj(w), Ready, Lst(Obj(Obj(w))), Empty, {Telling("lag_id", p, "none")} \cup lags)
    BY <1>2, <2>1, <2>8, BackIfAnyPart
  <2> HIDE DEF members
  <2> DEFINE b1 == Text(<<"]", ",">>)
             b2 == b1 \o Field("lag_member", p, "none")
             b3 == b2 \o Text(<<",">>)
             b4 == b3 \o Field("fabric_id", p, "none")
             b5 == b4 \o Text(<<",", "[", " ">>)
  <2>10. /\ Text(<<"]", ",">>) \in Parts(Lst(Obj(Obj(w))), Empty, Obj(Obj(w)), Ready, {})
        /\ Text(<<",", "[", " ">>) \in Parts(Obj(Obj(w)), Done, Lst(Obj(Obj(w))), AtList, {})
    BY <1>1, <1>2, Templates
  <2>11. /\ Field("lag_member", p, "none") \in Parts(Obj(Obj(w)), Ready, Obj(Obj(w)), Done, {Telling("lag_member", p, "none")})
        /\ Field("fabric_id", p, "none") \in Parts(Obj(Obj(w)), Ready, Obj(Obj(w)), Done, {Telling("fabric_id", p, "none")})
    BY <1>1, <1>2, KindFacts, FieldTells
  <2>12. Text(<<",">>) \in Parts(Obj(Obj(w)), Done, Obj(Obj(w)), Ready, {})
    BY <1>1, <1>2, OnePart DEF Comma
  <2> HIDE DEF b1, b2, b3, b4, b5
  <2>13. b1 \in Parts(Lst(Obj(Obj(w))), Empty, Obj(Obj(w)), Ready, {})
    BY <2>10 DEF b1
  <2>14. b2 \in Parts(Lst(Obj(Obj(w))), Empty, Obj(Obj(w)), Done, {Telling("lag_member", p, "none")})
    BY <2>13, <2>11, AfterFacts, PartFirst DEF b2
  <2>15. b3 \in Parts(Lst(Obj(Obj(w))), Empty, Obj(Obj(w)), Ready, {Telling("lag_member", p, "none")})
    BY <2>14, <2>12, PartNext DEF b3
  <2>16. b4 \in Parts(Lst(Obj(Obj(w))), Empty, Obj(Obj(w)), Done, ({Telling("lag_member", p, "none")} \cup {Telling("fabric_id", p, "none")}))
    BY <2>15, <2>11, AfterFacts, PartJoin DEF b4
  <2>17. b5 \in Parts(Lst(Obj(Obj(w))), Empty, Lst(Obj(Obj(w))), AtList, ({Telling("lag_member", p, "none")} \cup {Telling("fabric_id", p, "none")}))
    BY <2>16, <2>10, PartNext DEF b5
  <2> DEFINE more == BackIfAny(b5 \o fabric, wanted.fabric)
  <2>18. more \in Parts(Lst(Obj(Obj(w))), Empty, Lst(Obj(Obj(w))), Empty, ({Telling("lag_member", p, "none")} \cup {Telling("fabric_id", p, "none")}) \cup fabrics)
    BY <1>2, <2>2, <2>17, BackIfAnyPart
  <2> HIDE DEF more
  <2>19. members \o more \in Parts(Obj(w), Ready, Lst(Obj(Obj(w))), Empty, LagTells(p))
    <3>1. members \o more \in Parts(Obj(w), Ready, Lst(Obj(Obj(w))), Empty, ({Telling("lag_id", p, "none")} \cup lags) \cup (({Telling("lag_member", p, "none")} \cup {Telling("fabric_id", p, "none")}) \cup fabrics))
      BY <2>9, <2>18, AfterFacts, PartJoin
    <3> QED BY <1>4, <3>1 DEF LagTells, lags, fabrics
  <2>20. Text(<<"]", "}", "}">>) \in Parts(Lst(Obj(Obj(w))), Empty, w, Done, {})
    BY Templates
  <2>21. (members \o more) \o Text(<<"]", "}", "}">>) \in Parts(Obj(w), Ready, w, Done, LagTells(p))
    BY <2>19, <2>20, PartNext
  <2> QED BY <1>4, <2>21 DEF EncodeProfileLag, members, more, lag, fabric, a1, a2, a3, b1, b2, b3, b4, b5
<1> QED BY <1>3, <1>4

\* An item of a list whose last character is a comma.
LEMMA BlockOf ==
  ASSUME NEW a \in Seq(PacketTokens), NEW v \in Seq(PacketTokens), NEW u, u = v \o Comma, NEW T,
         \A x \in Inner : a \o v \in Parts(x, Ready, x, Done, T)
  PROVE  a \o u \in Lists /\ a \o u # << >> /\ ToldIn(a \o u) = T
<1> DEFINE m == a \o v
<1>1. a \o u = m \o Comma
  <2>1. Comma \in Seq(PacketTokens)
    BY CommaIs
  <2>2. (a \o v) \o Comma = a \o (v \o Comma)
    BY <2>1, JoinedTwice
  <2> QED BY <2>2
<1>2. \A x \in Inner : m \in Parts(x, Ready, x, Done, T)
  OBVIOUS
<1> HIDE DEF m
<1>3. m \in Seq(PacketTokens) /\ ToldIn(m) = T /\ (Parseable => m \in ValueTexts(PacketTokens))
  BY <1>2, PartValue
<1>4. m \o Comma \in Lists /\ m \o Comma # << >> /\ ToldIn(m \o Comma) = ToldIn(m)
  BY <1>3, BlockIn
<1> QED BY <1>1, <1>3, <1>4

LEMMA TemplatesIn ==
  /\ \A a \in Names \ {"e"} : Text(<<a>>) \in Seq(PacketTokens)
  /\ \A a, b \in Names \ {"e"} : Text(<<a, b>>) \in Seq(PacketTokens)
  /\ \A a, b, c, d \in Names \ {"e"} : Text(<<a, b, c, d>>) \in Seq(PacketTokens)
<1>1. Alphabet(PacketTokens)
  BY PacketAlphabet
<1> DEFINE S == PacketTokens
<1> HIDE DEF S
<1>2. Alphabet(S)
  BY <1>1 DEF S
<1>3. /\ \A a \in Names \ {"e"} : Text(<<a>>) \in Seq(S)
      /\ \A a, b \in Names \ {"e"} : Text(<<a, b>>) \in Seq(S)
      /\ \A a, b, c, d \in Names \ {"e"} : Text(<<a, b, c, d>>) \in Seq(S)
  BY <1>2, TextsIn
<1> QED BY <1>3 DEF S

\* The ends of the items of a list.
LEMMA ItemEnds ==
  /\ Text(<<"]", ",">>) = Text(<<"]">>) \o Comma /\ Text(<<"]">>) \in Seq(PacketTokens)
  /\ Text(<<"}", ",">>) = Text(<<"}">>) \o Comma /\ Text(<<"}">>) \in Seq(PacketTokens)
  /\ Text(<<"]", "}", ",">>) = Text(<<"]", "}">>) \o Comma /\ Text(<<"]", "}">>) \in Seq(PacketTokens)
  /\ Text(<<"]", "}", "]", "}", ",">>) = Text(<<"]", "}", "]", "}">>) \o Comma /\ Text(<<"]", "}", "]", "}">>) \in Seq(PacketTokens)
<1>1. /\ Text(<<"]", ",">>) = Text(<<"]">>) \o Comma
      /\ Text(<<"}", ",">>) = Text(<<"}">>) \o Comma
  BY TextJoined2 DEF Comma
<1>2. Text(<<"]", "}", ",">>) = Text(<<"]", "}">>) \o Comma
  BY TextJoined3 DEF Comma
<1>3. Text(<<"]", "}", "]", "}", ",">>) = Text(<<"]", "}", "]", "}">>) \o Comma
  BY TextJoined5, ZenonT(30) DEF Comma
<1>4. Text(<<"]">>) \in Seq(PacketTokens) /\ Text(<<"}">>) \in Seq(PacketTokens) /\ Text(<<"]", "}">>) \in Seq(PacketTokens)
      /\ Text(<<"]", "}", "]", "}">>) \in Seq(PacketTokens)
  BY TemplatesIn DEF Names
<1> QED BY <1>1, <1>2, <1>3, <1>4

\* What a trace tells of the ECMP groups that resolved a packet.
EcmpTells(p) ==
  IF Flags(p) \cap {"ecmp1", "ecmp2"} = {} THEN {Telling("no_ecmp", p, "none")}
  ELSE ({Telling("ecmp_group", p, "none")} \cup {Telling(EcmpLevel(p), p, m) : m \in EcmpMembers(p)})
       \cup {Telling("ecmp_dst", p, "none")}

\* The members of the ECMP group of a port.
EcmpList(p) ==
  Each(EcmpMembers(p), LAMBDA m : Text(<<"[">>) \o Field(EcmpLevel(p), p, m) \o Text(<<"]", ",">>))

LEMMA EcmpListFacts ==
  ASSUME wanted \in Traces, NEW p \in wanted.ports
  PROVE  /\ EcmpList(p) \in Lists /\ ToldIn(EcmpList(p)) = {Telling(EcmpLevel(p), p, m) : m \in EcmpMembers(p)}
         /\ EcmpMembers(p) = {} <=> EcmpList(p) = << >>
<1> DEFINE set == EcmpMembers(p)
           kind == EcmpLevel(p)
           f == [v \in set |-> Text(<<"[">>) \o Field(kind, p, v) \o Text(<<"]", ",">>)]
           l == EachOf(set, f)
<1>1. p \in Ports /\ set \in SUBSET Shownable /\ IsFiniteSet(set) /\ kind \in PacketKinds
  <2>1. p \in Ports
    BY TraceFacts, NoneFacts
  <2>2. set \in SUBSET Shownable /\ IsFiniteSet(set)
    BY TraceFacts DEF EcmpMembers
  <2> QED BY <2>1, <2>2, KindFacts DEF EcmpLevel
<1>2. EcmpList(p) = l
  <2>1. Cardinality(set) \in Nat /\ \A i \in 1 .. Cardinality(set) : SetToSeq(set)[i] \in set
    BY <1>1, Enumeration
  <2>2. [i \in 1 .. Cardinality(set) |-> f[SetToSeq(set)[i]]]
        = [i \in 1 .. Cardinality(set) |-> Text(<<"[">>) \o Field(kind, p, SetToSeq(set)[i]) \o Text(<<"]", ",">>)]
    BY <2>1
  <2> HIDE DEF f
  <2> QED BY <2>2 DEF EcmpList, Each, EachOf
<1> HIDE DEF set, kind
<1>3. ASSUME NEW v \in set
      PROVE  f[v] \in Lists /\ f[v] # << >> /\ ToldIn(f[v]) = {Telling(kind, p, v)}
  <2>1. f[v] = (Text(<<"[">>) \o Field(kind, p, v)) \o Text(<<"]", ",">>)
    OBVIOUS
  <2>2. v \in Shownable
    BY <1>1
  <2>3. ASSUME NEW x \in Inner
        PROVE  (Text(<<"[">>) \o Field(kind, p, v)) \o Text(<<"]">>) \in Parts(x, Ready, x, Done, {Telling(kind, p, v)})
    <3>1. Lst(x) \in Inner
      BY StackFacts
    <3> DEFINE q1 == Text(<<"[">>)
               q2 == q1 \o Field(kind, p, v)
               q3 == q2 \o Text(<<"]">>)
    <3>2. /\ Text(<<"[">>) \in Parts(x, Ready, Lst(x), AtList, {})
          /\ Text(<<"]">>) \in Parts(Lst(x), Empty, x, Done, {})
      BY <1>1, <2>2, <3>1, OnePart
    <3>3. Field(kind, p, v) \in Parts(Lst(x), Ready, Lst(x), Done, {Telling(kind, p, v)})
      BY <1>1, <2>2, <3>1, KindFacts, FieldTells
    <3> HIDE DEF q1, q2, q3
    <3>4. q1 \in Parts(x, Ready, Lst(x), AtList, {})
      BY <3>2 DEF q1
    <3>5. q2 \in Parts(x, Ready, Lst(x), Done, {Telling(kind, p, v)})
      BY <3>4, <3>3, AfterFacts, PartFirst DEF q2
    <3>6. q3 \in Parts(x, Ready, x, Done, {Telling(kind, p, v)})
      BY <3>5, <3>2, AfterFacts, PartMore DEF q3
    <3> QED BY <3>6 DEF q1, q2, q3
  <2>4. (Text(<<"[">>) \o Field(kind, p, v)) \in Seq(PacketTokens)
    <3>1. Text(<<"[">>) \in Seq(PacketTokens)
      BY TemplatesIn DEF Names
    <3>2. Field(kind, p, v) \in Seq(PacketTokens)
      BY <1>1, <2>2, FieldTells
    <3> QED BY <3>1, <3>2, JoinIn
  <2> DEFINE a == Text(<<"[">>) \o Field(kind, p, v)
             u == Text(<<"]", ",">>)
             w == Text(<<"]">>)
             T == {Telling(kind, p, v)}
  <2>5. a \in Seq(PacketTokens) /\ w \in Seq(PacketTokens) /\ u = w \o Comma /\ f[v] = a \o u
    BY <2>1, <2>4, ItemEnds
  <2>6. \A x \in Inner : a \o w \in Parts(x, Ready, x, Done, T)
    BY <2>3
  <2> HIDE DEF a, u, w, f, T
  <2>7. a \o u \in Lists /\ a \o u # << >> /\ ToldIn(a \o u) = T
    BY <2>5, <2>6, BlockOf
  <2> QED BY <2>5, <2>7 DEF T
<1>4. f \in [set -> Lists]
  <2>1. \A v \in set : f[v] \in Lists
    BY <1>3
  <2>2. f = [v \in set |-> f[v]]
    OBVIOUS
  <2> HIDE DEF f
  <2> QED BY <2>1, <2>2
<1> HIDE DEF f
<1>5. /\ l \in Lists /\ ToldIn(l) = UNION {ToldIn(f[v]) : v \in set}
      /\ set = {} => l = << >>
      /\ set # {} /\ (\A v \in set : f[v] # << >>) => l # << >>
  BY <1>1, <1>4, EachList
<1>6. UNION {ToldIn(f[v]) : v \in set} = {Telling(kind, p, v) : v \in set}
  BY <1>3
<1> HIDE DEF l
<1>7. set = {} <=> l = << >>
  BY <1>3, <1>5
<1> QED BY <1>2, <1>5, <1>6, <1>7 DEF set, kind

\* The ECMP group of a port: the opening bracket is taken away when it has no members.
LEMMA EcmpPart ==
  ASSUME wanted \in Traces, wanted.what \in {"profile", "ecmp"}, NEW p \in wanted.ports, NEW x \in Inner
  PROVE  EncodeProfileEcmp(p) \in Parts(x, Ready, x, Done, EcmpTells(p))
<1>1. p \in Ports /\ "none" \in Shownable
  BY TraceFacts, NoneFacts
<1>2. Obj(x) \in Inner /\ Lst(Obj(x)) \in Inner
  BY StackFacts
<1>3. CASE Flags(p) \cap {"ecmp1", "ecmp2"} = {}
  <2> DEFINE q1 == Text(<<"{">>)
             q2 == q1 \o Field("no_ecmp", p, "none")
             q3 == q2 \o Text(<<"}">>)
  <2>1. /\ Text(<<"{">>) \in Parts(x, Ready, Obj(x), Ready, {})
        /\ Text(<<"}">>) \in Parts(Obj(x), Done, x, Done, {})
    BY <1>1, <1>2, OnePart
  <2>2. Field("no_ecmp", p, "none") \in Parts(Obj(x), Ready, Obj(x), Done, {Telling("no_ecmp", p, "none")})
    BY <1>1, <1>2, KindFacts, FieldTells
  <2> HIDE DEF q1, q2, q3
  <2>3. q1 \in Parts(x, Ready, Obj(x), Ready, {})
    BY <2>1 DEF q1
  <2>4. q2 \in Parts(x, Ready, Obj(x), Done, {Telling("no_ecmp", p, "none")})
    BY <2>3, <2>2, AfterFacts, PartFirst DEF q2
  <2>5. q3 \in Parts(x, Ready, x, Done, {Telling("no_ecmp", p, "none")})
    BY <2>4, <2>1, PartNext DEF q3
  <2> QED BY <1>3, <2>5 DEF EncodeProfileEcmp, EcmpTells, q1, q2, q3
<1>4. CASE Flags(p) \cap {"ecmp1", "ecmp2"} # {}
  <2> DEFINE l == EcmpList(p)
             told == {Telling(EcmpLevel(p), p, m) : m \in EcmpMembers(p)}
  <2>1. l \in Lists /\ ToldIn(l) = told /\ (EcmpMembers(p) = {} <=> l = << >>)
    BY EcmpListFacts
  <2> HIDE DEF l, told
  <2> DEFINE q1 == Text(<<"{">>)
             q2 == q1 \o Field("ecmp_group", p, "none")
             q3 == q2 \o Text(<<",", "[">>)
  <2>2. Text(<<"{">>) \in Parts(x, Ready, Obj(x), Ready, {})
    BY <1>1, <1>2, OnePart
  <2>3. Field("ecmp_group", p, "none") \in Parts(Obj(x), Ready, Obj(x), Done, {Telling("ecmp_group", p, "none")})
    BY <1>1, <1>2, KindFacts, FieldTells
  <2>4. Text(<<",", "[">>) \in Parts(Obj(x), Done, Lst(Obj(x)), AtList, {})
    BY <1>1, <1>2, Templates
  <2> HIDE DEF q1, q2, q3
  <2>5. q1 \in Parts(x, Ready, Obj(x), Ready, {})
    BY <2>2 DEF q1
  <2>6. q2 \in Parts(x, Ready, Obj(x), Done, {Telling("ecmp_group", p, "none")})
    BY <2>5, <2>3, AfterFacts, PartFirst DEF q2
  <2>7. q3 \in Parts(x, Ready, Lst(Obj(x)), AtList, {Telling("ecmp_group", p, "none")})
    BY <2>6, <2>4, PartNext DEF q3
  <2> DEFINE group == Back(q3 \o l)
             T == {Telling("ecmp_group", p, "none")} \cup told
  <2>8. group \in Parts(x, Ready, Lst(Obj(x)), Empty, T)
    <3>1. CASE l # << >>
      <4>1. (IF l = << >> THEN q3 ELSE Back(q3 \o l)) \in Parts(x, Ready, Lst(Obj(x)), Empty, T)
        BY <1>2, <2>1, <2>7, ListAfter
      <4> QED BY <3>1, <4>1
    <3>2. CASE l = << >>
      <4>1. q2 \o Comma \in Seq(PacketTokens) /\ ToldIn(q2 \o Comma) = {Telling("ecmp_group", p, "none")}
        <5>1. q2 \in Seq(PacketTokens) /\ ToldIn(q2) = {Telling("ecmp_group", p, "none")}
          BY <2>6, PartIn
        <5>2. Comma \in Seq(PacketTokens) /\ ToldIn(Comma) = {}
          BY CommaIs
        <5>3. q2 \o Comma \in Seq(PacketTokens) /\ ToldIn(q2 \o Comma) = ToldIn(q2) \cup ToldIn(Comma)
          BY <5>1, <5>2, JoinFacts
        <5> QED BY <5>1, <5>2, <5>3
      <4>2. q3 \o l = (q2 \o Comma) \o <<Token("[")>>
        <5>1. /\ Text(<<",", "[">>) = Comma \o Text(<<"[">>) /\ Text(<<"[">>) = <<Token("[")>>
              /\ Text(<<"[">>) \in Seq(PacketTokens)
          <6>1. Text(<<",", "[">>) = Comma \o Text(<<"[">>)
            BY TextJoined2 DEF Comma
          <6>2. Text(<<"[">>) = <<Token("[")>> /\ Text(<<"[">>) \in Seq(PacketTokens)
            BY PacketAlphabet, TokenIn DEF Names
          <6> QED BY <6>1, <6>2
        <5>2. q2 \in Seq(PacketTokens) /\ Comma \in Seq(PacketTokens) /\ Text(<<"[">>) \in Seq(PacketTokens)
          BY <5>1, <2>6, PartIn, CommaIs
        <5>3. (q2 \o Comma) \o Text(<<"[">>) = q2 \o (Comma \o Text(<<"[">>))
          BY <5>2, JoinedTwice
        <5>4. q3 \o l = q3
          <6>1. q3 \in Seq(PacketTokens)
            BY <2>7, PartIn
          <6> QED BY <3>2, <6>1
        <5> QED BY <5>1, <5>3, <5>4 DEF q3
      <4>3. group = q2 \o Comma
        <5>1. Token("[") \in PacketTokens
          BY PacketAlphabet, TokenIn DEF Names
        <5> DEFINE a == q2 \o Comma
                   b == Token("[")
        <5>2. a \in Seq(PacketTokens) /\ b \in PacketTokens /\ q3 \o l = a \o <<b>>
          BY <4>1, <4>2, <5>1
        <5> HIDE DEF a, b
        <5>3. Back(a \o <<b>>) = a
          BY <5>2, BackOne
        <5> QED BY <5>2, <5>3 DEF a
      <4>4. ~Parseable
        BY <1>4, <2>1, <3>2 DEF Parseable, EcmpWithoutMembers
      <4>5. told = {}
        BY <2>1, <3>2, ToldNone
      <4> QED BY <4>1, <4>3, <4>4, <4>5 DEF Parts
    <3> QED BY <3>1, <3>2
  <2> HIDE DEF group, T
  <2> DEFINE r1 == group
             r2 == r1 \o Text(<<" ", "]", ",">>)
             r3 == r2 \o Field("ecmp_dst", p, "none")
             r4 == r3 \o Text(<<"}">>)
  <2>9. Text(<<" ", "]", ",">>) \in Parts(Lst(Obj(x)), Empty, Obj(x), Ready, {})
    BY <1>1, <1>2, Templates
  <2>10. Field("ecmp_dst", p, "none") \in Parts(Obj(x), Ready, Obj(x), Done, {Telling("ecmp_dst", p, "none")})
    BY <1>1, <1>2, KindFacts, FieldTells
  <2>11. Text(<<"}">>) \in Parts(Obj(x), Done, x, Done, {})
    BY <1>1, <1>2, OnePart
  <2> HIDE DEF r1, r2, r3, r4
  <2>12. r1 \in Parts(x, Ready, Lst(Obj(x)), Empty, T)
    BY <2>8 DEF r1
  <2>13. r2 \in Parts(x, Ready, Obj(x), Ready, T)
    BY <2>12, <2>9, PartNext DEF r2
  <2>14. r3 \in Parts(x, Ready, Obj(x), Done, (T \cup {Telling("ecmp_dst", p, "none")}))
    BY <2>13, <2>10, AfterFacts, PartJoin DEF r3
  <2>15. r4 \in Parts(x, Ready, x, Done, (T \cup {Telling("ecmp_dst", p, "none")}))
    BY <2>14, <2>11, PartNext DEF r4
  <2>16. EncodeProfileEcmp(p) = r4
    BY <1>4 DEF EncodeProfileEcmp, EcmpList, group, l, q1, q2, q3, r1, r2, r3, r4
  <2>17. EcmpTells(p) = (T \cup {Telling("ecmp_dst", p, "none")})
    BY <1>4 DEF EcmpTells, T, told
  <2> QED BY <2>15, <2>16, <2>17
<1> QED BY <1>3, <1>4

\* The ports of destination, when neither a trunk nor ECMP chose.
Destinations(p) == IF Flags(p) = {} THEN wanted.dest ELSE {}
LinkTells(p) == {Telling("dest", p, d) : d \in Destinations(p)}

\* A list of objects that hold a port of destination.
BracedList(p, set) == Each(set, LAMBDA d : Text(<<"{">>) \o Field("dest", p, d) \o Text(<<"}", ",">>))

\* The links of a port.
LEMMA BracedFacts ==
  ASSUME NEW p \in Ports, NEW set \in SUBSET Shownable, IsFiniteSet(set)
  PROVE  /\ BracedList(p, set) \in Lists /\ ToldIn(BracedList(p, set)) = {Telling("dest", p, v) : v \in set}
         /\ set = {} <=> BracedList(p, set) = << >>
<1> DEFINE kind == "dest"
           f == [v \in set |-> Text(<<"{">>) \o Field(kind, p, v) \o Text(<<"}", ",">>)]
           l == EachOf(set, f)
<1>1. kind \in PacketKinds
  BY KindFacts
<1>2. BracedList(p, set) = l
  <2>1. Cardinality(set) \in Nat /\ \A i \in 1 .. Cardinality(set) : SetToSeq(set)[i] \in set
    BY Enumeration
  <2>2. [i \in 1 .. Cardinality(set) |-> f[SetToSeq(set)[i]]]
        = [i \in 1 .. Cardinality(set) |-> Text(<<"{">>) \o Field(kind, p, SetToSeq(set)[i]) \o Text(<<"}", ",">>)]
    BY <2>1
  <2> HIDE DEF f
  <2> QED BY <2>2 DEF BracedList, Each, EachOf
<1> HIDE DEF kind
<1>4. ASSUME NEW v \in set
      PROVE  f[v] \in Lists /\ f[v] # << >> /\ ToldIn(f[v]) = {Telling(kind, p, v)}
  <2>1. f[v] = (Text(<<"{">>) \o Field(kind, p, v)) \o Text(<<"}", ",">>)
    OBVIOUS
  <2>2. v \in Shownable
    BY <1>1
  <2>3. ASSUME NEW x \in Inner
        PROVE  (Text(<<"{">>) \o Field(kind, p, v)) \o Text(<<"}">>) \in Parts(x, Ready, x, Done, {Telling(kind, p, v)})
    <3>1. Obj(x) \in Inner
      BY StackFacts
    <3> DEFINE q1 == Text(<<"{">>)
               q2 == q1 \o Field(kind, p, v)
               q3 == q2 \o Text(<<"}">>)
    <3>2. /\ Text(<<"{">>) \in Parts(x, Ready, Obj(x), Ready, {})
          /\ Text(<<"}">>) \in Parts(Obj(x), Done, x, Done, {})
      BY <1>1, <2>2, <3>1, OnePart
    <3>3. Field(kind, p, v) \in Parts(Obj(x), Ready, Obj(x), Done, {Telling(kind, p, v)})
      BY <1>1, <2>2, <3>1, KindFacts, FieldTells
    <3> HIDE DEF q1, q2, q3
    <3>4. q1 \in Parts(x, Ready, Obj(x), Ready, {})
      BY <3>2 DEF q1
    <3>5. q2 \in Parts(x, Ready, Obj(x), Done, {Telling(kind, p, v)})
      BY <3>4, <3>3, AfterFacts, PartFirst DEF q2
    <3>6. q3 \in Parts(x, Ready, x, Done, {Telling(kind, p, v)})
      BY <3>5, <3>2, PartNext DEF q3
    <3> QED BY <3>6 DEF q1, q2, q3
  <2>4. (Text(<<"{">>) \o Field(kind, p, v)) \in Seq(PacketTokens)
    <3>1. Text(<<"{">>) \in Seq(PacketTokens)
      BY TemplatesIn DEF Names
    <3>2. Field(kind, p, v) \in Seq(PacketTokens)
      BY <1>1, <2>2, FieldTells
    <3> QED BY <3>1, <3>2, JoinIn
  <2> DEFINE a == Text(<<"{">>) \o Field(kind, p, v)
             u == Text(<<"}", ",">>)
             w == Text(<<"}">>)
             T == {Telling(kind, p, v)}
  <2>5. a \in Seq(PacketTokens) /\ w \in Seq(PacketTokens) /\ u = w \o Comma /\ f[v] = a \o u
    BY <2>1, <2>4, ItemEnds
  <2>6. \A x \in Inner : a \o w \in Parts(x, Ready, x, Done, T)
    BY <2>3
  <2> HIDE DEF a, u, w, f, T
  <2>7. a \o u \in Lists /\ a \o u # << >> /\ ToldIn(a \o u) = T
    BY <2>5, <2>6, BlockOf
  <2> QED BY <2>5, <2>7 DEF T
<1>5. f \in [set -> Lists]
  <2>1. \A v \in set : f[v] \in Lists
    BY <1>4
  <2>2. f = [v \in set |-> f[v]]
    OBVIOUS
  <2> HIDE DEF f
  <2> QED BY <2>1, <2>2
<1> HIDE DEF f
<1>6. /\ l \in Lists /\ ToldIn(l) = UNION {ToldIn(f[v]) : v \in set}
      /\ set = {} => l = << >>
      /\ set # {} /\ (\A v \in set : f[v] # << >>) => l # << >>
  BY <1>1, <1>5, EachList
<1>7. UNION {ToldIn(f[v]) : v \in set} = {Telling(kind, p, v) : v \in set}
  BY <1>4
<1> HIDE DEF l
<1>8. set = {} <=> l = << >>
  BY <1>4, <1>6
<1> QED BY <1>2, <1>6, <1>7, <1>8 DEF kind

LinkList(p) == BracedList(p, Destinations(p))

LEMMA LinkListFacts ==
  ASSUME wanted \in Traces, NEW p \in wanted.ports
  PROVE  LinkList(p) \in Lists /\ ToldIn(LinkList(p)) = LinkTells(p) /\ (Destinations(p) = {} <=> LinkList(p) = << >>)
<1>1. p \in Ports
  BY TraceFacts, NoneFacts
<1>2. wanted.dest \in SUBSET Shownable /\ IsFiniteSet(wanted.dest)
  BY TraceFacts, NoneFacts
<1>3. Destinations(p) \in SUBSET Shownable /\ IsFiniteSet(Destinations(p))
  BY <1>2, FS_EmptySet DEF Destinations
<1> QED BY <1>1, <1>3, BracedFacts DEF LinkList, LinkTells

LEMMA LinkPart ==
  ASSUME wanted \in Traces, NEW p \in wanted.ports, NEW x \in Inner
  PROVE  EncodeProfileLink(p) \in Parts(x, Ready, Lst(x), Empty, LinkTells(p))
<1> DEFINE l == LinkList(p)
           m == Text(<<"[", " ">>)
<1>1. l \in Lists /\ ToldIn(l) = LinkTells(p) /\ (Destinations(p) = {} <=> l = << >>)
  BY LinkListFacts
<1>2. m \in Parts(x, Ready, Lst(x), AtList, {}) /\ Lst(x) \in Inner
  BY Templates, StackFacts
<1>3. EncodeProfileLink(p) = m \o BackIfAny(l, Destinations(p))
  BY DEF EncodeProfileLink, LinkList, BracedList, Destinations
<1> HIDE DEF l, m
<1> DEFINE T == {}
           y == Lst(x)
<1>4. /\ l # << >> => Back(m \o l) = m \o Back(l) /\ m \o Back(l) \in Parts(x, Ready, y, Done, T \cup ToldIn(l))
      /\ (IF l = << >> THEN m ELSE Back(m \o l)) \in Parts(x, Ready, y, Empty, T \cup ToldIn(l))
  <2>1. y \in Inner /\ m \in Parts(x, Ready, y, AtList, T) /\ l \in Lists
    BY <1>1, <1>2
  <2> HIDE DEF T, y
  <2> QED BY <2>1, ListAfter
<1>5. CASE l = << >>
  <2>1. m \o l = m
    <3>1. m \in Seq(PacketTokens)
      BY <1>2, PartIn
    <3> QED BY <1>5, <3>1
  <2>2. BackIfAny(l, Destinations(p)) = l
    BY <1>1, <1>5 DEF BackIfAny
  <2> QED BY <1>1, <1>3, <1>4, <1>5, <2>1, <2>2
<1>6. CASE l # << >>
  <2>1. BackIfAny(l, Destinations(p)) = Back(l)
    BY <1>1, <1>6 DEF BackIfAny
  <2> QED BY <1>1, <1>3, <1>4, <1>6, <2>1
<1> QED BY <1>5, <1>6

LEMMA NameTells ==
  ASSUME NEW kind \in PacketKinds
  PROVE  /\ \A x \in Inner : Name(kind) \in Parts(x, Ready, x, Done, {Telling(kind, "none", "none")})
         /\ Name(kind) \in Seq(PacketTokens)
<1> DEFINE port == "none"
           value == "none"
<1>1. port \in Ports /\ value \in Shownable
  BY NoneFacts
<1>2. Name(kind) = Field(kind, port, value)
  BY DEF Name
<1> HIDE DEF port, value
<1>3. /\ \A x \in Inner : Field(kind, port, value) \in Parts(x, Ready, x, Done, {Telling(kind, port, value)})
      /\ Field(kind, port, value) \in Seq(PacketTokens)
  BY <1>1, FieldTells
<1> QED BY <1>2, <1>3 DEF port, value

\* A report has a block for each port.
LEMMA ReportOf ==
  ASSUME wanted \in Traces, NEW f \in [wanted.ports -> Lists], \A p \in wanted.ports : f[p] # << >>,
         NEW r, r = Back(EachOf(wanted.ports, f))
  PROVE  /\ r \in Seq(PacketTokens) /\ ToldIn(r) = UNION {ToldIn(f[p]) : p \in wanted.ports}
         /\ Parseable => r \in ValueTexts(PacketTokens)
<1> DEFINE l == EachOf(wanted.ports, f)
           set == wanted.ports
<1>1. set # {} /\ IsFiniteSet(set) /\ f \in [set -> Lists] /\ \A p \in set : f[p] # << >>
  BY TraceFacts
<1> HIDE DEF set
<1>2. /\ EachOf(set, f) \in Lists /\ ToldIn(EachOf(set, f)) = UNION {ToldIn(f[v]) : v \in set}
      /\ EachOf(set, f) # << >>
  BY <1>1, EachList
<1>3. l \in Lists /\ l # << >> /\ ToldIn(l) = UNION {ToldIn(f[p]) : p \in wanted.ports} /\ r = Back(l)
  BY <1>2 DEF set
<1> HIDE DEF l
<1>4. /\ Back(l) \in Seq(PacketTokens) /\ ToldIn(Back(l)) = ToldIn(l)
      /\ Parseable => Back(l) \in ValueTexts(PacketTokens)
  BY <1>3, ListBack
<1> QED BY <1>3, <1>4

LEMMA SomeStack == \E x : x \in Inner
<1>1. << >> \in Seq({"{", "["})
  BY NothingIn
<1> QED BY <1>1, PushFacts

\* What a report of trunks tells of a port.
LagBlockTells(p) == {Telling("port", p, "none")} \cup LagTells(p)

\* The block of a port in a report of trunks.
LagBlock(p) ==
  Text(<<"{">>) \o Field("port", p, "none") \o Text(<<",">>) \o EncodeProfileLag(p) \o Text(<<",">>)

LEMMA LagBlockFacts ==
  ASSUME wanted \in Traces, NEW p \in wanted.ports
  PROVE  LagBlock(p) \in Lists /\ LagBlock(p) # << >> /\ ToldIn(LagBlock(p)) = LagBlockTells(p)
<1> DEFINE T == LagBlockTells(p)
           a == Text(<<"{">>) \o Field("port", p, "none") \o Text(<<",">>)
           w == EncodeProfileLag(p)
           u == w \o Comma
<1>1. p \in Ports /\ "none" \in Shownable
  BY TraceFacts, NoneFacts
<1>2. ASSUME NEW x \in Inner PROVE a \in Seq(PacketTokens) /\ a \o w \in Parts(x, Ready, x, Done, T)
  <2>1. Obj(x) \in Inner /\ Lst(Obj(x)) \in Inner /\ Obj(Lst(Obj(x))) \in Inner /\ Lst(Obj(Lst(Obj(x)))) \in Inner
    BY StackFacts
  <2> DEFINE q1 == Text(<<"{">>)
             q2 == q1 \o Field("port", p, "none")
             q3 == q2 \o Text(<<",">>)
             q4 == q3 \o EncodeProfileLag(p)
  <2>2. Text(<<"{">>) \in Parts(x, Ready, Obj(x), Ready, {})
    BY <1>1, <2>1, OnePart
  <2>3. Field("port", p, "none") \in Parts(Obj(x), Ready, Obj(x), Done, {Telling("port", p, "none")})
    BY <1>1, <2>1, KindFacts, FieldTells
  <2>4. Text(<<",">>) \in Parts(Obj(x), Done, Obj(x), Ready, {})
    BY <1>1, <2>1, OnePart DEF Comma
  <2>5. EncodeProfileLag(p) \in Parts(Obj(x), Ready, x, Done, LagTells(p))
    BY <1>1, <2>1, LagPart
  <2> HIDE DEF q1, q2, q3, q4
  <2>6. q1 \in Parts(x, Ready, Obj(x), Ready, {})
    BY <2>2 DEF q1
  <2>7. q2 \in Parts(x, Ready, Obj(x), Done, {Telling("port", p, "none")})
    BY <2>6, <2>3, AfterFacts, PartFirst DEF q2
  <2>8. q3 \in Parts(x, Ready, Obj(x), Ready, {Telling("port", p, "none")})
    BY <2>7, <2>4, PartNext DEF q3
  <2>9. q4 \in Parts(x, Ready, x, Done, ({Telling("port", p, "none")} \cup LagTells(p)))
    BY <2>8, <2>5, AfterFacts, PartJoin DEF q4
  <2>10. T = ({Telling("port", p, "none")} \cup LagTells(p))
    BY DEF T, LagBlockTells
  <2>11. a = q3 /\ a \o w = q4
    BY DEF q1, q2, q3, q4
  <2>12. q3 \in Seq(PacketTokens)
    BY <2>8, PartIn
  <2> HIDE DEF T, a, w
  <2> QED BY <2>9, <2>10, <2>11, <2>12
<1>3. a \in Seq(PacketTokens)
  <2> HIDE DEF a, w, T
  <2> QED BY <1>2, SomeStack
<1>4. w \in Seq(PacketTokens) /\ u = w \o Comma
  <2>1. w \in Seq(PacketTokens)
    <3>1. PICK x : x \in Inner
      BY SomeStack
    <3>2. w \in Parts(Obj(x), Ready, x, Done, LagTells(p))
      BY <3>1, LagPart
    <3> HIDE DEF w
    <3> QED BY <3>2, PartIn
  <2> QED BY <2>1
<1>5. LagBlock(p) = a \o u
  <2>1. Comma \in Seq(PacketTokens) /\ a \in Seq(PacketTokens) /\ w \in Seq(PacketTokens)
    BY <1>3, <1>4, CommaIs
  <2>2. LagBlock(p) = (a \o w) \o Comma
    BY DEF LagBlock, Comma
  <2> HIDE DEF a, w
  <2>3. (a \o w) \o Comma = a \o (w \o Comma)
    BY <2>1, JoinedTwice
  <2> QED BY <2>2, <2>3
<1> HIDE DEF T, a, u, w
<1>6. a \o u \in Lists /\ a \o u # << >> /\ ToldIn(a \o u) = T
  BY <1>2, <1>3, <1>4, BlockOf
<1> QED BY <1>5, <1>6 DEF T

LEMMA LagReportFacts ==
  ASSUME wanted \in Traces
  PROVE  /\ LagReport \in Seq(PacketTokens) /\ ToldIn(LagReport) = UNION {LagBlockTells(p) : p \in wanted.ports}
         /\ Parseable => LagReport \in ValueTexts(PacketTokens)
<1> DEFINE set == wanted.ports
           f == [p \in set |-> LagBlock(p)]
           r == LagReport
<1>1. r = Back(EachOf(set, f))
  <2>1. Cardinality(set) \in Nat /\ \A i \in 1 .. Cardinality(set) : SetToSeq(set)[i] \in set
    <3>1. IsFiniteSet(set)
      BY TraceFacts
    <3> HIDE DEF set
    <3> QED BY <3>1, Enumeration
  <2>2. [i \in 1 .. Cardinality(set) |-> f[SetToSeq(set)[i]]] = [i \in 1 .. Cardinality(set) |-> LagBlock(SetToSeq(set)[i])]
    BY <2>1
  <2> HIDE DEF f
  <2> QED BY <2>2 DEF LagReport, Each, EachOf, LagBlock
<1>2. ASSUME NEW p \in set PROVE f[p] \in Lists /\ f[p] # << >> /\ ToldIn(f[p]) = LagBlockTells(p)
  BY LagBlockFacts
<1>3. f \in [set -> Lists]
  BY <1>2
<1> HIDE DEF f, r
<1>4. /\ r \in Seq(PacketTokens) /\ ToldIn(r) = UNION {ToldIn(f[p]) : p \in set}
      /\ Parseable => r \in ValueTexts(PacketTokens)
  BY <1>1, <1>2, <1>3, ReportOf
<1>5. UNION {ToldIn(f[p]) : p \in set} = UNION {LagBlockTells(p) : p \in set}
  BY <1>2
<1> QED BY <1>4, <1>5 DEF r

\* What a report of ECMP groups tells of a port.
EcmpBlockTells(p) == {Telling("port", p, "none")} \cup EcmpTells(p)

\* The block of a port in a report of ECMP groups.
EcmpBlock(p) ==
  Text(<<"{">>) \o Field("port", p, "none") \o Text(<<",", "[", " ">>) \o EncodeProfileEcmp(p) \o Text(<<"]", "}", ",">>)

LEMMA EcmpBlockFacts ==
  ASSUME wanted \in Traces, wanted.what \in {"profile", "ecmp"}, NEW p \in wanted.ports
  PROVE  EcmpBlock(p) \in Lists /\ EcmpBlock(p) # << >> /\ ToldIn(EcmpBlock(p)) = EcmpBlockTells(p)
<1> DEFINE T == EcmpBlockTells(p)
           a == Text(<<"{">>) \o Field("port", p, "none") \o Text(<<",", "[", " ">>) \o EncodeProfileEcmp(p)
           w == Text(<<"]", "}">>)
           u == Text(<<"]", "}", ",">>)
<1>1. p \in Ports /\ "none" \in Shownable
  BY TraceFacts, NoneFacts
<1>2. ASSUME NEW x \in Inner PROVE a \in Seq(PacketTokens) /\ a \o w \in Parts(x, Ready, x, Done, T)
  <2>1. Obj(x) \in Inner /\ Lst(Obj(x)) \in Inner /\ Obj(Lst(Obj(x))) \in Inner /\ Lst(Obj(Lst(Obj(x)))) \in Inner
    BY StackFacts
  <2> DEFINE q1 == Text(<<"{">>)
             q2 == q1 \o Field("port", p, "none")
             q3 == q2 \o Text(<<",", "[", " ">>)
             q4 == q3 \o EncodeProfileEcmp(p)
             q5 == q4 \o Text(<<"]", "}">>)
  <2>2. Text(<<"{">>) \in Parts(x, Ready, Obj(x), Ready, {})
    BY <1>1, <2>1, OnePart
  <2>3. Field("port", p, "none") \in Parts(Obj(x), Ready, Obj(x), Done, {Telling("port", p, "none")})
    BY <1>1, <2>1, KindFacts, FieldTells
  <2>4. /\ Text(<<",", "[", " ">>) \in Parts(Obj(x), Done, Lst(Obj(x)), AtList, {})
        /\ Text(<<"]", "}">>) \in Parts(Lst(Obj(x)), Empty, x, Done, {})
    BY <1>1, <2>1, Templates
  <2>5. EncodeProfileEcmp(p) \in Parts(Lst(Obj(x)), Ready, Lst(Obj(x)), Done, EcmpTells(p))
    BY <1>1, <2>1, EcmpPart
  <2> HIDE DEF q1, q2, q3, q4, q5
  <2>6. q1 \in Parts(x, Ready, Obj(x), Ready, {})
    BY <2>2 DEF q1
  <2>7. q2 \in Parts(x, Ready, Obj(x), Done, {Telling("port", p, "none")})
    BY <2>6, <2>3, AfterFacts, PartFirst DEF q2
  <2>8. q3 \in Parts(x, Ready, Lst(Obj(x)), AtList, {Telling("port", p, "none")})
    BY <2>7, <2>4, PartNext DEF q3
  <2>9. q4 \in Parts(x, Ready, Lst(Obj(x)), Done, ({Telling("port", p, "none")} \cup EcmpTells(p)))
    BY <2>8, <2>5, AfterFacts, PartJoin DEF q4
  <2>10. q5 \in Parts(x, Ready, x, Done, ({Telling("port", p, "none")} \cup EcmpTells(p)))
    BY <2>9, <2>4, AfterFacts, PartMore DEF q5
  <2>11. T = ({Telling("port", p, "none")} \cup EcmpTells(p))
    BY DEF T, EcmpBlockTells
  <2>12. a = q4 /\ a \o w = q5
    BY DEF q1, q2, q3, q4, q5
  <2>13. q4 \in Seq(PacketTokens)
    BY <2>9, PartIn
  <2> HIDE DEF T, a, w
  <2> QED BY <2>10, <2>11, <2>12, <2>13
<1>3. a \in Seq(PacketTokens)
  <2> HIDE DEF a, w, T
  <2> QED BY <1>2, SomeStack
<1>4. w \in Seq(PacketTokens) /\ u = w \o Comma
  BY ItemEnds
<1>5. EcmpBlock(p) = a \o u
  BY DEF EcmpBlock
<1> HIDE DEF T, a, u, w
<1>6. a \o u \in Lists /\ a \o u # << >> /\ ToldIn(a \o u) = T
  BY <1>2, <1>3, <1>4, BlockOf
<1> QED BY <1>5, <1>6 DEF T

LEMMA EcmpReportFacts ==
  ASSUME wanted \in Traces, wanted.what \in {"profile", "ecmp"}
  PROVE  /\ EcmpReport \in Seq(PacketTokens) /\ ToldIn(EcmpReport) = UNION {EcmpBlockTells(p) : p \in wanted.ports}
         /\ Parseable => EcmpReport \in ValueTexts(PacketTokens)
<1> DEFINE set == wanted.ports
           f == [p \in set |-> EcmpBlock(p)]
           r == EcmpReport
<1>1. r = Back(EachOf(set, f))
  <2>1. Cardinality(set) \in Nat /\ \A i \in 1 .. Cardinality(set) : SetToSeq(set)[i] \in set
    <3>1. IsFiniteSet(set)
      BY TraceFacts
    <3> HIDE DEF set
    <3> QED BY <3>1, Enumeration
  <2>2. [i \in 1 .. Cardinality(set) |-> f[SetToSeq(set)[i]]] = [i \in 1 .. Cardinality(set) |-> EcmpBlock(SetToSeq(set)[i])]
    BY <2>1
  <2> HIDE DEF f
  <2> QED BY <2>2 DEF EcmpReport, Each, EachOf, EcmpBlock
<1>2. ASSUME NEW p \in set PROVE f[p] \in Lists /\ f[p] # << >> /\ ToldIn(f[p]) = EcmpBlockTells(p)
  BY EcmpBlockFacts
<1>3. f \in [set -> Lists]
  BY <1>2
<1> HIDE DEF f, r
<1>4. /\ r \in Seq(PacketTokens) /\ ToldIn(r) = UNION {ToldIn(f[p]) : p \in set}
      /\ Parseable => r \in ValueTexts(PacketTokens)
  BY <1>1, <1>2, <1>3, ReportOf
<1>5. UNION {ToldIn(f[p]) : p \in set} = UNION {EcmpBlockTells(p) : p \in set}
  BY <1>2
<1> QED BY <1>4, <1>5 DEF r

\* What a profile tells of a port.
ProfileBlockTells(p) == {Telling("port", p, "none")} \cup {Telling("realm", "none", "none")} \cup LagTells(p) \cup EcmpTells(p) \cup LinkTells(p)

\* The block of a port in a report of its profile.
ProfileBlock(p) ==
  Text(<<"{">>) \o Field("port", p, "none") \o Text(<<",", "[">>) \o Text(<<"{">>) \o Name("realm") \o Text(<<",">>) \o EncodeProfileLag(p) \o Text(<<",">>) \o Text(<<"{">>) \o Name("realm") \o Text(<<",", "[">>) \o EncodeProfileEcmp(p) \o Text(<<"]", "}", ",">>) \o Text(<<"{">>) \o Name("realm") \o Text(<<",">>) \o EncodeProfileLink(p) \o Text(<<"]", "}", "]", "}", ",">>)

LEMMA ProfileBlockFacts ==
  ASSUME wanted \in Traces, wanted.what \in {"profile", "ecmp"}, NEW p \in wanted.ports
  PROVE  ProfileBlock(p) \in Lists /\ ProfileBlock(p) # << >> /\ ToldIn(ProfileBlock(p)) = ProfileBlockTells(p)
<1> DEFINE T == ProfileBlockTells(p)
           a == Text(<<"{">>) \o Field("port", p, "none") \o Text(<<",", "[">>) \o Text(<<"{">>) \o Name("realm") \o Text(<<",">>) \o EncodeProfileLag(p) \o Text(<<",">>) \o Text(<<"{">>) \o Name("realm") \o Text(<<",", "[">>) \o EncodeProfileEcmp(p) \o Text(<<"]", "}", ",">>) \o Text(<<"{">>) \o Name("realm") \o Text(<<",">>) \o EncodeProfileLink(p)
           w == Text(<<"]", "}", "]", "}">>)
           u == Text(<<"]", "}", "]", "}", ",">>)
<1>1. p \in Ports /\ "none" \in Shownable
  BY TraceFacts, NoneFacts
<1>2. ASSUME NEW x \in Inner PROVE a \in Seq(PacketTokens) /\ a \o w \in Parts(x, Ready, x, Done, T)
  <2>1. Obj(x) \in Inner /\ Lst(Obj(x)) \in Inner /\ Obj(Lst(Obj(x))) \in Inner /\ Lst(Obj(Lst(Obj(x)))) \in Inner
    BY StackFacts
  <2> DEFINE q1 == Text(<<"{">>)
             q2 == q1 \o Field("port", p, "none")
             q3 == q2 \o Text(<<",", "[">>)
             q4 == q3 \o Text(<<"{">>)
             q5 == q4 \o Name("realm")
             q6 == q5 \o Text(<<",">>)
             q7 == q6 \o EncodeProfileLag(p)
             q8 == q7 \o Text(<<",">>)
             q9 == q8 \o Text(<<"{">>)
             q10 == q9 \o Name("realm")
             q11 == q10 \o Text(<<",", "[">>)
             q12 == q11 \o EncodeProfileEcmp(p)
             q13 == q12 \o Text(<<"]", "}", ",">>)
             q14 == q13 \o Text(<<"{">>)
             q15 == q14 \o Name("realm")
             q16 == q15 \o Text(<<",">>)
             q17 == q16 \o EncodeProfileLink(p)
             q18 == q17 \o Text(<<"]", "}", "]", "}">>)
  <2>2. /\ Text(<<"{">>) \in Parts(x, Ready, Obj(x), Ready, {})
        /\ Text(<<"{">>) \in Parts(Lst(Obj(x)), Ready, Obj(Lst(Obj(x))), Ready, {})
    BY <1>1, <2>1, OnePart
  <2>3. Field("port", p, "none") \in Parts(Obj(x), Ready, Obj(x), Done, {Telling("port", p, "none")})
    BY <1>1, <2>1, KindFacts, FieldTells
  <2>4. /\ Text(<<",", "[">>) \in Parts(Obj(x), Done, Lst(Obj(x)), AtList, {})
        /\ Text(<<",", "[">>) \in Parts(Obj(Lst(Obj(x))), Done, Lst(Obj(Lst(Obj(x)))), AtList, {})
        /\ Text(<<"]", "}", ",">>) \in Parts(Lst(Obj(Lst(Obj(x)))), Empty, Lst(Obj(x)), Ready, {})
        /\ Text(<<"]", "}", "]", "}">>) \in Parts(Lst(Obj(Lst(Obj(x)))), Empty, x, Done, {})
    BY <1>1, <2>1, Templates
  <2>5. Name("realm") \in Parts(Obj(Lst(Obj(x))), Ready, Obj(Lst(Obj(x))), Done, {Telling("realm", "none", "none")})
    BY <1>1, <2>1, KindFacts, NameTells
  <2>6. /\ Text(<<",">>) \in Parts(Obj(Lst(Obj(x))), Done, Obj(Lst(Obj(x))), Ready, {})
        /\ Text(<<",">>) \in Parts(Lst(Obj(x)), Done, Lst(Obj(x)), Ready, {})
    BY <1>1, <2>1, OnePart DEF Comma
  <2>7. EncodeProfileLag(p) \in Parts(Obj(Lst(Obj(x))), Ready, Lst(Obj(x)), Done, LagTells(p))
    BY <1>1, <2>1, LagPart
  <2>8. EncodeProfileEcmp(p) \in Parts(Lst(Obj(Lst(Obj(x)))), Ready, Lst(Obj(Lst(Obj(x)))), Done, EcmpTells(p))
    BY <1>1, <2>1, EcmpPart
  <2>9. EncodeProfileLink(p) \in Parts(Obj(Lst(Obj(x))), Ready, Lst(Obj(Lst(Obj(x)))), Empty, LinkTells(p))
    BY <1>1, <2>1, LinkPart
  <2> HIDE DEF q1, q2, q3, q4, q5, q6, q7, q8, q9, q10, q11, q12, q13, q14, q15, q16, q17, q18
  <2>10. q1 \in Parts(x, Ready, Obj(x), Ready, {})
    BY <2>2 DEF q1
  <2>11. q2 \in Parts(x, Ready, Obj(x), Done, {Telling("port", p, "none")})
    BY <2>10, <2>3, AfterFacts, PartFirst DEF q2
  <2>12. q3 \in Parts(x, Ready, Lst(Obj(x)), AtList, {Telling("port", p, "none")})
    BY <2>11, <2>4, PartNext DEF q3
  <2>13. q4 \in Parts(x, Ready, Obj(Lst(Obj(x))), Ready, {Telling("port", p, "none")})
    BY <2>12, <2>2, AfterFacts, PartMore DEF q4
  <2>14. q5 \in Parts(x, Ready, Obj(Lst(Obj(x))), Done, ({Telling("port", p, "none")} \cup {Telling("realm", "none", "none")}))
    BY <2>13, <2>5, AfterFacts, PartJoin DEF q5
  <2>15. q6 \in Parts(x, Ready, Obj(Lst(Obj(x))), Ready, ({Telling("port", p, "none")} \cup {Telling("realm", "none", "none")}))
    BY <2>14, <2>6, PartNext DEF q6
  <2>16. q7 \in Parts(x, Ready, Lst(Obj(x)), Done, (({Telling("port", p, "none")} \cup {Telling("realm", "none", "none")}) \cup LagTells(p)))
    BY <2>15, <2>7, AfterFacts, PartJoin DEF q7
  <2>17. q8 \in Parts(x, Ready, Lst(Obj(x)), Ready, (({Telling("port", p, "none")} \cup {Telling("realm", "none", "none")}) \cup LagTells(p)))
    BY <2>16, <2>6, PartNext DEF q8
  <2>18. q9 \in Parts(x, Ready, Obj(Lst(Obj(x))), Ready, (({Telling("port", p, "none")} \cup {Telling("realm", "none", "none")}) \cup LagTells(p)))
    BY <2>17, <2>2, PartNext DEF q9
  <2>19. q10 \in Parts(x, Ready, Obj(Lst(Obj(x))), Done, ((({Telling("port", p, "none")} \cup {Telling("realm", "none", "none")}) \cup LagTells(p)) \cup {Telling("realm", "none", "none")}))
    BY <2>18, <2>5, AfterFacts, PartJoin DEF q10
  <2>20. q11 \in Parts(x, Ready, Lst(Obj(Lst(Obj(x)))), AtList, ((({Telling("port", p, "none")} \cup {Telling("realm", "none", "none")}) \cup LagTells(p)) \cup {Telling("realm", "none", "none")}))
    BY <2>19, <2>4, PartNext DEF q11
  <2>21. q12 \in Parts(x, Ready, Lst(Obj(Lst(Obj(x)))), Done, (((({Telling("port", p, "none")} \cup {Telling("realm", "none", "none")}) \cup LagTells(p)) \cup {Telling("realm", "none", "none")}) \cup EcmpTells(p)))
    BY <2>20, <2>8, AfterFacts, PartJoin DEF q12
  <2>22. q13 \in Parts(x, Ready, Lst(Obj(x)), Ready, (((({Telling("port", p, "none")} \cup {Telling("realm", "none", "none")}) \cup LagTells(p)) \cup {Telling("realm", "none", "none")}) \cup EcmpTells(p)))
    BY <2>21, <2>4, AfterFacts, PartMore DEF q13
  <2>23. q14 \in Parts(x, Ready, Obj(Lst(Obj(x))), Ready, (((({Telling("port", p, "none")} \cup {Telling("realm", "none", "none")}) \cup LagTells(p)) \cup {Telling("realm", "none", "none")}) \cup EcmpTells(p)))
    BY <2>22, <2>2, PartNext DEF q14
  <2>24. q15 \in Parts(x, Ready, Obj(Lst(Obj(x))), Done, ((((({Telling("port", p, "none")} \cup {Telling("realm", "none", "none")}) \cup LagTells(p)) \cup {Telling("realm", "none", "none")}) \cup EcmpTells(p)) \cup {Telling("realm", "none", "none")}))
    BY <2>23, <2>5, AfterFacts, PartJoin DEF q15
  <2>25. q16 \in Parts(x, Ready, Obj(Lst(Obj(x))), Ready, ((((({Telling("port", p, "none")} \cup {Telling("realm", "none", "none")}) \cup LagTells(p)) \cup {Telling("realm", "none", "none")}) \cup EcmpTells(p)) \cup {Telling("realm", "none", "none")}))
    BY <2>24, <2>6, PartNext DEF q16
  <2>26. q17 \in Parts(x, Ready, Lst(Obj(Lst(Obj(x)))), Empty, (((((({Telling("port", p, "none")} \cup {Telling("realm", "none", "none")}) \cup LagTells(p)) \cup {Telling("realm", "none", "none")}) \cup EcmpTells(p)) \cup {Telling("realm", "none", "none")}) \cup LinkTells(p)))
    BY <2>25, <2>9, AfterFacts, PartJoin DEF q17
  <2>27. q18 \in Parts(x, Ready, x, Done, (((((({Telling("port", p, "none")} \cup {Telling("realm", "none", "none")}) \cup LagTells(p)) \cup {Telling("realm", "none", "none")}) \cup EcmpTells(p)) \cup {Telling("realm", "none", "none")}) \cup LinkTells(p)))
    BY <2>26, <2>4, PartNext DEF q18
  <2>28. T = (((((({Telling("port", p, "none")} \cup {Telling("realm", "none", "none")}) \cup LagTells(p)) \cup {Telling("realm", "none", "none")}) \cup EcmpTells(p)) \cup {Telling("realm", "none", "none")}) \cup LinkTells(p))
    BY DEF T, ProfileBlockTells
  <2>29. a = q17 /\ a \o w = q18
    BY DEF q1, q2, q3, q4, q5, q6, q7, q8, q9, q10, q11, q12, q13, q14, q15, q16, q17, q18
  <2>30. q17 \in Seq(PacketTokens)
    BY <2>26, PartIn
  <2> HIDE DEF T, a, w
  <2> QED BY <2>27, <2>28, <2>29, <2>30
<1>3. a \in Seq(PacketTokens)
  <2> HIDE DEF a, w, T
  <2> QED BY <1>2, SomeStack
<1>4. w \in Seq(PacketTokens) /\ u = w \o Comma
  BY ItemEnds
<1>5. ProfileBlock(p) = a \o u
  BY DEF ProfileBlock
<1> HIDE DEF T, a, u, w
<1>6. a \o u \in Lists /\ a \o u # << >> /\ ToldIn(a \o u) = T
  BY <1>2, <1>3, <1>4, BlockOf
<1> QED BY <1>5, <1>6 DEF T

LEMMA ProfileReportFacts ==
  ASSUME wanted \in Traces, wanted.what \in {"profile", "ecmp"}
  PROVE  /\ ProfileReport \in Seq(PacketTokens) /\ ToldIn(ProfileReport) = UNION {ProfileBlockTells(p) : p \in wanted.ports}
         /\ Parseable => ProfileReport \in ValueTexts(PacketTokens)
<1> DEFINE set == wanted.ports
           f == [p \in set |-> ProfileBlock(p)]
           r == ProfileReport
<1>1. r = Back(EachOf(set, f))
  <2>1. Cardinality(set) \in Nat /\ \A i \in 1 .. Cardinality(set) : SetToSeq(set)[i] \in set
    <3>1. IsFiniteSet(set)
      BY TraceFacts
    <3> HIDE DEF set
    <3> QED BY <3>1, Enumeration
  <2>2. [i \in 1 .. Cardinality(set) |-> f[SetToSeq(set)[i]]] = [i \in 1 .. Cardinality(set) |-> ProfileBlock(SetToSeq(set)[i])]
    BY <2>1
  <2> HIDE DEF f
  <2> QED BY <2>2 DEF ProfileReport, Each, EachOf, ProfileBlock
<1>2. ASSUME NEW p \in set PROVE f[p] \in Lists /\ f[p] # << >> /\ ToldIn(f[p]) = ProfileBlockTells(p)
  BY ProfileBlockFacts
<1>3. f \in [set -> Lists]
  BY <1>2
<1> HIDE DEF f, r
<1>4. /\ r \in Seq(PacketTokens) /\ ToldIn(r) = UNION {ToldIn(f[p]) : p \in set}
      /\ Parseable => r \in ValueTexts(PacketTokens)
  BY <1>1, <1>2, <1>3, ReportOf
<1>5. UNION {ToldIn(f[p]) : p \in set} = UNION {ProfileBlockTells(p) : p \in set}
  BY <1>2
<1> QED BY <1>4, <1>5 DEF r

(***************************************************************************)
(* The documents around it.                                                *)
(***************************************************************************)
\* The outermost object of a document.
Root == Obj(<< >>)

\* Before a document and after it.
Start == {"start"}
Finish == {"]", "}"}

LEMMA RootFacts ==
  /\ Root \in Inner /\ Lst(Root) \in Inner /\ Obj(Root) \in Inner /\ Lst(Obj(Root)) \in Inner /\ Obj(Lst(Root)) \in Inner
  /\ Obj(Obj(Root)) \in Inner /\ Obj(Lst(Obj(Root))) \in Inner /\ Obj(Obj(Obj(Root))) \in Inner
  /\ Text(<<"{">>) \in Parts(<< >>, Start, Root, Ready, {})
  /\ Text(<<"}">>) \in Parts(Root, Done, << >>, Finish, {})
<1> DEFINE S == PacketTokens
           o == Token("{")
           c == Token("}")
<1>1. /\ o \in S /\ o.t = "{" /\ Text(<<"{">>) = <<o>> /\ c \in S /\ c.t = "}" /\ Text(<<"}">>) = <<c>>
  BY PacketAlphabet, TokenIn DEF Names
<1>2. /\ Text(<<"{">>) \in Seq(S) /\ Text(<<"}">>) \in Seq(S)
  BY TemplatesIn DEF Names
<1>3. /\ ToldIn(Text(<<"{">>)) = {} /\ ToldIn(Text(<<"}">>)) = {}
  BY PacketAlphabet, ToldTexts DEF Names
<1>4. o.t \in {"{", "["} /\ c.t = Closing["{"]
  BY <1>1 DEF Closing
<1> HIDE DEF S, o, c
<1>5. <<o>> \in Paths(S, << >>, {"start"}, Push(<< >>, o.t), {o.t}) /\ Push(<< >>, o.t) \in Inner
  BY <1>1, <1>4, FirstPath
<1>6. <<c>> \in Paths(S, Push(<< >>, "{"), Done, << >>, {c.t})
  <2> DEFINE b == "{"
  <2>1. b \in {"{", "["} /\ c.t = Closing[b]
    BY <1>4
  <2> HIDE DEF b
  <2>2. <<c>> \in Paths(S, Push(<< >>, b), Done, << >>, {c.t})
    BY <1>1, <2>1, LastPath
  <2> QED BY <2>2 DEF b
<1>7. Root \in Inner
  BY <1>1, <1>5 DEF Root, Obj
<1>8. Text(<<"{">>) \in Parts(<< >>, Start, Root, Ready, {})
  <2>1. {"start"} \subseteq Start /\ {o.t} \subseteq Ready
    BY <1>1 DEF Start, Ready
  <2>2. <<o>> \in Paths(S, << >>, Start, Push(<< >>, o.t), Ready)
    <3>1. Start \subseteq {"start"}
      BY DEF Start
    <3> QED BY <1>5, <2>1, <3>1, PathWider
  <2> QED BY <1>1, <1>2, <1>3, <2>2 DEF Parts, Root, Obj, S
<1>9. Text(<<"}">>) \in Parts(Root, Done, << >>, Finish, {})
  <2>1. Done \subseteq Done /\ {c.t} \subseteq Finish
    BY <1>1 DEF Finish
  <2>2. <<c>> \in Paths(S, Push(<< >>, "{"), Done, << >>, Finish)
    BY <1>6, <2>1, PathWider
  <2> QED BY <1>1, <1>2, <1>3, <2>2 DEF Parts, Root, Obj, S
<1> QED BY <1>7, <1>8, <1>9, StackFacts

LEMMA EndOfTwo == Text(<<"}", "}">>) \in Parts(Obj(Root), Done, << >>, Finish, {})
<1>1. Text(<<"}", "}">>) = Text(<<"}">>) \o Text(<<"}">>)
  BY TextJoined2
<1>2. Text(<<"}">>) \in Parts(Obj(Root), Done, Root, Done, {}) /\ Text(<<"}">>) \in Parts(Root, Done, << >>, Finish, {})
  BY RootFacts, OnePart
<1>3. Text(<<"}">>) \o Text(<<"}">>) \in Parts(Obj(Root), Done, << >>, Finish, {})
  BY <1>2, PartNext
<1> QED BY <1>1, <1>3

\* A whole document.
LEMMA DocumentPart ==
  ASSUME NEW T, NEW m \in Parts(<< >>, Start, << >>, Finish, T)
  PROVE  ToldIn(m) = T /\ (Parseable => IsWellFormed(m))
<1> DEFINE S == PacketTokens
<1>1. m \in Seq(S) /\ ToldIn(m) = T /\ (Parseable => m \in Paths(S, << >>, {"start"}, << >>, {"]", "}"}))
  BY DEF Parts, Start, Finish
<1> HIDE DEF S
<1>2. ASSUME Parseable PROVE IsWellFormed(m)
  <2>1. m \in Paths(S, << >>, {"start"}, << >>, {"]", "}"})
    BY <1>1, <1>2
  <2> QED BY <2>1, WellFormedPath
<1> QED BY <1>1, <1>2

\* Stepping back after an opening bracket and a space: over the space, or over the comma of the last item.
LEMMA OpenPart ==
  ASSUME NEW x \in Inner, NEW l \in Lists
  PROVE  Back(Text(<<"[", " ">>) \o l) \in Parts(x, Ready, Lst(x), Empty, ToldIn(l))
<1> DEFINE m == Text(<<"[", " ">>)
           y == Lst(x)
           T == {}
<1>1. m \in Parts(x, Ready, y, AtList, T) /\ y \in Inner /\ m \in Seq(PacketTokens)
  <2>1. m \in Parts(x, Ready, y, AtList, T) /\ y \in Inner
    BY Templates, StackFacts
  <2> HIDE DEF m, y, T
  <2> QED BY <2>1, PartIn
<1>2. CASE l # << >>
  <2> HIDE DEF m, y, T
  <2>1. (IF l = << >> THEN m ELSE Back(m \o l)) \in Parts(x, Ready, y, Empty, T \cup ToldIn(l))
    BY <1>1, ListAfter
  <2> QED BY <1>2, <2>1 DEF m, y, T
<1>3. CASE l = << >>
  <2>1. Text(<<"[">>) \in Parts(x, Ready, y, AtList, {})
    BY OnePart
  <2>2. Text(<<"[">>) \in Parts(x, Ready, y, Empty, {})
    <3>1. AtList \subseteq Empty /\ Ready \subseteq Ready
      BY DEF Empty
    <3> HIDE DEF y
    <3> QED BY <2>1, <3>1, PartWider
  <2>3. Token(" ") \in PacketTokens /\ Text(<<" ">>) = <<Token(" ")>>
    BY PacketAlphabet, TokenIn DEF Names
  <2>4. m = Text(<<"[">>) \o <<Token(" ")>>
    BY <2>3, TextJoined2
  <2>5. Text(<<"[">>) \in Seq(PacketTokens)
    BY <2>1, PartIn
  <2>6. m \o l = m
    <3> HIDE DEF m
    <3> QED BY <1>1, <1>3
  <2>7. Back(m \o l) = Text(<<"[">>)
    <3> DEFINE a == Text(<<"[">>)
               b == Token(" ")
    <3>1. a \in Seq(PacketTokens) /\ b \in PacketTokens /\ m \o l = a \o <<b>>
      BY <2>3, <2>4, <2>5, <2>6
    <3> HIDE DEF a, b, m
    <3>2. Back(a \o <<b>>) = a
      BY <3>1, BackOne
    <3> QED BY <3>1, <3>2 DEF a
  <2>8. ToldIn(l) = {}
    BY <1>3, ToldNone
  <2> QED BY <2>2, <2>7, <2>8
<1> QED BY <1>2, <1>3

\* A list of ports.
LEMMA PortsFacts ==
  ASSUME wanted.ports \in SUBSET TracePorts, NEW kind \in PacketKinds, NEW x \in Inner
  PROVE  PortsOf(kind) \in Parts(x, Ready, x, Done, {Telling(kind, "none", v) : v \in wanted.ports})
<1> DEFINE l == Listed(kind, "none", wanted.ports)
           b == Back(Text(<<"[", " ">>) \o l)
           T == {Telling(kind, "none", v) : v \in wanted.ports}
           c == Text(<<"]">>)
<1>1. l \in Lists /\ ToldIn(l) = T
  <2> DEFINE set == wanted.ports
             port == "none"
  <2>1. set \in SUBSET Shownable /\ IsFiniteSet(set) /\ port \in Ports
    BY PacketDocumentsAssumption, FS_Subset, NoneFacts
  <2> HIDE DEF set, port
  <2>2. Listed(kind, port, set) \in Lists /\ ToldIn(Listed(kind, port, set)) = {Telling(kind, port, v) : v \in set}
    BY <2>1, ListedFacts
  <2> QED BY <2>2 DEF set, port
<1>2. PortsOf(kind) = b \o c
  BY DEF PortsOf
<1> HIDE DEF l
<1>3. b \in Parts(x, Ready, Lst(x), Empty, T)
  <2>1. b \in Parts(x, Ready, Lst(x), Empty, ToldIn(l))
    BY <1>1, OpenPart
  <2> QED BY <1>1, <2>1
<1>4. c \in Parts(Lst(x), Empty, x, Done, {})
  BY OnePart
<1> HIDE DEF b, T, c
<1>5. b \o c \in Parts(x, Ready, x, Done, T)
  BY <1>3, <1>4, PartNext
<1> QED BY <1>2, <1>5 DEF T

\* The features of the agent, if it has any.
LEMMA FeaturesPart ==
  ASSUME wanted.features \in SUBSET Features, NEW x \in Inner
  PROVE  FeatureList \in Parts(x, AtList, x, Empty, {Telling("feature", "none", v) : v \in wanted.features})
<1> DEFINE set == wanted.features
           kind == "feature"
           port == "none"
           l == Listed(kind, port, set)
           T == {Telling(kind, port, v) : v \in set}
           m == << >>
           U == {}
<1>1. set \in SUBSET Shownable /\ IsFiniteSet(set) /\ port \in Ports /\ kind \in PacketKinds
  <2>1. IsFiniteSet(Features)
    <3>1. IsFiniteSet({"BST"})
      <4>1. IsFiniteSet({}) /\ {"BST"} = {} \cup {"BST"}
        BY FS_EmptySet
      <4> QED BY <4>1, FS_AddElement
    <3>2. IsFiniteSet({"BST"} \cup {"PT"})
      BY <3>1, FS_AddElement
    <3>3. IsFiniteSet(({"BST"} \cup {"PT"}) \cup {"Live-PT"})
      BY <3>2, FS_AddElement
    <3>4. IsFiniteSet((({"BST"} \cup {"PT"}) \cup {"Live-PT"}) \cup {"BHD"})
      BY <3>3, FS_AddElement
    <3>5. Features = (({"BST"} \cup {"PT"}) \cup {"Live-PT"}) \cup {"BHD"}
      BY DEF Features
    <3> QED BY <3>4, <3>5
  <2> QED BY <2>1, FS_Subset, NoneFacts, KindFacts
<1>2. l \in Lists /\ ToldIn(l) = T /\ (set = {} <=> l = << >>)
  <2> HIDE DEF set, port, kind
  <2> QED BY <1>1, ListedFacts
<1>3. FeatureList = IF l = << >> THEN m ELSE Back(l)
  BY <1>2 DEF FeatureList
<1> HIDE DEF l, T
<1>4. m \o l = l
  BY <1>2 DEF Lists
<1>5. m \in Parts(x, AtList, x, AtList, U)
  BY PathNone, ToldNone, NothingIn DEF Parts
<1> HIDE DEF m, U
<1>6. (IF l = << >> THEN m ELSE Back(m \o l)) \in Parts(x, AtList, x, Empty, U \cup ToldIn(l))
  BY <1>2, <1>5, ListAfter
<1> QED BY <1>2, <1>3, <1>4, <1>6 DEF T, U

\* What a trace says of the ports.
TraceReport == CASE wanted.what = "profile" -> ProfileReport
                 [] wanted.what = "lag" -> LagReport
                 [] wanted.what = "ecmp" -> EcmpReport
BlockTells(p) == IF wanted.what = "profile" THEN ProfileBlockTells(p)
                 ELSE IF wanted.what = "lag" THEN LagBlockTells(p) ELSE EcmpBlockTells(p)
TraceTells == UNION {BlockTells(p) : p \in wanted.ports}

\* The report of a trace, and the documents around it.
LEMMA TracePart ==
  ASSUME wanted \in Traces, NEW x \in Inner
  PROVE  TraceReport \in Parts(x, Ready, x, Done, TraceTells)
<1> DEFINE r == TraceReport
<1>1. r \in Seq(PacketTokens) /\ ToldIn(r) = TraceTells /\ (Parseable => r \in ValueTexts(PacketTokens))
  <2>1. CASE wanted.what = "lag"
    <3>1. r = LagReport /\ TraceTells = UNION {LagBlockTells(p) : p \in wanted.ports}
      BY <2>1 DEF TraceReport, TraceTells, BlockTells
    <3> QED BY <3>1, LagReportFacts
  <2>2. CASE wanted.what = "ecmp"
    <3>1. r = EcmpReport /\ TraceTells = UNION {EcmpBlockTells(p) : p \in wanted.ports}
      BY <2>2 DEF TraceReport, TraceTells, BlockTells
    <3> QED BY <2>2, <3>1, EcmpReportFacts
  <2>3. CASE wanted.what = "profile"
    <3>1. r = ProfileReport /\ TraceTells = UNION {ProfileBlockTells(p) : p \in wanted.ports}
      BY <2>3 DEF TraceReport, TraceTells, BlockTells
    <3> QED BY <2>3, <3>1, ProfileReportFacts
  <2> QED BY <2>1, <2>2, <2>3, TraceFacts
<1> HIDE DEF r
<1>2. r \in Parts(x, Ready, x, Done, ToldIn(r))
  BY <1>1, ValuePart
<1>3. r \in Parts(x, Ready, x, Done, TraceTells)
  BY <1>1, <1>2
<1> QED BY <1>3 DEF r

\* A document of packet trace.
TraceDocumentTells == ((({Telling("method", "none", "none")} \cup {Telling("packet", "none", "none")}) \cup TraceTells) \cup {Telling("id", "none", "none")})

LEMMA ProfileDocument ==
  ASSUME wanted \in Traces
  PROVE  EncodePtProfile \in Parts(<< >>, Start, << >>, Finish, TraceDocumentTells)
<1>1. /\ Root \in Inner /\ Lst(Root) \in Inner /\ Obj(Root) \in Inner /\ Lst(Obj(Root)) \in Inner /\ Obj(Lst(Root)) \in Inner
      /\ Obj(Obj(Root)) \in Inner /\ Obj(Lst(Obj(Root))) \in Inner /\ Obj(Obj(Obj(Root))) \in Inner
  BY RootFacts
<1>2. TraceReport \in Parts(Lst(Root), Ready, Lst(Root), Done, TraceTells)
  BY <1>1, TracePart
<1> DEFINE q1 == Text(<<"{">>)
           q2 == q1 \o Name("method")
           q3 == q2 \o Text(<<",", "[", "{">>)
           q4 == q3 \o Name("packet")
           q5 == q4 \o Text(<<"}", "]", ",", "[">>)
           q6 == q5 \o TraceReport
           q7 == q6 \o Text(<<"]", ",">>)
           q8 == q7 \o Name("id")
           q9 == q8 \o Text(<<"}">>)
<1>3. /\ Text(<<"{">>) \in Parts(<< >>, Start, Root, Ready, {})
      /\ Text(<<"}">>) \in Parts(Root, Done, << >>, Finish, {})
  BY <1>1, RootFacts
<1>4. /\ Name("method") \in Parts(Root, Ready, Root, Done, {Telling("method", "none", "none")})
      /\ Name("packet") \in Parts(Obj(Lst(Root)), Ready, Obj(Lst(Root)), Done, {Telling("packet", "none", "none")})
      /\ Name("id") \in Parts(Root, Ready, Root, Done, {Telling("id", "none", "none")})
  BY <1>1, KindFacts, NameTells
<1>5. /\ Text(<<",", "[", "{">>) \in Parts(Root, Done, Obj(Lst(Root)), Ready, {})
      /\ Text(<<"}", "]", ",", "[">>) \in Parts(Obj(Lst(Root)), Done, Lst(Root), AtList, {})
      /\ Text(<<"]", ",">>) \in Parts(Lst(Root), Empty, Root, Ready, {})
  BY <1>1, Templates
<1> HIDE DEF q1, q2, q3, q4, q5, q6, q7, q8, q9
<1>6. q1 \in Parts(<< >>, Start, Root, Ready, {})
  BY <1>3 DEF q1
<1>7. q2 \in Parts(<< >>, Start, Root, Done, {Telling("method", "none", "none")})
  BY <1>6, <1>4, AfterFacts, PartFirst DEF q2
<1>8. q3 \in Parts(<< >>, Start, Obj(Lst(Root)), Ready, {Telling("method", "none", "none")})
  BY <1>7, <1>5, PartNext DEF q3
<1>9. q4 \in Parts(<< >>, Start, Obj(Lst(Root)), Done, ({Telling("method", "none", "none")} \cup {Telling("packet", "none", "none")}))
  BY <1>8, <1>4, AfterFacts, PartJoin DEF q4
<1>10. q5 \in Parts(<< >>, Start, Lst(Root), AtList, ({Telling("method", "none", "none")} \cup {Telling("packet", "none", "none")}))
  BY <1>9, <1>5, PartNext DEF q5
<1>11. q6 \in Parts(<< >>, Start, Lst(Root), Done, (({Telling("method", "none", "none")} \cup {Telling("packet", "none", "none")}) \cup TraceTells))
  BY <1>10, <1>2, AfterFacts, PartJoin DEF q6
<1>12. q7 \in Parts(<< >>, Start, Root, Ready, (({Telling("method", "none", "none")} \cup {Telling("packet", "none", "none")}) \cup TraceTells))
  BY <1>11, <1>5, AfterFacts, PartMore DEF q7
<1>13. q8 \in Parts(<< >>, Start, Root, Done, ((({Telling("method", "none", "none")} \cup {Telling("packet", "none", "none")}) \cup TraceTells) \cup {Telling("id", "none", "none")}))
  BY <1>12, <1>4, AfterFacts, PartJoin DEF q8
<1>14. q9 \in Parts(<< >>, Start, << >>, Finish, ((({Telling("method", "none", "none")} \cup {Telling("packet", "none", "none")}) \cup TraceTells) \cup {Telling("id", "none", "none")}))
  BY <1>13, <1>3, PartNext DEF q9
<1> QED BY <1>14 DEF EncodePtProfile, q1, q2, q3, q4, q5, q6, q7, q8, q9, TraceDocumentTells, TraceReport

\* The parameters of sampling, or the mirror.
Sampling == IF wanted.method = "agent" THEN Name("params")
            ELSE Text(<<"{">>) \o Name("encap") \o Text(<<"}", ",">>) \o Name("mirror")

\* The parameters of sampling.
SamplingTells == IF wanted.method = "agent" THEN {Telling("params", "none", "none")}
                 ELSE {Telling("encap", "none", "none")} \cup {Telling("mirror", "none", "none")}

LEMMA SamplingPart == ASSUME NEW x \in Inner PROVE Sampling \in Parts(x, Ready, x, Done, SamplingTells)
<1>1. Obj(x) \in Inner
  BY StackFacts
<1>2. CASE wanted.method = "agent"
  <2>1. Name("params") \in Parts(x, Ready, x, Done, {Telling("params", "none", "none")})
    BY KindFacts, NameTells
  <2> QED BY <1>2, <2>1 DEF Sampling, SamplingTells
<1>3. CASE wanted.method # "agent"
  <2> DEFINE q1 == Text(<<"{">>)
             q2 == q1 \o Name("encap")
             q3 == q2 \o Text(<<"}", ",">>)
             q4 == q3 \o Name("mirror")
  <2>1. Text(<<"{">>) \in Parts(x, Ready, Obj(x), Ready, {})
    BY <1>1, OnePart
  <2>2. /\ Name("encap") \in Parts(Obj(x), Ready, Obj(x), Done, {Telling("encap", "none", "none")})
        /\ Name("mirror") \in Parts(x, Ready, x, Done, {Telling("mirror", "none", "none")})
    BY <1>1, KindFacts, NameTells
  <2>3. Text(<<"}", ",">>) \in Parts(Obj(x), Done, x, Ready, {})
    BY <1>1, Templates
  <2> HIDE DEF q1, q2, q3, q4
  <2>4. q1 \in Parts(x, Ready, Obj(x), Ready, {})
    BY <2>1 DEF q1
  <2>5. q2 \in Parts(x, Ready, Obj(x), Done, {Telling("encap", "none", "none")})
    BY <2>4, <2>2, AfterFacts, PartFirst DEF q2
  <2>6. q3 \in Parts(x, Ready, x, Ready, {Telling("encap", "none", "none")})
    BY <2>5, <2>3, PartNext DEF q3
  <2>7. q4 \in Parts(x, Ready, x, Done, ({Telling("encap", "none", "none")} \cup {Telling("mirror", "none", "none")}))
    BY <2>6, <2>2, AfterFacts, PartJoin DEF q4
  <2> QED BY <1>3, <2>7 DEF Sampling, SamplingTells, q1, q2, q3, q4
<1> QED BY <1>2, <1>3

LEMMA BlackHoleFacts == ASSUME wanted \in BlackHoles PROVE wanted.ports \in SUBSET TracePorts
  BY DEF BlackHoles

\* What the documents of black hole detection and of the agent tell.
DestTells == {Telling("dest", "none", v) : v \in wanted.ports}
StatusList ==
  Back(Text(<<"[", " ">>) \o Each(wanted.ports, LAMBDA p : Text(<<"{">>) \o Field("dest", "none", p) \o Text(<<"}", ",">>)))
FeatureTells == {Telling("feature", "none", v) : v \in wanted.features}

\* A request or a report of sampling.
BlackHoleTells == (((({Telling("method", "none", "none")} \cup DestTells) \cup {Telling("sampling", "none", "none")}) \cup SamplingTells) \cup {Telling("id", "none", "none")})

LEMMA BlackHoleDocument ==
  ASSUME wanted \in BlackHoles
  PROVE  EncodeBlackHole \in Parts(<< >>, Start, << >>, Finish, BlackHoleTells)
<1>1. /\ Root \in Inner /\ Lst(Root) \in Inner /\ Obj(Root) \in Inner /\ Lst(Obj(Root)) \in Inner /\ Obj(Lst(Root)) \in Inner
      /\ Obj(Obj(Root)) \in Inner /\ Obj(Lst(Obj(Root))) \in Inner /\ Obj(Obj(Obj(Root))) \in Inner
  BY RootFacts
<1>2. PortsOf("dest") \in Parts(Obj(Root), Ready, Obj(Root), Done, DestTells)
  BY <1>1, KindFacts, BlackHoleFacts, PortsFacts DEF DestTells
<1>3. Sampling \in Parts(Obj(Obj(Root)), Ready, Obj(Obj(Root)), Done, SamplingTells)
  BY <1>1, SamplingPart
<1> DEFINE q1 == Text(<<"{">>)
           q2 == q1 \o Name("method")
           q3 == q2 \o Text(<<",", "{">>)
           q4 == q3 \o PortsOf("dest")
           q5 == q4 \o Text(<<",">>)
           q6 == q5 \o Name("sampling")
           q7 == q6 \o Text(<<",", "{">>)
           q8 == q7 \o Sampling
           q9 == q8 \o Text(<<"}", "}", ",">>)
           q10 == q9 \o Name("id")
           q11 == q10 \o Text(<<"}">>)
<1>4. /\ Text(<<"{">>) \in Parts(<< >>, Start, Root, Ready, {})
      /\ Text(<<"}">>) \in Parts(Root, Done, << >>, Finish, {})
  BY <1>1, RootFacts
<1>5. /\ Name("method") \in Parts(Root, Ready, Root, Done, {Telling("method", "none", "none")})
      /\ Name("sampling") \in Parts(Obj(Root), Ready, Obj(Root), Done, {Telling("sampling", "none", "none")})
      /\ Name("id") \in Parts(Root, Ready, Root, Done, {Telling("id", "none", "none")})
  BY <1>1, KindFacts, NameTells
<1>6. /\ Text(<<",", "{">>) \in Parts(Root, Done, Obj(Root), Ready, {})
      /\ Text(<<",", "{">>) \in Parts(Obj(Root), Done, Obj(Obj(Root)), Ready, {})
      /\ Text(<<"}", "}", ",">>) \in Parts(Obj(Obj(Root)), Done, Root, Ready, {})
  BY <1>1, Templates
<1>7. Text(<<",">>) \in Parts(Obj(Root), Done, Obj(Root), Ready, {})
  BY <1>1, OnePart DEF Comma
<1> HIDE DEF q1, q2, q3, q4, q5, q6, q7, q8, q9, q10, q11
<1>8. q1 \in Parts(<< >>, Start, Root, Ready, {})
  BY <1>4 DEF q1
<1>9. q2 \in Parts(<< >>, Start, Root, Done, {Telling("method", "none", "none")})
  BY <1>8, <1>5, AfterFacts, PartFirst DEF q2
<1>10. q3 \in Parts(<< >>, Start, Obj(Root), Ready, {Telling("method", "none", "none")})
  BY <1>9, <1>6, PartNext DEF q3
<1>11. q4 \in Parts(<< >>, Start, Obj(Root), Done, ({Telling("method", "none", "none")} \cup DestTells))
  BY <1>10, <1>2, AfterFacts, PartJoin DEF q4
<1>12. q5 \in Parts(<< >>, Start, Obj(Root), Ready, ({Telling("method", "none", "none")} \cup DestTells))
  BY <1>11, <1>7, PartNext DEF q5
<1>13. q6 \in Parts(<< >>, Start, Obj(Root), Done, (({Telling("method", "none", "none")} \cup DestTells) \cup {Telling("sampling", "none", "none")}))
  BY <1>12, <1>5, AfterFacts, PartJoin DEF q6
<1>14. q7 \in Parts(<< >>, Start, Obj(Obj(Root)), Ready, (({Telling("method", "none", "none")} \cup DestTells) \cup {Telling("sampling", "none", "none")}))
  BY <1>13, <1>6, PartNext DEF q7
<1>15. q8 \in Parts(<< >>, Start, Obj(Obj(Root)), Done, ((({Telling("method", "none", "none")} \cup DestTells) \cup {Telling("sampling", "none", "none")}) \cup SamplingTells))
  BY <1>14, <1>3, AfterFacts, PartJoin DEF q8
<1>16. q9 \in Parts(<< >>, Start, Root, Ready, ((({Telling("method", "none", "none")} \cup DestTells) \cup {Telling("sampling", "none", "none")}) \cup SamplingTells))
  BY <1>15, <1>6, PartNext DEF q9
<1>17. q10 \in Parts(<< >>, Start, Root, Done, (((({Telling("method", "none", "none")} \cup DestTells) \cup {Telling("sampling", "none", "none")}) \cup SamplingTells) \cup {Telling("id", "none", "none")}))
  BY <1>16, <1>5, AfterFacts, PartJoin DEF q10
<1>18. q11 \in Parts(<< >>, Start, << >>, Finish, (((({Telling("method", "none", "none")} \cup DestTells) \cup {Telling("sampling", "none", "none")}) \cup SamplingTells) \cup {Telling("id", "none", "none")}))
  BY <1>17, <1>4, PartNext DEF q11
<1> QED BY <1>18 DEF EncodeBlackHole, q1, q2, q3, q4, q5, q6, q7, q8, q9, q10, q11, BlackHoleTells, Sampling

\* The status of sampling.
StatusTells == (({Telling("method", "none", "none")} \cup DestTells) \cup {Telling("id", "none", "none")})

LEMMA StatusDocument ==
  ASSUME wanted \in BlackHoles
  PROVE  EncodeSamplingStatus \in Parts(<< >>, Start, << >>, Finish, StatusTells)
<1>1. /\ Root \in Inner /\ Lst(Root) \in Inner /\ Obj(Root) \in Inner /\ Lst(Obj(Root)) \in Inner /\ Obj(Lst(Root)) \in Inner
      /\ Obj(Obj(Root)) \in Inner /\ Obj(Lst(Obj(Root))) \in Inner /\ Obj(Obj(Obj(Root))) \in Inner
  BY RootFacts
<1>2. StatusList \in Parts(Obj(Root), Ready, Lst(Obj(Root)), Empty, DestTells)
  <2> DEFINE l == BracedList("none", wanted.ports)
             set == wanted.ports
             port == "none"
  <2>1. port \in Ports /\ set \in SUBSET Shownable /\ IsFiniteSet(set)
    BY BlackHoleFacts, NoneFacts, PacketDocumentsAssumption, FS_Subset
  <2> HIDE DEF port, set
  <2>2. BracedList(port, set) \in Lists /\ ToldIn(BracedList(port, set)) = {Telling("dest", port, v) : v \in set}
    BY <2>1, BracedFacts
  <2>3. l \in Lists /\ ToldIn(l) = DestTells
    BY <2>2 DEF port, set, DestTells
  <2>4. StatusList = Back(Text(<<"[", " ">>) \o l)
    BY DEF StatusList, BracedList
  <2> HIDE DEF l
  <2>5. Back(Text(<<"[", " ">>) \o l) \in Parts(Obj(Root), Ready, Lst(Obj(Root)), Empty, ToldIn(l))
    BY <1>1, <2>3, OpenPart
  <2> QED BY <2>3, <2>4, <2>5
<1> DEFINE q1 == Text(<<"{">>)
           q2 == q1 \o Name("method")
           q3 == q2 \o Text(<<",", "{">>)
           q4 == q3 \o StatusList
           q5 == q4 \o Text(<<"]", "}", ",">>)
           q6 == q5 \o Name("id")
           q7 == q6 \o Text(<<"}">>)
<1>3. /\ Text(<<"{">>) \in Parts(<< >>, Start, Root, Ready, {})
      /\ Text(<<"}">>) \in Parts(Root, Done, << >>, Finish, {})
  BY <1>1, RootFacts
<1>4. /\ Name("method") \in Parts(Root, Ready, Root, Done, {Telling("method", "none", "none")})
      /\ Name("id") \in Parts(Root, Ready, Root, Done, {Telling("id", "none", "none")})
  BY <1>1, KindFacts, NameTells
<1>5. /\ Text(<<",", "{">>) \in Parts(Root, Done, Obj(Root), Ready, {})
      /\ Text(<<"]", "}", ",">>) \in Parts(Lst(Obj(Root)), Empty, Root, Ready, {})
  BY <1>1, Templates
<1> HIDE DEF q1, q2, q3, q4, q5, q6, q7
<1>6. q1 \in Parts(<< >>, Start, Root, Ready, {})
  BY <1>3 DEF q1
<1>7. q2 \in Parts(<< >>, Start, Root, Done, {Telling("method", "none", "none")})
  BY <1>6, <1>4, AfterFacts, PartFirst DEF q2
<1>8. q3 \in Parts(<< >>, Start, Obj(Root), Ready, {Telling("method", "none", "none")})
  BY <1>7, <1>5, PartNext DEF q3
<1>9. q4 \in Parts(<< >>, Start, Lst(Obj(Root)), Empty, ({Telling("method", "none", "none")} \cup DestTells))
  BY <1>8, <1>2, AfterFacts, PartJoin DEF q4
<1>10. q5 \in Parts(<< >>, Start, Root, Ready, ({Telling("method", "none", "none")} \cup DestTells))
  BY <1>9, <1>5, PartNext DEF q5
<1>11. q6 \in Parts(<< >>, Start, Root, Done, (({Telling("method", "none", "none")} \cup DestTells) \cup {Telling("id", "none", "none")}))
  BY <1>10, <1>4, AfterFacts, PartJoin DEF q6
<1>12. q7 \in Parts(<< >>, Start, << >>, Finish, (({Telling("method", "none", "none")} \cup DestTells) \cup {Telling("id", "none", "none")}))
  BY <1>11, <1>3, PartNext DEF q7
<1> QED BY <1>12 DEF EncodeSamplingStatus, q1, q2, q3, q4, q5, q6, q7, StatusTells, StatusList

\* The report of an event.
EventTells == ((({Telling("method", "none", "none")} \cup {Telling("ingress", "none", "none")}) \cup DestTells) \cup {Telling("packet", "none", "none")})

LEMMA EventDocument ==
  ASSUME wanted \in BlackHoles
  PROVE  EncodeEventReport \in Parts(<< >>, Start, << >>, Finish, EventTells)
<1>1. /\ Root \in Inner /\ Lst(Root) \in Inner /\ Obj(Root) \in Inner /\ Lst(Obj(Root)) \in Inner /\ Obj(Lst(Root)) \in Inner
      /\ Obj(Obj(Root)) \in Inner /\ Obj(Lst(Obj(Root))) \in Inner /\ Obj(Obj(Obj(Root))) \in Inner
  BY RootFacts
<1>2. PortsOf("dest") \in Parts(Obj(Root), Ready, Obj(Root), Done, DestTells)
  BY <1>1, KindFacts, BlackHoleFacts, PortsFacts DEF DestTells
<1> DEFINE q1 == Text(<<"{">>)
           q2 == q1 \o Name("method")
           q3 == q2 \o Text(<<",", "{">>)
           q4 == q3 \o Name("ingress")
           q5 == q4 \o Text(<<",">>)
           q6 == q5 \o PortsOf("dest")
           q7 == q6 \o Text(<<",">>)
           q8 == q7 \o Name("packet")
           q9 == q8 \o Text(<<"}", "}">>)
<1>3. Text(<<"{">>) \in Parts(<< >>, Start, Root, Ready, {})
  BY <1>1, RootFacts
<1>4. /\ Name("method") \in Parts(Root, Ready, Root, Done, {Telling("method", "none", "none")})
      /\ Name("ingress") \in Parts(Obj(Root), Ready, Obj(Root), Done, {Telling("ingress", "none", "none")})
      /\ Name("packet") \in Parts(Obj(Root), Ready, Obj(Root), Done, {Telling("packet", "none", "none")})
  BY <1>1, KindFacts, NameTells
<1>5. Text(<<",", "{">>) \in Parts(Root, Done, Obj(Root), Ready, {})
  BY <1>1, Templates
<1>6. Text(<<",">>) \in Parts(Obj(Root), Done, Obj(Root), Ready, {})
  BY <1>1, OnePart DEF Comma
<1>7. Text(<<"}", "}">>) \in Parts(Obj(Root), Done, << >>, Finish, {})
  BY <1>1, EndOfTwo
<1> HIDE DEF q1, q2, q3, q4, q5, q6, q7, q8, q9
<1>8. q1 \in Parts(<< >>, Start, Root, Ready, {})
  BY <1>3 DEF q1
<1>9. q2 \in Parts(<< >>, Start, Root, Done, {Telling("method", "none", "none")})
  BY <1>8, <1>4, AfterFacts, PartFirst DEF q2
<1>10. q3 \in Parts(<< >>, Start, Obj(Root), Ready, {Telling("method", "none", "none")})
  BY <1>9, <1>5, PartNext DEF q3
<1>11. q4 \in Parts(<< >>, Start, Obj(Root), Done, ({Telling("method", "none", "none")} \cup {Telling("ingress", "none", "none")}))
  BY <1>10, <1>4, AfterFacts, PartJoin DEF q4
<1>12. q5 \in Parts(<< >>, Start, Obj(Root), Ready, ({Telling("method", "none", "none")} \cup {Telling("ingress", "none", "none")}))
  BY <1>11, <1>6, PartNext DEF q5
<1>13. q6 \in Parts(<< >>, Start, Obj(Root), Done, (({Telling("method", "none", "none")} \cup {Telling("ingress", "none", "none")}) \cup DestTells))
  BY <1>12, <1>2, AfterFacts, PartJoin DEF q6
<1>14. q7 \in Parts(<< >>, Start, Obj(Root), Ready, (({Telling("method", "none", "none")} \cup {Telling("ingress", "none", "none")}) \cup DestTells))
  BY <1>13, <1>6, PartNext DEF q7
<1>15. q8 \in Parts(<< >>, Start, Obj(Root), Done, ((({Telling("method", "none", "none")} \cup {Telling("ingress", "none", "none")}) \cup DestTells) \cup {Telling("packet", "none", "none")}))
  BY <1>14, <1>4, AfterFacts, PartJoin DEF q8
<1>16. q9 \in Parts(<< >>, Start, << >>, Finish, ((({Telling("method", "none", "none")} \cup {Telling("ingress", "none", "none")}) \cup DestTells) \cup {Telling("packet", "none", "none")}))
  BY <1>15, <1>7, PartNext DEF q9
<1> QED BY <1>16 DEF EncodeEventReport, q1, q2, q3, q4, q5, q6, q7, q8, q9, EventTells

\* The properties of the agent.
PropertiesTells == ((({Telling("method", "none", "none")} \cup {Telling("asics", "none", "none")}) \cup FeatureTells) \cup {Telling("uid", "none", "none")})

LEMMA PropertiesDocument ==
  ASSUME wanted \in Properties
  PROVE  EncodeSwitchProperties \in Parts(<< >>, Start, << >>, Finish, PropertiesTells)
<1>1. /\ Root \in Inner /\ Lst(Root) \in Inner /\ Obj(Root) \in Inner /\ Lst(Obj(Root)) \in Inner /\ Obj(Lst(Root)) \in Inner
      /\ Obj(Obj(Root)) \in Inner /\ Obj(Lst(Obj(Root))) \in Inner /\ Obj(Obj(Obj(Root))) \in Inner
  BY RootFacts
<1>2. FeatureList \in Parts(Lst(Obj(Root)), AtList, Lst(Obj(Root)), Empty, FeatureTells)
  <2>1. wanted.features \in SUBSET Features
    BY DEF Properties
  <2> QED BY <1>1, <2>1, FeaturesPart DEF FeatureTells
<1> DEFINE q1 == Text(<<"{">>)
           q2 == q1 \o Name("method")
           q3 == q2 \o Text(<<",", "{">>)
           q4 == q3 \o Name("asics")
           q5 == q4 \o Text(<<",">>)
           q6 == q5 \o Text(<<"[">>)
           q7 == q6 \o FeatureList
           q8 == q7 \o Text(<<"]", ",">>)
           q9 == q8 \o Name("uid")
           q10 == q9 \o Text(<<"}", "}">>)
<1>3. Text(<<"{">>) \in Parts(<< >>, Start, Root, Ready, {})
  BY <1>1, RootFacts
<1>4. /\ Name("method") \in Parts(Root, Ready, Root, Done, {Telling("method", "none", "none")})
      /\ Name("asics") \in Parts(Obj(Root), Ready, Obj(Root), Done, {Telling("asics", "none", "none")})
      /\ Name("uid") \in Parts(Obj(Root), Ready, Obj(Root), Done, {Telling("uid", "none", "none")})
  BY <1>1, KindFacts, NameTells
<1>5. /\ Text(<<",", "{">>) \in Parts(Root, Done, Obj(Root), Ready, {})
      /\ Text(<<"]", ",">>) \in Parts(Lst(Obj(Root)), Empty, Obj(Root), Ready, {})
  BY <1>1, Templates
<1>6. Text(<<",">>) \in Parts(Obj(Root), Done, Obj(Root), Ready, {})
  BY <1>1, OnePart DEF Comma
<1>7. Text(<<"[">>) \in Parts(Obj(Root), Ready, Lst(Obj(Root)), AtList, {})
  BY <1>1, OnePart
<1>8. Text(<<"}", "}">>) \in Parts(Obj(Root), Done, << >>, Finish, {})
  BY <1>1, EndOfTwo
<1> HIDE DEF q1, q2, q3, q4, q5, q6, q7, q8, q9, q10
<1>9. q1 \in Parts(<< >>, Start, Root, Ready, {})
  BY <1>3 DEF q1
<1>10. q2 \in Parts(<< >>, Start, Root, Done, {Telling("method", "none", "none")})
  BY <1>9, <1>4, AfterFacts, PartFirst DEF q2
<1>11. q3 \in Parts(<< >>, Start, Obj(Root), Ready, {Telling("method", "none", "none")})
  BY <1>10, <1>5, PartNext DEF q3
<1>12. q4 \in Parts(<< >>, Start, Obj(Root), Done, ({Telling("method", "none", "none")} \cup {Telling("asics", "none", "none")}))
  BY <1>11, <1>4, AfterFacts, PartJoin DEF q4
<1>13. q5 \in Parts(<< >>, Start, Obj(Root), Ready, ({Telling("method", "none", "none")} \cup {Telling("asics", "none", "none")}))
  BY <1>12, <1>6, PartNext DEF q5
<1>14. q6 \in Parts(<< >>, Start, Lst(Obj(Root)), AtList, ({Telling("method", "none", "none")} \cup {Telling("asics", "none", "none")}))
  BY <1>13, <1>7, PartNext DEF q6
<1>15. q7 \in Parts(<< >>, Start, Lst(Obj(Root)), Empty, (({Telling("method", "none", "none")} \cup {Telling("asics", "none", "none")}) \cup FeatureTells))
  BY <1>14, <1>2, AfterFacts, PartJoin DEF q7
<1>16. q8 \in Parts(<< >>, Start, Obj(Root), Ready, (({Telling("method", "none", "none")} \cup {Telling("asics", "none", "none")}) \cup FeatureTells))
  BY <1>15, <1>5, PartNext DEF q8
<1>17. q9 \in Parts(<< >>, Start, Obj(Root), Done, ((({Telling("method", "none", "none")} \cup {Telling("asics", "none", "none")}) \cup FeatureTells) \cup {Telling("uid", "none", "none")}))
  BY <1>16, <1>4, AfterFacts, PartJoin DEF q9
<1>18. q10 \in Parts(<< >>, Start, << >>, Finish, ((({Telling("method", "none", "none")} \cup {Telling("asics", "none", "none")}) \cup FeatureTells) \cup {Telling("uid", "none", "none")}))
  BY <1>17, <1>8, PartNext DEF q10
<1> QED BY <1>18 DEF EncodeSwitchProperties, q1, q2, q3, q4, q5, q6, q7, q8, q9, q10, PropertiesTells

\* Any document told of a request: a parser takes it, and a trace tells what its blocks tell.
LEMMA DocumentFacts ==
  ASSUME wanted \in Traces \cup BlackHoles \cup Properties
  PROVE  /\ Parseable => IsWellFormed(EncodeDocument)
         /\ IsTrace => wanted \in Traces /\ ToldIn(EncodeDocument) = TraceDocumentTells
<1> DEFINE d == EncodeDocument
<1>1. CASE wanted \in Traces
  <2>1. d = EncodePtProfile
    BY <1>1, TraceFacts DEF EncodeDocument
  <2>2. EncodePtProfile \in Parts(<< >>, Start, << >>, Finish, TraceDocumentTells)
    BY <1>1, ProfileDocument
  <2> HIDE DEF d
  <2>3. ToldIn(d) = TraceDocumentTells /\ (Parseable => IsWellFormed(d))
    BY <2>1, <2>2, DocumentPart
  <2> QED BY <1>1, <2>3 DEF d
<1>2. CASE wanted \in BlackHoles
  <2>1. wanted.what \in {"blackhole", "status", "event"}
    BY <1>2 DEF BlackHoles
  <2>2. EncodeBlackHole \in Parts(<< >>, Start, << >>, Finish, BlackHoleTells)
    BY <1>2, BlackHoleDocument
  <2>3. EncodeSamplingStatus \in Parts(<< >>, Start, << >>, Finish, StatusTells)
    BY <1>2, StatusDocument
  <2>4. EncodeEventReport \in Parts(<< >>, Start, << >>, Finish, EventTells)
    BY <1>2, EventDocument
  <2>5. d \in {EncodeBlackHole, EncodeSamplingStatus, EncodeEventReport}
    BY <2>1 DEF EncodeDocument
  <2>6. \E T : d \in Parts(<< >>, Start, << >>, Finish, T)
    BY <2>2, <2>3, <2>4, <2>5
  <2> HIDE DEF d
  <2>7. Parseable => IsWellFormed(d)
    BY <2>6, DocumentPart
  <2> QED BY <2>1, <2>7 DEF IsTrace, d
<1>3. CASE wanted \in Properties
  <2>1. wanted.what = "properties"
    BY <1>3 DEF Properties
  <2>2. d = EncodeSwitchProperties
    BY <2>1 DEF EncodeDocument
  <2>3. EncodeSwitchProperties \in Parts(<< >>, Start, << >>, Finish, PropertiesTells)
    BY <1>3, PropertiesDocument
  <2> HIDE DEF d
  <2>4. Parseable => IsWellFormed(d)
    BY <2>2, <2>3, DocumentPart
  <2> QED BY <2>1, <2>4 DEF IsTrace, d
<1> QED BY <1>1, <1>2, <1>3

\* The kinds of entry that say where the packets of a port go.
Resolving == {"lag", "ecmp1", "ecmp2", "dest"}

\* How a port was resolved.
HasTrunk(p) == wanted.what # "ecmp" /\ "trunk" \in Flags(p)
HasEcmp(p) == wanted.what # "lag" /\ Flags(p) \cap {"ecmp1", "ecmp2"} # {}
HasLink(p) == wanted.what = "profile" /\ Flags(p) = {}
Resolved(p, kind) ==
  CASE kind = "lag" -> IF HasTrunk(p) THEN wanted.lag ELSE {}
    [] kind \in {"ecmp1", "ecmp2"} -> IF HasEcmp(p) /\ kind = EcmpLevel(p) THEN EcmpMembers(p) ELSE {}
    [] kind = "dest" -> IF HasLink(p) THEN wanted.dest ELSE {}

LEMMA TellingIs ==
  \A k, p, v : /\ Telling(k, p, v).kind = k /\ Telling(k, p, v).port = p /\ Telling(k, p, v).value = v
               /\ \A l, q, w : Telling(k, p, v) = Telling(l, q, w) => k = l /\ p = q /\ v = w
<1>1. \A k, p, v : Telling(k, p, v).kind = k /\ Telling(k, p, v).port = p /\ Telling(k, p, v).value = v
  BY DEF Telling
<1> QED BY <1>1

LEMMA BlockResolves ==
  ASSUME wanted \in Traces, NEW p \in wanted.ports, NEW e
  PROVE  /\ e \in BlockTells(p) /\ e.kind \in Resolving => e = Telling(e.kind, p, e.value) /\ e.value \in Resolved(p, e.kind)
         /\ e \in BlockTells(p) /\ e.kind = "port" => e = Telling("port", p, "none")
         /\ Telling("port", p, "none") \in BlockTells(p)
<1>1. wanted.what \in {"profile", "lag", "ecmp"} /\ EcmpLevel(p) \in {"ecmp1", "ecmp2"}
  BY TraceFacts DEF EcmpLevel
<1>2. ASSUME e \in LagTells(p) PROVE /\ e.kind # "port"
                                     /\ e.kind \in Resolving => /\ "trunk" \in Flags(p) /\ e.kind = "lag" /\ e.value \in wanted.lag
                                                                /\ e = Telling(e.kind, p, e.value)
  BY <1>2, TellingIs DEF LagTells, Resolving
<1>3. ASSUME e \in EcmpTells(p) PROVE /\ e.kind # "port"
                                      /\ e.kind \in Resolving => /\ Flags(p) \cap {"ecmp1", "ecmp2"} # {} /\ e.kind = EcmpLevel(p)
                                                                 /\ e.value \in EcmpMembers(p) /\ e = Telling(e.kind, p, e.value)
  BY <1>1, <1>3, TellingIs DEF EcmpTells, Resolving
<1>4. ASSUME e \in LinkTells(p) PROVE /\ Flags(p) = {} /\ e.kind = "dest" /\ e.value \in wanted.dest
                                      /\ e = Telling(e.kind, p, e.value)
  BY <1>4, TellingIs DEF LinkTells, Destinations
<1>5. CASE wanted.what = "lag"
  <2>1. BlockTells(p) = {Telling("port", p, "none")} \cup LagTells(p)
    BY <1>5 DEF BlockTells, LagBlockTells
  <2> QED BY <1>2, <1>5, <2>1, TellingIs DEF Resolved, Resolving, HasTrunk
<1>6. CASE wanted.what = "ecmp"
  <2>1. BlockTells(p) = {Telling("port", p, "none")} \cup EcmpTells(p)
    BY <1>6 DEF BlockTells, EcmpBlockTells
  <2> QED BY <1>1, <1>3, <1>6, <2>1, TellingIs DEF Resolved, Resolving, HasEcmp
<1>7. CASE wanted.what = "profile"
  <2>1. BlockTells(p) = {Telling("port", p, "none")} \cup {Telling("realm", "none", "none")} \cup LagTells(p) \cup EcmpTells(p) \cup LinkTells(p)
    BY <1>7 DEF BlockTells, ProfileBlockTells
  <2>2. CASE e \in LagTells(p)
    BY <1>2, <1>7, <2>1, <2>2, TellingIs DEF Resolved, Resolving, HasTrunk
  <2>3. CASE e \in EcmpTells(p)
    BY <1>1, <1>3, <1>7, <2>1, <2>3, TellingIs DEF Resolved, Resolving, HasEcmp
  <2>4. CASE e \in LinkTells(p)
    BY <1>4, <1>7, <2>1, <2>4, TellingIs DEF Resolved, Resolving, HasLink
  <2>5. CASE e \notin LagTells(p) \cup EcmpTells(p) \cup LinkTells(p)
    BY <2>1, <2>5, TellingIs DEF Resolving
  <2> QED BY <2>2, <2>3, <2>4, <2>5
<1> QED BY <1>1, <1>5, <1>6, <1>7

LEMMA ResolvedInBlock ==
  ASSUME wanted \in Traces, NEW p \in wanted.ports, NEW kind \in Resolving, NEW v \in Resolved(p, kind)
  PROVE  Telling(kind, p, v) \in BlockTells(p)
<1>1. wanted.what \in {"profile", "lag", "ecmp"}
  BY TraceFacts
<1>2. CASE kind = "lag"
  <2>1. HasTrunk(p) /\ v \in wanted.lag
    BY <1>2 DEF Resolved
  <2>2. Telling(kind, p, v) \in LagTells(p)
    BY <1>2, <2>1 DEF HasTrunk, LagTells
  <2> QED BY <1>1, <2>1, <2>2 DEF HasTrunk, BlockTells, LagBlockTells, ProfileBlockTells
<1>3. CASE kind \in {"ecmp1", "ecmp2"}
  <2>1. HasEcmp(p) /\ kind = EcmpLevel(p) /\ v \in EcmpMembers(p)
    BY <1>3 DEF Resolved
  <2>2. Telling(kind, p, v) \in EcmpTells(p)
    BY <2>1 DEF HasEcmp, EcmpTells
  <2> QED BY <1>1, <2>1, <2>2 DEF HasEcmp, BlockTells, EcmpBlockTells, ProfileBlockTells
<1>4. CASE kind = "dest"
  <2>1. HasLink(p) /\ v \in wanted.dest
    BY <1>4 DEF Resolved
  <2>2. Telling(kind, p, v) \in LinkTells(p)
    BY <1>4, <2>1 DEF HasLink, LinkTells, Destinations
  <2> QED BY <2>1, <2>2 DEF HasLink, BlockTells, ProfileBlockTells
<1> QED BY <1>2, <1>3, <1>4 DEF Resolving

\* What the document of a trace tells.
LEMMA TraceResolves ==
  ASSUME wanted \in Traces
  PROVE  /\ {e.port : e \in {x \in TraceDocumentTells : x.kind \in {"port"}}} = wanted.ports
         /\ \A p \in wanted.ports : \A kind \in Resolving :
              {e.value : e \in {x \in {y \in TraceDocumentTells : y.kind \in {kind}} : x.port = p}} = Resolved(p, kind)
<1> DEFINE D == TraceDocumentTells
<1>1. ASSUME NEW e \in D, e.kind \in Resolving \cup {"port"} PROVE \E p \in wanted.ports : e \in BlockTells(p)
  BY <1>1, TellingIs DEF TraceDocumentTells, TraceTells, Resolving
<1>2. \A p \in wanted.ports : BlockTells(p) \subseteq D
  BY DEF TraceDocumentTells, TraceTells
<1> HIDE DEF D
<1>3. {e.port : e \in {x \in D : x.kind \in {"port"}}} = wanted.ports
  <2>1. ASSUME NEW e \in D, e.kind = "port" PROVE e.port \in wanted.ports
    BY <1>1, <2>1, BlockResolves, TellingIs
  <2>2. ASSUME NEW p \in wanted.ports PROVE Telling("port", p, "none") \in D
    BY <1>2, BlockResolves
  <2> QED BY <2>1, <2>2, TellingIs
<1>4. ASSUME NEW p \in wanted.ports, NEW kind \in Resolving
      PROVE  {e.value : e \in {x \in {y \in D : y.kind \in {kind}} : x.port = p}} = Resolved(p, kind)
  <2>1. ASSUME NEW e \in D, e.kind = kind, e.port = p PROVE e.value \in Resolved(p, kind)
    <3>1. PICK q \in wanted.ports : e \in BlockTells(q)
      BY <1>1, <2>1
    <3>2. e = Telling(kind, q, e.value) /\ e.value \in Resolved(q, kind)
      BY <2>1, <3>1, BlockResolves
    <3>3. q = p
      BY <2>1, <3>2, TellingIs
    <3> QED BY <3>2, <3>3
  <2>2. ASSUME NEW v \in Resolved(p, kind) PROVE Telling(kind, p, v) \in D
    BY <1>2, <2>2, ResolvedInBlock
  <2> QED BY <2>1, <2>2, TellingIs
<1> QED BY <1>3, <1>4 DEF D

\* What a text tells of the ports of a trace.
Tellings(text, kinds) == {e \in ToldIn(text) : e.kind \in kinds}
AsResolved(text) ==
  /\ {e.port : e \in Tellings(text, {"port"})} = wanted.ports
  /\ \A p \in wanted.ports : \A kind \in Resolving :
       {e.value : e \in {x \in Tellings(text, {kind}) : x.port = p}} = Resolved(p, kind)

\* A text that tells as resolved says what ResolutionTold asks for.
LEMMA ResolutionHolds ==
  ASSUME wanted \in Traces, AsResolved(sent)
  PROVE  ResolutionTold
<1> DEFINE Heard(p, kind) == {e.value : e \in {x \in Is({kind}) : x.port = p}}
           Told1(p) == Resolved(p, "ecmp1")
           Told2(p) == Resolved(p, "ecmp2")
           ToldD(p) == Resolved(p, "dest")
           ToldL(p) == Resolved(p, "lag")
           fl(p) == IF wanted.what = "lag" THEN Flags(p) \cap {"trunk"}
                    ELSE IF wanted.what = "ecmp" THEN Flags(p) \ {"trunk"} ELSE Flags(p)
<1>1. {e.port : e \in Is({"port"})} = wanted.ports
  BY DEF AsResolved, Is, Tellings
<1>2. ASSUME NEW p \in wanted.ports
      PROVE  /\ Heard(p, "lag") = ToldL(p) /\ Heard(p, "ecmp1") = Told1(p) /\ Heard(p, "ecmp2") = Told2(p)
             /\ Heard(p, "dest") = ToldD(p)
  <2>1. \A kind \in Resolving : Heard(p, kind) = Resolved(p, kind)
    BY DEF AsResolved, Is, Tellings
  <2> HIDE DEF Heard
  <2> QED BY <2>1 DEF Resolving
<1>3. ASSUME NEW p \in wanted.ports
      PROVE  /\ ToldL(p) = IF "trunk" \in fl(p) THEN wanted.lag ELSE {}
             /\ Told2(p) = IF "ecmp2" \in fl(p) THEN wanted.ecmp2 ELSE {}
             /\ Told1(p) # {} => fl(p) \cap {"ecmp1", "ecmp2"} = {"ecmp1"}
             /\ ToldD(p) # {} => Told1(p) \cup Told2(p) \cup ToldL(p) = {}
             /\ wanted.what = "profile" /\ fl(p) = {} => ToldD(p) = wanted.dest
  <2>1. wanted.what \in {"profile", "lag", "ecmp"}
    BY TraceFacts
  <2>2. /\ ToldL(p) = IF HasTrunk(p) THEN wanted.lag ELSE {}
        /\ Told2(p) = IF HasEcmp(p) /\ "ecmp2" \in Flags(p) THEN wanted.ecmp2 ELSE {}
        /\ Told1(p) = IF HasEcmp(p) /\ "ecmp2" \notin Flags(p) THEN wanted.ecmp1 ELSE {}
        /\ ToldD(p) = IF HasLink(p) THEN wanted.dest ELSE {}
    BY DEF Resolved, EcmpLevel, EcmpMembers
  <2> HIDE DEF ToldL, Told1, Told2, ToldD
  <2>3. ToldL(p) = IF "trunk" \in fl(p) THEN wanted.lag ELSE {}
    BY <2>1, <2>2 DEF HasTrunk
  <2>4. Told2(p) = IF "ecmp2" \in fl(p) THEN wanted.ecmp2 ELSE {}
    BY <2>1, <2>2 DEF HasEcmp
  <2>5. Told1(p) # {} => fl(p) \cap {"ecmp1", "ecmp2"} = {"ecmp1"}
    BY <2>1, <2>2 DEF HasEcmp
  <2>6. ToldD(p) # {} => Told1(p) \cup Told2(p) \cup ToldL(p) = {}
    BY <2>2 DEF HasEcmp, HasTrunk, HasLink
  <2>7. wanted.what = "profile" /\ fl(p) = {} => ToldD(p) = wanted.dest
    BY <2>2 DEF HasLink
  <2> QED BY <2>3, <2>4, <2>5, <2>6, <2>7
<1>4. ASSUME NEW p \in wanted.ports
      PROVE  /\ Heard(p, "lag") = IF "trunk" \in fl(p) THEN wanted.lag ELSE {}
             /\ Heard(p, "ecmp2") = IF "ecmp2" \in fl(p) THEN wanted.ecmp2 ELSE {}
             /\ Heard(p, "ecmp1") # {} => fl(p) \cap {"ecmp1", "ecmp2"} = {"ecmp1"}
             /\ Heard(p, "dest") # {} => Heard(p, "ecmp1") \cup Heard(p, "ecmp2") \cup Heard(p, "lag") = {}
             /\ wanted.what = "profile" /\ fl(p) = {} => Heard(p, "dest") = wanted.dest
  <2> HIDE DEF Heard, Told1, Told2, ToldD, ToldL, fl
  <2> QED BY <1>2, <1>3
<1> QED BY <1>1, <1>4 DEF ResolutionTold

\* What is sent is read by a parser and tells as resolved.
PacketInv ==
  /\ wanted \in Traces \cup BlackHoles \cup Properties
  /\ PacketReportWellFormed
  /\ sent # << >> /\ IsTrace => wanted \in Traces /\ AsResolved(sent)

LEMMA PacketInvTells == PacketInv => ResolutionTold
<1> SUFFICES ASSUME PacketInv PROVE ResolutionTold
  OBVIOUS
<1>1. CASE sent # << >> /\ IsTrace
  BY <1>1, ResolutionHolds DEF PacketInv
<1>2. CASE ~(sent # << >> /\ IsTrace)
  BY <1>2 DEF ResolutionTold
<1> QED BY <1>1, <1>2

LEMMA ResolvedSame ==
  ASSUME UNCHANGED wanted, NEW d, sent' = d, AsResolved(d)
  PROVE  AsResolved(sent)'
<1>1. /\ wanted' = wanted /\ \A p : Flags(p)' = Flags(p)
      /\ \A p : EcmpLevel(p)' = EcmpLevel(p) /\ EcmpMembers(p)' = EcmpMembers(p)
  BY DEF Flags, EcmpLevel, EcmpMembers
<1>2. \A p : HasTrunk(p)' = HasTrunk(p) /\ HasEcmp(p)' = HasEcmp(p) /\ HasLink(p)' = HasLink(p)
  BY <1>1 DEF HasTrunk, HasEcmp, HasLink
<1>3. ASSUME NEW p, NEW kind \in Resolving PROVE Resolved(p, kind)' = Resolved(p, kind)
  BY <1>1, <1>2 DEF Resolved, Resolving
<1>4. \A kinds : Tellings(sent, kinds)' = Tellings(d, kinds)
  BY DEF Tellings
<1>5. /\ {e.port : e \in Tellings(sent, {"port"})'} = wanted'.ports
      /\ \A p \in wanted'.ports : \A kind \in Resolving :
            {e.value : e \in {x \in Tellings(sent, {kind})' : x.port = p}} = Resolved(p, kind)'
  BY <1>1, <1>3, <1>4 DEF AsResolved
<1> QED BY <1>5 DEF AsResolved, Resolving

LEMMA PacketInvHolds == PacketDocumentSpec => []PacketInv
<1>1. PacketDocumentInit => PacketInv
  BY DEF PacketDocumentInit, PacketInv, PacketReportWellFormed
<1>2. PacketInv /\ [PacketDocumentNext]_packetDocumentVars => PacketInv'
  <2> SUFFICES ASSUME PacketInv, [PacketDocumentNext]_packetDocumentVars PROVE PacketInv'
    OBVIOUS
  <2>1. CASE SendDocument
    <3> DEFINE d == EncodeDocument
    <3>1. sent' = d /\ wanted' = wanted
      BY <2>1 DEF SendDocument
    <3>2. wanted \in Traces \cup BlackHoles \cup Properties
      BY DEF PacketInv
    <3>3. /\ ~EcmpWithoutMembers => IsWellFormed(d)
          /\ IsTrace => wanted \in Traces /\ ToldIn(d) = TraceDocumentTells
      BY <3>2, DocumentFacts DEF Parseable
    <3> HIDE DEF d
    <3>4. IsTrace => wanted \in Traces /\ AsResolved(d)
      <4> SUFFICES ASSUME IsTrace PROVE wanted \in Traces /\ AsResolved(d)
        OBVIOUS
      <4>1. wanted \in Traces /\ ToldIn(d) = TraceDocumentTells
        BY <3>3
      <4> QED BY <4>1, TraceResolves DEF AsResolved, Tellings
    <3>5. /\ (Traces \cup BlackHoles \cup Properties)' = Traces \cup BlackHoles \cup Properties /\ Traces' = Traces
          /\ IsTrace' = IsTrace /\ EcmpWithoutMembers' = EcmpWithoutMembers
      <4>1. IsTrace' = IsTrace /\ EcmpWithoutMembers' = EcmpWithoutMembers
        BY <3>1 DEF IsTrace, EcmpWithoutMembers, Flags, EcmpMembers, EcmpLevel
      <4> QED BY <4>1 DEF Traces, BlackHoles, Properties, Group
    <3>6. PacketReportWellFormed'
      <4>1. ~EcmpWithoutMembers' => IsWellFormed(d)
        BY <3>3, <3>5
      <4> QED BY <3>1, <4>1 DEF PacketReportWellFormed
    <3>7. AsResolved(d) => AsResolved(sent)'
      BY <3>1, ResolvedSame
    <3> QED BY <3>1, <3>2, <3>4, <3>5, <3>6, <3>7 DEF PacketInv
  <2>2. CASE UNCHANGED packetDocumentVars
    <3>1. sent' = sent /\ wanted' = wanted
      BY <2>2 DEF packetDocumentVars
    <3>2. /\ (wanted \in Traces \cup BlackHoles \cup Properties)' /\ (wanted \in Traces)' = (wanted \in Traces)
          /\ IsTrace' = IsTrace /\ EcmpWithoutMembers' = EcmpWithoutMembers
      <4>1. IsTrace' = IsTrace /\ EcmpWithoutMembers' = EcmpWithoutMembers
        BY <3>1 DEF IsTrace, EcmpWithoutMembers, Flags, EcmpMembers, EcmpLevel
      <4> QED BY <3>1, <4>1 DEF PacketInv, Traces, BlackHoles, Properties, Group
    <3>3. PacketReportWellFormed'
      BY <3>1, <3>2 DEF PacketInv, PacketReportWellFormed
    <3>4. AsResolved(sent) => AsResolved(sent)'
      BY <3>1, ResolvedSame
    <3> QED BY <3>1, <3>2, <3>3, <3>4 DEF PacketInv
  <2> QED BY <2>1, <2>2 DEF PacketDocumentNext, PacketDocumentSent
<1> QED BY <1>1, <1>2, PTL DEF PacketDocumentSpec

\* Stepping back over separators leaves a document a JSON parser takes, whichever lists
\* are empty, but for an ECMP group without members (packet_trace_json_encoder.c:290).
THEOREM PacketReportParses == PacketDocumentSpec => []PacketReportWellFormed
<1>1. PacketInv => PacketReportWellFormed
  BY DEF PacketInv
<1> QED BY <1>1, PacketInvHolds, PTL

\* Where a port's packet goes is told once and consistently: the members of its trunk and
\* of the ECMP group that resolved it, or the ports of destination when neither did.
THEOREM ResolutionIsTold == PacketDocumentSpec => []ResolutionTold
<1>1. PacketInv => ResolutionTold
  BY PacketInvTells
<1> QED BY <1>1, PacketInvHolds, PTL

(***************************************************************************)
(* All documents of a run.                                                 *)
(***************************************************************************)
\* The parts that write documents are their own specifications as well.
THEOREM DocumentPartsRun == MCSpec => DocumentSpec /\ DropSpec /\ PacketDocumentSpec
<1>1. MCInit => DocumentInit
  <2> SUFFICES ASSUME DocumentRest PROVE DocumentInit
    BY DEF MCInit
  <2> DEFINE a == [kind |-> "report", include |-> {}, incremental |-> TRUE, snapshot |-> TRUE, realm |-> "device", port |-> 1, queue |-> 0]
  <2>1. {} \in IncludeSets
    <3>1. Cardinality({}) = 0 /\ 0 <= MaxIncluded
      BY FS_EmptySet, DocumentsAssumption
    <3> QED BY <3>1 DEF IncludeSets
  <2>2. a \in ReportAsks /\ a.kind = "report" /\ a.include = {}
    BY <2>1 DEF ReportAsks
  <2> HIDE DEF a
  <2>3. ask \in ReportAsks /\ ask.kind = "report"
    BY <2>2 DEF DocumentRest
  <2>4. current \in Counters /\ previous = [c \in Cells |-> 0] /\ document = << >>
    BY DEF DocumentRest, Counters
  <2> QED BY <2>3, <2>4 DEF DocumentInit
<1>2. MCInit => DropInit
  <2> SUFFICES ASSUME DropRest PROVE DropInit
    BY DEF MCInit
  <2> DEFINE i == [type |-> "top_drops", count |-> 1, ports |-> {}, all |-> FALSE, queue_type |-> "all", queues |-> {}]
  <2>1. i \in Inputs /\ i.type = "top_drops"
    <3>1. 1 \in 1 .. MaxCount
      BY DropsAssumption
    <3>2. i \in [type : {"top_drops"}, count : 1..MaxCount, ports : {{}}, all : {FALSE}, queue_type : {"all"}, queues : {{}}]
      BY <3>1
    <3>3. i.type = "top_drops"
      OBVIOUS
    <3> HIDE DEF i
    <3>4. i \in Inputs
      <4> DEFINE A == [type : {"top_drops"}, count : 1..MaxCount, ports : {{}}, all : {FALSE}, queue_type : {"all"}, queues : {{}}]
                 B == [type : {"top_q_drops"}, count : 1..MaxCount, ports : {{}}, all : {FALSE},
                       queue_type : {"all", "ucast", "mcast"}, queues : {{}}]
                 C == {[type |-> "port_drops", count |-> 0, ports |-> l.ports, all |-> l.all,
                        queue_type |-> "all", queues |-> {}] : l \in PortLists}
                 D == {[type |-> "q_drops", count |-> 0, ports |-> l.ports, all |-> l.all, queue_type |-> t, queues |-> q] :
                        l \in PortLists, t \in {"all", "ucast", "mcast"}, q \in NonEmpty(1..Queues)}
      <4>1. Inputs = A \cup B \cup C \cup D
        BY DEF Inputs
      <4>2. i \in A
        BY <3>2
      <4> HIDE DEF A, B, C, D
      <4> QED BY <4>1, <4>2
    <3> QED BY <3>3, <3>4
  <2> HIDE DEF i
  <2>2. input \in Inputs /\ report = << >>
    BY <2>1 DEF DropRest
  <2>3. {} \in Dropping(MaxDropping)
    <3>1. Cardinality({}) = 0 /\ 0 <= MaxDropping
      BY FS_EmptySet, DropsAssumption
    <3> QED BY <3>1 DEF Dropping
  <2>4. \E d \in Dropping(MaxDropping) : \E values \in [d -> 1..2] :
          switch = [j \in Indices |-> IF j \in d THEN values[j] ELSE 0]
    <3> DEFINE none == [j \in {} |-> 1]
    <3>1. none \in [{} -> 1..2] /\ switch = [j \in Indices |-> IF j \in {} THEN none[j] ELSE 0]
      BY DEF DropRest
    <3> HIDE DEF none
    <3> QED BY <2>3, <3>1
  <2> QED BY <2>2, <2>4 DEF DropInit
<1>3. MCInit => PacketDocumentInit
  <2> SUFFICES ASSUME PacketDocumentRest PROVE PacketDocumentInit
    BY DEF MCInit
  <2>1. wanted \in BlackHoles /\ sent = << >>
    BY DEF PacketDocumentRest, BlackHoles
  <2> QED BY <2>1 DEF PacketDocumentInit
<1>4. MCNext => [DocumentNext]_documentVars /\ [DropNext]_dropVars /\ [PacketDocumentNext]_packetDocumentVars
  BY DEF MCNext, JsonRuns, ThrRuns, DocumentRuns, DropRuns, PacketDocumentRuns, PoolRuns
<1>5. UNCHANGED requestsVars => UNCHANGED <<documentVars, dropVars, packetDocumentVars>>
  BY DEF requestsVars
<1>6. [MCNext]_requestsVars => [DocumentNext]_documentVars /\ [DropNext]_dropVars /\ [PacketDocumentNext]_packetDocumentVars
  BY <1>4, <1>5
<1> QED BY <1>1, <1>2, <1>3, <1>6, PTL DEF MCSpec, DocumentSpec, DropSpec, PacketDocumentSpec

\* Whichever part runs, every variable has its type.
THEOREM RequestsTypes == MCSpec => []RequestsTypeOK
<1>1. JsonTypeOK /\ ThrTypeOK /\ DocumentsTypeOK /\ DropDocumentsTypeOK => RequestsTypeOK
  BY DEF RequestsTypeOK
<1> QED BY <1>1, PartsRun, DocumentPartsRun, JsonTypesHold, ThrTypesHold, ReportTypes, DropReportTypes, PTL

\* A parser takes every document that is sent, whichever of its lists are empty, but
\* for one that tells an ECMP group without members.
THEOREM DocumentsParse == MCSpec => []DocumentsWellFormed
<1>1. ReportWellFormed /\ DropsWellFormed /\ PacketReportWellFormed => DocumentsWellFormed
  BY DEF DocumentsWellFormed
<1> QED BY <1>1, DocumentPartsRun, ReportParses, DropReportParses, PacketReportParses, PTL

\* What is sent tells what the switch counted and what was asked for.
THEOREM DocumentsTellTheSwitch == MCSpec => []DocumentsTell
<1>1. CollectorSees /\ OnlyTheTrigger /\ ToldAsCounted /\ TopIsTop /\ NamedDropsTold /\ ResolutionTold => DocumentsTell
  BY DEF DocumentsTell
<1> QED BY <1>1, DocumentPartsRun, CollectorKnows, TriggerTells, DropsAreCounted, LargestTold, NamedTold, ResolutionIsTold, PTL
=============================================================================
