---------------------- MODULE ReadResponseFsm_proofs ----------------------
(***************************************************************************)
(* For every request: check_request() lets exactly the whole units         *)
(* through, and read_response_fsm, resumed with any answer that the server *)
(* may give, stays in step with the server.                                *)
(***************************************************************************)
EXTENDS ResponseInStep, FiniteSetTheorems, TLAPS

\* The time, in seconds, that a prover may take for a leaf.
USE SMTT(20), ZenonT(20)

\* Every set of natural numbers that is not empty has a least element.
LEMMA Least ==
  ASSUME NEW S \in SUBSET Nat, S # {}
  PROVE  \E p \in S : \A q \in S : p <= q
<1> DEFINE R == OpToRel(<, Nat)
<1>1. IsWellFoundedOn(R, Nat)
  BY NatLessThanWellFounded, ZenonT(30)
<1>2. PICK p \in S : \A q \in S : ~(<<q, p>> \in R)
  BY <1>1, WFMin, ZenonT(30)
<1>3. \A q \in S : ~(q < p)
  BY <1>2, ZenonT(30) DEF OpToRel
<1> QED BY <1>3

-----------------------------------------------------------------------------
(* check_request() *)

\* The messages up to i end inside a batch: one of them opens a batch, and no
\* sync comes after it.
Inside(r, i) ==
  \E j \in 1..i : r[j] \in ExtendedTypes /\ \A k \in j..i : r[k] # "sync"

\* Inside, from what it was before the last message.
LEMMA InsideStep ==
  ASSUME NEW r \in Seq(MessageTypes), NEW i \in 0..Len(r)
  PROVE  Inside(r, i) = IF i = 0 THEN FALSE
                        ELSE IF r[i] = "sync" THEN FALSE
                        ELSE IF r[i] = "query" THEN Inside(r, i - 1)
                        ELSE TRUE
<1>1. CASE i = 0
  BY <1>1 DEF Inside
<1>2. CASE i # 0 /\ r[i] = "sync"
  BY <1>2 DEF Inside
<1>3. CASE i # 0 /\ r[i] = "query"
  <2>1. i - 1 \in 0..Len(r) /\ i \in 1..Len(r)
    BY <1>3
  <2>2. ASSUME Inside(r, i) PROVE Inside(r, i - 1)
    <3>1. PICK j \in 1..i : r[j] \in ExtendedTypes /\ \A k \in j..i : r[k] # "sync"
      BY <2>2 DEF Inside
    <3>2. j # i
      BY <3>1, <1>3 DEF ExtendedTypes
    <3>3. j \in 1..(i - 1) /\ \A k \in j..(i - 1) : k \in j..i
      BY <3>2
    <3> QED BY <3>1, <3>3 DEF Inside
  <2>3. ASSUME Inside(r, i - 1) PROVE Inside(r, i)
    <3>1. PICK j \in 1..(i - 1) : r[j] \in ExtendedTypes /\ \A k \in j..(i - 1) : r[k] # "sync"
      BY <2>3 DEF Inside
    <3>2. j \in 1..i /\ \A k \in j..i : k = i \/ k \in j..(i - 1)
      OBVIOUS
    <3>3. \A k \in j..i : r[k] # "sync"
      BY <3>1, <3>2, <1>3
    <3> QED BY <3>1, <3>2, <3>3 DEF Inside
  <2>4. Inside(r, i) \in BOOLEAN /\ Inside(r, i - 1) \in BOOLEAN
    BY DEF Inside
  <2> QED BY <2>2, <2>3, <2>4, <1>3
<1>4. CASE i # 0 /\ r[i] \notin {"sync", "query"}
  <2>1. i \in 1..Len(r) /\ r[i] \in MessageTypes
    BY <1>4
  <2>2. r[i] \in ExtendedTypes /\ i \in 1..i /\ \A k \in i..i : k = i
    BY <2>1, <1>4 DEF ExtendedTypes
  <2>3. Inside(r, i)
    BY <2>2, <1>4 DEF Inside
  <2> QED BY <2>3, <1>4 DEF Inside
<1> QED BY <1>1, <1>2, <1>3, <1>4, ZenonT(30)

\* The loop computes is_extended_batch from its value before the message.
LEMMA InBatchStep ==
  ASSUME NEW r \in Seq(MessageTypes)
  PROVE  \A i \in 0..Len(r) :
           InBatch(r)[i] = IF i = 0 THEN FALSE
                           ELSE IF r[i] = "sync" THEN FALSE
                           ELSE IF r[i] = "query" THEN InBatch(r)[i - 1]
                           ELSE TRUE
<1> DEFINE Loop(f) == [i \in 0..Len(r) |-> IF i = 0 THEN FALSE
                                          ELSE IF r[i] = "sync" THEN FALSE
                                          ELSE IF r[i] = "query" THEN f[i - 1]
                                          ELSE TRUE]
           w == [i \in 0..Len(r) |-> Inside(r, i)]
<1>1. \A i \in 0..Len(r) : w[i] = IF i = 0 THEN FALSE
                                  ELSE IF r[i] = "sync" THEN FALSE
                                  ELSE IF r[i] = "query" THEN w[i - 1]
                                  ELSE TRUE
  <2>1. \A i \in 0..Len(r) : w[i] = Inside(r, i) /\ (i # 0 => i - 1 \in 0..Len(r))
    OBVIOUS
  <2>2. \A i \in 0..Len(r) : i # 0 => w[i - 1] = Inside(r, i - 1)
    BY <2>1
  <2> HIDE DEF w
  <2> QED BY <2>1, <2>2, InsideStep, ZenonT(30)
<1>2. w = Loop(w)
  BY <1>1, ZenonT(30)
<1>3. InBatch(r) = CHOOSE f : f = Loop(f)
  BY DEF InBatch
<1>4. InBatch(r) = Loop(InBatch(r))
  BY <1>2, <1>3, ZenonT(30)
<1> QED BY <1>4

\* is_extended_batch is what its name says, after any number of messages.
LEMMA InBatchInside ==
  ASSUME NEW r \in Seq(MessageTypes)
  PROVE  \A i \in 0..Len(r) : InBatch(r)[i] = Inside(r, i)
<1> DEFINE S == {i \in 0..Len(r) : InBatch(r)[i] # Inside(r, i)}
<1>1. SUFFICES ASSUME S # {} PROVE FALSE
  OBVIOUS
<1>2. S \in SUBSET Nat
  OBVIOUS
<1>3. PICK p \in S : \A q \in S : p <= q
  BY <1>1, <1>2, Least, ZenonT(30)
<1>4. p # 0 => p - 1 \in 0..Len(r) /\ InBatch(r)[p - 1] = Inside(r, p - 1)
  BY <1>3
<1>5. p \in 0..Len(r) /\ InBatch(r)[p] # Inside(r, p)
  OBVIOUS
<1> HIDE DEF S
<1>6. InBatch(r)[p] = Inside(r, p)
  <2>1. InBatch(r)[p] = IF p = 0 THEN FALSE
                        ELSE IF r[p] = "sync" THEN FALSE
                        ELSE IF r[p] = "query" THEN InBatch(r)[p - 1]
                        ELSE TRUE
    BY <1>5, InBatchStep, ZenonT(30)
  <2>2. Inside(r, p) = IF p = 0 THEN FALSE
                       ELSE IF r[p] = "sync" THEN FALSE
                       ELSE IF r[p] = "query" THEN Inside(r, p - 1)
                       ELSE TRUE
    BY <1>5, InsideStep, ZenonT(30)
  <2> QED BY <2>1, <2>2, <1>4, ZenonT(30)
<1> QED BY <1>5, <1>6

\* check_request() accepts exactly the requests made of whole units, whatever
\* their length: every extended message has a sync after it, with no query in
\* between.
THEOREM CheckRequestExact ==
  ASSUME NEW r \in Seq(MessageTypes)
  PROVE  (CheckRequest(r) = "ok") <=> WellFormed(r)
<1>1. \A i \in 0..Len(r) : InBatch(r)[i] <=> Inside(r, i)
  BY InBatchInside
<1>2. CheckRequest(r) = "ok" <=>
        /\ r # <<>>
        /\ ~ \E i \in 1..Len(r) : r[i] = "query" /\ InBatch(r)[i - 1]
        /\ ~ InBatch(r)[Len(r)]
  BY DEF CheckRequest
<1>3. ASSUME CheckRequest(r) = "ok" PROVE WellFormed(r)
  <2>1. SUFFICES ASSUME NEW i \in 1..Len(r), r[i] \in ExtendedTypes
                 PROVE  \E j \in i..Len(r) : r[j] = "sync" /\ \A k \in i..j : r[k] # "query"
    BY <1>2, <1>3 DEF WellFormed
  <2> DEFINE S == {j \in i..Len(r) : r[j] \in {"sync", "query"}}
  <2>2. S # {}
    <3>1. ~ Inside(r, Len(r))
      BY <1>1, <1>2, <1>3
    <3>2. PICK k \in i..Len(r) : r[k] = "sync"
      BY <3>1, <2>1 DEF Inside
    <3> QED BY <3>2
  <2>3. S \in SUBSET Nat
    OBVIOUS
  <2>4. PICK p \in S : \A q \in S : p <= q
    BY <2>2, <2>3, Least, ZenonT(30)
  <2>5. \A k \in i..(p - 1) : r[k] \notin {"sync", "query"}
    BY <2>4
  <2>6. r[p] # "query"
    <3>1. SUFFICES ASSUME r[p] = "query" PROVE FALSE
      OBVIOUS
    <3>2. p # i
      BY <2>1, <3>1 DEF ExtendedTypes
    <3>3. p - 1 \in 0..Len(r) /\ i \in 1..(p - 1) /\ p \in 1..Len(r)
      BY <3>2
    <3>4. Inside(r, p - 1)
      BY <3>3, <2>5, <2>1 DEF Inside
    <3> QED BY <3>1, <3>3, <3>4, <1>1, <1>2, <1>3
  <2>7. r[p] = "sync" /\ \A k \in i..p : k = p \/ k \in i..(p - 1)
    BY <2>4, <2>6
  <2>8. \A k \in i..p : r[k] # "query"
    BY <2>5, <2>7
  <2> QED BY <2>4, <2>7, <2>8
<1>4. ASSUME WellFormed(r) PROVE CheckRequest(r) = "ok"
  <2>1. ~ InBatch(r)[Len(r)]
    <3>1. SUFFICES ASSUME Inside(r, Len(r)) PROVE FALSE
      BY <1>1
    <3>2. PICK j \in 1..Len(r) : r[j] \in ExtendedTypes /\ \A k \in j..Len(r) : r[k] # "sync"
      BY <3>1 DEF Inside
    <3> QED BY <3>2, <1>4 DEF WellFormed
  <2>2. ASSUME NEW i \in 1..Len(r), r[i] = "query", InBatch(r)[i - 1] PROVE FALSE
    <3>1. Inside(r, i - 1)
      <4>1. i - 1 \in 0..Len(r)
        OBVIOUS
      <4> QED BY <4>1, <1>1, <2>2
    <3>2. PICK j \in 1..(i - 1) : r[j] \in ExtendedTypes /\ \A k \in j..(i - 1) : r[k] # "sync"
      BY <3>1 DEF Inside
    <3>3. j \in 1..Len(r)
      OBVIOUS
    <3>4. PICK m \in j..Len(r) : r[m] = "sync" /\ \A k \in j..m : r[k] # "query"
      BY <3>2, <3>3, <1>4 DEF WellFormed
    <3>5. m > i - 1
      BY <3>2, <3>4
    <3>6. i \in j..m
      BY <3>5
    <3> QED BY <3>4, <3>6, <2>2
  <2>3. r # <<>>
    BY <1>4 DEF WellFormed
  <2> QED BY <2>1, <2>2, <2>3, <1>2
<1> QED BY <1>3, <1>4

-----------------------------------------------------------------------------
(* The searches that resume() and handle_error() make.                     *)

LEMMA SkipFlushIs ==
  ASSUME NEW r \in Seq(MessageTypes), NEW i \in 1..Len(r), NEW p \in i..Len(r),
         r[p] # "flush", \A k \in i..(p - 1) : r[k] = "flush"
  PROVE  SkipFlush(r, i) = p
<1> DEFINE P(j) == r[j] # "flush" /\ \A k \in i..(j - 1) : r[k] = "flush"
<1>1. \A j \in i..Len(r) : P(j) => j = p
  <2>1. SUFFICES ASSUME NEW j \in i..Len(r), P(j), j # p PROVE FALSE
    OBVIOUS
  <2>2. j < p => j \in i..(p - 1)
    OBVIOUS
  <2>3. p < j => p \in i..(j - 1)
    OBVIOUS
  <2> QED BY <2>1, <2>2, <2>3
<1>2. P(p)
  OBVIOUS
<1>3. SkipFlush(r, i) = CHOOSE j \in i..Len(r) : P(j)
  BY DEF SkipFlush
<1> QED BY <1>1, <1>2, <1>3

LEMMA NextSyncIs ==
  ASSUME NEW r \in Seq(MessageTypes), NEW i \in 1..Len(r),
         \E j \in (i + 1)..Len(r) : r[j] = "sync"
  PROVE  /\ NextSync(r, i) \in (i + 1)..Len(r)
         /\ r[NextSync(r, i)] = "sync"
         /\ \A k \in (i + 1)..(NextSync(r, i) - 1) : r[k] # "sync"
<1> DEFINE S == {j \in (i + 1)..Len(r) : r[j] = "sync"}
           P(j) == /\ j <= Len(r) => r[j] = "sync"
                   /\ \A k \in (i + 1)..(j - 1) : r[k] # "sync"
<1>1. S # {} /\ S \in SUBSET Nat
  OBVIOUS
<1>2. PICK p \in S : \A q \in S : p <= q
  BY <1>1, Least, ZenonT(30)
<1>3. \A k \in (i + 1)..(p - 1) : r[k] # "sync"
  BY <1>2
<1>4. p \in (i + 1)..(Len(r) + 1) /\ P(p)
  BY <1>3
<1>5. NextSync(r, i) = CHOOSE j \in (i + 1)..(Len(r) + 1) : P(j)
  BY DEF NextSync
<1>6. NextSync(r, i) \in (i + 1)..(Len(r) + 1) /\ P(NextSync(r, i))
  BY SMTT(30), <1>4, <1>5
<1>7. NextSync(r, i) # Len(r) + 1
  <2>1. SUFFICES ASSUME NextSync(r, i) = Len(r) + 1 PROVE FALSE
    OBVIOUS
  <2>2. \A k \in (i + 1)..(Len(r) + 1 - 1) : r[k] # "sync"
    BY <2>1, <1>6
  <2> QED BY <2>2, <1>2
<1> QED BY <1>6, <1>7

\* The loop of handle_error() computes the calls from those before the message.
LEMMA SkippedStep ==
  ASSUME NEW r \in Seq(MessageTypes), NEW c \in 1..Len(r)
  PROVE  \A j \in c..Len(r) :
           Skipped(r, c)[j] = IF j = c THEN <<>>
                              ELSE IF r[j] = "flush" THEN Skipped(r, c)[j - 1]
                              ELSE Append(Skipped(r, c)[j - 1], <<j, "message_skipped">>)
<1> DEFINE Body(F, j) == IF j = c THEN <<>>
                         ELSE IF r[j] = "flush" THEN F[j - 1]
                         ELSE Append(F[j - 1], <<j, "message_skipped">>)
           Has(n) == \E F : \A j \in c..n : F[j] = Body(F, j)
           S == {n \in c..Len(r) : ~ Has(n)}
<1>1. S = {}
  <2>1. SUFFICES ASSUME S # {} PROVE FALSE
    BY ZenonT(30)
  <2>2. PICK p \in S : \A q \in S : p <= q
    <3>1. S \in SUBSET Nat
      OBVIOUS
    <3>2. S # {}
      BY <2>1
    <3> HIDE DEF S
    <3> QED BY <3>1, <3>2, Least
  <2>3. p \in c..Len(r) /\ ~ Has(p) /\ \A n \in c..Len(r) : n < p => Has(n)
    <3> HIDE DEF Has
    <3> QED BY <2>2
  <2> HIDE DEF S
  <2>4. p # c
    <3> DEFINE F == [j \in c..c |-> <<>>]
    <3>1. \A j \in c..c : F[j] = Body(F, j)
      OBVIOUS
    <3> QED BY <3>1, <2>3, ZenonT(30)
  <2>5. p - 1 \in c..Len(r) /\ p - 1 < p
    BY <2>3, <2>4
  <2>6. PICK F : \A j \in c..(p - 1) : F[j] = Body(F, j)
    BY <2>3, <2>5, ZenonT(30)
  <2> DEFINE b == Body(F, p)
             G == [j \in c..p |-> IF j = p THEN b ELSE F[j]]
  <2>7. /\ \A j \in c..p : j # p => j \in c..(p - 1) /\ G[j] = F[j]
        /\ p \in c..p /\ G[p] = b
        /\ \A j \in c..p : j # c => j - 1 \in c..p /\ j - 1 # p
    BY <2>3
  <2>8. b = Body(G, p)
    BY <2>7, <2>4
  <2> HIDE DEF G, b
  <2>9. \A j \in c..p : G[j] = Body(G, j)
    BY <2>6, <2>7, <2>8, ZenonT(30)
  <2> QED BY <2>3, <2>9
<1>2. Has(Len(r))
  <2> HIDE DEF Has
  <2> QED BY <1>1
<1>3. PICK F : \A j \in c..Len(r) : F[j] = Body(F, j)
  BY <1>2
<1> DEFINE Loop(f) == [j \in c..Len(r) |-> Body(f, j)]
           W == [j \in c..Len(r) |-> F[j]]
<1>4. W = Loop(W)
  <2>1. \A j \in c..Len(r) : W[j] = F[j] /\ (j # c => j - 1 \in c..Len(r))
    OBVIOUS
  <2> HIDE DEF W
  <2>2. \A j \in c..Len(r) : Body(F, j) = Body(W, j)
    BY <2>1
  <2>3. \A j \in c..Len(r) : F[j] = Body(W, j)
    BY <1>3, <2>2, ZenonT(30)
  <2> HIDE DEF Body
  <2> QED BY <2>3 DEF W
<1>5. Skipped(r, c) = CHOOSE f : f = Loop(f)
  BY DEF Skipped
<1>6. Skipped(r, c) = Loop(Skipped(r, c))
  BY <1>4, <1>5, ZenonT(30)
<1> QED BY <1>6, ZenonT(30)

\* The calls q tell exactly the messages after c and up to j that are no flush,
\* each one once.
TellSkipped(r, c, j, q) ==
  /\ q \in Seq(Int \X {"message_skipped"})
  /\ \A n \in 1..Len(q) : q[n][1] \in (c + 1)..j /\ r[q[n][1]] # "flush"
  /\ \A i \in (c + 1)..j : r[i] # "flush" => \E n \in 1..Len(q) : q[n][1] = i
  /\ \A m, n \in 1..Len(q) : m # n => q[m][1] # q[n][1]

\* handle_error() reports the messages it gives up, all of them and once each.
LEMMA SkippedTold ==
  ASSUME NEW r \in Seq(MessageTypes), NEW c \in 1..Len(r)
  PROVE  \A j \in c..Len(r) : TellSkipped(r, c, j, Skipped(r, c)[j])
<1> DEFINE q(j) == Skipped(r, c)[j]
           S == {j \in c..Len(r) : ~ TellSkipped(r, c, j, q(j))}
<1>1. SUFFICES ASSUME S # {} PROVE FALSE
  OBVIOUS
<1>2. PICK p \in S : \A n \in S : p <= n
  <2>1. S \in SUBSET Nat
    OBVIOUS
  <2> HIDE DEF S
  <2> QED BY <2>1, <1>1, Least
<1>3. /\ p \in c..Len(r) /\ ~ TellSkipped(r, c, p, q(p))
      /\ p # c => p - 1 \in c..Len(r) /\ TellSkipped(r, c, p - 1, q(p - 1))
  BY <1>2
<1>4. q(p) = IF p = c THEN <<>>
             ELSE IF r[p] = "flush" THEN q(p - 1)
             ELSE Append(q(p - 1), <<p, "message_skipped">>)
  BY <1>3, SkippedStep
<1> HIDE DEF S, q
<1>5. CASE p = c
  BY <1>3, <1>4, <1>5 DEF TellSkipped
<1>6. CASE p # c /\ r[p] = "flush"
  <2>1. \A i \in (c + 1)..p : i = p \/ i \in (c + 1)..(p - 1)
    BY <1>3
  <2>2. \A i \in (c + 1)..(p - 1) : i \in (c + 1)..p
    BY <1>3
  <2> QED BY <2>1, <2>2, <1>3, <1>4, <1>6 DEF TellSkipped
<1>7. CASE p # c /\ r[p] # "flush"
  <2> DEFINE a == q(p - 1)
             x == <<p, "message_skipped">>
             b == Append(a, x)
  <2>1. TellSkipped(r, c, p - 1, a) /\ q(p) = b
    BY <1>3, <1>4, <1>7
  <2>2. x \in Int \X {"message_skipped"} /\ x[1] = p
    BY <1>3
  <2>3. a \in Seq(Int \X {"message_skipped"}) /\ Len(a) \in Nat
    BY <2>1 DEF TellSkipped
  <2> HIDE DEF a, x
  <2>4. /\ b \in Seq(Int \X {"message_skipped"}) /\ Len(b) = Len(a) + 1 /\ b[Len(a) + 1] = x
        /\ \A n \in 1..Len(a) : b[n] = a[n]
    BY <2>2, <2>3
  <2> HIDE DEF b
  <2>5. /\ \A n \in 1..Len(b) : n \in 1..Len(a) \/ n = Len(a) + 1
        /\ \A n \in 1..Len(a) : n \in 1..Len(b)
        /\ Len(a) + 1 \in 1..Len(b)
    BY <2>3, <2>4
  <2>6. \A n \in 1..Len(a) : /\ a[n][1] \in (c + 1)..p /\ a[n][1] # p /\ r[a[n][1]] # "flush"
    BY <2>1, <1>3 DEF TellSkipped
  <2>7. \A n \in 1..Len(b) : b[n][1] \in (c + 1)..p /\ r[b[n][1]] # "flush"
    <3>1. p \in (c + 1)..p /\ r[p] # "flush"
      BY <1>3, <1>7
    <3> QED BY <3>1, <2>2, <2>4, <2>5, <2>6
  <2>8. \A i \in (c + 1)..p : r[i] # "flush" => \E n \in 1..Len(b) : b[n][1] = i
    <3>1. \A i \in (c + 1)..p : i = p \/ i \in (c + 1)..(p - 1)
      BY <1>3
    <3>2. \A i \in (c + 1)..(p - 1) : r[i] # "flush" => \E n \in 1..Len(a) : a[n][1] = i
      BY <2>1 DEF TellSkipped
    <3> QED BY <3>1, <3>2, <2>2, <2>4, <2>5
  <2>9. \A m, n \in 1..Len(b) : m # n => b[m][1] # b[n][1]
    <3>1. \A m, n \in 1..Len(a) : m # n => a[m][1] # a[n][1]
      BY <2>1 DEF TellSkipped
    <3>2. \A n \in 1..Len(a) : b[n][1] = a[n][1] /\ b[n][1] # p
      BY <2>4, <2>6
    <3>3. b[Len(a) + 1][1] = p
      BY <2>2, <2>4
    <3>4. SUFFICES ASSUME NEW m \in 1..Len(b), NEW n \in 1..Len(b), m # n
                   PROVE  b[m][1] # b[n][1]
      OBVIOUS
    <3>5. CASE m \in 1..Len(a) /\ n \in 1..Len(a)
      BY <3>1, <3>2, <3>4, <3>5
    <3> QED BY <3>2, <3>3, <3>4, <3>5, <2>5
  <2> QED BY <2>1, <2>4, <2>7, <2>8, <2>9, <1>3 DEF TellSkipped
<1> QED BY <1>5, <1>6, <1>7

\* The answer to a message ends.
LEMMA AdvanceKept ==
  ASSUME NEW r \in Seq(MessageTypes), NEW g \in Fsms, NEW s \in Backends, NEW kinds,
         g.cur \in 1..Len(r), s.pos = g.cur
  PROVE  Kept(r, Advance(r, g, kinds), Ended(s))
<1> DEFINE out == Advance(r, g, kinds)
           e == Ended(s)
<1>1. /\ out.fsm = [cur |-> g.cur + 1, st |-> "msg_first", copy |-> g.copy]
      /\ out.type = (IF g.cur + 1 > Len(r) THEN "done" ELSE "read")
      /\ out.ec = "ok"
  BY ZenonT(30) DEF Advance, Fsms
<1>2. e = [pos |-> g.cur + 1, ph |-> "start", skip |-> FALSE]
  BY DEF Ended
<1>3. out.fsm \in Fsms /\ e \in Backends
  BY <1>1, <1>2 DEF Fsms, Backends, FsmStates, BackendPhases
<1>4. CASE g.cur + 1 > Len(r)
  BY <1>1, <1>2, <1>3, <1>4 DEF Kept, Finished
<1>5. CASE g.cur + 1 \in 1..Len(r)
  <2>1. Follows(r, out.fsm, e)
    BY <1>1, <1>2, <1>5 DEF Follows, Agree
  <2> QED BY <2>1, <1>1, <1>3, <1>5 DEF Kept, InStep
<1> HIDE DEF out, e
<1> QED BY <1>4, <1>5 DEF out, e

\* An error makes the backend skip messages, and the machine wait for a sync.
LEMMA ErrorKept ==
  ASSUME NEW r \in Seq(MessageTypes), WellFormed(r), NEW g \in Fsms, NEW s \in Backends,
         g.cur \in 1..Len(r), s.pos = g.cur, r[g.cur] \in ExtendedTypes
  PROVE  Kept(r, HandleError(r, g), Failed(s))
<1> DEFINE out == HandleError(r, g)
           e == Failed(s)
           n == NextSync(r, g.cur)
<1>1. \E j \in (g.cur + 1)..Len(r) : r[j] = "sync"
  <2>1. PICK j \in g.cur..Len(r) : r[j] = "sync"
    BY DEF WellFormed
  <2>2. j # g.cur
    BY <2>1 DEF ExtendedTypes
  <2> QED BY <2>1, <2>2
<1>2. n \in (g.cur + 1)..Len(r) /\ r[n] = "sync" /\ \A k \in (g.cur + 1)..(n - 1) : r[k] # "sync"
  BY <1>1, NextSyncIs
<1>3. /\ out.fsm = [cur |-> n, st |-> "msg_first", copy |-> g.copy]
      /\ out.type = (IF n <= Len(r) THEN "read" ELSE "done")
      /\ out.ec = (IF n <= Len(r) THEN "ok" ELSE "request_ends_without_sync")
  BY ZenonT(30) DEF HandleError, Fsms
<1>4. e = [pos |-> g.cur + 1, ph |-> "start", skip |-> TRUE]
  BY DEF Failed
<1> HIDE DEF out, e, n
<1>5. out.fsm \in Fsms /\ e \in Backends
  BY <1>2, <1>3, <1>4 DEF Fsms, Backends, FsmStates, BackendPhases
<1>6. Skips(r, out.fsm, e)
  BY <1>2, <1>3, <1>4 DEF Skips
<1>7. Kept(r, out, e)
  BY <1>2, <1>3, <1>5, <1>6 DEF Kept, InStep
<1> QED BY <1>7 DEF out, e

\* Both stay at the message.
LEMMA ReadKept ==
  ASSUME NEW r \in Seq(MessageTypes), NEW g \in Fsms, NEW s \in Backends,
         NEW st \in FsmStates, NEW ph \in BackendPhases, NEW kinds,
         g.cur \in 1..Len(r), s.pos = g.cur, ~ s.skip,
         <<st, ph>> \in Agree(r[g.cur])
  PROVE  Kept(r, Read(g, st, kinds), InPhase(s, ph))
<1> DEFINE out == Read(g, st, kinds)
           e == InPhase(s, ph)
<1>1. /\ out.fsm = [cur |-> g.cur, st |-> st, copy |-> g.copy]
      /\ out.type = "read" /\ out.ec = "ok"
  BY DEF Read, Fsms
<1>2. e = [pos |-> g.cur, ph |-> ph, skip |-> s.skip] /\ s.skip \in BOOLEAN
  BY DEF InPhase, Backends
<1> HIDE DEF out, e
<1>3. out.fsm \in Fsms /\ e \in Backends
  BY <1>1, <1>2 DEF Fsms, Backends
<1>4. Follows(r, out.fsm, e)
  BY <1>1, <1>2 DEF Follows
<1>5. Kept(r, out, e)
  BY <1>1, <1>3, <1>4 DEF Kept, InStep
<1> QED BY <1>5 DEF out, e

-----------------------------------------------------------------------------
(* One answer of the server, by the type of the message it answers.        *)

\* bind, close, parse, describe: one answer, which ends the message or fails it.
LEMMA SingleReplyKept ==
  ASSUME NEW r \in Seq(MessageTypes), WellFormed(r), NEW g \in Fsms, NEW s \in Backends,
         g.cur \in 1..Len(r), s.pos = g.cur, ~ Silent(r, s),
         r[g.cur] \in {"bind", "close", "parse", "describe"},
         NEW reply \in Replies(r, s)
  PROVE  \E out : /\ Kept(r, out, reply[2])
                  /\ reply[1] \notin AsyncKinds
                  /\ r[g.cur] = "bind" => out = HandleBind(r, g, reply[1])
                  /\ r[g.cur] = "close" => out = HandleClose(r, g, reply[1])
                  /\ r[g.cur] = "parse" => out = HandleParse(r, g, reply[1])
                  /\ r[g.cur] = "describe" => out = HandleDescribe(r, g, reply[1])
<1>1. Kept(r, HandleError(r, g), Failed(s))
  BY ErrorKept DEF ExtendedTypes, MessageTypes
<1>2. \A kinds : Kept(r, Advance(r, g, kinds), Ended(s))
  BY AdvanceKept
<1>3. \/ reply = <<"error_response", Failed(s)>>
      \/ r[g.cur] = "bind" /\ reply = <<"bind_complete", Ended(s)>>
      \/ r[g.cur] = "close" /\ reply = <<"close_complete", Ended(s)>>
      \/ r[g.cur] = "parse" /\ reply = <<"parse_complete", Ended(s)>>
      \/ r[g.cur] = "describe" /\ reply \in {<<"row_description", Ended(s)>>, <<"no_data", Ended(s)>>}
  BY DEF Replies
<1>4. CASE reply = <<"error_response", Failed(s)>>
  <2>1. /\ HandleBind(r, g, reply[1]) = HandleError(r, g)
        /\ HandleClose(r, g, reply[1]) = HandleError(r, g)
        /\ HandleParse(r, g, reply[1]) = HandleError(r, g)
        /\ HandleDescribe(r, g, reply[1]) = HandleError(r, g)
    BY <1>4 DEF HandleBind, HandleClose, HandleParse, HandleDescribe
  <2> QED BY <2>1, <1>1, <1>4 DEF AsyncKinds
<1>5. CASE r[g.cur] = "bind" /\ reply = <<"bind_complete", Ended(s)>>
  <2>1. HandleBind(r, g, reply[1]) = Advance(r, g, <<"bind_complete">>)
    BY <1>5 DEF HandleBind
  <2> QED BY <2>1, <1>2, <1>5 DEF AsyncKinds
<1>6. CASE r[g.cur] = "close" /\ reply = <<"close_complete", Ended(s)>>
  <2>1. HandleClose(r, g, reply[1]) = Advance(r, g, <<"close_complete">>)
    BY <1>6 DEF HandleClose
  <2> QED BY <2>1, <1>2, <1>6 DEF AsyncKinds
<1>7. CASE r[g.cur] = "parse" /\ reply = <<"parse_complete", Ended(s)>>
  <2>1. HandleParse(r, g, reply[1]) = Advance(r, g, <<"parse_complete">>)
    BY <1>7 DEF HandleParse
  <2> QED BY <2>1, <1>2, <1>7 DEF AsyncKinds
<1>8. CASE r[g.cur] = "describe" /\ reply \in {<<"row_description", Ended(s)>>, <<"no_data", Ended(s)>>}
  <2>1. HandleDescribe(r, g, reply[1]) = Advance(r, g, <<"row_description">>)
    BY <1>8 DEF HandleDescribe
  <2> QED BY <2>1, <1>2, <1>8 DEF AsyncKinds
<1> QED BY <1>3, <1>4, <1>5, <1>6, <1>7, <1>8

\* A COPY OUT begins, or is refused.
LEMMA StartCopyKept ==
  ASSUME NEW r \in Seq(MessageTypes), NEW g \in Fsms, NEW s \in Backends,
         NEW st \in FsmStates,
         g.cur \in 1..Len(r), s.pos = g.cur, ~ s.skip,
         <<st, "copy">> \in Agree(r[g.cur])
  PROVE  Kept(r, StartCopy(g, st), InPhase(s, "copy"))
<1>1. CASE g.copy
  <2>1. StartCopy(g, st) = Read(g, st, <<"row_description">>)
    BY <1>1 DEF StartCopy
  <2> QED BY <2>1, ReadKept, ZenonT(30) DEF BackendPhases
<1>2. CASE ~ g.copy
  <2>1. StartCopy(g, st) = [fsm |-> g, type |-> "done", ec |-> "copy_not_allowed", calls |-> <<>>]
    BY <1>2 DEF StartCopy, Fail
  <2>2. InPhase(s, "copy") \in Backends
    BY DEF InPhase, Backends, BackendPhases
  <2> QED BY <2>1, <2>2, <1>2 DEF Kept
<1> QED BY SMTT(30), <1>1, <1>2

LEMMA ExecuteReplyKept ==
  ASSUME NEW r \in Seq(MessageTypes), WellFormed(r), NEW g \in Fsms, NEW s \in Backends,
         g.cur \in 1..Len(r), s.pos = g.cur, ~ s.skip,
         r[g.cur] = "execute", <<g.st, s.ph>> \in Agree("execute"),
         NEW reply \in ExecuteReplies(s)
  PROVE  Kept(r, HandleExecute(r, g, reply[1]), reply[2]) /\ reply[1] \notin AsyncKinds
<1>1. Kept(r, HandleError(r, g), Failed(s))
  BY ErrorKept DEF ExtendedTypes, MessageTypes
<1>2. \A kinds : Kept(r, Advance(r, g, kinds), Ended(s))
  BY AdvanceKept
<1>3. \A st \in FsmStates, ph \in BackendPhases : \A kinds :
        <<st, ph>> \in Agree("execute") => Kept(r, Read(g, st, kinds), InPhase(s, ph))
  BY ReadKept
<1>4. InPhase(s, s.ph) = s
  BY DEF InPhase, Backends
<1>5. CASE reply = <<"error_response", Failed(s)>>
  <2>1. g.st \in {"msg_first", "exec_copy_out", "exec_copy_out_needs_command_complete"}
    BY DEF Agree
  <2>2. HandleExecute(r, g, reply[1]) = HandleError(r, g)
    BY <2>1, <1>5 DEF HandleExecute
  <2> QED BY <2>2, <1>1, <1>5 DEF AsyncKinds
<1>6. CASE s.ph \in {"start", "rows"} /\ reply # <<"error_response", Failed(s)>>
  <2>1. g.st = "msg_first"
    BY <1>6 DEF Agree
  <2>2. \/ reply = <<"command_complete", Ended(s)>>
        \/ reply = <<"portal_suspended", Ended(s)>>
        \/ reply = <<"empty_query_response", Ended(s)>>
        \/ reply = <<"data_row", InPhase(s, "rows")>>
        \/ reply = <<"copy_out_response", InPhase(s, "copy")>>
    BY <1>4, <1>6 DEF ExecuteReplies
  <2>3. CASE reply[1] \in {"command_complete", "portal_suspended", "empty_query_response"}
    <3>1. HandleExecute(r, g, reply[1]) = Advance(r, g, <<reply[1]>>)
      BY <2>1, <2>3 DEF HandleExecute
    <3> QED BY <3>1, <2>2, <2>3, <1>2 DEF AsyncKinds
  <2>4. CASE reply = <<"data_row", InPhase(s, "rows")>>
    <3>1. HandleExecute(r, g, reply[1]) = Read(g, "msg_first", <<reply[1]>>)
      BY <2>1, <2>4 DEF HandleExecute
    <3>2. Kept(r, Read(g, "msg_first", <<reply[1]>>), InPhase(s, "rows"))
      BY <1>3 DEF Agree, FsmStates, BackendPhases
    <3> QED BY <3>1, <3>2, <2>4 DEF AsyncKinds
  <2>5. CASE reply = <<"copy_out_response", InPhase(s, "copy")>>
    <3>1. HandleExecute(r, g, reply[1]) = StartCopy(g, "exec_copy_out")
      BY <2>1, <2>5 DEF HandleExecute
    <3>2. Kept(r, StartCopy(g, "exec_copy_out"), InPhase(s, "copy"))
      BY StartCopyKept DEF Agree, FsmStates
    <3> QED BY <3>1, <3>2, <2>5 DEF AsyncKinds
  <2> QED BY <2>2, <2>3, <2>4, <2>5
<1>7. CASE s.ph = "copy" /\ reply # <<"error_response", Failed(s)>>
  <2>1. g.st = "exec_copy_out"
    BY <1>7 DEF Agree
  <2>2. \/ reply = <<"copy_data", InPhase(s, "copy")>>
        \/ reply = <<"copy_done", InPhase(s, "copied")>>
    BY <1>4, <1>7 DEF ExecuteReplies
  <2>3. CASE reply = <<"copy_data", InPhase(s, "copy")>>
    <3>1. HandleExecute(r, g, reply[1]) = Read(g, "exec_copy_out", <<>>)
      BY <2>1, <2>3 DEF HandleExecute
    <3>2. Kept(r, Read(g, "exec_copy_out", <<>>), InPhase(s, "copy"))
      BY <1>3 DEF Agree, FsmStates, BackendPhases
    <3> QED BY <3>1, <3>2, <2>3 DEF AsyncKinds
  <2>4. CASE reply = <<"copy_done", InPhase(s, "copied")>>
    <3>1. HandleExecute(r, g, reply[1]) = Read(g, "exec_copy_out_needs_command_complete", <<>>)
      BY <2>1, <2>4 DEF HandleExecute
    <3>2. Kept(r, Read(g, "exec_copy_out_needs_command_complete", <<>>), InPhase(s, "copied"))
      BY <1>3 DEF Agree, FsmStates, BackendPhases
    <3> QED BY <3>1, <3>2, <2>4 DEF AsyncKinds
  <2> QED BY <2>2, <2>3, <2>4
<1>8. CASE s.ph = "copied" /\ reply # <<"error_response", Failed(s)>>
  <2>1. g.st = "exec_copy_out_needs_command_complete"
    BY <1>8 DEF Agree
  <2>2. reply = <<"command_complete", Ended(s)>>
    BY <1>8 DEF ExecuteReplies
  <2>3. HandleExecute(r, g, reply[1]) = Advance(r, g, <<"command_complete">>)
    BY <2>1, <2>2 DEF HandleExecute
  <2> QED BY <2>2, <2>3, <1>2 DEF AsyncKinds
<1>9. s.ph \in {"start", "rows", "copy", "copied"}
  BY DEF Agree
<1> QED BY <1>5, <1>6, <1>7, <1>8, <1>9

LEMMA QueryReplyKept ==
  ASSUME NEW r \in Seq(MessageTypes), NEW g \in Fsms, NEW s \in Backends,
         g.cur \in 1..Len(r), s.pos = g.cur, ~ s.skip,
         r[g.cur] = "query", <<g.st, s.ph>> \in Agree("query"),
         NEW reply \in QueryReplies(s)
  PROVE  Kept(r, HandleQuery(r, g, reply[1]), reply[2]) /\ reply[1] \notin AsyncKinds
<1>1. \A kinds : Kept(r, Advance(r, g, kinds), Ended(s))
  BY AdvanceKept
<1>2. \A st \in FsmStates, ph \in BackendPhases : \A kinds :
        <<st, ph>> \in Agree("query") => Kept(r, Read(g, st, kinds), InPhase(s, ph))
  BY ReadKept
<1>3. /\ \A kinds : Kept(r, Read(g, "query_needs_ready", kinds), InPhase(s, "ready"))
      /\ \A kinds : Kept(r, Read(g, "query_first", kinds), InPhase(s, "results"))
      /\ \A kinds : Kept(r, Read(g, "query_rows", kinds), InPhase(s, "rows"))
      /\ \A kinds : Kept(r, Read(g, "query_copy_out", kinds), InPhase(s, "copy"))
      /\ \A kinds : Kept(r, Read(g, "query_copy_out_needs_command_complete", kinds), InPhase(s, "copied"))
  BY <1>2 DEF Agree, FsmStates, BackendPhases
<1>4. Kept(r, StartCopy(g, "query_copy_out"), InPhase(s, "copy"))
  BY StartCopyKept DEF Agree, FsmStates
<1>5. InPhase(s, s.ph) = s
  BY DEF InPhase, Backends
<1>6. CASE reply = <<"error_response", InPhase(s, "ready")>> /\ s.ph # "ready"
  <2>1. g.st \in {"msg_first", "query_first", "query_rows", "query_copy_out",
                  "query_copy_out_needs_command_complete"}
    BY <1>6 DEF Agree
  <2>2. HandleQuery(r, g, reply[1]) = Read(g, "query_needs_ready", <<"error_response">>)
    BY <2>1, <1>6 DEF HandleQuery
  <2> QED BY <2>2, <1>3, <1>6 DEF AsyncKinds
<1>7. CASE s.ph \in {"start", "results"} /\ reply[1] # "error_response"
  <2>1. /\ g.st \in {"msg_first", "query_first"}
        /\ s.ph = "start" => g.st = "msg_first"
        /\ s.ph = "results" => g.st = "query_first"
    BY <1>7 DEF Agree
  <2>2. \/ reply = <<"row_description", InPhase(s, "rows")>>
        \/ reply = <<"command_complete", InPhase(s, "results")>>
        \/ reply = <<"copy_out_response", InPhase(s, "copy")>>
        \/ s.ph = "start" /\ reply = <<"empty_query_response", InPhase(s, "ready")>>
        \/ s.ph = "results" /\ reply = <<"ready_for_query", Ended(s)>>
    BY <1>7 DEF QueryReplies
  <2>3. CASE reply = <<"row_description", InPhase(s, "rows")>>
    <3>1. HandleQuery(r, g, reply[1]) = Read(g, "query_rows", <<"row_description">>)
      BY <2>1, <2>3 DEF HandleQuery
    <3> QED BY <3>1, <2>3, <1>3 DEF AsyncKinds
  <2>4. CASE reply = <<"command_complete", InPhase(s, "results")>>
    <3>1. HandleQuery(r, g, reply[1]) = Read(g, "query_first", <<"row_description", "command_complete">>)
      BY <2>1, <2>4 DEF HandleQuery
    <3> QED BY <3>1, <2>4, <1>3 DEF AsyncKinds
  <2>5. CASE reply = <<"copy_out_response", InPhase(s, "copy")>>
    <3>1. HandleQuery(r, g, reply[1]) = StartCopy(g, "query_copy_out")
      BY <2>1, <2>5 DEF HandleQuery
    <3> QED BY <3>1, <2>5, <1>4 DEF AsyncKinds
  <2>6. CASE s.ph = "start" /\ reply = <<"empty_query_response", InPhase(s, "ready")>>
    <3>1. HandleQuery(r, g, reply[1]) = Read(g, "query_needs_ready", <<"empty_query_response">>)
      BY <2>1, <2>6 DEF HandleQuery
    <3> QED BY <3>1, <2>6, <1>3 DEF AsyncKinds
  <2>7. CASE s.ph = "results" /\ reply = <<"ready_for_query", Ended(s)>>
    <3>1. HandleQuery(r, g, reply[1]) = Advance(r, g, <<>>)
      BY <2>1, <2>7 DEF HandleQuery
    <3> QED BY <3>1, <2>7, <1>1 DEF AsyncKinds
  <2> QED BY <2>2, <2>3, <2>4, <2>5, <2>6, <2>7
<1>8. CASE s.ph = "rows" /\ reply[1] # "error_response"
  <2>1. g.st = "query_rows"
    BY <1>8 DEF Agree
  <2>2. \/ reply = <<"data_row", InPhase(s, "rows")>>
        \/ reply = <<"command_complete", InPhase(s, "results")>>
    BY <1>5, <1>8 DEF QueryReplies
  <2>3. /\ HandleQuery(r, g, "data_row") = Read(g, "query_rows", <<"data_row">>)
        /\ HandleQuery(r, g, "command_complete") = Read(g, "query_first", <<"command_complete">>)
    BY <2>1 DEF HandleQuery
  <2> QED BY <2>2, <2>3, <1>3 DEF AsyncKinds
<1>9. CASE s.ph = "copy" /\ reply[1] # "error_response"
  <2>1. g.st = "query_copy_out"
    BY <1>9 DEF Agree
  <2>2. \/ reply = <<"copy_data", InPhase(s, "copy")>>
        \/ reply = <<"copy_done", InPhase(s, "copied")>>
    BY <1>5, <1>9 DEF QueryReplies
  <2>3. /\ HandleQuery(r, g, "copy_data") = Read(g, "query_copy_out", <<>>)
        /\ HandleQuery(r, g, "copy_done") = Read(g, "query_copy_out_needs_command_complete", <<>>)
    BY <2>1 DEF HandleQuery
  <2> QED BY <2>2, <2>3, <1>3 DEF AsyncKinds
<1>10. CASE s.ph = "copied" /\ reply[1] # "error_response"
  <2>1. g.st = "query_copy_out_needs_command_complete"
    BY <1>10 DEF Agree
  <2>2. reply = <<"command_complete", InPhase(s, "results")>>
    BY <1>10 DEF QueryReplies
  <2>3. HandleQuery(r, g, "command_complete") = Read(g, "query_first", <<"command_complete">>)
    BY <2>1 DEF HandleQuery
  <2> QED BY <2>2, <2>3, <1>3 DEF AsyncKinds
<1>11. CASE s.ph = "ready"
  <2>1. g.st = "query_needs_ready"
    BY <1>11 DEF Agree
  <2>2. reply = <<"ready_for_query", Ended(s)>>
    BY <1>11 DEF QueryReplies
  <2>3. HandleQuery(r, g, "ready_for_query") = Advance(r, g, <<>>)
    BY <2>1 DEF HandleQuery
  <2> QED BY <2>2, <2>3, <1>1 DEF AsyncKinds
<1>12. reply[1] = "error_response" /\ s.ph # "ready" => reply = <<"error_response", InPhase(s, "ready")>>
  BY DEF QueryReplies, Agree
<1>13. s.ph \in BackendPhases
  BY DEF Backends
<1> QED BY <1>6, <1>7, <1>8, <1>9, <1>10, <1>11, <1>12, <1>13 DEF BackendPhases

\* Nothing changes allow_copy_.
LEMMA HandlersKeepCopy ==
  ASSUME NEW r, NEW g \in Fsms, NEW k
  PROVE  /\ HandleBind(r, g, k).fsm.copy = g.copy
         /\ HandleClose(r, g, k).fsm.copy = g.copy
         /\ HandleDescribe(r, g, k).fsm.copy = g.copy
         /\ HandleExecute(r, g, k).fsm.copy = g.copy
         /\ HandleParse(r, g, k).fsm.copy = g.copy
         /\ HandleQuery(r, g, k).fsm.copy = g.copy
         /\ HandleSync(r, g, k).fsm.copy = g.copy
<1>1. \A kinds : Advance(r, g, kinds).fsm.copy = g.copy
  BY ZenonT(30) DEF Advance, Fsms
<1>2. HandleError(r, g).fsm.copy = g.copy
  BY ZenonT(30) DEF HandleError, Fsms
<1>3. \A st, kinds : Read(g, st, kinds).fsm.copy = g.copy
  BY DEF Read, Fsms
<1>4. \A ec : Fail(g, ec).fsm.copy = g.copy
  BY DEF Fail
<1>5. \A st : StartCopy(g, st).fsm.copy = g.copy
  BY <1>3, <1>4 DEF StartCopy
<1>6. Unexpected(g).fsm.copy = g.copy
  BY <1>4 DEF Unexpected
<1>7. /\ HandleBind(r, g, k).fsm.copy = g.copy
      /\ HandleClose(r, g, k).fsm.copy = g.copy
      /\ HandleDescribe(r, g, k).fsm.copy = g.copy
      /\ HandleParse(r, g, k).fsm.copy = g.copy
      /\ HandleSync(r, g, k).fsm.copy = g.copy
  BY <1>1, <1>2, <1>6 DEF HandleBind, HandleClose, HandleDescribe, HandleParse, HandleSync
<1>8. HandleExecute(r, g, k).fsm.copy = g.copy
  BY <1>1, <1>2, <1>3, <1>5, <1>6 DEF HandleExecute
<1>9. HandleQuery(r, g, k).fsm.copy = g.copy
  BY <1>1, <1>3, <1>5, <1>6 DEF HandleQuery
<1> QED BY <1>7, <1>8, <1>9

\* Whatever the server answers, the machine takes it and stays in step.
LEMMA ReplyKept ==
  ASSUME NEW r \in Seq(MessageTypes), WellFormed(r), NEW f \in Fsms, NEW s \in Backends,
         InStep(r, f, s), NEW reply \in Replies(r, s)
  PROVE  /\ Kept(r, Resume(r, f, reply[1]), reply[2]) /\ reply[1] \notin AsyncKinds
         /\ Resume(r, f, reply[1]).fsm.copy = f.copy
<1> DEFINE g == [f EXCEPT !.cur = s.pos]
           k == reply[1]
<1>1. ~ Silent(r, s) /\ ~ Finished(r, s)
  BY DEF Replies
<1>2. /\ s.pos \in 1..Len(r) /\ f.cur \in 1..s.pos
      /\ r[s.pos] # "flush" /\ \A i \in f.cur..(s.pos - 1) : r[i] = "flush"
      /\ r[s.pos] = "sync" \/ (~ s.skip /\ <<f.st, s.ph>> \in Agree(r[s.pos]))
  <2>1. CASE Follows(r, f, s)
    BY <1>1, <2>1 DEF Follows, Silent
  <2>2. CASE Skips(r, f, s)
    <3>1. r[s.pos] = "sync"
      BY <1>1, <2>2 DEF Silent, Skips
    <3>2. s.pos = f.cur
      BY <3>1, <2>2 DEF Skips
    <3> QED BY <3>1, <3>2, <2>2 DEF Skips
  <2> QED BY <2>1, <2>2 DEF InStep
<1>3. s.pos \in f.cur..Len(r) /\ f.cur \in 1..Len(r)
  BY <1>2
<1>4. SkipFlush(r, f.cur) = s.pos
  BY <1>2, <1>3, SkipFlushIs
<1>5. g \in Fsms /\ g.cur = s.pos /\ g.st = f.st /\ g.copy = f.copy
  BY <1>2 DEF Fsms
<1>6. [f EXCEPT !.cur = SkipFlush(r, @)] = g
  BY <1>4
<1> HIDE DEF g
<1>7. k \notin AsyncKinds =>
        /\ r[s.pos] = "bind" => Resume(r, f, k) = HandleBind(r, g, k)
        /\ r[s.pos] = "close" => Resume(r, f, k) = HandleClose(r, g, k)
        /\ r[s.pos] = "describe" => Resume(r, f, k) = HandleDescribe(r, g, k)
        /\ r[s.pos] = "execute" => Resume(r, f, k) = HandleExecute(r, g, k)
        /\ r[s.pos] = "parse" => Resume(r, f, k) = HandleParse(r, g, k)
        /\ r[s.pos] = "query" => Resume(r, f, k) = HandleQuery(r, g, k)
        /\ r[s.pos] = "sync" => Resume(r, f, k) = HandleSync(r, g, k)
  BY <1>5, <1>6, ZenonT(30) DEF Resume
<1>8. ASSUME r[s.pos] \in {"bind", "close", "parse", "describe"}
      PROVE  Kept(r, Resume(r, f, k), reply[2]) /\ k \notin AsyncKinds
  <2>1. PICK out : /\ Kept(r, out, reply[2])
                   /\ reply[1] \notin AsyncKinds
                   /\ r[g.cur] = "bind" => out = HandleBind(r, g, reply[1])
                   /\ r[g.cur] = "close" => out = HandleClose(r, g, reply[1])
                   /\ r[g.cur] = "parse" => out = HandleParse(r, g, reply[1])
                   /\ r[g.cur] = "describe" => out = HandleDescribe(r, g, reply[1])
    BY <1>1, <1>2, <1>5, <1>8, SingleReplyKept
  <2>2. Resume(r, f, k) = out
    BY <2>1, <1>5, <1>7, <1>8
  <2> QED BY <2>1, <2>2
<1>9. ASSUME r[s.pos] = "execute"
      PROVE  Kept(r, Resume(r, f, k), reply[2]) /\ k \notin AsyncKinds
  <2>1. reply \in ExecuteReplies(s)
    BY <1>1, <1>9 DEF Replies
  <2>2. Kept(r, HandleExecute(r, g, reply[1]), reply[2]) /\ reply[1] \notin AsyncKinds
    BY <2>1, <1>2, <1>5, <1>9, ExecuteReplyKept
  <2> QED BY <2>2, <1>7, <1>9
<1>10. ASSUME r[s.pos] = "query"
       PROVE  Kept(r, Resume(r, f, k), reply[2]) /\ k \notin AsyncKinds
  <2>1. reply \in QueryReplies(s)
    BY <1>1, <1>10 DEF Replies
  <2>2. Kept(r, HandleQuery(r, g, reply[1]), reply[2]) /\ reply[1] \notin AsyncKinds
    BY <2>1, <1>2, <1>5, <1>10, QueryReplyKept
  <2> QED BY <2>2, <1>7, <1>10
<1>11. ASSUME r[s.pos] = "sync"
       PROVE  Kept(r, Resume(r, f, k), reply[2]) /\ k \notin AsyncKinds
  <2>1. reply = <<"ready_for_query", Ended(s)>>
    BY <1>1, <1>11 DEF Replies
  <2>2. HandleSync(r, g, "ready_for_query") = Advance(r, g, <<>>)
    BY DEF HandleSync
  <2>3. Kept(r, Advance(r, g, <<>>), Ended(s))
    BY <1>2, <1>5, AdvanceKept
  <2> QED BY <2>1, <2>2, <2>3, <1>7, <1>11 DEF AsyncKinds
<1>12. r[s.pos] \in MessageTypes
  BY <1>2
<1>13. Kept(r, Resume(r, f, k), reply[2]) /\ k \notin AsyncKinds
  BY <1>2, <1>8, <1>9, <1>10, <1>11, <1>12 DEF MessageTypes
<1>14. Resume(r, f, k).fsm.copy = f.copy
  <2>1. /\ HandleBind(r, g, k).fsm.copy = g.copy
        /\ HandleClose(r, g, k).fsm.copy = g.copy
        /\ HandleDescribe(r, g, k).fsm.copy = g.copy
        /\ HandleExecute(r, g, k).fsm.copy = g.copy
        /\ HandleParse(r, g, k).fsm.copy = g.copy
        /\ HandleQuery(r, g, k).fsm.copy = g.copy
        /\ HandleSync(r, g, k).fsm.copy = g.copy
    BY <1>5, HandlersKeepCopy
  <2> QED BY <2>1, <1>2, <1>5, <1>7, <1>12, <1>13 DEF MessageTypes
<1> QED BY <1>13, <1>14

\* A message that the server passes over leaves both in step.
LEMMA PassOverKept ==
  ASSUME NEW r \in Seq(MessageTypes), WellFormed(r), NEW f \in Fsms, NEW s \in Backends,
         InStep(r, f, s), Silent(r, s)
  PROVE  PassOver(s) \in Backends /\ InStep(r, f, PassOver(s))
<1> DEFINE e == PassOver(s)
<1>1. e = [pos |-> s.pos + 1, ph |-> s.ph, skip |-> s.skip]
  BY DEF PassOver, Backends
<1>2. e \in Backends
  BY <1>1 DEF Backends
<1> HIDE DEF e
<1>3. CASE Follows(r, f, s)
  <2>1. r[s.pos] = "flush" /\ s.pos \in 1..Len(r)
    BY <1>3 DEF Follows, Silent
  <2>2. PICK j \in s.pos..Len(r) : r[j] = "sync"
    BY <2>1 DEF WellFormed, ExtendedTypes, MessageTypes
  <2>3. s.pos + 1 \in 1..Len(r) /\ f.cur \in 1..(s.pos + 1)
    BY <2>1, <2>2, <1>3 DEF Follows
  <2>4. \A i \in f.cur..(s.pos + 1 - 1) : i = s.pos \/ i \in f.cur..(s.pos - 1)
    BY <2>1, <2>3
  <2>5. \A i \in f.cur..(s.pos + 1 - 1) : r[i] = "flush"
    BY <2>1, <2>4, <1>3 DEF Follows
  <2>6. f.st = "msg_first" /\ s.ph = "start"
    BY <2>1, <1>3 DEF Follows, Agree
  <2>7. Follows(r, f, e)
    BY <2>3, <2>5, <2>6, <1>1, <1>3 DEF Follows, Agree
  <2> QED BY <2>7, <1>2 DEF InStep, e
<1>4. CASE Skips(r, f, s)
  <2>1. r[s.pos] # "sync"
    BY <1>4 DEF Skips, Silent
  <2>2. s.pos + 1 \in 1..f.cur /\ \A i \in (s.pos + 1)..(f.cur - 1) : i \in s.pos..(f.cur - 1)
    BY <2>1, <1>4 DEF Skips
  <2>3. Skips(r, f, e)
    BY <2>2, <1>1, <1>4 DEF Skips
  <2> QED BY <2>3, <1>2 DEF InStep, e
<1> QED BY <1>3, <1>4 DEF InStep

-----------------------------------------------------------------------------
(* The ReadyForQuery messages that remain                                  *)

LEMMA OwedIsRemaining ==
  ASSUME NEW r \in Seq(MessageTypes), WellFormed(r), NEW f \in Fsms, NEW s \in Backends,
         InStep(r, f, s)
  PROVE  RemainingRfqs(r, f) = OwedRfqs(r, s) /\ RemainingRfqs(r, f) > 0
<1> DEFINE R == RfqPositions(r, f.cur)
           O == {i \in RfqPositions(r, s.pos) : ~(s.skip /\ \A j \in s.pos..i : r[j] # "sync")}
<1>1. R = O
  <2>1. CASE Follows(r, f, s)
    <3>1. O = RfqPositions(r, s.pos)
      BY <2>1 DEF Follows
    <3>2. \A i \in f.cur..Len(r) : i \in s.pos..Len(r) \/ i \in f.cur..(s.pos - 1)
      BY <2>1 DEF Follows
    <3>3. \A i \in s.pos..Len(r) : i \in f.cur..Len(r)
      BY <2>1 DEF Follows
    <3>4. \A i \in f.cur..(s.pos - 1) : r[i] = "flush"
      BY <2>1 DEF Follows
    <3>5. RfqPositions(r, s.pos) = RfqPositions(r, f.cur)
      BY <3>2, <3>3, <3>4 DEF RfqPositions
    <3> QED BY <3>1, <3>5
  <2>2. CASE Skips(r, f, s)
    <3>1. s.skip /\ f.cur \in 1..Len(r) /\ s.pos \in 1..f.cur /\ r[f.cur] = "sync"
          /\ \A i \in s.pos..(f.cur - 1) : r[i] # "sync"
      BY <2>2 DEF Skips
    <3>2. ASSUME NEW i \in R PROVE i \in O
      <4>1. i \in f.cur..Len(r) /\ r[i] \in {"query", "sync"}
        BY <3>2 DEF RfqPositions
      <4>2. i \in s.pos..Len(r) /\ f.cur \in s.pos..i
        BY <4>1, <3>1
      <4> QED BY <4>1, <4>2, <3>1 DEF RfqPositions
    <3>3. ASSUME NEW i \in O PROVE i \in R
      <4>1. i \in s.pos..Len(r) /\ r[i] \in {"query", "sync"}
        BY <3>3 DEF RfqPositions
      <4>2. PICK j \in s.pos..i : r[j] = "sync"
        BY <3>1, <3>3
      <4>3. ~ (j <= f.cur - 1)
        BY <4>1, <4>2, <3>1
      <4>4. i \in f.cur..Len(r)
        BY <4>1, <4>2, <4>3, <3>1
      <4> QED BY <4>1, <4>4 DEF RfqPositions
    <3> QED BY <3>2, <3>3
  <2> QED BY <2>1, <2>2 DEF InStep
<1>2. R # {}
  <2>1. CASE Skips(r, f, s)
    BY <2>1 DEF Skips, RfqPositions
  <2>2. CASE Follows(r, f, s)
    <3>1. s.pos \in 1..Len(r) /\ f.cur \in 1..s.pos /\ r[s.pos] \in MessageTypes
      BY <2>2 DEF Follows
    <3>2. PICK j \in s.pos..Len(r) : r[j] \in {"query", "sync"}
      <4>1. CASE r[s.pos] \in ExtendedTypes
        BY <4>1, <3>1 DEF WellFormed
      <4>2. CASE r[s.pos] \notin ExtendedTypes
        BY <4>2, <3>1 DEF ExtendedTypes
      <4> QED BY <4>1, <4>2
    <3>3. j \in f.cur..Len(r)
      BY <3>1
    <3> QED BY <3>2, <3>3 DEF RfqPositions
  <2> QED BY <2>1, <2>2 DEF InStep
<1>3. IsFiniteSet(R)
  <2>1. f.cur \in Int /\ Len(r) \in Int
    BY DEF Fsms
  <2>2. IsFiniteSet(f.cur..Len(r))
    BY <2>1, FS_Interval
  <2>3. R \subseteq f.cur..Len(r)
    BY DEF RfqPositions
  <2> QED BY <2>2, <2>3, FS_Subset, ZenonT(30)
<1>4. Cardinality(R) > 0
  <2>1. Cardinality(R) \in Nat
    BY <1>3, FS_CardinalityType
  <2>2. Cardinality(R) # 0
    BY <1>2, <1>3, FS_EmptySet
  <2> QED BY <2>1, <2>2
<1>5. RemainingRfqs(r, f) = Cardinality(R)
  BY DEF RemainingRfqs, GetExpectedRfqs
<1>6. OwedRfqs(r, s) = Cardinality(O)
  BY DEF OwedRfqs
<1> HIDE DEF R, O
<1> QED BY <1>1, <1>4, <1>5, <1>6

\* What the answers of the server are like, as far as ReadyForQuery goes.
LEMMA ReplyForms ==
  ASSUME NEW r \in Seq(MessageTypes), NEW f \in Fsms, NEW s \in Backends,
         InStep(r, f, s), NEW reply \in Replies(r, s)
  PROVE  /\ s.pos \in 1..Len(r) /\ (s.skip => r[s.pos] = "sync")
         /\ \/ /\ reply[1] = "ready_for_query" /\ reply[2] = Ended(s)
               /\ r[s.pos] \in {"sync", "query"}
            \/ /\ reply[1] # "ready_for_query" /\ r[s.pos] \in ExtendedTypes
               /\ reply[2] \in {Ended(s), Failed(s)}
            \/ reply[1] # "ready_for_query" /\ \E ph \in BackendPhases : reply[2] = InPhase(s, ph)
<1>1. ~ Silent(r, s) /\ ~ Finished(r, s)
  BY DEF Replies
<1>2. s.pos \in 1..Len(r) /\ r[s.pos] \in MessageTypes /\ r[s.pos] # "flush"
      /\ (s.skip => r[s.pos] = "sync") /\ (~ s.skip => <<f.st, s.ph>> \in Agree(r[s.pos]))
  BY <1>1 DEF InStep, Follows, Skips, Silent
<1>3. CASE r[s.pos] \in {"bind", "close", "parse", "describe"}
  <2>1. reply[1] # "ready_for_query" /\ reply[2] \in {Ended(s), Failed(s)}
    BY <1>1, <1>3 DEF Replies
  <2> QED BY <2>1, <1>2, <1>3 DEF ExtendedTypes
<1>4. CASE r[s.pos] = "execute"
  <2>1. reply \in ExecuteReplies(s)
    BY <1>1, <1>4 DEF Replies
  <2>2. s.ph \in {"start", "rows", "copy", "copied"}
    BY <1>2, <1>4 DEF Agree
  <2>3. [s EXCEPT !.ph = s.ph] = s
    BY DEF Backends
  <2>4. \A ph : InPhase(s, ph) = [s EXCEPT !.ph = ph]
    BY DEF InPhase
  <2>5. \/ reply = <<"error_response", Failed(s)>>
        \/ reply[1] # "ready_for_query" /\ reply[2] = Ended(s)
        \/ reply[1] # "ready_for_query" /\ reply[2] = InPhase(s, s.ph)
        \/ reply[1] # "ready_for_query" /\ \E ph \in BackendPhases : reply[2] = InPhase(s, ph)
    BY <2>1, <2>2, <2>3, <2>4 DEF ExecuteReplies, BackendPhases
  <2> QED BY <2>5, <1>2, <1>4 DEF ExtendedTypes, Backends
<1>5. CASE r[s.pos] = "query"
  <2>1. reply \in QueryReplies(s)
    BY <1>1, <1>5 DEF Replies
  <2>2. s.ph \in BackendPhases
    BY DEF Backends
  <2>3. InPhase(s, s.ph) = s
    BY DEF Backends, InPhase
  <2>4. \/ reply[1] = "ready_for_query" /\ reply[2] = Ended(s)
        \/ reply[1] # "ready_for_query" /\ \E ph \in BackendPhases : reply[2] = InPhase(s, ph)
    BY <2>1, <2>2, <2>3 DEF QueryReplies, BackendPhases
  <2> QED BY <2>4, <1>2, <1>5
<1>6. CASE r[s.pos] = "sync"
  BY <1>1, <1>2, <1>6 DEF Replies
<1> QED BY <1>2, <1>3, <1>4, <1>5, <1>6 DEF MessageTypes

\* Each ReadyForQuery is one less to come, and no other answer changes how many.
LEMMA OwedStep ==
  ASSUME NEW r \in Seq(MessageTypes), WellFormed(r), NEW f \in Fsms, NEW s \in Backends,
         InStep(r, f, s), NEW reply \in Replies(r, s)
  PROVE  OwedRfqs(r, s) =
           OwedRfqs(r, reply[2]) + (IF reply[1] = "ready_for_query" THEN 1 ELSE 0)
<1> DEFINE Owing(t) == {i \in RfqPositions(r, t.pos) :
                          ~(t.skip /\ \A j \in t.pos..i : r[j] # "sync")}
<1>1. /\ s.pos \in 1..Len(r) /\ (s.skip => r[s.pos] = "sync")
      /\ \/ /\ reply[1] = "ready_for_query" /\ reply[2] = Ended(s)
            /\ r[s.pos] \in {"sync", "query"}
         \/ /\ reply[1] # "ready_for_query" /\ r[s.pos] \in ExtendedTypes
            /\ reply[2] \in {Ended(s), Failed(s)}
         \/ reply[1] # "ready_for_query" /\ \E ph \in BackendPhases : reply[2] = InPhase(s, ph)
  BY ReplyForms
<1>2. Owing(s) = RfqPositions(r, s.pos)
  BY <1>1 DEF RfqPositions
<1>3. /\ Owing(Ended(s)) = RfqPositions(r, s.pos + 1)
      /\ \A i : i \in RfqPositions(r, s.pos) <=>
               i \in RfqPositions(r, s.pos + 1) \/ (i = s.pos /\ r[i] \in {"query", "sync"})
      /\ s.pos \notin RfqPositions(r, s.pos + 1)
  BY <1>1 DEF RfqPositions, Ended
<1>4. \A t : OwedRfqs(r, t) = Cardinality(Owing(t))
  BY DEF OwedRfqs
<1>5. \A n \in Int : /\ IsFiniteSet(RfqPositions(r, n))
                     /\ Cardinality(RfqPositions(r, n)) \in Nat
  <2>1. SUFFICES ASSUME NEW n \in Int PROVE IsFiniteSet(RfqPositions(r, n))
    BY FS_CardinalityType
  <2>2. IsFiniteSet(n..Len(r))
    <3>1. Len(r) \in Int
      OBVIOUS
    <3> QED BY <3>1, FS_Interval
  <2>3. RfqPositions(r, n) \subseteq n..Len(r)
    BY DEF RfqPositions
  <2> QED BY <2>2, <2>3, FS_Subset
<1>6. CASE reply[1] = "ready_for_query"
  <2>1. reply[2] = Ended(s) /\ r[s.pos] \in {"sync", "query"}
    BY <1>1, <1>6
  <2>2. Owing(s) = Owing(Ended(s)) \cup {s.pos}
    BY <2>1, <1>2, <1>3
  <2>3. s.pos + 1 \in Int
    BY <1>1
  <2>4. IsFiniteSet(Owing(Ended(s))) /\ s.pos \notin Owing(Ended(s))
    BY <2>3, <1>3, <1>5, Zenon
  <2> HIDE DEF Owing
  <2>5. Cardinality(Owing(s)) = Cardinality(Owing(Ended(s))) + 1
    BY <2>2, <2>4, FS_AddElement, ZenonT(30)
  <2> QED BY <2>1, <2>5, <1>4, <1>6
<1>7. CASE reply[1] # "ready_for_query" /\ r[s.pos] \in ExtendedTypes /\ reply[2] \in {Ended(s), Failed(s)}
  <2>1. RfqPositions(r, s.pos) = RfqPositions(r, s.pos + 1)
    BY <1>3, <1>7, ZenonT(30) DEF ExtendedTypes
  <2>2. PICK j \in s.pos..Len(r) : r[j] = "sync" /\ \A k \in s.pos..j : r[k] # "query"
    BY <1>1, <1>7 DEF WellFormed
  <2>3. Owing(Failed(s)) = RfqPositions(r, s.pos + 1)
    <3>1. Failed(s).pos = s.pos + 1 /\ Failed(s).skip
      BY DEF Failed
    <3>2. ASSUME NEW i \in RfqPositions(r, s.pos + 1), \A k \in (s.pos + 1)..i : r[k] # "sync"
          PROVE  FALSE
      <4>1. i \in (s.pos + 1)..Len(r) /\ r[i] \in {"query", "sync"}
        BY DEF RfqPositions
      <4>2. r[i] = "query" /\ j # s.pos
        BY <4>1, <3>2, <2>2, <1>7, <1>1 DEF ExtendedTypes
      <4>3. ~(j \in (s.pos + 1)..i)
        BY <3>2, <2>2
      <4>4. i \in s.pos..j
        BY <4>1, <4>2, <4>3, <1>1, <2>2
      <4> QED BY <4>2, <4>4, <2>2
    <3>3. \A i \in RfqPositions(r, s.pos + 1) : ~\A k \in (s.pos + 1)..i : r[k] # "sync"
      BY <3>2
    <3> QED BY <3>1, <3>3
  <2>4. Owing(reply[2]) = Owing(s)
    BY <2>1, <2>3, <1>2, <1>3, <1>7
  <2>5. Cardinality(Owing(s)) \in Nat
    <3>1. s.pos \in Int
      BY <1>1
    <3> HIDE DEF Owing
    <3> QED BY <3>1, <1>2, <1>5
  <2> HIDE DEF Owing
  <2> QED BY <2>4, <2>5, <1>4, <1>7
<1>8. ASSUME reply[1] # "ready_for_query", NEW ph \in BackendPhases, reply[2] = InPhase(s, ph)
      PROVE  OwedRfqs(r, reply[2]) = OwedRfqs(r, s)
  <2>1. InPhase(s, ph).pos = s.pos /\ InPhase(s, ph).skip = s.skip
    BY DEF InPhase, Backends
  <2>2. Owing(reply[2]) = Owing(s)
    BY <2>1, <1>8
  <2> HIDE DEF Owing
  <2> QED BY <2>2, <1>4
<1>9. OwedRfqs(r, s) \in Nat
  <2>1. s.pos \in Int
    BY <1>1
  <2> HIDE DEF Owing
  <2> QED BY <2>1, <1>2, <1>4, <1>5
<1> QED BY <1>1, <1>6, <1>7, <1>8, <1>9

\* Nothing is owed once the request is finished.
LEMMA OwedAtEnd ==
  ASSUME NEW r \in Seq(MessageTypes), NEW s \in Backends, Finished(r, s)
  PROVE  OwedRfqs(r, s) = 0
<1>1. {i \in RfqPositions(r, s.pos) : ~(s.skip /\ \A j \in s.pos..i : r[j] # "sync")} = {}
  BY DEF RfqPositions, Finished, Backends
<1> QED BY <1>1, FS_EmptySet, ZenonT(30) DEF OwedRfqs

\* Some machine follows the answer, also when it is one that a given machine refuses.
LEMMA ReplyFits ==
  ASSUME NEW r \in Seq(MessageTypes), WellFormed(r), NEW s \in Backends, NEW f \in Fsms,
         InStep(r, f, s), NEW reply \in Replies(r, s)
  PROVE  /\ reply[2] \in Backends /\ reply[1] \notin AsyncKinds
         /\ ~ Finished(r, reply[2]) => \E h \in Fsms : InStep(r, h, reply[2])
<1> DEFINE g == [f EXCEPT !.copy = TRUE]
<1>1. g \in Fsms /\ g.cur = f.cur /\ g.st = f.st /\ g.copy = TRUE
  BY ZenonT(30) DEF Fsms
<1> HIDE DEF g
<1>2. InStep(r, g, s)
  BY <1>1 DEF InStep, Follows, Skips
<1>3. /\ Kept(r, Resume(r, g, reply[1]), reply[2]) /\ reply[1] \notin AsyncKinds
      /\ Resume(r, g, reply[1]).fsm.copy = g.copy
  BY <1>1, <1>2, ReplyKept
<1> QED BY <1>1, <1>3 DEF Kept
=============================================================================
