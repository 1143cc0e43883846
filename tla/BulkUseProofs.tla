---------------------------- MODULE BulkUseProofs ----------------------------
(***************************************************************************)
(* Proofs about BulkUse, for vectors and pipelines of any size and any     *)
(* usual programs.                                                         *)
(***************************************************************************)
EXTENDS BulkUse, FiniteSetTheorems, SequenceTheorems, WellFoundedInduction, TLAPS

Usuals == \A p \in Programs : Usual(p)

InBulk == pc \in {"send", "read", "chunk"}

\* The connection works.
Live == IF conn = 0 THEN FALSE ELSE link[conn] = "ok"

\* Only a program outside a transaction gets another connection, and only postgresql has
\* anything to do with libpq.
LinkInv ==
    /\ program.txn => conn = 1
    /\ program.kind # "postgresql" =>
          conn = 1 /\ link[1] = "ok" /\ pc \in {"idle", "execute", "caught"}
    /\ conn = 1 => link[1] \in {"ok", "cut", "bad"} /\ ~ pipe[2] /\ out[2] = <<>>
    /\ conn = 2 => link[2] \in {"ok", "cut", "bad"}
    /\ conn # 1 => link[1] = "freed"

\* The guard knows the connection that is in the pipeline mode.
GuardInv ==
    /\ guard = 0 \/ (guard = 1 /\ program.txn /\ pipe[1])
    /\ pc \in {"idle", "execute", "caught"} => guard = 0
    /\ InBulk => (at.pipelined <=> guard = 1)
    /\ pc = "drain" => guard = 1
    /\ pc # "undefined"
    /\ Live /\ guard = 0 => ~ pipe[conn]

\* Where execute_bulk() is, and what was executed by then.
RowsInv ==
    /\ InBulk =>
          /\ at.first < size /\ at.first <= at.row /\ at.first <= current /\ current <= Last
          /\ at.row <= current + 1
          /\ last.ran \subseteq 0 .. current - 1
          /\ last.failed < current /\ last.failed \notin last.ran
          /\ ~ at.error => 0 .. at.row - 1 \subseteq last.ran
          /\ affected >= 0 /\ affected <= at.row
    /\ pc = "send" => at.row = at.first /\ ~ at.error
    /\ pc \in {"read", "chunk"} => current = Last

\* What the database answers for row i.
Answer(i) ==
    IF i \in last.ran THEN "ok" ELSE IF i = last.failed THEN "error" ELSE "aborted"

\* The results to be read are those of the rows from at.row on; b is 1 when the null result
\* of the row before comes first.  Nothing comes after a synchronization point or a lost
\* connection, and all is there while nothing is broken.
QueueOf(b) ==
    LET o == out[conn]
        Pos(i) == b + 2 * (i - at.row) + 1
    IN  /\ \A i \in 0 .. MaxRows :
              /\ Pos(i) \in DOMAIN o =>
                    \/ o[Pos(i)] \in {"sync", "lost"}
                    \/ i < current /\ o[Pos(i)] = Answer(i)
              /\ Pos(i) + 1 \in DOMAIN o =>
                    \/ o[Pos(i) + 1] \in {"sync", "lost"}
                    \/ i < current /\ o[Pos(i) + 1] = "null"
        /\ \A k, m \in DOMAIN o : k < m /\ o[k] \in {"sync", "lost"} => o[m] = "lost"
        /\ \A k \in DOMAIN o : /\ o[k] = "sync" => at.pipelined /\ pc = "read"
                               /\ o[k] = "error" => last.failed # -1
        /\ b = 1 => at.row > at.first
        /\ o = <<>> \/ at.row <= current
        /\ ~ last.broken =>
              Len(o) = b + 2 * (current - at.row)
                       + (IF pc = "read" /\ at.pipelined THEN 1 ELSE 0)

AllLost(c) == \A k \in DOMAIN out[c] : out[c][k] = "lost"

ResultsInv ==
    /\ Live => \A k \in DOMAIN out[conn] : out[conn][k] # "lost"
    /\ conn # 0 /\ link[conn] = "bad" => AllLost(conn)
    /\ pc \in {"idle", "execute", "chunk", "caught"} \/ (pc = "unwind" /\ guard = 0) =>
          conn = 0 \/ AllLost(conn)
    /\ pc \in {"send", "read"} => conn = 0 \/ \E b \in 0 .. 1 : QueueOf(b)

\* get_affected_rows() is right, and the row to dump is the one that failed.
Counted == affected = Cardinality(last.ran) \/ (affected = -1 /\ last.ran = {})
Settled == Counted /\ current \in {-1, last.failed}

\* What was read so far, as long as nothing is broken.
AnswersInv ==
    /\ InBulk /\ ~ last.broken =>
          /\ last.failed = -1 \/ at.first <= last.failed
          /\ last.ran = 0 .. (IF last.failed = -1 THEN current ELSE last.failed) - 1
          /\ at.error <=> last.failed # -1 /\ last.failed < at.row
          /\ at.error => at.errorRow = last.failed
          /\ affected = IF at.error THEN last.failed ELSE at.row
    /\ pc = "chunk" /\ ~ last.broken => at.row = current
    /\ pc \in {"unwind", "drain", "caught"} /\ ~ last.broken => Settled

\* A call that is not broken has a connection that works; one that gets another connection
\* has noticed an error.
BrokenInv ==
    /\ pc # "idle" /\ ~ last.broken => Live
    /\ pc \in {"execute", "send"} /\ Live => ~ last.broken
    /\ pc \in {"read", "chunk"} /\ Live /\ last.broken => at.error /\ conn = 2

\* The row to dump is one of the vectors.
CurrentInv ==
    /\ ~ InBulk /\ link[1] = "ok" => current < size
    /\ program.kind = "mysql" => current = -1
    /\ program.kind \in {"odbc", "oracle"} /\
       (pc = "execute" \/ (pc = "idle" /\ last.res \in {"none", "done"})) => current = -1

CallInv ==
    /\ pc # "idle" => last.res = "none" /\ last.rows = size
    /\ pc = "execute" => last.ran = {} /\ last.failed = -1

IInv ==
    /\ TypeOK /\ LinkInv /\ GuardInv /\ RowsInv /\ ResultsInv /\ AnswersInv
    /\ BrokenInv /\ CurrentInv /\ CallInv
    /\ AffectedAreExecuted /\ FailedRowShown

-------------------------------------------------------------------------------
(* Numbers, sets and sequences                                             *)

\* A set of natural numbers has a least one: the intervals up to its members are well-founded.
LEMMA LeastExists ==
  ASSUME NEW S, S \subseteq Nat, S # {}
  PROVE  \E m \in S : \A n \in S : m <= n
<1> DEFINE T == {0 .. n : n \in S}
<1>1. T \subseteq FiniteSubsetsOf(Nat)
  <2> SUFFICES ASSUME NEW n \in S PROVE 0 .. n \in FiniteSubsetsOf(Nat)
    OBVIOUS
  <2>1. n \in Int /\ 0 \in Int
    OBVIOUS
  <2>2. IsFiniteSet(0 .. n)
    BY <2>1, FS_Interval, Zenon
  <2>3. 0 .. n \subseteq Nat
    OBVIOUS
  <2> QED BY <2>2, <2>3 DEF FiniteSubsetsOf
<1>2. IsWellFoundedOn(StrictSubsetOrdering(Nat), FiniteSubsetsOf(Nat))
  BY FS_StrictSubsetOrderingWellFounded
<1>3. T # {}
  OBVIOUS
<1>4. \E x \in T : \A y \in T : ~ (<< y, x >> \in StrictSubsetOrdering(Nat))
  <2> HIDE DEF T
  <2> QED BY <1>1, <1>2, <1>3, WFMin
<1>5. PICK m \in S : \A y \in T : ~ (<< y, 0 .. m >> \in StrictSubsetOrdering(Nat))
  BY <1>4
<1>6. ASSUME NEW n \in S PROVE m <= n
  <2> SUFFICES ASSUME n < m PROVE FALSE
    OBVIOUS
  <2>1. 0 .. n \subseteq 0 .. m /\ m \in 0 .. m /\ m \notin 0 .. n /\ 0 .. m \subseteq Nat
    OBVIOUS
  <2>2. << 0 .. n, 0 .. m >> \in StrictSubsetOrdering(Nat)
    BY <2>1, Zenon DEF StrictSubsetOrdering
  <2>3. 0 .. n \in T
    OBVIOUS
  <2> QED BY <1>5, <2>2, <2>3
<1> QED BY <1>6

LEMMA MinOf ==
  ASSUME NEW S, S \subseteq Nat, S # {}
  PROVE  Min(S) \in S /\ \A n \in S : Min(S) <= n
<1>1. \E m \in S : \A n \in S : m <= n
  BY LeastExists
<1> QED BY <1>1 DEF Min

\* The rows before the one that fails, and the rows that did not fail.
LEMMA CountUpTo ==
  ASSUME NEW n \in Nat
  PROVE  IsFiniteSet(0 .. n - 1) /\ Cardinality(0 .. n - 1) = n
<1>1. 0 \in Int /\ n - 1 \in Int
  OBVIOUS
<1>2. IsFiniteSet(0 .. n - 1) /\ Cardinality(0 .. n - 1) = IF 0 > n - 1 THEN 0 ELSE n - 1 - 0 + 1
  BY <1>1, FS_Interval, Zenon
<1> QED BY <1>2

LEMMA CountWithout ==
  ASSUME NEW n \in Nat, NEW S, S \subseteq 0 .. n - 1
  PROVE  /\ Cardinality(S) \in Nat /\ Cardinality(S) <= n
         /\ Cardinality((0 .. n - 1) \ S) = n - Cardinality(S)
<1>1. IsFiniteSet(0 .. n - 1) /\ Cardinality(0 .. n - 1) = n
  BY CountUpTo
<1>2. IsFiniteSet(S) /\ Cardinality(S) <= n
  BY <1>1, FS_Subset
<1>3. Cardinality(S) \in Nat
  BY <1>2, FS_CardinalityType
<1>4. Cardinality((0 .. n - 1) \ S) = n - Cardinality((0 .. n - 1) \cap S)
  BY <1>1, FS_Difference
<1>5. (0 .. n - 1) \cap S = S
  OBVIOUS
<1> QED BY <1>2, <1>3, <1>4, <1>5

\* What is left after a result was read.
LEMMA RestOf ==
  ASSUME NEW c \in Conns, out[c] \in Seq(ResultType)
  PROVE  /\ Rest(c) \in Seq(ResultType)
         /\ out[c] = <<>> => PQgetResult(c) = "null" /\ Rest(c) = <<>>
         /\ out[c] # <<>> => PQgetResult(c) = out[c][1] /\ 1 \in DOMAIN out[c]
         /\ PQgetResult(c) = "lost" => out[c] # <<>> /\ Rest(c) = <<>>
         /\ out[c] # <<>> /\ PQgetResult(c) # "lost" =>
               /\ Len(Rest(c)) = Len(out[c]) - 1
               /\ \A k \in DOMAIN Rest(c) : k \in Nat \ {0} /\ k + 1 \in DOMAIN out[c] /\ Rest(c)[k] = out[c][k + 1]
<1> DEFINE o == out[c]
<1>0. c # 0 BY DEF Conns
<1>1. CASE o = <<>>
  <2>1. Rest(c) = <<>> /\ PQgetResult(c) = "null"
    BY <1>0, <1>1 DEF Rest, PQgetResult
  <2>2. <<>> \in Seq(ResultType)
    BY EmptySeq
  <2> QED BY <1>1, <2>1, <2>2
<1>2. CASE o # <<>>
  <2>1. /\ Head(o) \in ResultType /\ Tail(o) \in Seq(ResultType) /\ Len(Tail(o)) = Len(o) - 1
        /\ \A i \in 1 .. Len(Tail(o)) : Tail(o)[i] = o[i + 1]
    BY <1>2, HeadTailProperties
  <2>2. Len(o) \in Nat /\ DOMAIN o = 1 .. Len(o) /\ DOMAIN Tail(o) = 1 .. Len(Tail(o))
    BY <2>1, LenProperties
  <2>3. Head(o) = o[1]
    BY <1>2
  <2>4. Len(o) # 0
    BY <1>2, EmptySeq
  <2>5. PQgetResult(c) = o[1] /\ 1 \in DOMAIN o
    BY <1>0, <1>2, <2>2, <2>3, <2>4 DEF PQgetResult
  <2>6. CASE Head(o) = "lost"
    <3>1. Rest(c) = <<>>
      BY <2>6 DEF Rest
    <3>2. <<>> \in Seq(ResultType)
      BY EmptySeq
    <3> QED BY <1>2, <2>3, <2>5, <2>6, <3>1, <3>2
  <2>7. CASE Head(o) # "lost"
    <3>1. Rest(c) = Tail(o)
      BY <1>2, <2>7 DEF Rest
    <3> QED BY <1>2, <2>1, <2>2, <2>3, <2>4, <2>5, <2>7, <3>1
  <2> QED BY <2>6, <2>7
<1> QED BY <1>1, <1>2

\* What is to be read after something was sent.
LEMMA SentIs ==
  ASSUME NEW c \in Conns, out[c] \in Seq(ResultType), NEW r \in Seq(ResultType)
  PROVE  /\ Sent(c, r) \in Seq(ResultType)
         /\ \A k \in DOMAIN out[c] : k \in DOMAIN Sent(c, r) /\ Sent(c, r)[k] = out[c][k]
         /\ link[c] = "ok" => /\ Len(Sent(c, r)) = Len(out[c]) + Len(r)
                              /\ \A k \in DOMAIN r : /\ Len(out[c]) + k \in DOMAIN Sent(c, r)
                                                     /\ Sent(c, r)[Len(out[c]) + k] = r[k]
         /\ link[c] # "ok" => \A k \in DOMAIN Sent(c, r) : k \in DOMAIN out[c] \/ Sent(c, r)[k] = "lost"
<1> DEFINE o == out[c]
<1>0. /\ Len(o) \in Nat /\ DOMAIN o = 1 .. Len(o) /\ Len(r) \in Nat /\ DOMAIN r = 1 .. Len(r)
  BY LenProperties
<1>1. CASE link[c] = "ok"
  <2>1. Sent(c, r) = o \o r
    BY <1>1 DEF Sent
  <2>2. /\ o \o r \in Seq(ResultType) /\ Len(o \o r) = Len(o) + Len(r)
        /\ \A i \in 1 .. Len(o) + Len(r) : (o \o r)[i] = IF i <= Len(o) THEN o[i] ELSE r[i - Len(o)]
    BY ConcatProperties
  <2>3. DOMAIN (o \o r) = 1 .. Len(o) + Len(r)
    BY <2>2, LenProperties
  <2> HIDE DEF o
  <2> DEFINE s == o \o r
  <2>4. s \in Seq(ResultType) /\ Sent(c, r) = s
    BY <2>1, <2>2
  <2>5. \A k \in DOMAIN o : k \in DOMAIN s /\ s[k] = o[k]
    BY <1>0, <2>2, <2>3
  <2>6. Len(s) = Len(o) + Len(r)
    BY <2>2
  <2>7. \A k \in DOMAIN r : Len(o) + k \in DOMAIN s /\ s[Len(o) + k] = r[k]
    BY <1>0, <2>2, <2>3
  <2> HIDE DEF s
  <2> QED BY <1>1, <2>4, <2>5, <2>6, <2>7 DEF o
<1>2. CASE link[c] # "ok" /\ o # <<>> /\ o[Len(o)] = "lost"
  BY <1>2 DEF Sent
<1>3. CASE link[c] # "ok" /\ ~ (o # <<>> /\ o[Len(o)] = "lost")
  <2>1. Sent(c, r) = Append(o, "lost")
    BY <1>3 DEF Sent
  <2>2. "lost" \in ResultType
    BY DEF ResultType
  <2>3. /\ Append(o, "lost") \in Seq(ResultType) /\ Len(Append(o, "lost")) = Len(o) + 1
        /\ \A i \in 1 .. Len(o) : Append(o, "lost")[i] = o[i]
        /\ Append(o, "lost")[Len(o) + 1] = "lost"
    BY <2>2, AppendProperties
  <2>4. DOMAIN Append(o, "lost") = 1 .. Len(o) + 1
    BY <2>3, LenProperties
  <2> DEFINE s == Append(o, "lost")
  <2> HIDE DEF s
  <2>5. s \in Seq(ResultType) /\ Sent(c, r) = s
    BY <2>1, <2>3 DEF s
  <2>6. (\A k \in DOMAIN o : k \in DOMAIN s /\ s[k] = o[k]) /\ \A k \in DOMAIN s : k \in DOMAIN o \/ s[k] = "lost"
    BY <1>0, <2>3, <2>4 DEF s
  <2> QED BY <1>3, <2>5, <2>6
<1> QED BY <1>1, <1>2, <1>3

-------------------------------------------------------------------------------
(* The initial states and the program                                      *)

\* What is known of a usual program.
LEMMA UsualProgram ==
  ASSUME Usuals, TypeOK
  PROVE  /\ program.kind \in {"postgresql", "sqlite3", "firebird", "mysql", "odbc", "oracle"}
         /\ program.resizes = "grows"
         /\ program.kind \in {"odbc", "oracle"} => program.again = "done"
         /\ program.kind # "postgresql" => ~ program.txn /\ ~ program.loses
         /\ program.callback = "retries" => ~ program.txn
BY BulkAssumption DEF Usuals, Usual, TypeOK, ProgramType

LEMMA NoResults ==
  ASSUME NEW s \in Seq(ResultType), \A k \in DOMAIN s : FALSE
  PROVE  s = <<>> /\ Len(s) = 0
<1>1. Len(s) \in Nat /\ DOMAIN s = 1 .. Len(s)
  BY LenProperties
<1>2. Len(s) = 0
  <2>1. Len(s) # 0 => 1 \in DOMAIN s
    BY <1>1
  <2> QED BY <2>1
<1>3. s # <<>> => Len(s) \in Nat \ {0}
  BY EmptySeq
<1> QED BY <1>2, <1>3

\* A connection that works has no more results than those that are not lost.
LEMMA NothingLost ==
  ASSUME TypeOK, ResultsInv, Live, AllLost(conn)
  PROVE  conn \in Conns /\ out[conn] = <<>> /\ Len(out[conn]) = 0
<1>1. conn \in Conns
  BY DEF Live, TypeOK
<1>2. out[conn] \in Seq(ResultType)
  BY <1>1 DEF TypeOK
<1>3. \A k \in DOMAIN out[conn] : FALSE
  BY DEF ResultsInv, AllLost
<1> QED BY <1>1, <1>2, <1>3, NoResults

LEMMA InitIInv ==
  ASSUME Usuals, Init
  PROVE  IInv
<1>0. MaxRows \in Nat \ {0} /\ Programs \subseteq ProgramType
  BY BulkAssumption
<1>1. <<>> \in Seq(ResultType) /\ Len(<<>>) = 0 /\ DOMAIN <<>> = {}
  <2>1. <<>> \in Seq(ResultType) /\ Len(<<>>) = 0
    BY EmptySeq
  <2> QED BY <2>1, LenProperties
<1>2. at \in LocalType
  BY <1>0 DEF Init, NoLocals, LocalType
<1>3. last \in LastType
  BY <1>0 DEF Init, Fresh, LastType, Rows
<1>4. out \in [Conns -> Seq(ResultType)]
  BY <1>1 DEF Init
<1>5. link \in [Conns -> LinkType] /\ pipe \in [Conns -> BOOLEAN]
  BY DEF Init, LinkType
<1>6. TypeOK
  BY <1>0, <1>2, <1>3, <1>4, <1>5 DEF Init, TypeOK, Conns
<1>7. /\ last.res = "none" /\ last.ran = {} /\ last.failed = -1
  BY DEF Init, Fresh
<1>8. link[1] = "ok" /\ ~ pipe[1] /\ ~ pipe[2] /\ out[1] = <<>> /\ out[2] = <<>> /\ 1 \in Conns /\ conn = 1
  BY DEF Init, Conns
<1>9. LinkInv
  BY <1>8 DEF Init, LinkInv
<1>10. GuardInv /\ RowsInv
  BY <1>8 DEF Init, GuardInv, RowsInv, InBulk, Live
<1>11. ResultsInv
  BY <1>1, <1>8 DEF Init, ResultsInv, AllLost
<1>12. AnswersInv /\ BrokenInv /\ CallInv
  BY DEF Init, AnswersInv, BrokenInv, CallInv, InBulk
<1>13. CurrentInv
  BY <1>0 DEF Init, CurrentInv
<1>14. AffectedAreExecuted /\ FailedRowShown
  BY <1>7 DEF AffectedAreExecuted, FailedRowShown
<1> QED BY <1>6, <1>9, <1>10, <1>11, <1>12, <1>13, <1>14 DEF IInv

-------------------------------------------------------------------------------
(* The program                                                             *)

LEMMA ResizeStep ==
  ASSUME Usuals, IInv, NEW n \in 1 .. MaxRows, Resize(n)
  PROVE  IInv'
<1>0. TypeOK
  BY DEF IInv
<1>1. n >= size
  BY <1>0, UsualProgram DEF Resize
<1> USE DEF Resize, libpq
<1>2. TypeOK'
  BY <1>0 DEF TypeOK
<1>3. LinkInv'
  BY DEF IInv, LinkInv
<1>4. GuardInv' /\ RowsInv'
  BY DEF IInv, GuardInv, RowsInv, InBulk, Live
<1>5. ResultsInv'
  BY DEF IInv, ResultsInv, AllLost, Live
<1>6. AnswersInv' /\ BrokenInv' /\ CallInv'
  BY DEF IInv, AnswersInv, BrokenInv, CallInv, InBulk
<1>7. CurrentInv'
  BY <1>0, <1>1, BulkAssumption DEF IInv, CurrentInv, InBulk, TypeOK
<1>8. AffectedAreExecuted' /\ FailedRowShown'
  BY DEF IInv, AffectedAreExecuted, FailedRowShown
<1> QED BY <1>2, <1>3, <1>4, <1>5, <1>6, <1>7, <1>8 DEF IInv

LEMMA PreUseStep ==
  ASSUME Usuals, IInv, PreUse
  PROVE  IInv'
<1>0. TypeOK /\ size \in 1 .. MaxRows /\ MaxRows \in Nat \ {0}
  BY BulkAssumption DEF IInv, TypeOK
<1>1. /\ Begun \in LastType /\ Begun.res = "none" /\ Begun.ran = {} /\ Begun.failed = -1
      /\ Begun.rows = size /\ (Begun.broken <=> ~ Live)
  <2>1. Fresh \in LastType /\ Fresh.res = "none" /\ Fresh.ran = {} /\ Fresh.failed = -1
    BY <1>0 DEF Fresh, LastType, Rows
  <2> DEFINE b == IF conn = 0 THEN TRUE ELSE link[conn] # "ok"
  <2>2. b \in BOOLEAN /\ (b <=> ~ Live)
    BY DEF Live
  <2>3. Begun = [Fresh EXCEPT !.rows = size, !.broken = b]
    BY Zenon DEF Begun
  <2>4. size \in 0 .. MaxRows
    BY <1>0
  <2> HIDE DEF b
  <2>5. /\ Begun \in LastType /\ Begun.res = "none" /\ Begun.ran = {} /\ Begun.failed = -1
        /\ Begun.rows = size /\ (Begun.broken <=> b)
    BY <2>1, <2>2, <2>3, <2>4 DEF LastType
  <2> QED BY <2>2, <2>5
<1>2. program' = program /\ size' = size /\ current' = current /\ affected' = affected /\ at' = at
      /\ UNCHANGED libpq /\ pc = "idle"
  BY DEF PreUse
<1>3. CASE CanDump(current)
  <2>1. pc' = "execute" /\ last' = Begun
    BY <1>3 DEF PreUse
  <2> USE DEF libpq
  <2>2. TypeOK'
    BY <1>0, <1>1, <1>2, <2>1 DEF TypeOK
  <2>3. LinkInv'
    BY <1>2, <2>1 DEF IInv, LinkInv
  <2>4. GuardInv' /\ RowsInv'
    BY <1>2, <2>1 DEF IInv, GuardInv, RowsInv, InBulk, Live
  <2>5. ResultsInv'
    BY <1>2, <2>1 DEF IInv, ResultsInv, AllLost, Live
  <2>6. AnswersInv'
    BY <2>1 DEF AnswersInv, InBulk
  <2>7. BrokenInv'
    BY <1>1, <1>2, <2>1 DEF BrokenInv, Live
  <2>8. CallInv'
    BY <1>1, <1>2, <2>1 DEF CallInv
  <2>9. CurrentInv'
    BY <1>0, <1>2, <2>1, UsualProgram DEF IInv, CurrentInv, InBulk, PreUse
  <2>10. AffectedAreExecuted' /\ FailedRowShown'
    BY <1>1, <2>1 DEF AffectedAreExecuted, FailedRowShown
  <2> QED BY <2>2, <2>3, <2>4, <2>5, <2>6, <2>7, <2>8, <2>9, <2>10 DEF IInv
<1>4. CASE ~ CanDump(current)
  <2>1. pc' = "idle" /\ last' = [Begun EXCEPT !.res = "outOfRange"]
    BY <1>4 DEF PreUse
  <2>2. last' \in LastType /\ last'.res = "outOfRange"
    BY <1>1, <2>1 DEF LastType
  <2>3. link[1] # "ok"
    BY <1>0, <1>2, <1>4 DEF IInv, CurrentInv, InBulk, CanDump
  <2> USE DEF libpq
  <2>4. TypeOK'
    BY <1>0, <1>2, <2>1, <2>2 DEF TypeOK
  <2>5. LinkInv'
    BY <1>2, <2>1 DEF IInv, LinkInv
  <2>6. GuardInv' /\ RowsInv'
    BY <1>2, <2>1 DEF IInv, GuardInv, RowsInv, InBulk, Live
  <2>7. ResultsInv'
    BY <1>2, <2>1 DEF IInv, ResultsInv, AllLost, Live
  <2>8. AnswersInv' /\ BrokenInv' /\ CallInv'
    BY <2>1 DEF AnswersInv, BrokenInv, CallInv, InBulk
  <2>9. CurrentInv'
    BY <1>2, <2>1, <2>2 DEF IInv, CurrentInv, InBulk
  <2>10. AffectedAreExecuted' /\ FailedRowShown'
    BY <1>2, <2>2, <2>3 DEF AffectedAreExecuted, FailedRowShown
  <2> QED BY <2>4, <2>5, <2>6, <2>7, <2>8, <2>9, <2>10 DEF IInv
<1> QED BY <1>3, <1>4

LEMMA RethrowStep ==
  ASSUME Usuals, IInv, Rethrow
  PROVE  IInv'
<1>0. TypeOK /\ size \in 1 .. MaxRows /\ MaxRows \in Nat \ {0} /\ last \in LastType /\ current \in -1 .. MaxRows
  BY BulkAssumption DEF IInv, TypeOK
<1>1. program' = program /\ size' = size /\ current' = current /\ affected' = affected /\ at' = NoLocals
      /\ UNCHANGED libpq /\ pc = "caught" /\ pc' = "idle"
  BY DEF Rethrow
<1>2. /\ last' \in LastType /\ last'.ran = last.ran /\ last'.failed = last.failed
      /\ (last'.broken <=> last.broken)
  <2>1. CASE CanDump(current)
    <3>1. current \in Rows \cup {-1}
      BY <1>0, <2>1 DEF CanDump, Rows
    <3>2. last' = [last EXCEPT !.res = "error", !.dumped = current]
      BY <2>1 DEF Rethrow
    <3> QED BY <1>0, <3>1, <3>2 DEF LastType
  <2>2. CASE ~ CanDump(current)
    <3>1. last' = [last EXCEPT !.res = "outOfRange"]
      BY <2>2 DEF Rethrow
    <3> QED BY <1>0, <3>1 DEF LastType
  <2> QED BY <2>1, <2>2
<1>3. /\ last'.res \in {"error", "outOfRange"} /\ (last'.res = "outOfRange" => ~ CanDump(current))
      /\ last'.res = "error" => last'.dumped = current
  BY <1>0 DEF Rethrow, LastType
<1>4. at' \in LocalType
  BY <1>0, <1>1 DEF NoLocals, LocalType
<1> USE DEF libpq
<1>5. TypeOK'
  BY <1>0, <1>1, <1>2, <1>4 DEF TypeOK
<1>6. LinkInv'
  BY <1>1 DEF IInv, LinkInv
<1>7. GuardInv' /\ RowsInv'
  BY <1>1 DEF IInv, GuardInv, RowsInv, InBulk, Live
<1>8. ResultsInv'
  BY <1>1 DEF IInv, ResultsInv, AllLost, Live
<1>9. AnswersInv' /\ BrokenInv' /\ CallInv'
  BY <1>1 DEF AnswersInv, BrokenInv, CallInv, InBulk
<1>10. CurrentInv'
  BY <1>1, <1>3 DEF IInv, CurrentInv, InBulk
<1>11. ~ last.broken => Counted /\ current \in {-1, last.failed}
  BY <1>1 DEF IInv, AnswersInv, Settled
<1>12. AffectedAreExecuted'
  BY <1>1, <1>2, <1>11 DEF AffectedAreExecuted, Counted
<1>13. link[1] = "ok" => CanDump(current)
  BY <1>1 DEF IInv, CurrentInv, InBulk, CanDump
<1>14. FailedRowShown'
  BY <1>1, <1>2, <1>3, <1>11, <1>13 DEF FailedRowShown
<1> QED BY <1>5, <1>6, <1>7, <1>8, <1>9, <1>10, <1>12, <1>14 DEF IInv

-------------------------------------------------------------------------------
(* The other backends                                                      *)

\* execute() of a backend that knows nothing of libpq ends: the count is right and the row
\* to dump, if there is one, is the one that failed.
LEMMA OtherEnds ==
  ASSUME Usuals, IInv, pc = "execute", program.kind # "postgresql",
         UNCHANGED <<program, size, libpq>>,
         NEW ok \in BOOLEAN, NEW ran \in SUBSET Rows, NEW failed \in Rows \cup {-1},
         Ended(ok), Outcome(ok, ran, failed),
         affected' \in -1 .. MaxRows, affected' = Cardinality(ran) \/ (affected' = -1 /\ ran = {}),
         current' \in -1 .. MaxRows, current' < size, current' \in {-1, failed},
         ok => failed = -1 /\ ran = 0 .. size - 1,
         program.kind = "mysql" => current' = -1,
         program.kind \in {"odbc", "oracle"} /\ ok => current' = -1
  PROVE  IInv'
<1>0. TypeOK /\ last \in LastType /\ last.res = "none" /\ last.rows = size
  BY DEF IInv, TypeOK, CallInv
<1>1. /\ last' \in LastType /\ last'.ran = ran /\ last'.failed = failed /\ last'.rows = size
      /\ (last'.broken <=> last.broken) /\ last'.res = IF ok THEN "done" ELSE "none"
  <2> DEFINE r == IF ok THEN "done" ELSE last.res
  <2>1. r \in {"none", "done", "error", "outOfRange"} /\ r = IF ok THEN "done" ELSE "none"
    BY <1>0
  <2>2. last' = [last EXCEPT !.res = r, !.ran = ran, !.failed = failed]
    BY DEF Outcome
  <2> HIDE DEF r
  <2>3. /\ last' \in LastType /\ last'.ran = ran /\ last'.failed = failed /\ last'.rows = last.rows
        /\ (last'.broken <=> last.broken) /\ last'.res = r
    BY <1>0, <2>1, <2>2 DEF LastType
  <2> QED BY <1>0, <2>1, <2>3
<1>2. at' \in LocalType /\ pc' = IF ok THEN "idle" ELSE "caught"
  <2>1. NoLocals \in LocalType
    BY BulkAssumption DEF NoLocals, LocalType
  <2> QED BY <1>0, <2>1 DEF Ended, TypeOK
<1>3. conn = 1 /\ link[1] = "ok" /\ Live
  BY DEF IInv, LinkInv, Live
<1> USE DEF libpq
<1>4. TypeOK'
  BY <1>0, <1>1, <1>2 DEF TypeOK
<1>5. LinkInv'
  BY <1>2 DEF IInv, LinkInv
<1>6. GuardInv' /\ RowsInv'
  BY <1>2 DEF IInv, GuardInv, RowsInv, InBulk, Live
<1>7. ResultsInv'
  BY <1>2 DEF IInv, ResultsInv, AllLost, Live
<1>8. AnswersInv'
  BY <1>1, <1>2 DEF AnswersInv, InBulk, Settled, Counted
<1>9. BrokenInv'
  BY <1>2, <1>3 DEF BrokenInv, Live
<1>10. CallInv'
  BY <1>1, <1>2 DEF CallInv
<1>11. CurrentInv'
  BY <1>1, <1>2 DEF CurrentInv, InBulk
<1>12. AffectedAreExecuted' /\ FailedRowShown'
  BY <1>1, <1>2 DEF AffectedAreExecuted, FailedRowShown
<1> QED BY <1>4, <1>5, <1>6, <1>7, <1>8, <1>9, <1>10, <1>11, <1>12 DEF IInv

LEMMA ExecuteLoopStep ==
  ASSUME Usuals, IInv, NEW refused \in SUBSET (0 .. size - 1), ExecuteLoop(refused)
  PROVE  IInv'
<1>0. size \in 1 .. MaxRows /\ MaxRows \in Nat \ {0} /\ current \in -1 .. MaxRows
  BY BulkAssumption DEF IInv, TypeOK
<1> DEFINE n == FirstOf(refused)
           ok == refused = {}
           failed == IF refused = {} THEN -1 ELSE n
<1>1. n \in 0 .. size /\ (ok <=> n = size)
  <2>1. CASE refused = {}
    BY <1>0, <2>1 DEF FirstOf
  <2>2. CASE refused # {}
    <3>1. refused \subseteq Nat
      BY <1>0
    <3>2. Min(refused) \in refused
      BY <2>2, <3>1, MinOf, Zenon
    <3>3. n = Min(refused)
      BY <2>2 DEF FirstOf
    <3>4. n \in 0 .. size - 1
      BY <3>2, <3>3, Zenon
    <3>5. n \in 0 .. size /\ n # size
      <4> HIDE DEF n
      <4> QED BY <1>0, <3>4
    <3> QED BY <2>2, <3>5
  <2> QED BY <2>1, <2>2
<1>2. /\ pc = "execute" /\ program.kind \in {"sqlite3", "firebird", "mysql"}
      /\ UNCHANGED <<program, size, libpq>>
      /\ Ended(ok) /\ Outcome(ok, 0 .. n - 1, failed)
      /\ \/ affected' = n /\ current' = (IF n < size THEN n ELSE -1) /\ program.kind # "mysql"
         \/ affected' = (IF n = 0 THEN -1 ELSE n) /\ current' = current /\ program.kind = "mysql"
  BY DEF ExecuteLoop, Sqlite3BindAndExecute, FirebirdExecute, MysqlExecute
<1>3. ok \in BOOLEAN /\ 0 .. n - 1 \in SUBSET Rows /\ failed \in Rows \cup {-1}
  BY <1>0, <1>1 DEF Rows
<1>4. Cardinality(0 .. n - 1) = n
  BY <1>0, <1>1, CountUpTo
<1>5. affected' \in -1 .. MaxRows /\ (affected' = Cardinality(0 .. n - 1) \/ (affected' = -1 /\ 0 .. n - 1 = {}))
  <2>1. n = 0 => 0 .. n - 1 = {}
    BY <1>1
  <2> HIDE DEF n
  <2> QED BY <1>0, <1>1, <1>2, <1>4, <2>1
<1>6. program.kind = "mysql" => current = -1
  BY DEF IInv, CurrentInv
<1>7. /\ current' \in -1 .. MaxRows /\ current' < size /\ current' \in {-1, failed}
      /\ ok => failed = -1 /\ 0 .. n - 1 = 0 .. size - 1
      /\ program.kind = "mysql" => current' = -1
  <2> HIDE DEF n
  <2> QED BY <1>0, <1>1, <1>2, <1>6
<1>8. program.kind # "postgresql" /\ program.kind \notin {"odbc", "oracle"}
  BY <1>2
<1> HIDE DEF n, ok, failed
<1> QED BY <1>2, <1>3, <1>5, <1>7, <1>8, OtherEnds

LEMMA ExecuteBatchStep ==
  ASSUME Usuals, IInv, NEW refused \in SUBSET (0 .. size - 1), NEW processed \in 1 .. size,
         ExecuteBatch(refused, processed)
  PROVE  IInv'
<1>0. size \in 1 .. MaxRows /\ MaxRows \in Nat \ {0} /\ processed \in Nat
  BY BulkAssumption DEF IInv, TypeOK
<1> DEFINE ok == refused = {}
           ran == (0 .. processed - 1) \ refused
           failed == IF refused = {} THEN -1 ELSE Min(refused)
<1>1. /\ pc = "execute" /\ program.kind \in {"odbc", "oracle"}
      /\ UNCHANGED <<program, size, libpq>>
      /\ Ended(ok) /\ Outcome(ok, ran, failed)
      /\ refused \subseteq 0 .. processed - 1
      /\ affected' = processed - Cardinality(refused)
      /\ current' \in {current, -1} \/ ~ ok
      /\ ok \/ current' = Min(refused)
      /\ processed < size => ~ ok
  BY DEF ExecuteBatch, OdbcExecute, OracleExecute
<1>2. current = -1
  BY <1>1 DEF IInv, CurrentInv
<1>3. ~ ok => Min(refused) \in 0 .. size - 1
  <2>1. refused \subseteq Nat
    BY <1>0
  <2>2. ~ ok => Min(refused) \in refused
    BY <2>1, MinOf, Zenon
  <2> QED BY <2>2
<1>4. ok \in BOOLEAN /\ ran \in SUBSET Rows /\ failed \in Rows \cup {-1}
  BY <1>0, <1>3 DEF Rows
<1>5. /\ Cardinality(refused) \in Nat /\ Cardinality(refused) <= processed
      /\ Cardinality(ran) = processed - Cardinality(refused)
  BY <1>0, <1>1, CountWithout
<1>6. affected' \in -1 .. MaxRows /\ affected' = Cardinality(ran)
  <2> HIDE DEF ran
  <2> QED BY <1>0, <1>1, <1>5
<1>7. /\ current' \in -1 .. MaxRows /\ current' < size /\ current' \in {-1, failed}
      /\ ok => current' = -1
  BY <1>0, <1>1, <1>2, <1>3
<1>8. ok => failed = -1 /\ ran = 0 .. size - 1
  BY <1>0, <1>1
<1>9. program.kind # "postgresql" /\ program.kind # "mysql"
  BY <1>1
<1> HIDE DEF ok, ran, failed
<1> QED BY <1>1, <1>4, <1>6, <1>7, <1>8, <1>9, OtherEnds

LEMMA ExecuteFailsStep ==
  ASSUME Usuals, IInv, ExecuteFails
  PROVE  IInv'
<1>1. /\ pc = "execute" /\ program.kind # "postgresql" /\ program.kind # "mysql"
      /\ UNCHANGED <<program, size, libpq>> /\ current' = current /\ affected' = 0
      /\ Ended(FALSE) /\ Outcome(FALSE, {}, -1)
  BY DEF ExecuteFails
<1>2. current = -1 /\ size \in 1 .. MaxRows /\ MaxRows \in Nat
  BY BulkAssumption DEF IInv, CurrentInv, ExecuteFails, TypeOK
<1>3. {} \in SUBSET Rows /\ -1 \in Rows \cup {-1} /\ FALSE \in BOOLEAN
  OBVIOUS
<1>4. affected' \in -1 .. MaxRows /\ affected' = Cardinality({})
  BY <1>1, <1>2, FS_EmptySet
<1>5. current' \in -1 .. MaxRows /\ current' < size /\ current' \in {-1, -1}
  BY <1>1, <1>2
<1> QED BY <1>1, <1>3, <1>4, <1>5, OtherEnds

-------------------------------------------------------------------------------
(* postgresql: the steps that neither send nor read                        *)

\* Before the first row of a chunk is sent nothing is to be read.
LEMMA QueueStarts ==
  ASSUME pc' = "send", AllLost(conn)', ~ last.broken' => Len(out[conn]') = 0,
         current' = at.row', at.row' \in Int
  PROVE  QueueOf(0)'
BY DEF QueueOf, AllLost

LEMMA EnterPipelineModeStep ==
  ASSUME Usuals, IInv, NEW intrans \in BOOLEAN, EnterPipelineMode(intrans)
  PROVE  IInv'
<1>0. TypeOK /\ size \in 1 .. MaxRows /\ MaxRows \in Nat \ {0} /\ size > 1
      /\ PIPELINE_DEPTH \in Nat \ {0, 1}
  BY BulkAssumption DEF IInv, TypeOK, EnterPipelineMode
<1>1. /\ pc = "execute" /\ pc' = "send" /\ current' = 0 /\ affected' = 0
      /\ UNCHANGED <<program, size, conn, link, out, last>>
      /\ intrans => program.txn /\ conn = 1
      /\ pipe' = IF intrans THEN [pipe EXCEPT ![conn] = TRUE] ELSE pipe
      /\ guard' = IF intrans THEN 1 ELSE 0
  BY DEF EnterPipelineMode
<1>2. /\ at' \in LocalType /\ at'.first = 0 /\ at'.row = 0 /\ ~ at'.error
      /\ (at'.pipelined <=> intrans)
  <2>1. NoLocals \in LocalType /\ NoLocals.first = 0 /\ NoLocals.row = 0 /\ ~ NoLocals.error
    BY <1>0 DEF NoLocals, LocalType
  <2>2. at' = [NoLocals EXCEPT !.pipelined = intrans]
    BY DEF EnterPipelineMode
  <2> QED BY <2>1, <2>2 DEF LocalType
<1>3. pipe' \in [Conns -> BOOLEAN] /\ (intrans => pipe'[1]) /\ (~ intrans => pipe' = pipe) /\ pipe'[2] = pipe[2]
  <2>1. pipe \in [Conns -> BOOLEAN] /\ 1 \in Conns /\ 2 \in Conns
    BY <1>0 DEF TypeOK, Conns
  <2>2. CASE intrans
    <3>1. pipe' = [pipe EXCEPT ![1] = TRUE]
      BY <1>1, <2>2
    <3> QED BY <2>1, <2>2, <3>1
  <2>3. CASE ~ intrans
    BY <1>1, <2>1, <2>3
  <2> QED BY <2>2, <2>3
<1>4. TypeOK'
  BY <1>0, <1>1, <1>2, <1>3 DEF TypeOK, Conns
<1>5. LinkInv'
  BY <1>1, <1>3 DEF IInv, LinkInv, EnterPipelineMode
<1>6. GuardInv'
  <2>1. guard = 0 /\ (Live => ~ pipe[conn])
    BY <1>1 DEF IInv, GuardInv
  <2> QED BY <1>1, <1>2, <1>3, <2>1 DEF GuardInv, InBulk, Live
<1>7. RowsInv'
  <2>1. last.ran = {} /\ last.failed = -1
    BY <1>1 DEF IInv, CallInv
  <2>2. Last' \in Nat
    BY <1>0, <1>1, <1>2 DEF Last, Depth
  <2> QED BY <1>0, <1>1, <1>2, <2>1, <2>2 DEF RowsInv, InBulk
<1>8. ~ last.broken => Live
  BY <1>1 DEF IInv, BrokenInv
<1>9. ResultsInv'
  <2>1. Live' = Live
    BY <1>1 DEF Live
  <2>2. ResultsInv /\ (conn = 0 \/ AllLost(conn))
    BY <1>1 DEF IInv, ResultsInv
  <2>3. ASSUME conn # 0 PROVE QueueOf(0)'
    <3>1. AllLost(conn)'
      BY <1>1, <2>2, <2>3 DEF AllLost
    <3>2. ~ last.broken => Len(out[conn]) = 0
      BY <1>0, <1>8, <2>2, <2>3, NothingLost
    <3> QED BY <1>1, <1>2, <3>1, <3>2, QueueStarts
  <2> QED BY <1>1, <2>1, <2>2, <2>3 DEF ResultsInv, AllLost, Live
<1>10. AnswersInv'
  <2>1. last.ran = {} /\ last.failed = -1
    BY <1>1 DEF IInv, CallInv
  <2> QED BY <1>1, <1>2, <2>1 DEF AnswersInv, InBulk
<1>11. BrokenInv'
  BY <1>1 DEF IInv, BrokenInv, Live
<1>12. CallInv'
  BY <1>1 DEF IInv, CallInv
<1>13. CurrentInv'
  BY <1>1 DEF CurrentInv, InBulk, EnterPipelineMode
<1>14. AffectedAreExecuted' /\ FailedRowShown'
  BY <1>1 DEF IInv, AffectedAreExecuted, FailedRowShown, CallInv
<1> QED BY <1>4, <1>5, <1>6, <1>7, <1>9, <1>10, <1>11, <1>12, <1>13, <1>14 DEF IInv

\* An error leaves execute_bulk().
LEMMA Unwinds ==
  ASSUME Usuals, IInv, InBulk, pc' = "unwind",
         UNCHANGED <<program, size, affected, at, libpq>>,
         last' \in LastType, last'.ran = last.ran, last'.failed = last.failed,
         last'.rows = last.rows, last'.res = last.res,
         current' \in -1 .. MaxRows,
         guard = 0 => conn = 0 \/ AllLost(conn),
         link[1] = "ok" => current' < size,
         ~ last'.broken => ~ last.broken /\ Counted /\ current' \in {-1, last.failed}
  PROVE  IInv'
<1>0. TypeOK /\ last.res = "none" /\ last.rows = size /\ program.kind = "postgresql"
  <2>1. program.kind \in {"postgresql", "sqlite3", "firebird", "mysql", "odbc", "oracle"}
    BY UsualProgram DEF IInv
  <2> QED BY <2>1 DEF IInv, LinkInv, CallInv, InBulk
<1> USE DEF libpq
<1>1. TypeOK'
  BY <1>0 DEF TypeOK
<1>2. LinkInv'
  BY <1>0 DEF IInv, LinkInv
<1>3. GuardInv' /\ RowsInv'
  BY DEF IInv, GuardInv, RowsInv, InBulk, Live
<1>4. ResultsInv'
  BY DEF IInv, ResultsInv, AllLost, Live
<1>5. AnswersInv'
  BY DEF AnswersInv, InBulk, Settled, Counted
<1>6. BrokenInv'
  BY DEF IInv, BrokenInv, Live, InBulk
<1>7. CurrentInv'
  BY <1>0 DEF CurrentInv, InBulk
<1>8. CallInv'
  BY <1>0 DEF CallInv
<1>9. AffectedAreExecuted' /\ FailedRowShown'
  BY <1>0 DEF AffectedAreExecuted, FailedRowShown
<1> QED BY <1>1, <1>2, <1>3, <1>4, <1>5, <1>6, <1>7, <1>8, <1>9 DEF IInv

\* The numbers of execute_bulk().
LEMMA BulkNumbers ==
  ASSUME IInv, InBulk
  PROVE  /\ size \in 1 .. MaxRows /\ MaxRows \in Nat \ {0} /\ PIPELINE_DEPTH \in Nat \ {0, 1}
         /\ at \in LocalType /\ at.first \in Nat /\ at.row \in Nat /\ Last \in Nat /\ current \in Nat
         /\ at.first < size /\ at.first <= at.row /\ at.row <= current + 1
         /\ at.first <= current /\ current <= Last /\ at.first < Last /\ Last <= size
         /\ ~ at.pipelined => Last = at.first + 1
<1>0. /\ size \in 1 .. MaxRows /\ MaxRows \in Nat \ {0} /\ PIPELINE_DEPTH \in Nat \ {0, 1}
      /\ at \in LocalType /\ current \in -1 .. MaxRows
  BY BulkAssumption DEF IInv, TypeOK
<1>1. at.first \in 0 .. MaxRows /\ at.row \in 0 .. MaxRows + 1
  BY <1>0 DEF LocalType
<1>2. /\ at.first < size /\ at.first <= at.row /\ at.first <= current /\ current <= Last
      /\ at.row <= current + 1
  BY DEF IInv, RowsInv
<1>3. Depth \in Nat \ {0} /\ (~ at.pipelined => Depth = 1)
  BY <1>0 DEF Depth
<1> QED BY <1>0, <1>1, <1>2, <1>3 DEF Last

\* When the results of all the rows are read, the others are those of a lost connection.
LEMMA OthersLost ==
  ASSUME TypeOK, conn \in Conns, QueueOf(0), at.row = current, pc # "read", current \in 0 .. MaxRows
  PROVE  AllLost(conn)
<1> DEFINE o == out[conn]
<1>0. o \in Seq(ResultType)
  BY DEF TypeOK
<1>1. DOMAIN o = 1 .. Len(o) /\ Len(o) \in Nat
  BY <1>0, LenProperties
<1>2. 1 \in DOMAIN o => o[1] \in {"sync", "lost"}
  <2>1. 0 + 2 * (at.row - at.row) + 1 = 1 /\ at.row \in 0 .. MaxRows /\ ~ at.row < current
    BY BulkAssumption
  <2> QED BY <2>1 DEF QueueOf
<1>3. 1 \in DOMAIN o => o[1] # "sync"
  BY DEF QueueOf
<1>4. \A m \in DOMAIN o : 1 < m /\ 1 \in DOMAIN o /\ o[1] = "lost" => o[m] = "lost"
  BY DEF QueueOf
<1>5. \A m \in DOMAIN o : 1 \in DOMAIN o /\ (m = 1 \/ 1 < m)
  BY <1>1
<1> HIDE DEF o
<1>6. \A m \in DOMAIN o : o[m] = "lost"
  BY <1>2, <1>3, <1>4, <1>5
<1> QED BY <1>6 DEF o, AllLost

LEMMA SendRowFailsStep ==
  ASSUME Usuals, IInv, SendRowFails
  PROVE  IInv'
<1>1. /\ pc = "send" /\ current # Last /\ pc' = "unwind" /\ last' = [last EXCEPT !.broken = TRUE]
      /\ UNCHANGED <<program, size, current, affected, at, libpq>>
  BY DEF SendRowFails
<1>2. TypeOK /\ last \in LastType /\ current \in -1 .. MaxRows /\ InBulk
  BY <1>1 DEF IInv, TypeOK, InBulk
<1>3. /\ last' \in LastType /\ last'.ran = last.ran /\ last'.failed = last.failed
      /\ last'.rows = last.rows /\ last'.res = last.res /\ last'.broken
  BY <1>1, <1>2 DEF LastType
<1>4. current \in Nat /\ Last \in Nat /\ current < Last /\ Last <= size /\ (~ at.pipelined => current = at.first)
      /\ size \in 1 .. MaxRows /\ at.first <= at.row /\ MaxRows \in Nat
  BY <1>1, <1>2, BulkNumbers
<1>5. ASSUME guard = 0, conn # 0 PROVE AllLost(conn)
  <2>1. ~ at.pipelined /\ at.row = at.first
    BY <1>1, <1>2, <1>5 DEF IInv, GuardInv, RowsInv
  <2>2. PICK b \in 0 .. 1 : QueueOf(b)
    BY <1>1, <1>5 DEF IInv, ResultsInv
  <2>3. b = 1 => at.row > at.first
    BY <2>2 DEF QueueOf
  <2>4. b = 0
    BY <1>4, <2>1, <2>3, <1>2, BulkNumbers
  <2>5. at.row = current /\ current \in 0 .. MaxRows /\ conn \in Conns
    BY <1>2, <1>4, <1>5, <2>1 DEF TypeOK
  <2> QED BY <1>1, <1>2, <2>2, <2>4, <2>5, OthersLost
<1>6. current' \in -1 .. MaxRows /\ current' < size
  BY <1>1, <1>2, <1>4
<1> QED BY <1>1, <1>2, <1>3, <1>5, <1>6, Unwinds

LEMMA PipelineSyncFailsStep ==
  ASSUME Usuals, IInv, PipelineSyncFails
  PROVE  IInv'
<1>1. /\ pc = "send" /\ at.pipelined /\ SendFails(conn) /\ pc' = "unwind"
      /\ UNCHANGED <<program, size, current, affected, at, libpq, last>>
  BY DEF PipelineSyncFails
<1>2. last \in LastType /\ current \in -1 .. MaxRows /\ InBulk
  BY <1>1 DEF IInv, TypeOK, InBulk
<1>3. ~ Live /\ last.broken
  BY <1>1 DEF IInv, SendFails, Live, BrokenInv
<1>4. guard = 1
  BY <1>1, <1>2 DEF IInv, GuardInv
<1>5. link[1] # "ok"
  BY <1>3 DEF IInv, LinkInv, Live
<1> QED BY <1>1, <1>2, <1>3, <1>4, <1>5, Unwinds

\* While the first connection works nothing is broken.
LEMMA FirstWorks ==
  ASSUME IInv, pc \in {"execute", "send", "read", "chunk"}, link[1] = "ok"
  PROVE  conn = 1 /\ Live /\ ~ last.broken
<1>1. conn = 1
  BY DEF IInv, LinkInv
<1>2. Live
  BY <1>1 DEF Live
<1> QED BY <1>1, <1>2 DEF IInv, BrokenInv

LEMMA ChunkFailsStep ==
  ASSUME Usuals, IInv, ChunkFails
  PROVE  IInv'
<1>1. /\ pc = "chunk" /\ (at.error \/ at.row # Last) /\ pc' = "unwind"
      /\ current' = (IF at.error THEN at.errorRow ELSE current)
      /\ UNCHANGED <<program, size, affected, at, libpq, last>>
  BY DEF ChunkFails
<1>2. last \in LastType /\ current \in -1 .. MaxRows /\ InBulk /\ at.errorRow \in -1 .. MaxRows
  BY <1>1 DEF IInv, TypeOK, InBulk, LocalType
<1>3. AllLost(conn) \/ conn = 0
  BY <1>1 DEF IInv, ResultsInv
<1>4. ASSUME ~ last.broken
      PROVE  Counted /\ current' = last.failed /\ current' < size
  <2>1. at.row = current /\ current = Last
    BY <1>1, <1>4 DEF IInv, AnswersInv, RowsInv
  <2>2. at.error
    BY <1>1, <2>1
  <2>3. last.failed # -1 /\ at.errorRow = last.failed /\ affected = last.failed /\ last.ran = 0 .. last.failed - 1
    BY <1>2, <1>4, <2>2 DEF IInv, AnswersInv
  <2>4. last.failed \in Nat /\ last.failed < current
    BY <1>2, <2>3 DEF LastType, Rows, IInv, RowsInv
  <2>5. Cardinality(last.ran) = last.failed
    BY <2>3, <2>4, CountUpTo
  <2> QED BY <1>1, <1>2, <2>1, <2>2, <2>3, <2>4, <2>5, BulkNumbers DEF Counted
<1>5. current' \in -1 .. MaxRows
  BY <1>1, <1>2
<1>6. link[1] = "ok" => current' < size
  BY <1>1, <1>4, FirstWorks
<1> QED BY <1>1, <1>2, <1>3, <1>4, <1>5, <1>6, Unwinds

LEMMA NextChunkStep ==
  ASSUME Usuals, IInv, NextChunk
  PROVE  IInv'
<1>1. /\ pc = "chunk" /\ ~ at.error /\ at.row = Last /\ Last < size /\ pc' = "send"
      /\ at' = [at EXCEPT !.first = Last] /\ current' = Last
      /\ UNCHANGED <<program, size, affected, libpq, last>>
  BY DEF NextChunk
<1>2. TypeOK /\ InBulk /\ current = Last /\ LinkInv /\ ResultsInv
  BY <1>1 DEF IInv, InBulk, RowsInv
<1>3. /\ size \in 1 .. MaxRows /\ MaxRows \in Nat \ {0} /\ PIPELINE_DEPTH \in Nat \ {0, 1}
      /\ at \in LocalType /\ current \in Nat /\ Last \in Nat
  BY <1>2, BulkNumbers
<1>4. /\ at' \in LocalType /\ at'.first = Last /\ at'.row = at.row /\ ~ at'.error
      /\ (at'.pipelined <=> at.pipelined)
  <2>1. Last \in 0 .. MaxRows
    BY <1>1, <1>3
  <2> DEFINE m == Last
  <2> HIDE DEF m
  <2>2. m \in 0 .. MaxRows /\ at' = [at EXCEPT !.first = m]
    BY <1>1, <2>1 DEF m
  <2>3. /\ at' \in LocalType /\ at'.first = m /\ at'.row = at.row /\ ~ at'.error
        /\ (at'.pipelined <=> at.pipelined)
    BY <1>1, <1>3, <2>2 DEF LocalType
  <2> QED BY <2>3 DEF m
<1>5. Last' \in Nat /\ current' <= Last' /\ current' \in 0 .. MaxRows
  <2>1. Depth' \in Nat
    BY <1>3 DEF Depth
  <2>2. Last' = IF at'.first + Depth' > size' THEN size' ELSE at'.first + Depth'
    BY DEF Last
  <2>3. at'.first = current /\ size' = size /\ current' = current /\ current < size
    BY <1>1, <1>2, <1>4
  <2>4. Last' \in {size, current + Depth'}
    BY <2>2, <2>3
  <2>5. Last' \in Nat /\ current <= Last'
    <3> DEFINE d == Depth'
               m == Last'
    <3>1. m \in {size, current + d} /\ d \in Nat
      BY <2>1, <2>4
    <3> HIDE DEF d, m
    <3>2. m \in Nat /\ current <= m
      BY <1>3, <2>3, <3>1
    <3> QED BY <3>2 DEF m
  <2>6. current \in 0 .. MaxRows
    BY <1>3, <2>3
  <2> QED BY <2>3, <2>5, <2>6
<1> USE DEF libpq
<1>6. TypeOK'
  BY <1>1, <1>2, <1>4, <1>5 DEF TypeOK
<1>7. LinkInv'
  <2>1. program.kind = "postgresql"
    BY <1>1, <1>2, UsualProgram DEF LinkInv
  <2> QED BY <1>1, <1>2, <2>1 DEF LinkInv
<1>8. GuardInv'
  BY <1>1, <1>4 DEF IInv, GuardInv, InBulk, Live
<1>9. RowsInv'
  <2>1. at'.first < size /\ at'.row = current' /\ current' = current /\ at.row = at'.row
    BY <1>1, <1>2, <1>4
  <2> QED BY <1>1, <1>3, <1>4, <1>5, <2>1 DEF IInv, RowsInv, InBulk
<1>10. ~ last.broken => Live
  BY <1>1 DEF IInv, BrokenInv
<1>11. Live => ~ last.broken
  BY <1>1 DEF IInv, BrokenInv
<1>12. Live' = Live
  BY <1>1 DEF Live
<1>13. ResultsInv'
  <2>1. conn = 0 \/ AllLost(conn)
    BY <1>1, <1>2 DEF ResultsInv
  <2>2. ASSUME conn # 0 PROVE QueueOf(0)'
    <3>1. AllLost(conn)'
      BY <1>1, <2>1, <2>2 DEF AllLost
    <3>2. ~ last.broken => Len(out[conn]) = 0
      BY <1>2, <1>10, <2>1, <2>2, NothingLost
    <3>3. current' = at'.row /\ at'.row \in Int
      BY <1>1, <1>2, <1>3, <1>4
    <3> QED BY <1>1, <3>1, <3>2, <3>3, QueueStarts
  <2> QED BY <1>1, <1>2, <1>12, <2>1, <2>2 DEF ResultsInv, AllLost
<1>14. AnswersInv'
  <2>1. SUFFICES ASSUME ~ last.broken
                 PROVE  /\ last.failed = -1 /\ last.ran = 0 .. current' - 1
                        /\ affected = at'.row
    BY <1>1, <1>4 DEF AnswersInv, InBulk
  <2>2. last.failed < current
    BY <1>2 DEF IInv, RowsInv
  <2>3. last.failed = -1 \/ ~ last.failed < at.row
    BY <1>1, <1>2, <2>1 DEF IInv, AnswersInv
  <2>4. last.failed = -1
    BY <1>1, <1>2, <2>2, <2>3
  <2>5. last.ran = 0 .. current - 1 /\ affected = at.row
    BY <1>1, <1>2, <2>1, <2>4 DEF IInv, AnswersInv
  <2> QED BY <1>1, <1>2, <1>4, <2>4, <2>5
<1>15. BrokenInv'
  BY <1>1, <1>10, <1>11, <1>12 DEF BrokenInv
<1>16. CurrentInv' /\ CallInv'
  <2>1. program.kind = "postgresql"
    BY <1>1, <1>2, UsualProgram DEF LinkInv
  <2> QED BY <1>1, <2>1 DEF IInv, CurrentInv, CallInv, InBulk
<1>17. AffectedAreExecuted' /\ FailedRowShown'
  BY <1>1 DEF IInv, AffectedAreExecuted, FailedRowShown, CallInv
<1> QED BY <1>6, <1>7, <1>8, <1>9, <1>13, <1>14, <1>15, <1>16, <1>17 DEF IInv

LEMMA LeaveStep ==
  ASSUME Usuals, IInv, Leave
  PROVE  IInv'
<1>1. /\ pc = "chunk" /\ ~ at.error /\ at.row = Last /\ Last = size /\ guard' = 0
      /\ UNCHANGED <<program, size, affected, conn, link, out>>
  BY DEF Leave
<1>2. TypeOK /\ InBulk /\ current = Last /\ LinkInv /\ ResultsInv /\ program.kind = "postgresql"
  BY <1>1, UsualProgram DEF IInv, InBulk, RowsInv, LinkInv
<1>3. size \in 1 .. MaxRows /\ MaxRows \in Nat \ {0} /\ size \in Nat
  BY <1>2, BulkNumbers
<1>4. last \in LastType /\ last.rows = size /\ last.res = "none"
  BY <1>1, <1>2 DEF IInv, TypeOK, CallInv
<1>5. conn = 0 \/ AllLost(conn)
  BY <1>1, <1>2 DEF ResultsInv
<1>6. Live => out[conn] = <<>>
  BY <1>2, <1>5, NothingLost DEF Live
<1>7. ~ last.broken => Live
  BY <1>1 DEF IInv, BrokenInv
<1>8. guard = 0 \/ (guard = 1 /\ conn = 1 /\ pipe[1])
  BY <1>2 DEF IInv, GuardInv, LinkInv
<1>9. CASE guard = 0 \/ out[guard] = <<>>
  <2>1. /\ pipe' = IF guard = 0 THEN pipe ELSE [pipe EXCEPT ![guard] = FALSE]
        /\ current' = -1 /\ pc' = "idle" /\ at' = NoLocals
        /\ last' = [last EXCEPT !.res = "done"]
    BY <1>9 DEF Leave, Ended
  <2>2. /\ last' \in LastType /\ last'.ran = last.ran /\ last'.failed = last.failed
        /\ last'.rows = size /\ last'.res = "done" /\ (last'.broken <=> last.broken)
    BY <1>4, <2>1 DEF LastType
  <2>3. /\ pipe' \in [Conns -> BOOLEAN] /\ (Live => ~ pipe'[conn])
        /\ (~ pipe[2] => ~ pipe'[2])
    <3>1. pipe \in [Conns -> BOOLEAN] /\ 1 \in Conns /\ 2 \in Conns
      BY <1>2 DEF TypeOK, Conns
    <3>2. CASE guard = 0
      BY <2>1, <3>1, <3>2 DEF IInv, GuardInv
    <3>3. CASE guard # 0
      <4>1. conn = 1 /\ pipe' = [pipe EXCEPT ![1] = FALSE]
        BY <1>8, <2>1, <3>3
      <4> QED BY <3>1, <4>1
    <3> QED BY <3>2, <3>3
  <2>4. at' \in LocalType
    BY <1>3, <2>1 DEF NoLocals, LocalType
  <2>5. TypeOK'
    BY <1>1, <1>2, <1>3, <2>1, <2>2, <2>3, <2>4 DEF TypeOK
  <2>6. LinkInv'
    BY <1>1, <1>2, <2>1, <2>3 DEF LinkInv
  <2>7. GuardInv' /\ RowsInv'
    BY <1>1, <2>1, <2>3 DEF GuardInv, RowsInv, InBulk, Live
  <2>8. ResultsInv'
    BY <1>1, <1>2, <1>5, <2>1 DEF ResultsInv, AllLost, Live
  <2>9. AnswersInv' /\ BrokenInv' /\ CallInv'
    BY <2>1 DEF AnswersInv, BrokenInv, CallInv, InBulk
  <2>10. CurrentInv'
    BY <1>1, <1>2, <1>3, <2>1 DEF CurrentInv, InBulk
  <2>11. last.ran \subseteq 0 .. size - 1 /\ last.failed < size /\ last.failed \notin last.ran
         /\ 0 .. size - 1 \subseteq last.ran
    BY <1>1, <1>2 DEF IInv, RowsInv
  <2>12. last.ran = 0 .. size - 1
    BY <2>11
  <2>13. last.failed = -1
    <3>1. last.failed \in Nat \/ last.failed = -1
      BY <1>3, <1>4 DEF LastType, Rows
    <3>2. last.failed \notin 0 .. size - 1
      BY <2>11, <2>12
    <3> QED BY <1>3, <2>11, <3>1, <3>2
  <2>14. FailedRowShown'
    BY <2>2, <2>12, <2>13 DEF FailedRowShown
  <2>15. ~ last.broken => affected = size
    BY <1>1, <1>2 DEF IInv, AnswersInv
  <2>16. Cardinality(last.ran) = size
    BY <1>3, <2>12, CountUpTo
  <2>17. AffectedAreExecuted'
    BY <1>1, <2>2, <2>15, <2>16 DEF AffectedAreExecuted
  <2> QED BY <2>5, <2>6, <2>7, <2>8, <2>9, <2>10, <2>14, <2>17 DEF IInv
<1>10. CASE ~ (guard = 0 \/ out[guard] = <<>>)
  <2>1. pc' = "unwind" /\ UNCHANGED <<pipe, current, at, last>>
    BY <1>10 DEF Leave
  <2>2. ~ Live /\ conn = 1 /\ link[1] # "ok" /\ last.broken
    BY <1>6, <1>7, <1>8, <1>10 DEF Live
  <2>3. TypeOK'
    BY <1>1, <1>2, <2>1 DEF TypeOK
  <2>4. LinkInv'
    BY <1>1, <1>2, <2>1 DEF LinkInv
  <2>5. GuardInv' /\ RowsInv'
    BY <1>1, <2>1, <2>2 DEF GuardInv, RowsInv, InBulk, Live
  <2>6. ResultsInv'
    BY <1>1, <1>2, <1>5, <2>1 DEF ResultsInv, AllLost, Live
  <2>7. AnswersInv' /\ BrokenInv'
    BY <2>1, <2>2 DEF AnswersInv, BrokenInv, InBulk
  <2>8. CurrentInv' /\ CallInv'
    BY <1>1, <1>2, <1>4, <2>1, <2>2 DEF CurrentInv, CallInv
  <2>9. AffectedAreExecuted' /\ FailedRowShown'
    BY <1>4, <2>1 DEF AffectedAreExecuted, FailedRowShown
  <2> QED BY <2>3, <2>4, <2>5, <2>6, <2>7, <2>8, <2>9 DEF IInv
<1> QED BY <1>9, <1>10

-------------------------------------------------------------------------------
(* The destructor of the guard                                             *)

\* While the error is on its way out only the guard's connection changes.
LEMMA GuardFrame ==
  ASSUME Usuals, IInv, pc \in {"unwind", "drain"}, pc' \in {"drain", "caught"},
         UNCHANGED <<program, size, current, affected, at, conn, last>>,
         TypeOK', LinkInv', GuardInv', ResultsInv',
         link[1] # "ok" => link'[1] # "ok", ~ last.broken => Live'
  PROVE  IInv'
<1>0. program.kind = "postgresql" /\ last.res = "none"
  BY UsualProgram DEF IInv, LinkInv, CallInv
<1>1. RowsInv'
  BY DEF RowsInv, InBulk
<1>2. AnswersInv'
  BY DEF IInv, AnswersInv, InBulk, Settled, Counted
<1>3. BrokenInv'
  BY DEF BrokenInv
<1>4. CurrentInv' /\ CallInv'
  BY <1>0 DEF IInv, CurrentInv, CallInv, InBulk
<1>5. AffectedAreExecuted' /\ FailedRowShown'
  BY <1>0 DEF AffectedAreExecuted, FailedRowShown
<1> QED BY <1>1, <1>2, <1>3, <1>4, <1>5 DEF IInv

\* The guard is that of the only connection, and it is in the pipeline mode.
LEMMA GuardOfFirst ==
  ASSUME IInv, guard # 0
  PROVE  guard = 1 /\ conn = 1 /\ pipe[1] /\ link[1] \in {"ok", "cut", "bad"} /\ 1 \in Conns
BY DEF IInv, GuardInv, LinkInv, Conns

LEMMA GuardSyncStep ==
  ASSUME Usuals, IInv, NEW syncs \in BOOLEAN, GuardSync(syncs)
  PROVE  IInv'
<1>1. /\ pc = "unwind"
      /\ UNCHANGED <<program, size, current, affected, at, conn, guard, link, pipe, last>>
  BY DEF GuardSync
<1>2. TypeOK /\ LinkInv /\ GuardInv /\ ResultsInv /\ program.kind = "postgresql"
  BY <1>1, UsualProgram DEF IInv, LinkInv
<1>3. ~ last.broken => Live
  BY <1>1 DEF IInv, BrokenInv
<1>4. Live' <=> Live
  BY <1>1 DEF Live
<1>5. CASE guard = 0
  <2>1. pc' = "caught" /\ out' = out
    BY <1>5 DEF GuardSync
  <2>2. TypeOK'
    BY <1>1, <1>2, <2>1 DEF TypeOK
  <2>3. LinkInv'
    BY <1>1, <1>2, <2>1 DEF LinkInv
  <2>4. GuardInv'
    BY <1>1, <1>2, <1>5, <2>1 DEF GuardInv, InBulk, Live
  <2>5. ResultsInv'
    BY <1>1, <1>2, <1>5, <2>1 DEF ResultsInv, AllLost, Live
  <2> QED BY <1>1, <1>3, <1>4, <2>1, <2>2, <2>3, <2>4, <2>5, GuardFrame
<1>6. CASE guard # 0
  <2>1. guard = 1 /\ conn = 1 /\ pipe[1] /\ link[1] \in {"ok", "cut", "bad"} /\ 1 \in Conns
    BY <1>6, GuardOfFirst
  <2>2. pc' = "drain"
    BY <1>6, <2>1 DEF GuardSync
  <2>3. /\ out' \in [Conns -> Seq(ResultType)] /\ out'[2] = out[2]
        /\ link[1] = "ok" => \A k \in DOMAIN out'[1] : out'[1][k] # "lost"
        /\ link[1] = "bad" => out' = out
    <3>1. out[1] \in Seq(ResultType) /\ out \in [Conns -> Seq(ResultType)] /\ 2 \in Conns
      BY <1>2, <2>1 DEF TypeOK, Conns
    <3>2. link[1] = "ok" => \A k \in DOMAIN out[1] : out[1][k] # "lost"
      BY <1>2, <2>1 DEF ResultsInv, Live
    <3>3. CASE out' = out
      BY <3>1, <3>2, <3>3
    <3>4. CASE out' = [out EXCEPT ![1] = Sent(1, << "sync" >>)] /\ link[1] # "bad"
      <4>1. << "sync" >> \in Seq(ResultType) /\ Len(<< "sync" >>) = 1 /\ DOMAIN << "sync" >> = {1}
        BY DEF ResultType
      <4> DEFINE r == << "sync" >>
                 s == Sent(1, r)
      <4>2. r \in Seq(ResultType) /\ Len(r) = 1 /\ DOMAIN r = {1} /\ r[1] = "sync"
        BY <4>1
      <4> HIDE DEF r
      <4>3. /\ s \in Seq(ResultType) /\ \A k \in DOMAIN out[1] : s[k] = out[1][k]
            /\ link[1] = "ok" => Len(s) = Len(out[1]) + 1 /\ s[Len(out[1]) + 1] = "sync"
        <5>1. /\ s \in Seq(ResultType) /\ \A k \in DOMAIN out[1] : s[k] = out[1][k]
              /\ link[1] = "ok" => /\ Len(s) = Len(out[1]) + Len(r)
                                   /\ \A k \in DOMAIN r : s[Len(out[1]) + k] = r[k]
          <6> HIDE DEF s
          <6>1. /\ s \in Seq(ResultType)
                /\ \A k \in DOMAIN out[1] : k \in DOMAIN s /\ s[k] = out[1][k]
                /\ link[1] = "ok" => /\ Len(s) = Len(out[1]) + Len(r)
                                     /\ \A k \in DOMAIN r : /\ Len(out[1]) + k \in DOMAIN s
                                                            /\ s[Len(out[1]) + k] = r[k]
            BY <2>1, <3>1, <4>2, SentIs DEF s
          <6> QED BY <6>1
        <5> HIDE DEF s
        <5>2. 1 \in DOMAIN r
          BY <4>2
        <5> QED BY <4>2, <5>1, <5>2
      <4> HIDE DEF s
      <4>4. DOMAIN s = 1 .. Len(s) /\ DOMAIN out[1] = 1 .. Len(out[1]) /\ Len(out[1]) \in Nat
        BY <3>1, <4>3, LenProperties
      <4>5. link[1] = "ok" => \A k \in DOMAIN s : s[k] # "lost"
        <5>1. ASSUME link[1] = "ok", NEW k \in DOMAIN s PROVE s[k] # "lost"
          <6>1. k \in DOMAIN out[1] \/ k = Len(out[1]) + 1
            <7> DEFINE n == Len(out[1])
            <7>1. n \in Nat /\ Len(s) = n + 1 /\ k \in 1 .. Len(s) /\ DOMAIN out[1] = 1 .. n
              BY <4>3, <4>4, <5>1
            <7> HIDE DEF n
            <7>2. k \in 1 .. n \/ k = n + 1
              BY <7>1
            <7> QED BY <7>1, <7>2 DEF n
          <6> QED BY <3>2, <4>3, <5>1, <6>1
        <5> QED BY <5>1
      <4>6. out' = [out EXCEPT ![1] = s]
        BY <3>4 DEF s, r
      <4> QED BY <2>1, <3>1, <3>4, <4>3, <4>5, <4>6
    <3> QED BY <2>1, <2>2, <3>3, <3>4 DEF GuardSync, Sendable
  <2>4. TypeOK'
    BY <1>1, <1>2, <2>2, <2>3 DEF TypeOK
  <2>5. LinkInv'
    BY <1>1, <1>2, <2>1, <2>2, <2>3 DEF LinkInv
  <2>6. GuardInv'
    BY <1>1, <1>2, <2>1, <2>2 DEF GuardInv, InBulk, Live
  <2>7. ResultsInv'
    BY <1>1, <1>2, <2>1, <2>2, <2>3 DEF ResultsInv, AllLost, Live
  <2> QED BY <1>1, <1>3, <1>4, <2>2, <2>4, <2>5, <2>6, <2>7, GuardFrame
<1> QED BY <1>5, <1>6

LEMMA GuardDrainStep ==
  ASSUME Usuals, IInv, GuardDrain
  PROVE  IInv'
<1>1. /\ pc = "drain" /\ Got(guard)
      /\ UNCHANGED <<program, size, current, affected, at, conn, last>>
      /\ \/ /\ PQgetResult(guard) = "null" /\ Rest(guard) = <<>>
            /\ pc' = "caught" /\ guard' = 0 /\ pipe' = [pipe EXCEPT ![guard] = FALSE]
         \/ UNCHANGED <<pc, guard, pipe>>
  BY DEF GuardDrain, GuardDone
<1>2. TypeOK /\ LinkInv /\ GuardInv /\ ResultsInv /\ program.kind = "postgresql" /\ guard # 0
  BY <1>1, UsualProgram DEF IInv, LinkInv, GuardInv
<1>3. guard = 1 /\ conn = 1 /\ pipe[1] /\ link[1] \in {"ok", "cut", "bad"} /\ 1 \in Conns /\ 2 \in Conns
  BY <1>2, GuardOfFirst DEF Conns
<1>4. out \in [Conns -> Seq(ResultType)] /\ link \in [Conns -> LinkType] /\ pipe \in [Conns -> BOOLEAN]
      /\ out[1] \in Seq(ResultType)
  BY <1>2, <1>3 DEF TypeOK
<1>5. out' = [out EXCEPT ![1] = Rest(1)] /\ link' = [link EXCEPT ![1] = LinkAfter(1)]
  BY <1>1, <1>3 DEF Got
<1>6. /\ Rest(1) \in Seq(ResultType)
      /\ PQgetResult(1) = "lost" => out[1] # <<>> /\ Rest(1) = <<>>
      /\ out[1] = <<>> => Rest(1) = <<>>
      /\ out[1] # <<>> => PQgetResult(1) = out[1][1] /\ 1 \in DOMAIN out[1]
      /\ out[1] # <<>> /\ PQgetResult(1) # "lost" =>
             \A k \in DOMAIN Rest(1) : k + 1 \in DOMAIN out[1] /\ Rest(1)[k] = out[1][k + 1]
  BY <1>3, <1>4, RestOf
<1>7. DOMAIN <<>> = {}
  OBVIOUS
<1>8. /\ out' \in [Conns -> Seq(ResultType)] /\ out'[1] = Rest(1) /\ out'[2] = out[2]
  BY <1>3, <1>4, <1>5, <1>6
<1>9. /\ link' \in [Conns -> LinkType] /\ link'[2] = link[2] /\ link'[1] \in {link[1], "bad"}
      /\ (link'[1] = "bad" => link[1] = "bad" \/ PQgetResult(1) = "lost")
  BY <1>3, <1>4, <1>5 DEF LinkAfter, LinkType
<1>10. link[1] = "ok" => PQgetResult(1) # "lost"
  BY <1>2, <1>3, <1>6 DEF ResultsInv, Live
<1>11. link'[1] = "ok" => \A k \in DOMAIN Rest(1) : Rest(1)[k] # "lost"
  <2>1. ASSUME link'[1] = "ok", NEW k \in DOMAIN Rest(1) PROVE Rest(1)[k] # "lost"
    <3>1. link[1] = "ok" /\ PQgetResult(1) # "lost"
      BY <1>9, <1>10, <2>1
    <3>2. out[1] # <<>>
      BY <1>6, <1>7, <2>1
    <3>3. k + 1 \in DOMAIN out[1] /\ Rest(1)[k] = out[1][k + 1]
      BY <1>6, <2>1, <3>1, <3>2
    <3> QED BY <1>2, <1>3, <3>1, <3>3 DEF ResultsInv, Live
  <2> QED BY <2>1
<1>12. link'[1] = "bad" => \A k \in DOMAIN Rest(1) : Rest(1)[k] = "lost"
  <2>1. CASE PQgetResult(1) = "lost"
    BY <1>6, <1>7, <2>1
  <2>2. CASE PQgetResult(1) # "lost" /\ link'[1] = "bad"
    <3>1. \A k \in DOMAIN out[1] : out[1][k] = "lost"
      BY <1>2, <1>3, <1>9, <2>2 DEF ResultsInv, AllLost
    <3>2. out[1] = <<>>
      BY <1>6, <2>2, <3>1
    <3> QED BY <1>6, <1>7, <3>2
  <2> QED BY <2>1, <2>2
<1>13. /\ pc' \in {"drain", "caught"} /\ guard' \in {0, 1} /\ pipe' \in [Conns -> BOOLEAN] /\ pipe'[2] = pipe[2]
       /\ pc' = "caught" => guard' = 0 /\ ~ pipe'[1] /\ Rest(1) = <<>>
       /\ pc' = "drain" => guard' = 1 /\ pipe'[1]
  <2>1. CASE UNCHANGED <<pc, guard, pipe>>
    BY <1>1, <1>3, <1>4, <2>1
  <2>2. CASE /\ PQgetResult(guard) = "null" /\ Rest(guard) = <<>>
             /\ pc' = "caught" /\ guard' = 0 /\ pipe' = [pipe EXCEPT ![guard] = FALSE]
    <3>1. pipe' = [pipe EXCEPT ![1] = FALSE] /\ Rest(1) = <<>>
      BY <1>3, <2>2
    <3>2. pipe' \in [Conns -> BOOLEAN] /\ pipe'[2] = pipe[2] /\ ~ pipe'[1]
      BY <1>3, <1>4, <3>1
    <3> QED BY <2>2, <3>1, <3>2
  <2> QED BY <1>1, <2>1, <2>2
<1>14. TypeOK'
  BY <1>1, <1>2, <1>3, <1>8, <1>9, <1>13 DEF TypeOK
<1>15. LinkInv'
  BY <1>1, <1>2, <1>3, <1>8, <1>9, <1>13 DEF LinkInv
<1>16. GuardInv'
  BY <1>1, <1>2, <1>3, <1>13 DEF GuardInv, InBulk, Live
<1>17. ResultsInv'
  BY <1>1, <1>3, <1>7, <1>8, <1>11, <1>12, <1>13 DEF ResultsInv, AllLost, Live
<1>18. ~ last.broken => Live'
  <2>1. ~ last.broken => link[1] = "ok"
    BY <1>1, <1>3 DEF IInv, BrokenInv, Live
  <2>2. link[1] = "ok" => link'[1] = "ok"
    BY <1>9, <1>10
  <2> QED BY <1>1, <1>3, <2>1, <2>2 DEF Live
<1> QED BY <1>1, <1>9, <1>13, <1>14, <1>15, <1>16, <1>17, <1>18, GuardFrame

LEMMA GuardGivesUpStep ==
  ASSUME Usuals, IInv, GuardGivesUp
  PROVE  IInv'
<1>1. /\ pc = "drain" /\ pc' = "caught" /\ guard' = 0 /\ (~ pipe[guard] \/ PQstatusBad(guard))
      /\ UNCHANGED <<program, size, current, affected, at, conn, link, pipe, out, last>>
  BY DEF GuardGivesUp, GuardDone
<1>2. TypeOK /\ LinkInv /\ GuardInv /\ ResultsInv /\ guard # 0
  BY <1>1 DEF IInv, GuardInv
<1>3. guard = 1 /\ conn = 1 /\ link[1] = "bad"
  BY <1>1, <1>2, GuardOfFirst DEF PQstatusBad
<1>4. TypeOK'
  BY <1>1, <1>2 DEF TypeOK
<1>5. LinkInv'
  BY <1>1, <1>2 DEF LinkInv
<1>6. GuardInv'
  BY <1>1, <1>2, <1>3 DEF GuardInv, InBulk, Live
<1>7. ResultsInv'
  BY <1>1, <1>2, <1>3 DEF ResultsInv, AllLost, Live
<1>8. ~ last.broken => Live'
  BY <1>1 DEF IInv, BrokenInv, Live
<1> QED BY <1>1, <1>4, <1>5, <1>6, <1>7, <1>8, GuardFrame

-------------------------------------------------------------------------------
(* The connection is lost                                                  *)

LEMMA CutIs ==
  ASSUME NEW s \in Seq(ResultType), NEW k \in 0 .. Len(s), NEW t, t = SubSeq(s, 1, k) \o << "lost" >>
  PROVE  /\ t \in Seq(ResultType) /\ DOMAIN t = 1 .. k + 1 /\ k + 1 \in DOMAIN t
         /\ t[k + 1] = "lost" /\ k \in Nat
         /\ \A m \in 1 .. k : m \in DOMAIN s /\ t[m] = s[m]
<1>0. Len(s) \in Nat /\ DOMAIN s = 1 .. Len(s) /\ k \in Nat /\ 1 \in Int /\ k \in Int
  BY LenProperties
<1>1. \A i \in 1 .. k : s[i] \in ResultType
  BY <1>0, ElementOfSeq
<1> DEFINE h == SubSeq(s, 1, k)
           l == << "lost" >>
<1>2. /\ h \in Seq(ResultType) /\ Len(h) = IF 1 <= k THEN k - 1 + 1 ELSE 0
      /\ \A i \in 1 .. k - 1 + 1 : h[i] = s[1 + i - 1]
  BY <1>0, <1>1, SubSeqProperties
<1>3. Len(h) = k /\ \A i \in 1 .. k : h[i] = s[i]
  <2> HIDE DEF h
  <2>1. k - 1 + 1 = k /\ \A i \in 1 .. k : 1 + i - 1 = i
    BY <1>0
  <2> QED BY <1>0, <1>2, <2>1
<1>4. l \in Seq(ResultType) /\ Len(l) = 1 /\ l[1] = "lost"
  BY DEF ResultType
<1>5. t = h \o l
  OBVIOUS
<1> HIDE DEF h, l
<1>6. /\ h \o l \in Seq(ResultType) /\ Len(h \o l) = Len(h) + Len(l)
      /\ \A i \in 1 .. Len(h) + Len(l) : (h \o l)[i] = IF i <= Len(h) THEN h[i] ELSE l[i - Len(h)]
  BY <1>2, <1>4, ConcatProperties
<1>7. t \in Seq(ResultType) /\ Len(t) = k + 1
  BY <1>3, <1>4, <1>5, <1>6
<1>8. DOMAIN t = 1 .. k + 1
  BY <1>7, LenProperties
<1>9. \A i \in 1 .. k + 1 : t[i] = IF i <= k THEN h[i] ELSE l[i - k]
  BY <1>3, <1>4, <1>5, <1>6
<1>10. t[k + 1] = "lost" /\ k + 1 \in 1 .. k + 1
  <2>1. k + 1 \in 1 .. k + 1 /\ ~ (k + 1 <= k) /\ (k + 1) - k = 1
    BY <1>0
  <2> QED BY <1>4, <1>9, <2>1
<1>11. \A m \in 1 .. k : m \in DOMAIN s /\ t[m] = s[m]
  <2>1. \A m \in 1 .. k : m \in 1 .. k + 1 /\ m <= k /\ m \in 1 .. Len(s)
    BY <1>0
  <2> QED BY <1>0, <1>3, <1>9, <2>1
<1> QED BY <1>0, <1>7, <1>8, <1>10, <1>11

LEMMA CutStep ==
  ASSUME Usuals, IInv, NEW k \in Nat, Cut(k)
  PROVE  IInv'
<1>0. /\ program.loses /\ conn # 0 /\ link[conn] = "ok" /\ k \in 0 .. Len(out[conn])
      /\ link' = [link EXCEPT ![conn] = "cut"]
      /\ out' = [out EXCEPT ![conn] = IF @ = <<>> THEN @ ELSE SubSeq(@, 1, k) \o << "lost" >>]
      /\ last' = [last EXCEPT !.broken = @ \/ pc # "idle"]
      /\ UNCHANGED <<program, size, current, affected, pc, at, conn, guard, pipe>>
  BY DEF Cut
<1>1. TypeOK /\ LinkInv /\ GuardInv /\ ResultsInv /\ program.kind = "postgresql" /\ Live
  BY <1>0, UsualProgram DEF IInv, Live
<1>2. conn \in {1, 2} /\ conn \in Conns /\ 1 \in Conns /\ 2 \in Conns /\ last \in LastType
      /\ out \in [Conns -> Seq(ResultType)] /\ link \in [Conns -> LinkType] /\ out[conn] \in Seq(ResultType)
  BY <1>0, <1>1 DEF TypeOK, Conns
<1> DEFINE s == out[conn]
           t == SubSeq(s, 1, k) \o << "lost" >>
           o == IF s = <<>> THEN s ELSE t
<1>3. o \in Seq(ResultType) /\ (s = <<>> => o = <<>>) /\ (o = <<>> => s = <<>>)
      /\ \A m \in DOMAIN o : (m \in DOMAIN s /\ o[m] = s[m]) \/ (o[m] = "lost" /\ \A n \in DOMAIN o : ~ m < n)
  <2>1. CASE s = <<>>
    BY <1>2, <2>1
  <2>2. CASE s # <<>>
    <3>1. /\ t \in Seq(ResultType) /\ DOMAIN t = 1 .. k + 1 /\ k + 1 \in DOMAIN t /\ k \in Nat
          /\ t[k + 1] = "lost" /\ \A m \in 1 .. k : m \in DOMAIN s /\ t[m] = s[m]
      <4>1. s \in Seq(ResultType) /\ k \in 0 .. Len(s) /\ t = SubSeq(s, 1, k) \o << "lost" >>
        BY <1>0, <1>2
      <4> HIDE DEF s, t
      <4>2. /\ t \in Seq(ResultType) /\ DOMAIN t = 1 .. k + 1 /\ k + 1 \in DOMAIN t
            /\ t[k + 1] = "lost" /\ k \in Nat
            /\ \A m \in 1 .. k : m \in DOMAIN s /\ t[m] = s[m]
        BY <4>1, CutIs
      <4> QED BY <4>2
    <3>2. o = t
      BY <2>2
    <3> HIDE DEF t, o, s
    <3>3. \A m \in 1 .. k + 1 : m \in 1 .. k \/ (m = k + 1 /\ \A n \in 1 .. k + 1 : ~ m < n)
      BY <3>1
    <3>4. t # <<>>
      BY <3>1
    <3> QED BY <2>2, <3>1, <3>2, <3>3, <3>4
  <2> QED BY <2>1, <2>2
<1>4. out' = [out EXCEPT ![conn] = o]
  BY <1>0
<1> HIDE DEF o
<1>5. out' \in [Conns -> Seq(ResultType)] /\ out'[conn] = o /\ \A c \in Conns \ {conn} : out'[c] = out[c]
  BY <1>2, <1>3, <1>4
<1>6. link' \in [Conns -> LinkType] /\ link'[conn] = "cut" /\ \A c \in Conns \ {conn} : link'[c] = link[c]
  BY <1>0, <1>2 DEF LinkType
<1>7. /\ last' \in LastType /\ last'.res = last.res /\ last'.ran = last.ran /\ last'.failed = last.failed
      /\ last'.dumped = last.dumped /\ last'.rows = last.rows
      /\ (last'.broken <=> last.broken \/ pc # "idle")
  BY <1>0, <1>2 DEF LastType
<1>8. TypeOK'
  BY <1>0, <1>1, <1>5, <1>6, <1>7 DEF TypeOK
<1>9. LinkInv'
  BY <1>0, <1>1, <1>2, <1>5, <1>6 DEF LinkInv
<1>10. ~ Live'
  BY <1>0, <1>6 DEF Live
<1>11. GuardInv' /\ RowsInv'
  <2>1. GuardInv'
    BY <1>0, <1>1, <1>10 DEF GuardInv, InBulk
  <2>2. RowsInv'
    BY <1>0, <1>7 DEF IInv, RowsInv, InBulk, Last, Depth
  <2> QED BY <2>1, <2>2
<1>12. AllLost(conn) => AllLost(conn)'
  <2>1. SUFFICES ASSUME AllLost(conn) PROVE AllLost(conn)'
    OBVIOUS
  <2>2. o = <<>>
    BY <1>1, <1>3, <2>1, NothingLost
  <2> QED BY <1>0, <1>5, <2>2 DEF AllLost
<1>13. ASSUME NEW b \in 0 .. 1, QueueOf(b), pc # "idle" PROVE QueueOf(b)'
  <2> DEFINE Pos(i) == b + 2 * (i - at.row) + 1
             Ans(i) == IF i \in last.ran THEN "ok" ELSE IF i = last.failed THEN "error" ELSE "aborted"
  <2>1. \A i \in 0 .. MaxRows :
              /\ Pos(i) \in DOMAIN s => s[Pos(i)] \in {"sync", "lost"} \/ (i < current /\ s[Pos(i)] = Ans(i))
              /\ Pos(i) + 1 \in DOMAIN s =>
                     s[Pos(i) + 1] \in {"sync", "lost"} \/ (i < current /\ s[Pos(i) + 1] = "null")
    BY <1>13 DEF QueueOf, Answer
  <2>2. /\ \A m, n \in DOMAIN s : m < n /\ s[m] \in {"sync", "lost"} => s[n] = "lost"
        /\ \A m \in DOMAIN s : /\ s[m] = "sync" => at.pipelined /\ pc = "read"
                               /\ s[m] = "error" => last.failed # -1
        /\ b = 1 => at.row > at.first
        /\ s = <<>> \/ at.row <= current
    BY <1>13 DEF QueueOf
  <2>3. \A i \in 0 .. MaxRows :
              /\ Pos(i) \in DOMAIN o => o[Pos(i)] \in {"sync", "lost"} \/ (i < current /\ o[Pos(i)] = Ans(i))
              /\ Pos(i) + 1 \in DOMAIN o =>
                     o[Pos(i) + 1] \in {"sync", "lost"} \/ (i < current /\ o[Pos(i) + 1] = "null")
    <3> HIDE DEF Pos, Ans, s
    <3> QED BY <1>3, <2>1
  <2>4. /\ \A m, n \in DOMAIN o : m < n /\ o[m] \in {"sync", "lost"} => o[n] = "lost"
        /\ \A m \in DOMAIN o : /\ o[m] = "sync" => at.pipelined /\ pc = "read"
                               /\ o[m] = "error" => last.failed # -1
        /\ o = <<>> \/ at.row <= current
    <3> HIDE DEF s
    <3> QED BY <1>3, <2>2
  <2>5. last'.broken /\ at' = at /\ current' = current /\ pc' = pc /\ out'[conn'] = o
        /\ last'.ran = last.ran /\ last'.failed = last.failed
    BY <1>0, <1>5, <1>7, <1>13
  <2> QED BY <2>2, <2>3, <2>4, <2>5 DEF QueueOf, Answer
<1>14. ResultsInv'
  <2>1. pc \in {"idle", "execute", "chunk", "caught"} \/ (pc = "unwind" /\ guard = 0) => AllLost(conn)'
    BY <1>0, <1>1, <1>12 DEF ResultsInv
  <2>2. pc \in {"send", "read"} => \E b \in 0 .. 1 : QueueOf(b)'
    BY <1>0, <1>1, <1>13 DEF ResultsInv
  <2>3. link'[conn'] # "bad"
    BY <1>0, <1>6
  <2> QED BY <1>0, <1>10, <2>1, <2>2, <2>3 DEF ResultsInv, AllLost
<1>15. AnswersInv' /\ BrokenInv'
  BY <1>0, <1>7, <1>10 DEF AnswersInv, BrokenInv, InBulk
<1>16. link'[1] = "ok" => link[1] = "ok"
  BY <1>2, <1>6
<1>17. CurrentInv' /\ CallInv'
  BY <1>0, <1>1, <1>7, <1>16 DEF IInv, CurrentInv, CallInv, InBulk
<1>18. AffectedAreExecuted' /\ FailedRowShown'
  BY <1>0, <1>7, <1>16 DEF IInv, AffectedAreExecuted, FailedRowShown
<1> QED BY <1>8, <1>9, <1>11, <1>14, <1>15, <1>17, <1>18 DEF IInv

\* What becomes of a connection of which a result says that it is lost: it is kept, or,
\* outside a transaction, replaced once.
LEMMA FailoverIs ==
  ASSUME Usuals, TypeOK, LinkInv, conn # 0, NEW connects \in BOOLEAN, CanConnect(connects),
         conn' = FailoverConn(connects), link' = FailoverLink(connects)
  PROVE  /\ conn' \in Conns \cup {0} /\ link' \in [Conns -> LinkType] /\ link'[1] # "ok"
         /\ \/ conn' = conn /\ link'[conn] = "bad" /\ \A c \in Conns \ {conn} : link'[c] = link[c]
            \/ ~ program.txn /\ conn = 1 /\ conn' = 2 /\ link'[1] = "freed" /\ link'[2] = "ok"
            \/ ~ program.txn /\ conn' = 0 /\ link'[1] = "freed"
<1>1. conn \in Conns /\ conn \in {1, 2} /\ link \in [Conns -> LinkType] /\ 1 \in Conns /\ 2 \in Conns
  BY DEF TypeOK, Conns
<1>2. conn = 2 => link[1] = "freed"
  BY DEF LinkInv
<1>3. CASE program.callback # "retries"
  <2>1. conn' = conn /\ link' = [link EXCEPT ![conn] = "bad"]
    BY <1>3 DEF FailoverConn, FailoverLink
  <2> QED BY <1>1, <1>2, <2>1 DEF LinkType
<1>4. CASE program.callback = "retries" /\ connects
  <2>1. conn = 1 /\ conn' = 2 /\ link' = [link EXCEPT ![1] = "freed", ![2] = "ok"] /\ ~ program.txn
    BY <1>4, UsualProgram DEF FailoverConn, FailoverLink, CanConnect
  <2> QED BY <1>1, <2>1 DEF LinkType
<1>5. CASE program.callback = "retries" /\ ~ connects
  <2>1. conn' = 0 /\ link' = [link EXCEPT ![conn] = "freed"] /\ ~ program.txn
    BY <1>5, UsualProgram DEF FailoverConn, FailoverLink, CanConnect
  <2> QED BY <1>1, <1>2, <2>1 DEF LinkType
<1> QED BY <1>3, <1>4, <1>5

\* A connection that works can be sent to, and one that cannot has become known to be lost.
LEMMA LiveSends ==
  ASSUME LinkInv, conn \in Conns
  PROVE  Live <=> ~ SendFails(conn)
BY DEF LinkInv, Live, SendFails, Conns

LEMMA ExecuteSingleStep ==
  ASSUME Usuals, IInv, NEW res \in {"ok", "error", "lost"}, NEW connects \in BOOLEAN,
         ExecuteSingle(res, connects)
  PROVE  IInv'
<1> DEFINE ok == res = "ok"
           ran == IF res = "ok" THEN {0} ELSE {}
           failed == IF res = "error" THEN 0 ELSE -1
<1>0. /\ pc = "execute" /\ program.kind = "postgresql" /\ size = 1
      /\ (SendFails(conn) <=> res = "lost") /\ CanConnect(connects)
      /\ current' = -1 /\ affected' = (IF res = "ok" THEN 1 ELSE 0)
      /\ conn' = (IF res = "lost" /\ conn # 0 THEN FailoverConn(connects) ELSE conn)
      /\ link' = (IF res = "lost" /\ conn # 0 THEN FailoverLink(connects) ELSE link)
      /\ Ended(ok) /\ Outcome(ok, ran, failed)
      /\ UNCHANGED <<program, size, guard, pipe, out>>
  BY DEF ExecuteSingle
<1>1. TypeOK /\ LinkInv /\ GuardInv /\ ResultsInv /\ last \in LastType /\ last.res = "none" /\ last.rows = size
      /\ guard = 0 /\ (conn = 0 \/ AllLost(conn)) /\ MaxRows \in Nat \ {0}
  BY <1>0, BulkAssumption DEF IInv, TypeOK, CallInv, GuardInv, ResultsInv
<1>2. /\ last' \in LastType /\ last'.ran = ran /\ last'.failed = failed /\ last'.rows = size
      /\ (last'.broken <=> last.broken) /\ last'.res = IF ok THEN "done" ELSE "none"
  <2> DEFINE r == IF ok THEN "done" ELSE last.res
  <2>1. r \in {"none", "done", "error", "outOfRange"} /\ r = IF ok THEN "done" ELSE "none"
    BY <1>1
  <2>2. last' = [last EXCEPT !.res = r, !.ran = ran, !.failed = failed]
    BY <1>0 DEF Outcome
  <2>3. ran \in SUBSET Rows /\ failed \in Rows \cup {-1}
    BY <1>1 DEF Rows
  <2> HIDE DEF r, ran, failed
  <2>4. /\ last' \in LastType /\ last'.ran = ran /\ last'.failed = failed /\ last'.rows = last.rows
        /\ (last'.broken <=> last.broken) /\ last'.res = r
    BY <1>1, <2>1, <2>2, <2>3 DEF LastType
  <2> QED BY <1>1, <2>1, <2>4
<1>3. at' \in LocalType /\ pc' = IF ok THEN "idle" ELSE "caught"
  <2>1. NoLocals \in LocalType
    BY BulkAssumption DEF NoLocals, LocalType
  <2> QED BY <1>0, <1>1, <2>1 DEF Ended, TypeOK
<1>4. Live => ~ last.broken
  BY <1>0 DEF IInv, BrokenInv
<1>5. ~ last.broken => Live /\ res # "lost" /\ conn # 0
  <2>1. ~ last.broken => Live
    BY <1>0 DEF IInv, BrokenInv
  <2>2. Live => conn \in Conns
    BY <1>1 DEF Live, TypeOK
  <2>3. 0 \notin Conns
    BY DEF Conns
  <2> QED BY <1>0, <1>1, <2>1, <2>2, <2>3, LiveSends
<1>6. /\ conn' \in Conns \cup {0} /\ link' \in [Conns -> LinkType]
      /\ \/ conn' = conn /\ link' = link
         \/ conn # 0 /\ res = "lost" /\ conn' = conn /\ link'[conn] = "bad"
            /\ \A c \in Conns \ {conn} : link'[c] = link[c]
         \/ res = "lost" /\ ~ program.txn /\ conn = 1 /\ conn' = 2 /\ link'[1] = "freed" /\ link'[2] = "ok"
         \/ res = "lost" /\ ~ program.txn /\ conn' = 0 /\ link'[1] = "freed"
  <2>1. CASE ~ (res = "lost" /\ conn # 0)
    BY <1>0, <1>1, <2>1 DEF TypeOK
  <2>2. CASE res = "lost" /\ conn # 0
    BY <1>0, <1>1, <2>2, FailoverIs
  <2> QED BY <2>1, <2>2
<1>7. 1 \in Conns /\ 2 \in Conns /\ 0 \notin Conns /\ Conns = {1, 2}
  BY DEF Conns
<1>8. TypeOK'
  BY <1>0, <1>1, <1>2, <1>3, <1>6 DEF TypeOK
<1>9. LinkInv'
  BY <1>0, <1>1, <1>3, <1>6, <1>7 DEF LinkInv
<1>10. Live' => (Live /\ conn' = conn /\ link' = link) \/ (conn = 1 /\ conn' = 2)
  BY <1>6 DEF Live
<1>11. GuardInv' /\ RowsInv'
  <2>1. Live' /\ guard' = 0 => ~ pipe'[conn']
    BY <1>0, <1>1, <1>10 DEF GuardInv, LinkInv
  <2>2. GuardInv'
    BY <1>0, <1>1, <1>3, <2>1 DEF GuardInv, InBulk
  <2> QED BY <1>3, <2>2 DEF RowsInv, InBulk
<1>12. ResultsInv'
  <2>1. conn' = 0 \/ AllLost(conn)'
    <3>1. CASE conn' = conn
      BY <1>0, <1>1, <3>1 DEF AllLost
    <3>2. CASE conn = 1 /\ conn' = 2
      BY <1>0, <1>1, <3>2 DEF AllLost, LinkInv
    <3> QED BY <1>6, <3>1, <3>2
  <2>2. Live' => \A k \in DOMAIN out'[conn'] : out'[conn'][k] # "lost"
    <3>1. CASE Live /\ conn' = conn
      BY <1>0, <1>1, <3>1 DEF ResultsInv
    <3>2. CASE conn = 1 /\ conn' = 2
      BY <1>0, <1>1, <3>2 DEF LinkInv
    <3> QED BY <1>10, <3>1, <3>2
  <2> QED BY <1>3, <2>1, <2>2 DEF ResultsInv, AllLost
<1>13. Cardinality({0}) = 1 /\ Cardinality({}) = 0 /\ 0 .. size - 1 = {0}
  BY <1>0, FS_EmptySet, FS_Singleton
<1>14. affected' = Cardinality(ran)
  BY <1>0, <1>13
<1>15. AnswersInv'
  BY <1>0, <1>2, <1>3, <1>14 DEF AnswersInv, InBulk, Settled, Counted
<1>16. BrokenInv'
  <2>1. ~ last.broken => Live'
    BY <1>5, <1>6 DEF Live
  <2> QED BY <1>2, <1>3, <2>1 DEF BrokenInv
<1>17. CurrentInv' /\ CallInv'
  BY <1>0, <1>2, <1>3 DEF CurrentInv, CallInv, InBulk
<1>18. AffectedAreExecuted' /\ FailedRowShown'
  BY <1>0, <1>2, <1>3, <1>13, <1>14 DEF AffectedAreExecuted, FailedRowShown
<1> QED BY <1>8, <1>9, <1>11, <1>12, <1>15, <1>16, <1>17, <1>18 DEF IInv

-------------------------------------------------------------------------------
(* Results are read                                                        *)

\* Positions in the queue before and after one of the results was read.
LEMMA Positions ==
  ASSUME NEW b \in Int, NEW d \in Int, NEW r \in Int, NEW s \in Int, d - 2 * s = b - 2 * r - 1
  PROVE  /\ \A i \in Int : d + 2 * (i - s) + 1 \in Int /\ d + 2 * (i - s) + 1 + 1 = b + 2 * (i - r) + 1
         /\ \A c \in Int, e \in Int, m \in Int :
               m = b + 2 * (c - r) + e => m - 1 = d + 2 * (c - s) + e
OBVIOUS

LEMMA NoneLeft ==
  ASSUME NEW b \in 0 .. 1, NEW c \in Int, NEW r \in Int, 0 = b + 2 * (c - r)
  PROVE  b = 0 /\ r = c
OBVIOUS

LEMMA SyncLeft ==
  ASSUME NEW b \in 0 .. 1, NEW c \in Int, NEW r \in Int, 1 = b + 2 * (c - r) + 1
  PROVE  b = 0 /\ r = c
OBVIOUS

\* The queue in the next state, part by part.
QueueParts(d, q, Ans) ==
    /\ q = out'[conn']
    /\ \A i \in 0 .. MaxRows :
          Ans[i] = IF i \in last'.ran THEN "ok" ELSE IF i = last'.failed THEN "error" ELSE "aborted"
    /\ \A i \in 0 .. MaxRows :
          /\ d + 2 * (i - at'.row) + 1 \in DOMAIN q =>
                \/ q[d + 2 * (i - at'.row) + 1] \in {"sync", "lost"}
                \/ i < current' /\ q[d + 2 * (i - at'.row) + 1] = Ans[i]
          /\ d + 2 * (i - at'.row) + 1 + 1 \in DOMAIN q =>
                \/ q[d + 2 * (i - at'.row) + 1 + 1] \in {"sync", "lost"}
                \/ i < current' /\ q[d + 2 * (i - at'.row) + 1 + 1] = "null"
    /\ \A k, m \in DOMAIN q : k < m /\ q[k] \in {"sync", "lost"} => q[m] = "lost"
    /\ \A m \in DOMAIN q :
          (q[m] = "sync" => at'.pipelined /\ pc' = "read") /\ (q[m] = "error" => last'.failed # -1)
    /\ d = 1 => at'.row > at'.first
    /\ q = <<>> \/ at'.row <= current'
    /\ ~ last'.broken =>
          Len(q) = d + 2 * (current' - at'.row) + (IF pc' = "read" /\ at'.pipelined THEN 1 ELSE 0)

LEMMA QueueAfter ==
  ASSUME NEW d \in 0 .. 1, NEW q, NEW Ans, QueueParts(d, q, Ans)
  PROVE  QueueOf(d)'
BY DEF QueueParts, QueueOf, Answer

\* The results move up when one of them is read.
LEMMA Shift ==
  ASSUME TypeOK, conn \in Conns, NEW b \in 0 .. 1, QueueOf(b), NEW d \in 0 .. 1,
         out[conn] # <<>>, PQgetResult(conn) # "lost",
         pc' = pc, conn' = conn, current' = current, last' = last, out'[conn] = Rest(conn),
         at.row \in Nat, at'.row \in Nat, current \in Nat,
         d - 2 * at'.row = b - 2 * at.row - 1, d = 1 => at'.row > at'.first, at'.row <= current,
         at'.pipelined <=> at.pipelined
  PROVE  QueueOf(d)'
<1> DEFINE o == out[conn]
           t == Rest(conn)
           Pos(i) == b + 2 * (i - at.row) + 1
           PosAfter(i) == d + 2 * (i - at'.row) + 1
<1>0. o \in Seq(ResultType) /\ MaxRows \in Nat
  BY BulkAssumption DEF TypeOK
<1>1. /\ t \in Seq(ResultType) /\ Len(t) = Len(o) - 1
      /\ \A k \in DOMAIN t : k \in Nat \ {0} /\ k + 1 \in DOMAIN o /\ t[k] = o[k + 1]
  BY <1>0, RestOf
<1> DEFINE r == at.row
           s == at'.row
<1>n. b \in Int /\ d \in Int /\ r \in Int /\ s \in Int /\ current \in Int /\ d - 2 * s = b - 2 * r - 1
  OBVIOUS
<1>p. /\ \A i \in Int : d + 2 * (i - s) + 1 \in Int /\ d + 2 * (i - s) + 1 + 1 = b + 2 * (i - r) + 1
      /\ \A c \in Int, e \in Int, m \in Int :
            m = b + 2 * (c - r) + e => m - 1 = d + 2 * (c - s) + e
  <2> HIDE DEF r, s
  <2> QED BY <1>n, Positions
<1>2. \A i \in 0 .. MaxRows : PosAfter(i) \in Int /\ PosAfter(i) + 1 = Pos(i)
  <2>1. \A i \in Int : PosAfter(i) \in Int /\ PosAfter(i) + 1 = Pos(i)
    BY <1>p, Zenon
  <2>2. \A i \in 0 .. MaxRows : i \in Int
    BY <1>0
  <2> HIDE DEF PosAfter, Pos
  <2> QED BY <2>1, <2>2, Zenon
<1>3. \A i \in 0 .. MaxRows :
        /\ Pos(i) \in DOMAIN o => o[Pos(i)] \in {"sync", "lost"} \/ (i < current /\ o[Pos(i)] = Answer(i))
        /\ Pos(i) + 1 \in DOMAIN o => o[Pos(i) + 1] \in {"sync", "lost"} \/ (i < current /\ o[Pos(i) + 1] = "null")
  BY DEF QueueOf
<1>4. /\ \A m, n \in DOMAIN o : m < n /\ o[m] \in {"sync", "lost"} => o[n] = "lost"
      /\ \A m \in DOMAIN o : /\ o[m] = "sync" => at.pipelined /\ pc = "read"
                             /\ o[m] = "error" => last.failed # -1
      /\ ~ last.broken =>
            Len(o) = b + 2 * (current - at.row) + (IF pc = "read" /\ at.pipelined THEN 1 ELSE 0)
  BY DEF QueueOf
<1>5. \A i \in 0 .. MaxRows :
        /\ PosAfter(i) \in DOMAIN t =>
              t[PosAfter(i)] \in {"sync", "lost"} \/ (i < current /\ t[PosAfter(i)] = Answer(i))
        /\ PosAfter(i) + 1 \in DOMAIN t =>
              t[PosAfter(i) + 1] \in {"sync", "lost"} \/ (i < current /\ t[PosAfter(i) + 1] = "null")
  <2> HIDE DEF Pos, PosAfter, o, t
  <2> QED BY <1>1, <1>2, <1>3
<1>6. /\ \A m, n \in DOMAIN t : m < n /\ t[m] \in {"sync", "lost"} => t[n] = "lost"
      /\ \A m \in DOMAIN t : /\ t[m] = "sync" => at.pipelined /\ pc = "read"
                             /\ t[m] = "error" => last.failed # -1
  <2> HIDE DEF o, t
  <2>1. \A m, n \in DOMAIN t : m < n => m + 1 < n + 1 /\ m + 1 \in DOMAIN o /\ n + 1 \in DOMAIN o
    BY <1>1
  <2> QED BY <1>1, <1>4, <2>1
<1>7. ~ last.broken =>
        Len(t) = d + 2 * (current - at'.row) + (IF pc = "read" /\ at.pipelined THEN 1 ELSE 0)
  <2> DEFINE e == IF pc = "read" /\ at.pipelined THEN 1 ELSE 0
  <2>1. e \in Int
    OBVIOUS
  <2> HIDE DEF e, o, t
  <2>2. ~ last.broken => Len(o) = b + 2 * (current - at.row) + e
    BY <1>4 DEF e
  <2>3. Len(o) \in Int /\ current \in Int
    BY <1>0, LenProperties
  <2>4. ~ last.broken => Len(o) - 1 = d + 2 * (current - at'.row) + e
    BY <1>p, <2>1, <2>2, <2>3, Zenon
  <2>5. ~ last.broken => Len(t) = d + 2 * (current - at'.row) + e
    BY <1>1, <2>4
  <2> QED BY <2>5 DEF e
<1>9. out'[conn'] = t
  OBVIOUS
<1> HIDE DEF t
<1> DEFINE Ans == [i \in 0 .. MaxRows |-> Answer(i)]
<1>10. \A i \in 0 .. MaxRows :
         /\ Ans[i] = IF i \in last'.ran THEN "ok" ELSE IF i = last'.failed THEN "error" ELSE "aborted"
         /\ Ans[i] = Answer(i)
  BY DEF Answer
<1> HIDE DEF PosAfter, Pos, o, r, s, Ans
<1>11. \A i \in 0 .. MaxRows :
        /\ d + 2 * (i - at'.row) + 1 \in DOMAIN t =>
              \/ t[d + 2 * (i - at'.row) + 1] \in {"sync", "lost"}
              \/ i < current' /\ t[d + 2 * (i - at'.row) + 1] = Ans[i]
        /\ d + 2 * (i - at'.row) + 1 + 1 \in DOMAIN t =>
              \/ t[d + 2 * (i - at'.row) + 1 + 1] \in {"sync", "lost"}
              \/ i < current' /\ t[d + 2 * (i - at'.row) + 1 + 1] = "null"
  BY <1>5, <1>10, Zenon DEF PosAfter
<1>12. \A m \in DOMAIN t :  /\ t[m] = "sync" => at'.pipelined /\ pc' = "read"
                            /\ t[m] = "error" => last'.failed # -1
  BY <1>6
<1>13. ~ last'.broken =>
        Len(t) = d + 2 * (current' - at'.row) + (IF pc' = "read" /\ at'.pipelined THEN 1 ELSE 0)
  BY <1>7
<1>14. t = out'[conn'] /\ (d = 1 => at'.row > at'.first) /\ (t = <<>> \/ at'.row <= current')
  BY <1>9
<1>15. \A i \in 0 .. MaxRows :
          Ans[i] = IF i \in last'.ran THEN "ok" ELSE IF i = last'.failed THEN "error" ELSE "aborted"
  BY <1>10
<1>16. \A k, m \in DOMAIN t : k < m /\ t[k] \in {"sync", "lost"} => t[m] = "lost"
  BY <1>6
<1>17. QueueParts(d, t, Ans)
  BY <1>11, <1>12, <1>13, <1>14, <1>15, <1>16, Zenon DEF QueueParts
<1> QED BY <1>17, QueueAfter, Zenon

\* What the next result is.
LEMMA HeadIs ==
  ASSUME TypeOK, conn \in Conns, NEW b \in 0 .. 1, QueueOf(b), out[conn] # <<>>,
         at.row \in Nat, at.first \in Nat, current \in 0 .. MaxRows
  PROVE  LET r == PQgetResult(conn) IN
         /\ at.row <= current
         /\ r = "null" => b = 1
         /\ r \in {"ok", "error", "aborted"} => b = 0 /\ r = Answer(at.row) /\ at.row < current
<1> DEFINE o == out[conn]
           Pos(i) == b + 2 * (i - at.row) + 1
<1>0. o \in Seq(ResultType) /\ MaxRows \in Nat
  BY BulkAssumption DEF TypeOK
<1>1. PQgetResult(conn) = o[1] /\ 1 \in DOMAIN o
  BY <1>0, RestOf
<1>2. at.row <= current /\ (b = 1 => at.row > at.first)
  BY DEF QueueOf
<1>3. \A i \in 0 .. MaxRows :
        /\ Pos(i) \in DOMAIN o => o[Pos(i)] \in {"sync", "lost"} \/ (i < current /\ o[Pos(i)] = Answer(i))
        /\ Pos(i) + 1 \in DOMAIN o => o[Pos(i) + 1] \in {"sync", "lost"} \/ (i < current /\ o[Pos(i) + 1] = "null")
  BY DEF QueueOf
<1>4. CASE b = 0
  <2>1. Pos(at.row) = 1 /\ at.row \in 0 .. MaxRows
    BY <1>0, <1>2, <1>4
  <2>2. o[1] \in {"sync", "lost"} \/ (at.row < current /\ o[1] = Answer(at.row))
    <3> HIDE DEF o, Pos
    <3> QED BY <1>1, <1>3, <2>1
  <2>3. Answer(at.row) # "null"
    BY DEF Answer
  <2> QED BY <1>1, <1>2, <1>4, <2>2, <2>3
<1>5. CASE b = 1
  <2> DEFINE r == at.row
  <2>0. 1 + 2 * (r - 1 - r) + 1 + 1 = 1 /\ r - 1 \in 0 .. MaxRows
    <3>1. r \in Nat /\ r # 0 /\ r <= MaxRows
      BY <1>0, <1>2, <1>5
    <3> HIDE DEF r
    <3> QED BY <1>0, <3>1
  <2>1. Pos(at.row - 1) + 1 = 1 /\ at.row - 1 \in 0 .. MaxRows
    BY <1>5, <2>0, Zenon
  <2>2. o[1] \in {"sync", "lost", "null"}
    <3> HIDE DEF o, Pos
    <3> QED BY <1>1, <1>3, <2>1
  <2> QED BY <1>1, <1>2, <1>5, <2>2
<1> QED BY <1>4, <1>5

\* A result of a row, a null result or a synchronization point is read: nothing else changes.
LEMMA ReadFrame ==
  ASSUME Usuals, IInv, pc = "read", pc' \in {"read", "chunk", "unwind"},
         Got(conn), PQgetResult(conn) # "lost", UNCHANGED <<conn, guard, pipe>>
  PROVE  /\ conn # 0 => out' = [out EXCEPT ![conn] = Rest(conn)]
         /\ conn = 0 => out' = out
         /\ link' = link
         /\ out' \in [Conns -> Seq(ResultType)]
         /\ conn = 1 => out'[2] = <<>>
         /\ Live' <=> Live
         /\ Live => \A k \in DOMAIN out'[conn] : out'[conn][k] # "lost"
         /\ conn # 0 /\ link[conn] = "bad" => AllLost(conn)'
         /\ program' = program => LinkInv'
<1>0. TypeOK /\ LinkInv /\ ResultsInv /\ (program.kind = "postgresql")
  BY UsualProgram DEF IInv, LinkInv
<1>1. CASE conn = 0
  <2>1. out' = out /\ link' = link
    BY <1>1 DEF Got
  <2> QED BY <1>0, <1>1, <2>1 DEF TypeOK, Live, LinkInv
<1>2. CASE conn # 0
  <2>1. conn \in Conns /\ out \in [Conns -> Seq(ResultType)] /\ out[conn] \in Seq(ResultType)
        /\ link \in [Conns -> LinkType] /\ 1 \in Conns /\ 2 \in Conns
    BY <1>0, <1>2 DEF TypeOK, Conns
  <2>2. out' = [out EXCEPT ![conn] = Rest(conn)] /\ link' = [link EXCEPT ![conn] = LinkAfter(conn)]
    BY <1>2 DEF Got
  <2>3. link' = link
    BY <2>1, <2>2 DEF LinkAfter
  <2>4. /\ Rest(conn) \in Seq(ResultType)
        /\ out[conn] = <<>> => Rest(conn) = <<>>
        /\ out[conn] # <<>> => \A k \in DOMAIN Rest(conn) :
                                   k + 1 \in DOMAIN out[conn] /\ Rest(conn)[k] = out[conn][k + 1]
    BY <2>1, RestOf
  <2>5. out' \in [Conns -> Seq(ResultType)] /\ out'[conn] = Rest(conn) /\ (conn = 1 => out'[2] = out[2])
    BY <2>1, <2>2, <2>4
  <2>6. Live' <=> Live
    BY <2>3 DEF Live
  <2>7. \A k \in DOMAIN Rest(conn) : k + 1 \in DOMAIN out[conn] /\ Rest(conn)[k] = out[conn][k + 1]
    <3>1. DOMAIN <<>> = {}
      OBVIOUS
    <3> QED BY <2>4, <3>1
  <2>8. Live => \A k \in DOMAIN out'[conn] : out'[conn][k] # "lost"
    BY <1>0, <2>5, <2>7 DEF ResultsInv
  <2>9. link[conn] = "bad" => AllLost(conn)'
    BY <1>0, <1>2, <2>5, <2>7 DEF ResultsInv, AllLost
  <2>10. program' = program => LinkInv'
    BY <1>0, <1>2, <2>3, <2>5 DEF LinkInv
  <2> QED BY <1>0, <1>2, <2>2, <2>3, <2>5, <2>6, <2>8, <2>9, <2>10 DEF LinkInv
<1> QED BY <1>1, <1>2

LEMMA ReadNullStep ==
  ASSUME Usuals, IInv, ReadNull
  PROVE  IInv'
<1>0. /\ pc = "read" /\ PQgetResult(conn) = "null" /\ Got(conn)
      /\ pc' = (IF ~ at.pipelined THEN "chunk" ELSE IF PQstatusBad(conn) THEN "unwind" ELSE "read")
      /\ UNCHANGED <<program, size, current, affected, at, conn, guard, pipe, last>>
  BY DEF ReadNull
<1>1. TypeOK /\ LinkInv /\ GuardInv /\ ResultsInv /\ InBulk /\ program.kind = "postgresql"
      /\ last.res = "none" /\ last.rows = size
  BY <1>0, UsualProgram DEF IInv, LinkInv, InBulk, CallInv
<1>2. /\ size \in 1 .. MaxRows /\ MaxRows \in Nat \ {0} /\ at \in LocalType
      /\ at.first \in Nat /\ at.row \in Nat /\ current \in Nat /\ current <= Last /\ Last <= size
      /\ at.first <= at.row /\ (~ at.pipelined => Last = at.first + 1)
  BY <1>1, BulkNumbers
<1>3. current = Last /\ current \in 0 .. MaxRows
  BY <1>0, <1>2 DEF IInv, RowsInv
<1>4. /\ conn # 0 => out' = [out EXCEPT ![conn] = Rest(conn)]
      /\ conn = 0 => out' = out
      /\ link' = link
      /\ out' \in [Conns -> Seq(ResultType)]
      /\ Live' <=> Live
      /\ Live => \A k \in DOMAIN out'[conn] : out'[conn][k] # "lost"
      /\ conn # 0 /\ link[conn] = "bad" => AllLost(conn)'
      /\ LinkInv'
  <2>1. pc' \in {"read", "chunk", "unwind"} /\ PQgetResult(conn) # "lost" /\ UNCHANGED <<conn, guard, pipe>>
    BY <1>0
  <2> QED BY <1>0, <2>1, ReadFrame
<1>5. ~ last.broken => Live
  BY <1>0 DEF IInv, BrokenInv
<1>6. at.pipelined <=> guard = 1
  BY <1>1 DEF GuardInv
<1>7. pc' = "unwind" => guard = 1 /\ conn = 1 /\ link[1] = "bad" /\ ~ Live
  BY <1>0, <1>1, <1>6 DEF PQstatusBad, LinkInv, GuardInv, Live
<1>8. ASSUME conn # 0
      PROVE  /\ pc' = "chunk" => AllLost(conn)' /\ (~ last.broken => at.row = current)
             /\ pc' = "read" => \E d \in 0 .. 1 : QueueOf(d)'
  <2>1. conn \in Conns /\ out \in [Conns -> Seq(ResultType)] /\ out[conn] \in Seq(ResultType)
    BY <1>1, <1>8 DEF TypeOK
  <2>2. out'[conn] = Rest(conn)
    BY <1>4, <1>8, <2>1
  <2>3. PICK b \in 0 .. 1 : QueueOf(b)
    BY <1>0, <1>1, <1>8 DEF ResultsInv
  <2>4. CASE out[conn] = <<>>
    <3>1. Rest(conn) = <<>> /\ out' = out
      <4>1. Rest(conn) = <<>>
        BY <2>1, <2>4, RestOf
      <4> QED BY <1>4, <1>8, <2>1, <2>4, <4>1
    <3>2. AllLost(conn)'
      BY <1>0, <2>2, <3>1 DEF AllLost
    <3>3. Len(out[conn]) = 0
      BY <2>4
    <3> DEFINE e == IF pc = "read" /\ at.pipelined THEN 1 ELSE 0
               r == at.row
    <3>4. ~ last.broken => Len(out[conn]) = b + 2 * (current - r) + e
      BY <2>3 DEF QueueOf
    <3>5. ~ last.broken /\ ~ at.pipelined => at.row = current
      <4>1. ~ at.pipelined => e = 0
        OBVIOUS
      <4>2. r \in Int /\ current \in Int
        BY <1>2
      <4> HIDE DEF e, r
      <4>3. ~ last.broken /\ ~ at.pipelined => 0 = b + 2 * (current - r)
        BY <3>3, <3>4, <4>1, <4>2
      <4>4. ~ last.broken /\ ~ at.pipelined => r = current
        BY <4>2, <4>3, NoneLeft
      <4> QED BY <4>4 DEF r
    <3>6. pc' = "read" => QueueOf(b)'
      BY <1>0, <2>3, <3>1 DEF QueueOf, Answer
    <3> QED BY <1>0, <3>2, <3>5, <3>6
  <2>5. CASE out[conn] # <<>>
    <3>1. b = 1 /\ at.row <= current
      BY <1>0, <1>2, <1>3, <2>1, <2>3, <2>5, <1>1, HeadIs
    <3>2. at.row > at.first
      BY <2>3, <3>1 DEF QueueOf
    <3>3. pc' = "read" => QueueOf(0)'
      <4>1. 0 \in 0 .. 1 /\ 0 - 2 * at'.row = b - 2 * at.row - 1 /\ at'.row \in Nat /\ at'.row <= current
        BY <1>0, <1>2, <3>1
      <4> QED BY <1>0, <1>1, <1>2, <2>1, <2>2, <2>3, <2>5, <3>1, <4>1, Shift
    <3>4. ASSUME ~ at.pipelined PROVE at.row = current /\ AllLost(conn)'
      <4>1. at.row = current
        BY <1>2, <1>3, <3>1, <3>2, <3>4
      <4> DEFINE o == out[conn]
      <4>2. \A k \in DOMAIN Rest(conn) : k \in Nat \ {0} /\ k + 1 \in DOMAIN o /\ Rest(conn)[k] = o[k + 1]
        BY <1>0, <2>1, <2>5, RestOf
      <4>3. b + 2 * (at.row - at.row) + 1 = 2 /\ at.row \in 0 .. MaxRows /\ ~ at.row < current
        BY <1>2, <1>3, <3>1, <4>1
      <4>4. 2 \in DOMAIN o => o[2] \in {"sync", "lost"}
        BY <2>3, <4>3 DEF QueueOf
      <4>5. /\ \A m, n \in DOMAIN o : m < n /\ o[m] \in {"sync", "lost"} => o[n] = "lost"
            /\ \A m \in DOMAIN o : o[m] # "sync"
        BY <2>3, <3>4 DEF QueueOf
      <4>6. DOMAIN o = 1 .. Len(o) /\ Len(o) \in Nat
        BY <2>1, LenProperties
      <4> HIDE DEF o
      <4>7. \A k \in DOMAIN Rest(conn) : Rest(conn)[k] = "lost"
        <5>1. SUFFICES ASSUME NEW k \in DOMAIN Rest(conn) PROVE o[k + 1] = "lost"
          BY <4>2
        <5>2. k \in Nat \ {0} /\ k + 1 \in DOMAIN o
          BY <4>2
        <5>3. 2 \in DOMAIN o /\ (k + 1 = 2 \/ 2 < k + 1)
          BY <4>6, <5>2
        <5> QED BY <4>4, <4>5, <5>2, <5>3
      <4> QED BY <1>0, <2>2, <4>1, <4>7 DEF AllLost
    <3> QED BY <1>0, <3>3, <3>4
  <2> QED BY <2>4, <2>5
<1>9. TypeOK'
  BY <1>0, <1>1, <1>4 DEF TypeOK
<1>10. GuardInv'
  BY <1>0, <1>1, <1>4, <1>6, <1>7 DEF GuardInv, InBulk, Live
<1>11. RowsInv'
  BY <1>0, <1>1 DEF IInv, RowsInv, InBulk, Last, Depth
<1>12. ResultsInv'
  <2>1. pc' \in {"read", "chunk", "unwind"} /\ (pc' = "unwind" => guard' # 0)
    BY <1>0, <1>7
  <2> QED BY <1>0, <1>4, <1>8, <2>1 DEF ResultsInv, AllLost
<1>13. AnswersInv'
  <2>1. conn = 0 => last.broken
    BY <1>5 DEF Live
  <2>2. pc' = "chunk" /\ ~ last.broken => at.row = current
    BY <1>8, <2>1
  <2>3. pc' = "unwind" => last.broken
    BY <1>5, <1>7
  <2>4. pc' \in {"read", "chunk", "unwind"}
    BY <1>0
  <2> QED BY <1>0, <1>1, <2>2, <2>3, <2>4 DEF IInv, AnswersInv, InBulk
<1>14. BrokenInv'
  BY <1>0, <1>4, <1>5 DEF IInv, BrokenInv
<1>15. CurrentInv' /\ CallInv'
  BY <1>0, <1>1, <1>4, <1>7 DEF CurrentInv, CallInv, InBulk
<1>16. AffectedAreExecuted' /\ FailedRowShown'
  BY <1>0, <1>1 DEF AffectedAreExecuted, FailedRowShown
<1> QED BY <1>4, <1>9, <1>10, <1>11, <1>12, <1>13, <1>14, <1>15, <1>16 DEF IInv

LEMMA ReadSyncStep ==
  ASSUME Usuals, IInv, ReadSync
  PROVE  IInv'
<1>0. /\ pc = "read" /\ PQgetResult(conn) = "sync" /\ Got(conn) /\ pc' = "chunk"
      /\ UNCHANGED <<program, size, current, affected, at, conn, guard, pipe, last>>
  BY DEF ReadSync
<1>1. TypeOK /\ LinkInv /\ GuardInv /\ ResultsInv /\ InBulk /\ program.kind = "postgresql"
      /\ last.res = "none" /\ last.rows = size
  BY <1>0, UsualProgram DEF IInv, LinkInv, InBulk, CallInv
<1>2. at.row \in Nat /\ current \in Nat
  BY <1>1, BulkNumbers
<1>3. conn # 0 /\ out[conn] # <<>>
  BY <1>0 DEF PQgetResult
<1>4. conn \in Conns /\ out \in [Conns -> Seq(ResultType)] /\ out[conn] \in Seq(ResultType)
  BY <1>1, <1>3 DEF TypeOK
<1>5. /\ out' = [out EXCEPT ![conn] = Rest(conn)]
      /\ link' = link
      /\ out' \in [Conns -> Seq(ResultType)]
      /\ Live' <=> Live
      /\ Live => \A k \in DOMAIN out'[conn] : out'[conn][k] # "lost"
      /\ LinkInv'
  <2>1. pc' \in {"read", "chunk", "unwind"} /\ PQgetResult(conn) # "lost" /\ UNCHANGED <<conn, guard, pipe>>
    BY <1>0
  <2> QED BY <1>0, <1>3, <2>1, ReadFrame
<1>6. ~ last.broken => Live
  BY <1>0 DEF IInv, BrokenInv
<1>7. PICK b \in 0 .. 1 : QueueOf(b)
  BY <1>0, <1>1, <1>3 DEF ResultsInv
<1> DEFINE o == out[conn]
           r == at.row
<1>8. o[1] = "sync" /\ 1 \in DOMAIN o
      /\ \A k \in DOMAIN Rest(conn) : k \in Nat \ {0} /\ k + 1 \in DOMAIN o /\ Rest(conn)[k] = o[k + 1]
  BY <1>0, <1>3, <1>4, RestOf
<1>9. /\ \A m, n \in DOMAIN o : m < n /\ o[m] \in {"sync", "lost"} => o[n] = "lost"
      /\ \A m \in DOMAIN o : o[m] = "sync" => at.pipelined
      /\ ~ last.broken => Len(o) = b + 2 * (current - r) + (IF pc = "read" /\ at.pipelined THEN 1 ELSE 0)
  BY <1>7 DEF QueueOf
<1>10. at.pipelined
  BY <1>8, <1>9
<1>11. Len(o) \in Nat /\ DOMAIN o = 1 .. Len(o)
  BY <1>4, LenProperties
<1>12. AllLost(conn)'
  <2>1. \A k \in DOMAIN Rest(conn) : 1 < k + 1
    BY <1>8
  <2>2. out'[conn] = Rest(conn)
    BY <1>4, <1>5
  <2> HIDE DEF o
  <2> QED BY <1>0, <1>8, <1>9, <2>1, <2>2 DEF AllLost
<1>13. ~ last.broken => r = current
  <2>1. SUFFICES ASSUME ~ last.broken PROVE r = current
    OBVIOUS
  <2>2. \A k \in DOMAIN o : o[k] # "lost"
    BY <1>1, <1>6, <2>1 DEF ResultsInv
  <2>3. Len(o) = b + 2 * (current - r) + 1
    BY <1>0, <1>9, <1>10, <2>1
  <2>4. r \in Int /\ current \in Int
    BY <1>2
  <2> HIDE DEF o, r
  <2>5. Len(o) = 1
    <3>1. 2 \notin DOMAIN o
      BY <1>8, <1>9, <2>2
    <3> QED BY <1>8, <1>11, <3>1
  <2>6. 1 = b + 2 * (current - r) + 1
    BY <2>3, <2>5, Zenon
  <2> QED BY <2>4, <2>6, SyncLeft
<1> HIDE DEF o
<1>14. TypeOK'
  BY <1>0, <1>1, <1>5 DEF TypeOK
<1>15. GuardInv'
  BY <1>0, <1>1, <1>5 DEF GuardInv, InBulk, Live
<1>16. RowsInv'
  BY <1>0, <1>1 DEF IInv, RowsInv, InBulk, Last, Depth
<1>17. ResultsInv'
  BY <1>0, <1>5, <1>12 DEF ResultsInv, AllLost
<1>18. AnswersInv'
  BY <1>0, <1>1, <1>13 DEF IInv, AnswersInv, InBulk
<1>19. BrokenInv'
  BY <1>0, <1>5, <1>6 DEF IInv, BrokenInv
<1>20. CurrentInv' /\ CallInv'
  BY <1>0, <1>1, <1>5 DEF CurrentInv, CallInv, InBulk
<1>21. AffectedAreExecuted' /\ FailedRowShown'
  BY <1>0, <1>1 DEF AffectedAreExecuted, FailedRowShown
<1> QED BY <1>5, <1>14, <1>15, <1>16, <1>17, <1>18, <1>19, <1>20, <1>21 DEF IInv

\* Nothing is left of what was to be read.
LEMMA QueueGone ==
  ASSUME out'[conn'] = <<>>, last'.broken
  PROVE  QueueOf(0)'
<1>1. DOMAIN <<>> = {}
  OBVIOUS
<1> QED BY <1>1 DEF QueueOf

\* The first row that fails is the one at which the rows that ran end.
LEMMA RowRan ==
  ASSUME NEW r \in Nat, NEW c \in Nat, NEW f \in Int, f = -1 \/ f \in Nat, r < c,
         NEW S, S = 0 .. (IF f = -1 THEN c ELSE f) - 1
  PROVE  r \in S <=> f = -1 \/ r < f
OBVIOUS

\* The result of a row leaves the connection, and perhaps replaces it.
LEMMA ReadRowLinks ==
  ASSUME Usuals, IInv, NEW connects \in BOOLEAN, ReadRow(connects)
  PROVE  /\ conn # 0 /\ conn \in Conns /\ out[conn] # <<>>
         /\ conn' \in Conns \cup {0} /\ out' \in [Conns -> Seq(ResultType)] /\ link' \in [Conns -> LinkType]
         /\ LinkInv'
         /\ PQgetResult(conn) = "lost" =>
               /\ ~ Live
               /\ conn' # 0 => out'[conn'] = <<>>
               /\ Live' => conn = 1 /\ conn' = 2 /\ ~ at.error
         /\ PQgetResult(conn) # "lost" =>
               /\ conn' = conn /\ link' = link /\ out'[conn] = Rest(conn)
               /\ Live => \A k \in DOMAIN out'[conn] : out'[conn][k] # "lost"
               /\ link[conn] = "bad" => AllLost(conn)'
<1> DEFINE res == PQgetResult(conn)
           fails == ~ at.error /\ res # "ok"
<1>0. /\ pc = "read" /\ pc' = pc /\ res \in {"ok", "error", "aborted", "lost"}
      /\ CanConnect(connects)
      /\ fails /\ res = "lost" =>
            conn' = FailoverConn(connects) /\ link' = FailoverLink(connects) /\ out' = [out EXCEPT ![conn] = <<>>]
      /\ ~ (fails /\ res = "lost") => Got(conn) /\ conn' = conn
      /\ UNCHANGED <<program, size, current, pc, guard, pipe, last>>
  BY DEF ReadRow
<1>1. TypeOK /\ LinkInv /\ ResultsInv /\ program.kind = "postgresql"
  BY <1>0, UsualProgram DEF IInv, LinkInv
<1>2. conn # 0 /\ out[conn] # <<>>
  BY <1>0 DEF PQgetResult
<1>3. conn \in Conns /\ out \in [Conns -> Seq(ResultType)] /\ out[conn] \in Seq(ResultType)
      /\ link \in [Conns -> LinkType] /\ 1 \in Conns /\ 2 \in Conns /\ <<>> \in Seq(ResultType)
      /\ conn \in {1, 2}
  BY <1>1, <1>2, EmptySeq DEF TypeOK, Conns
<1>4. res = "lost" => ~ Live
  <2>1. res = out[conn][1] /\ 1 \in DOMAIN out[conn]
    BY <1>2, <1>3, RestOf
  <2> QED BY <1>1, <2>1 DEF ResultsInv
<1>5. CASE res # "lost"
  <2>1. /\ out' = [out EXCEPT ![conn] = Rest(conn)]
        /\ link' = link
        /\ out' \in [Conns -> Seq(ResultType)]
        /\ Live => \A k \in DOMAIN out'[conn] : out'[conn][k] # "lost"
        /\ link[conn] = "bad" => AllLost(conn)'
        /\ LinkInv'
    <3>1. pc' \in {"read", "chunk", "unwind"} /\ UNCHANGED <<conn, guard, pipe>> /\ Got(conn) /\ program' = program
      BY <1>0, <1>5
    <3> QED BY <1>0, <1>2, <1>5, <3>1, ReadFrame
  <2>2. conn' = conn /\ out'[conn] = Rest(conn)
    BY <1>0, <1>3, <1>5, <2>1
  <2> QED BY <1>2, <1>3, <1>5, <2>1, <2>2
<1>6. CASE res = "lost" /\ ~ at.error
  <2>1. conn' = FailoverConn(connects) /\ link' = FailoverLink(connects) /\ out' = [out EXCEPT ![conn] = <<>>]
    BY <1>0, <1>6
  <2>2. /\ conn' \in Conns \cup {0} /\ link' \in [Conns -> LinkType] /\ link'[1] # "ok"
        /\ \/ conn' = conn /\ link'[conn] = "bad" /\ \A c \in Conns \ {conn} : link'[c] = link[c]
           \/ ~ program.txn /\ conn = 1 /\ conn' = 2 /\ link'[1] = "freed" /\ link'[2] = "ok"
           \/ ~ program.txn /\ conn' = 0 /\ link'[1] = "freed"
    BY <1>0, <1>1, <1>2, <2>1, FailoverIs
  <2>3. out' \in [Conns -> Seq(ResultType)] /\ out'[conn] = <<>> /\ \A c \in Conns \ {conn} : out'[c] = out[c]
    BY <1>3, <2>1
  <2>4. conn = 1 => out[2] = <<>> /\ ~ pipe[2]
    BY <1>1 DEF LinkInv
  <2>5. LinkInv'
    BY <1>0, <1>1, <1>3, <2>2, <2>3, <2>4 DEF LinkInv
  <2>6. (conn' # 0 => out'[conn'] = <<>>) /\ (Live' => conn = 1 /\ conn' = 2)
    BY <1>3, <2>2, <2>3, <2>4 DEF Live
  <2> QED BY <1>2, <1>3, <1>4, <1>6, <2>2, <2>3, <2>5, <2>6
<1>7. CASE res = "lost" /\ at.error
  <2>1. Got(conn) /\ conn' = conn
    BY <1>0, <1>7
  <2>2. out' = [out EXCEPT ![conn] = Rest(conn)] /\ link' = [link EXCEPT ![conn] = LinkAfter(conn)]
    BY <1>2, <2>1 DEF Got
  <2>3. Rest(conn) = <<>> /\ LinkAfter(conn) = "bad" /\ "bad" \in LinkType
    BY <1>3, <1>7, RestOf DEF LinkAfter, LinkType
  <2>4. /\ out' \in [Conns -> Seq(ResultType)] /\ out'[conn] = <<>> /\ \A c \in Conns \ {conn} : out'[c] = out[c]
        /\ link' \in [Conns -> LinkType] /\ link'[conn] = "bad" /\ \A c \in Conns \ {conn} : link'[c] = link[c]
    BY <1>3, <2>2, <2>3
  <2>5. LinkInv'
    BY <1>0, <1>1, <1>3, <2>1, <2>4 DEF LinkInv
  <2>6. ~ Live'
    BY <2>1, <2>4 DEF Live
  <2> QED BY <1>2, <1>3, <1>4, <1>7, <2>1, <2>4, <2>5, <2>6
<1> QED BY <1>0, <1>5, <1>6, <1>7

LEMMA ReadRowStep ==
  ASSUME Usuals, IInv, NEW connects \in BOOLEAN, ReadRow(connects)
  PROVE  IInv'
<1> DEFINE res == PQgetResult(conn)
           fails == ~ at.error /\ res # "ok"
           r == at.row
           f == last.failed
<1>0. /\ pc = "read" /\ pc' = "read" /\ res \in {"ok", "error", "aborted", "lost"}
      /\ at' = [at EXCEPT !.row = r + 1, !.error = @ \/ fails, !.errorRow = IF fails THEN r ELSE @]
      /\ affected' = (IF ~ at.error /\ res = "ok" THEN affected + 1 ELSE affected)
      /\ UNCHANGED <<program, size, current, guard, pipe, last>>
  BY DEF ReadRow
<1>1. TypeOK /\ LinkInv /\ GuardInv /\ RowsInv /\ ResultsInv /\ AnswersInv /\ BrokenInv /\ InBulk
      /\ program.kind = "postgresql" /\ last.res = "none" /\ last.rows = size /\ last \in LastType
  BY <1>0, UsualProgram DEF IInv, LinkInv, InBulk, CallInv, TypeOK
<1>2. /\ size \in 1 .. MaxRows /\ MaxRows \in Nat \ {0} /\ at \in LocalType /\ at.first \in Nat
      /\ at.row \in Nat /\ current \in Nat /\ current <= Last /\ Last <= size /\ Last \in Nat
      /\ at.first <= at.row
  BY <1>1, BulkNumbers
<1>3. current \in 0 .. MaxRows
  BY <1>2
<1>4. /\ conn # 0 /\ conn \in Conns /\ out[conn] # <<>>
      /\ conn' \in Conns \cup {0} /\ out' \in [Conns -> Seq(ResultType)] /\ link' \in [Conns -> LinkType]
      /\ LinkInv'
      /\ res = "lost" =>
            /\ ~ Live
            /\ conn' # 0 => out'[conn'] = <<>>
            /\ Live' => conn = 1 /\ conn' = 2 /\ ~ at.error
      /\ res # "lost" =>
            /\ conn' = conn /\ link' = link /\ out'[conn] = Rest(conn)
            /\ Live => \A k \in DOMAIN out'[conn] : out'[conn][k] # "lost"
            /\ link[conn] = "bad" => AllLost(conn)'
  BY ReadRowLinks
<1>5. PICK b \in 0 .. 1 : QueueOf(b)
  BY <1>0, <1>1, <1>4 DEF ResultsInv
<1>6. /\ r <= current
      /\ res # "lost" => b = 0 /\ res = Answer(r) /\ r < current
  BY <1>0, <1>1, <1>2, <1>3, <1>4, <1>5, HeadIs
<1>7. /\ at' \in LocalType /\ at'.first = at.first /\ at'.row = r + 1
      /\ (at'.pipelined <=> at.pipelined) /\ (at'.error <=> at.error \/ fails)
      /\ at'.errorRow = IF fails THEN r ELSE at.errorRow
  <2> DEFINE n == r + 1
             e == at.error \/ fails
             w == IF fails THEN r ELSE at.errorRow
  <2>1. n \in 0 .. MaxRows + 1 /\ e \in BOOLEAN
    BY <1>2, <1>6
  <2>2. r \in -1 .. MaxRows
    BY <1>2, <1>6
  <2>3. at.errorRow \in -1 .. MaxRows
    BY <1>2 DEF LocalType
  <2>4. w \in -1 .. MaxRows
    BY <2>2, <2>3
  <2>5. at' = [at EXCEPT !.row = n, !.error = e, !.errorRow = w]
    BY <1>0
  <2> HIDE DEF n, e, w
  <2>6. /\ at' \in LocalType /\ at'.first = at.first /\ at'.row = n
        /\ (at'.pipelined <=> at.pipelined) /\ (at'.error <=> e) /\ at'.errorRow = w
    BY <1>2, <2>1, <2>4, <2>5 DEF LocalType
  <2> QED BY <2>6 DEF n, e, w
<1> HIDE DEF fails, res
<1>8. Last' = Last /\ (Depth' = Depth)
  BY <1>0, <1>7 DEF Last, Depth
<1>9. ~ last.broken => Live /\ res # "lost"
  BY <1>0, <1>1, <1>4 DEF BrokenInv
<1>10. fails <=> ~ at.error /\ res # "ok"
  BY DEF fails
<1>11. affected \in -1 .. MaxRows /\ affected >= 0 /\ affected <= r
  BY <1>1 DEF RowsInv, TypeOK
<1>12. affected' \in -1 .. MaxRows /\ affected' >= 0 /\ affected' <= r + 1
  <2>1. CASE ~ at.error /\ res = "ok"
    BY <1>0, <1>2, <1>6, <1>11, <2>1
  <2>2. CASE ~ (~ at.error /\ res = "ok")
    BY <1>0, <1>2, <1>11, <2>2
  <2> QED BY <2>1, <2>2
<1>13. ~ at'.error => 0 .. r \subseteq last.ran
  <2>1. SUFFICES ASSUME ~ at'.error PROVE 0 .. r \subseteq last.ran
    OBVIOUS
  <2>2. ~ at.error /\ res = "ok"
    BY <1>7, <1>10, <2>1
  <2>3. r \in last.ran
    BY <1>6, <2>2 DEF Answer
  <2>4. 0 .. r - 1 \subseteq last.ran
    BY <1>1, <2>2 DEF RowsInv
  <2>5. 0 .. r \subseteq (0 .. r - 1) \cup {r}
    BY <1>2
  <2> QED BY <2>3, <2>4, <2>5
<1>14. TypeOK'
  BY <1>0, <1>1, <1>4, <1>7, <1>12 DEF TypeOK
<1>15. GuardInv'
  <2>1. Live' /\ guard' = 0 => ~ pipe'[conn']
    <3>1. CASE res = "lost"
      BY <1>0, <1>1, <1>4, <3>1 DEF LinkInv
    <3>2. CASE res # "lost"
      BY <1>0, <1>1, <1>4, <3>2 DEF GuardInv, Live
    <3> QED BY <3>1, <3>2
  <2> QED BY <1>0, <1>1, <1>7, <2>1 DEF GuardInv, InBulk
<1>16. RowsInv'
  <2>1. InBulk' /\ pc' = "read" /\ current' = current /\ size' = size /\ last' = last
    BY <1>0 DEF InBulk
  <2>2. at'.first < size' /\ at'.first <= at'.row /\ at'.first <= current' /\ current' <= Last'
        /\ at'.row <= current' + 1 /\ current' = Last'
    BY <1>0, <1>1, <1>2, <1>6, <1>7, <1>8, <2>1 DEF RowsInv
  <2>3. at'.row - 1 = r
    BY <1>2, <1>7
  <2>4. ~ at'.error => 0 .. at'.row - 1 \subseteq last'.ran
    BY <1>13, <2>1, <2>3, Zenon
  <2>5. last'.ran \subseteq 0 .. current' - 1 /\ last'.failed < current' /\ last'.failed \notin last'.ran
    BY <1>1, <2>1 DEF RowsInv
  <2>6. affected' >= 0 /\ affected' <= at'.row
    BY <1>7, <1>12
  <2> QED BY <2>1, <2>2, <2>4, <2>5, <2>6 DEF RowsInv
<1>17. conn' = 0 \/ \E d \in 0 .. 1 : QueueOf(d)'
  <2>1. CASE res = "lost"
    <3>1. last'.broken
      BY <1>0, <1>9, <2>1
    <3>2. conn' # 0 => QueueOf(0)'
      BY <1>4, <2>1, <3>1, QueueGone
    <3> QED BY <3>2
  <2>2. CASE res # "lost"
    <3>1. b = 0 /\ 1 \in 0 .. 1 /\ 1 - 2 * at'.row = b - 2 * at.row - 1 /\ at'.row \in Nat /\ at'.row <= current
          /\ at'.row > at'.first
      <4>1. r \in Nat /\ r < current /\ at'.row = r + 1 /\ b = 0 /\ at'.first <= r /\ at.first \in Nat /\ at'.first = at.first
        BY <1>2, <1>6, <1>7, <2>2
      <4> HIDE DEF r
      <4>2. 1 - 2 * (r + 1) = 0 - 2 * r - 1 /\ r + 1 \in Nat /\ r + 1 <= current /\ r + 1 > at.first
        BY <1>2, <4>1
      <4> QED BY <4>1, <4>2 DEF r
    <3>2. out'[conn] = Rest(conn) /\ conn' = conn /\ pc' = pc /\ last' = last /\ current' = current
          /\ PQgetResult(conn) # "lost"
      BY <1>0, <1>4, <2>2 DEF res
    <3>3. QueueOf(1)'
      BY <1>1, <1>2, <1>4, <1>5, <1>7, <3>1, <3>2, Shift
    <3> QED BY <3>3
  <2> QED BY <2>1, <2>2
<1>18. ResultsInv'
  <2>1. Live' => \A k \in DOMAIN out'[conn'] : out'[conn'][k] # "lost"
    <3>1. CASE res = "lost"
      <4>1. Live' => out'[conn'] = <<>>
        BY <1>4, <3>1 DEF Live
      <4> QED BY <4>1
    <3>2. CASE res # "lost"
      BY <1>4, <3>2 DEF Live
    <3> QED BY <3>1, <3>2
  <2>2. conn' # 0 /\ link'[conn'] = "bad" => \A k \in DOMAIN out'[conn'] : out'[conn'][k] = "lost"
    <3>1. CASE res = "lost"
      <4>1. conn' # 0 => out'[conn'] = <<>>
        BY <1>4, <3>1
      <4> QED BY <4>1
    <3>2. CASE res # "lost"
      BY <1>4, <3>2 DEF AllLost
    <3> QED BY <3>1, <3>2
  <2> QED BY <1>0, <1>17, <2>1, <2>2 DEF ResultsInv, AllLost
<1>19. AnswersInv'
  <2>1. SUFFICES ASSUME ~ last.broken
                 PROVE  /\ f = -1 \/ at'.first <= f
                        /\ last.ran = 0 .. (IF f = -1 THEN current ELSE f) - 1
                        /\ at'.error <=> f # -1 /\ f < at'.row
                        /\ at'.error => at'.errorRow = f
                        /\ affected' = IF at'.error THEN f ELSE at'.row
    BY <1>0 DEF AnswersInv, InBulk
  <2>2. /\ f = -1 \/ at.first <= f
        /\ last.ran = 0 .. (IF f = -1 THEN current ELSE f) - 1
        /\ at.error <=> f # -1 /\ f < r
        /\ at.error => at.errorRow = f
        /\ affected = IF at.error THEN f ELSE r
    BY <1>1, <2>1 DEF AnswersInv
  <2>3. r \in Nat /\ r < current /\ f \in Int /\ (f = -1 \/ f \in Nat) /\ current \in Nat
    <3>1. f \in Rows \cup {-1}
      BY <1>1 DEF LastType
    <3>2. f \in Int /\ (f = -1 \/ f \in Nat)
      BY <1>2, <3>1 DEF Rows
    <3> QED BY <1>2, <1>6, <1>9, <2>1, <3>2
  <2>4. r \in last.ran <=> f = -1 \/ r < f
    <3> DEFINE S == last.ran
    <3>1. S = 0 .. (IF f = -1 THEN current ELSE f) - 1
      BY <2>2
    <3> HIDE DEF S, f, r
    <3>2. r \in S <=> f = -1 \/ r < f
      BY <2>3, <3>1, RowRan
    <3> QED BY <3>2 DEF S
  <2>5. res = "ok" <=> r \in last.ran
    BY <1>6, <1>9, <2>1 DEF Answer
  <2> HIDE DEF f, r
  <2>6. CASE at.error
    BY <1>0, <1>7, <1>10, <2>2, <2>3, <2>6
  <2>7. CASE ~ at.error /\ res = "ok"
    <3>1. f = -1 \/ r < f
      BY <2>4, <2>5, <2>7
    <3>2. ~ at'.error
      BY <1>7, <1>10, <2>7
    <3>3. affected' = r + 1
      BY <1>0, <2>2, <2>7
    <3>4. ~ (f # -1 /\ f < r + 1)
      BY <2>3, <3>1
    <3> QED BY <1>7, <2>2, <3>2, <3>3, <3>4
  <2>8. CASE ~ at.error /\ res # "ok"
    <3>1. f # -1 /\ f = r
      BY <2>2, <2>3, <2>4, <2>5, <2>8
    <3>2. at'.error /\ at'.errorRow = r
      BY <1>7, <1>10, <2>8
    <3>3. affected' = r
      BY <1>0, <2>2, <2>8
    <3>4. f < r + 1
      BY <2>3, <3>1
    <3> QED BY <1>7, <2>2, <3>1, <3>2, <3>3, <3>4
  <2> QED BY <2>6, <2>7, <2>8
<1>20. BrokenInv'
  <2>1. ~ last'.broken => Live'
    BY <1>0, <1>4, <1>9 DEF Live
  <2>2. Live' /\ last'.broken => at'.error /\ conn' = 2
    <3>1. CASE res = "lost"
      BY <1>4, <1>7, <1>10, <3>1
    <3>2. CASE res # "lost"
      BY <1>0, <1>1, <1>4, <1>7, <3>2 DEF BrokenInv, Live
    <3> QED BY <3>1, <3>2
  <2> QED BY <1>0, <2>1, <2>2 DEF BrokenInv
<1>21. CurrentInv' /\ CallInv'
  BY <1>0, <1>1 DEF CurrentInv, CallInv, InBulk
<1>22. AffectedAreExecuted' /\ FailedRowShown'
  BY <1>0, <1>1 DEF AffectedAreExecuted, FailedRowShown
<1> QED BY <1>4, <1>14, <1>15, <1>16, <1>18, <1>19, <1>20, <1>21, <1>22 DEF IInv

-------------------------------------------------------------------------------
(* Rows and the synchronization point are sent                             *)

\* While rows are sent none of their results is read yet.
LEMMA SendQueue ==
  ASSUME Usuals, IInv, pc = "send", conn # 0
  PROVE  QueueOf(0) /\ at.row = at.first /\ conn \in Conns /\ out[conn] \in Seq(ResultType)
         /\ ~ at.error
<1>1. InBulk /\ TypeOK /\ ResultsInv /\ RowsInv
  BY DEF IInv, InBulk
<1>2. PICK b \in 0 .. 1 : QueueOf(b)
  BY <1>1 DEF ResultsInv
<1>3. at.row = at.first /\ at.first \in Nat /\ ~ at.error
  BY <1>1, BulkNumbers DEF RowsInv
<1>4. b = 1 => at.row > at.first
  BY <1>2 DEF QueueOf
<1>5. b = 0
  BY <1>3, <1>4
<1>6. conn \in Conns /\ out[conn] \in Seq(ResultType)
  BY <1>1 DEF TypeOK
<1> QED BY <1>2, <1>3, <1>5, <1>6

LEMMA PipelineSyncStep ==
  ASSUME Usuals, IInv, PipelineSync
  PROVE  IInv'
<1>0. /\ pc = "send" /\ current = Last /\ (at.pipelined => Sendable(conn))
      /\ out' = (IF at.pipelined THEN [out EXCEPT ![conn] = Sent(conn, << "sync" >>)] ELSE out)
      /\ at' = [at EXCEPT !.row = at.first, !.error = FALSE, !.errorRow = -1]
      /\ pc' = "read"
      /\ UNCHANGED <<program, size, current, affected, conn, guard, link, pipe, last>>
  BY DEF PipelineSync
<1>1. TypeOK /\ LinkInv /\ GuardInv /\ RowsInv /\ ResultsInv /\ AnswersInv /\ BrokenInv /\ InBulk
      /\ program.kind = "postgresql" /\ last.res = "none" /\ last.rows = size
  BY <1>0, UsualProgram DEF IInv, LinkInv, InBulk, CallInv
<1>2. /\ MaxRows \in Nat \ {0} /\ at \in LocalType /\ at.first \in Nat /\ current \in Nat
      /\ at.first <= current /\ at.row = at.first /\ ~ at.error
  BY <1>0, <1>1, BulkNumbers DEF RowsInv
<1>3. /\ at' \in LocalType /\ at'.first = at.first /\ at'.row = at.first /\ ~ at'.error
      /\ (at'.pipelined <=> at.pipelined)
  <2>1. at.first \in 0 .. MaxRows + 1 /\ -1 \in -1 .. MaxRows
    BY <1>2 DEF LocalType
  <2> QED BY <1>0, <1>2, <2>1 DEF LocalType
<1>4. Last' = Last /\ Depth' = Depth
  BY <1>0, <1>3 DEF Last, Depth
<1>5. (~ last.broken <=> Live) /\ (Live' <=> Live)
  BY <1>0, <1>1 DEF BrokenInv, Live
<1> DEFINE o == out[conn]
           q == out'[conn']
           Ans == [i \in 0 .. MaxRows |-> Answer(i)]
<1>6. ASSUME conn # 0
      PROVE  /\ out' \in [Conns -> Seq(ResultType)] /\ \A c \in Conns \ {conn} : out'[c] = out[c]
             /\ QueueOf(0)'
             /\ Live => \A k \in DOMAIN q : q[k] # "lost"
             /\ link[conn] = "bad" => AllLost(conn)'
  <2>1. QueueOf(0) /\ conn \in Conns /\ o \in Seq(ResultType) /\ out \in [Conns -> Seq(ResultType)]
    BY <1>0, <1>1, <1>6, SendQueue DEF TypeOK
  <2>2. /\ \A i \in 0 .. MaxRows :
              /\ 0 + 2 * (i - at.row) + 1 \in DOMAIN o =>
                    \/ o[0 + 2 * (i - at.row) + 1] \in {"sync", "lost"}
                    \/ i < current /\ o[0 + 2 * (i - at.row) + 1] = Answer(i)
              /\ 0 + 2 * (i - at.row) + 1 + 1 \in DOMAIN o =>
                    \/ o[0 + 2 * (i - at.row) + 1 + 1] \in {"sync", "lost"}
                    \/ i < current /\ o[0 + 2 * (i - at.row) + 1 + 1] = "null"
        /\ \A k, m \in DOMAIN o : k < m /\ o[k] \in {"sync", "lost"} => o[m] = "lost"
        /\ \A m \in DOMAIN o : (o[m] = "sync" => pc = "read") /\ (o[m] = "error" => last.failed # -1)
        /\ ~ last.broken =>
              Len(o) = 0 + 2 * (current - at.row) + (IF pc = "read" /\ at.pipelined THEN 1 ELSE 0)
    BY <2>1 DEF QueueOf
  <2>3. \A m \in DOMAIN o : o[m] # "sync" /\ (Live => o[m] # "lost")
    BY <1>0, <1>1, <2>2 DEF ResultsInv
  <2>4. Len(o) \in Nat /\ DOMAIN o = 1 .. Len(o)
    BY <2>1, LenProperties
  <2>5. /\ out' \in [Conns -> Seq(ResultType)] /\ \A c \in Conns \ {conn} : out'[c] = out[c]
        /\ q \in Seq(ResultType)
        /\ \A k \in DOMAIN q : (k \in DOMAIN o /\ q[k] = o[k]) \/ (q[k] \in {"sync", "lost"} /\ k \notin DOMAIN o)
        /\ \A k, m \in DOMAIN q : k < m /\ q[k] \in {"sync", "lost"} => q[m] = "lost"
        /\ \A k \in DOMAIN q : (q[k] = "sync" => at.pipelined) /\ (Live => q[k] # "lost")
        /\ ~ last.broken => Len(q) = 2 * (current - at.first) + (IF at.pipelined THEN 1 ELSE 0)
        /\ link[conn] = "bad" => q = o
    <3>1. CASE ~ at.pipelined
      <4>1. out' = out /\ q = o
        BY <1>0, <3>1
      <4>2. ~ last.broken => Len(q) = 2 * (current - at.first) + (IF at.pipelined THEN 1 ELSE 0)
        <5> DEFINE a == at.first
        <5>1. a \in Int /\ current \in Int
          BY <1>2
        <5>2. ~ last.broken => Len(q) = 0 + 2 * (current - a) + 0
          BY <1>2, <2>2, <3>1, <4>1
        <5> HIDE DEF a, q
        <5>3. ~ last.broken => Len(q) = 2 * (current - a) + 0
          BY <5>1, <5>2
        <5> QED BY <3>1, <5>3 DEF a
      <4> HIDE DEF o, q
      <4> QED BY <2>1, <2>2, <2>3, <4>1, <4>2
    <3>2. CASE at.pipelined
      <4> DEFINE x == << "sync" >>
                 s == Sent(conn, x)
      <4>1. x \in Seq(ResultType) /\ DOMAIN x = {1} /\ x[1] = "sync" /\ Len(x) = 1
        BY DEF ResultType
      <4> HIDE DEF x
      <4>2. /\ s \in Seq(ResultType)
            /\ \A k \in DOMAIN o : k \in DOMAIN s /\ s[k] = o[k]
            /\ link[conn] = "ok" => /\ Len(s) = Len(o) + 1
                                    /\ Len(o) + 1 \in DOMAIN s /\ s[Len(o) + 1] = "sync"
            /\ link[conn] # "ok" => \A k \in DOMAIN s : k \in DOMAIN o \/ s[k] = "lost"
        <5>1. /\ s \in Seq(ResultType)
              /\ \A k \in DOMAIN o : k \in DOMAIN s /\ s[k] = o[k]
              /\ link[conn] = "ok" => /\ Len(s) = Len(o) + Len(x)
                                      /\ \A k \in DOMAIN x : Len(o) + k \in DOMAIN s /\ s[Len(o) + k] = x[k]
              /\ link[conn] # "ok" => \A k \in DOMAIN s : k \in DOMAIN o \/ s[k] = "lost"
          BY <2>1, <4>1, SentIs
        <5> HIDE DEF s, o
        <5> QED BY <4>1, <5>1
      <4>3. out' = [out EXCEPT ![conn] = s] /\ conn' = conn
        BY <1>0, <3>2 DEF x
      <4> HIDE DEF s
      <4>4. out' \in [Conns -> Seq(ResultType)] /\ (\A c \in Conns \ {conn} : out'[c] = out[c]) /\ q = s
        BY <2>1, <4>2, <4>3
      <4>5. link[conn] # "bad" /\ (Live <=> link[conn] = "ok")
        BY <1>0, <1>6, <3>2 DEF Sendable, Live
      <4>6. Len(s) \in Nat /\ DOMAIN s = 1 .. Len(s)
        BY <4>2, LenProperties
      <4> HIDE DEF o, q
      <4>7. CASE Live
        <5>1. Len(s) = Len(o) + 1 /\ s[Len(o) + 1] = "sync"
          BY <4>2, <4>5, <4>7
        <5>2. \A k \in DOMAIN s : (k \in DOMAIN o /\ s[k] = o[k]) \/ (s[k] = "sync" /\ k = Len(o) + 1 /\ k \notin DOMAIN o)
          BY <2>4, <4>2, <4>6, <5>1
        <5>3. \A k, m \in DOMAIN s : k < m => k # Len(o) + 1
          BY <2>4, <4>6, <5>1
        <5>4. ~ last.broken => Len(s) = 2 * (current - at.first) + (IF at.pipelined THEN 1 ELSE 0)
          <6> DEFINE a == at.first
          <6>1. a \in Int /\ current \in Int
            BY <1>2
          <6>2. ~ last.broken => Len(o) = 0 + 2 * (current - a) + 0
            BY <1>0, <1>2, <2>2
          <6> DEFINE n == Len(o)
          <6>3. n \in Int /\ Len(s) = n + 1 /\ (~ last.broken => n = 0 + 2 * (current - a) + 0)
            BY <2>4, <5>1, <6>2
          <6> HIDE DEF a, n
          <6>4. n = 0 + 2 * (current - a) + 0 => n + 1 = 2 * (current - a) + 1
            BY <6>1, <6>3
          <6>5. ~ last.broken => Len(s) = 2 * (current - a) + 1
            BY <6>3, <6>4, Zenon
          <6> QED BY <3>2, <6>5 DEF a
        <5>5. \A k, m \in DOMAIN s : k < m /\ s[k] \in {"sync", "lost"} => s[m] = "lost"
          BY <2>3, <4>7, <5>2, <5>3
        <5>6. \A k \in DOMAIN s : s[k] # "lost"
          BY <2>3, <4>7, <5>2
        <5> QED BY <3>2, <4>2, <4>4, <4>5, <5>2, <5>4, <5>5, <5>6
      <4>8. CASE ~ Live
        <5>1. \A k \in DOMAIN s : (k \in DOMAIN o /\ s[k] = o[k]) \/ (s[k] = "lost" /\ k \notin DOMAIN o)
          BY <4>2, <4>5, <4>8
        <5>2. \A k, m \in DOMAIN s : k < m /\ m \in DOMAIN o => k \in DOMAIN o
          BY <2>4, <4>6
        <5>3. \A k, m \in DOMAIN s : k < m /\ s[k] \in {"sync", "lost"} => s[m] = "lost"
          BY <2>2, <5>1, <5>2
        <5> QED BY <1>5, <3>2, <4>2, <4>4, <4>5, <4>8, <5>1, <5>3
      <4> QED BY <4>7, <4>8
    <3> QED BY <3>1, <3>2
  <2>6. QueueParts(0, q, Ans)
    <3>1. \A i \in 0 .. MaxRows :
            /\ Ans[i] = IF i \in last'.ran THEN "ok" ELSE IF i = last'.failed THEN "error" ELSE "aborted"
            /\ Ans[i] = Answer(i)
      BY <1>0 DEF Answer
    <3>2. at'.row = at.row /\ current' = current /\ last' = last /\ pc' = "read" /\ (at'.pipelined <=> at.pipelined)
      BY <1>0, <1>2, <1>3
    <3> HIDE DEF o, q, Ans
    <3>3. \A i \in 0 .. MaxRows :
            /\ 0 + 2 * (i - at'.row) + 1 \in DOMAIN q =>
                  \/ q[0 + 2 * (i - at'.row) + 1] \in {"sync", "lost"}
                  \/ i < current' /\ q[0 + 2 * (i - at'.row) + 1] = Ans[i]
            /\ 0 + 2 * (i - at'.row) + 1 + 1 \in DOMAIN q =>
                  \/ q[0 + 2 * (i - at'.row) + 1 + 1] \in {"sync", "lost"}
                  \/ i < current' /\ q[0 + 2 * (i - at'.row) + 1 + 1] = "null"
      <4>1. ASSUME NEW i \in 0 .. MaxRows, NEW p, p \in DOMAIN q, NEW a,
                   p \in DOMAIN o => o[p] \in {"sync", "lost"} \/ (i < current /\ o[p] = a)
            PROVE  q[p] \in {"sync", "lost"} \/ (i < current /\ q[p] = a)
        BY <2>5, <4>1
      <4> SUFFICES ASSUME NEW i \in 0 .. MaxRows
                   PROVE  /\ 0 + 2 * (i - at.row) + 1 \in DOMAIN q =>
                                \/ q[0 + 2 * (i - at.row) + 1] \in {"sync", "lost"}
                                \/ i < current /\ q[0 + 2 * (i - at.row) + 1] = Ans[i]
                          /\ 0 + 2 * (i - at.row) + 1 + 1 \in DOMAIN q =>
                                \/ q[0 + 2 * (i - at.row) + 1 + 1] \in {"sync", "lost"}
                                \/ i < current /\ q[0 + 2 * (i - at.row) + 1 + 1] = "null"
        BY <3>2, Zenon
      <4> DEFINE p == 0 + 2 * (i - at.row) + 1
                 n == 0 + 2 * (i - at.row) + 1 + 1
      <4>2. p \in DOMAIN o => o[p] \in {"sync", "lost"} \/ (i < current /\ o[p] = Ans[i])
        BY <2>2, <3>1, Zenon
      <4>3. n \in DOMAIN o => o[n] \in {"sync", "lost"} \/ (i < current /\ o[n] = "null")
        BY <2>2, Zenon
      <4> HIDE DEF p, n
      <4>4. p \in DOMAIN q => q[p] \in {"sync", "lost"} \/ (i < current /\ q[p] = Ans[i])
        BY <4>1, <4>2, Zenon
      <4>5. n \in DOMAIN q => q[n] \in {"sync", "lost"} \/ (i < current /\ q[n] = "null")
        BY <4>1, <4>3, Zenon
      <4> USE DEF p, n
      <4> QED BY <4>4, <4>5, Zenon
    <3>4. \A m \in DOMAIN q :
            (q[m] = "sync" => at'.pipelined /\ pc' = "read") /\ (q[m] = "error" => last'.failed # -1)
      BY <2>2, <2>5, <3>2
    <3>5. at'.row <= current' /\ 0 # 1
      BY <1>2, <3>2
    <3>6. ~ last'.broken =>
            Len(q) = 0 + 2 * (current' - at'.row) + (IF pc' = "read" /\ at'.pipelined THEN 1 ELSE 0)
      <4> DEFINE a == at.first
                 e == IF at.pipelined THEN 1 ELSE 0
      <4>1. a \in Int /\ current \in Int /\ e \in Int
        BY <1>2
      <4>2. ~ last.broken => Len(q) = 2 * (current - a) + e
        BY <2>5
      <4>3. (IF pc' = "read" /\ at'.pipelined THEN 1 ELSE 0) = e /\ at'.row = a
        BY <1>2, <3>2
      <4> HIDE DEF a, e
      <4>4. 2 * (current - a) = 0 + 2 * (current - a)
        BY <4>1
      <4> QED BY <3>2, <4>2, <4>3, <4>4, Zenon
    <3>7. q = out'[conn']
      BY DEF q
    <3> QED BY <2>5, <3>1, <3>3, <3>4, <3>5, <3>6, <3>7, Zenon DEF QueueParts
  <2>7. QueueOf(0)'
    <3> HIDE DEF q, Ans
    <3>1. 0 \in 0 .. 1
      OBVIOUS
    <3> QED BY <2>6, <3>1, QueueAfter, Zenon
  <2>8. link[conn] = "bad" => AllLost(conn)'
    BY <1>0, <1>1, <1>6, <2>5 DEF ResultsInv, AllLost
  <2> QED BY <2>5, <2>7, <2>8
<1>7. out' \in [Conns -> Seq(ResultType)] /\ (conn = 1 => out'[2] = out[2])
  <2>1. conn = 0 => out' = out
    BY <1>0 DEF Sendable
  <2>2. 2 \in Conns
    BY DEF Conns
  <2> QED BY <1>1, <1>6, <2>1, <2>2 DEF TypeOK
<1> HIDE DEF o, q, Ans
<1>8. TypeOK'
  BY <1>0, <1>1, <1>3, <1>7 DEF TypeOK
<1>9. LinkInv'
  BY <1>0, <1>1, <1>7 DEF LinkInv
<1>10. GuardInv'
  BY <1>0, <1>1, <1>3 DEF GuardInv, InBulk, Live
<1>11. RowsInv'
  BY <1>0, <1>1, <1>2, <1>3, <1>4 DEF RowsInv, InBulk
<1>12. ResultsInv'
  <2>1. Live' => \A k \in DOMAIN out'[conn'] : out'[conn'][k] # "lost"
    BY <1>5, <1>6 DEF Live, q
  <2>2. conn' # 0 /\ link'[conn'] = "bad" => AllLost(conn)'
    BY <1>0, <1>6
  <2>3. conn' = 0 \/ \E d \in 0 .. 1 : QueueOf(d)'
    BY <1>0, <1>6
  <2> QED BY <1>0, <2>1, <2>2, <2>3 DEF ResultsInv, AllLost
<1>13. AnswersInv'
  BY <1>0, <1>1, <1>2, <1>3 DEF AnswersInv, InBulk
<1>14. BrokenInv'
  BY <1>0, <1>5 DEF BrokenInv
<1>15. CurrentInv' /\ CallInv'
  BY <1>0, <1>1 DEF CurrentInv, CallInv, InBulk
<1>16. AffectedAreExecuted' /\ FailedRowShown'
  BY <1>0, <1>1 DEF AffectedAreExecuted, FailedRowShown
<1> QED BY <1>8, <1>9, <1>10, <1>11, <1>12, <1>13, <1>14, <1>15, <1>16 DEF IInv

\* The two results of a row come after those of the rows before it.
LEMMA Answered ==
  ASSUME NEW o, NEW s, NEW A, NEW B, NEW res, NEW r \in Int, NEW c \in Int, NEW n \in Nat,
         n = 2 * (c - r), DOMAIN o = 1 .. n, DOMAIN s = 1 .. n + 2,
         \A k \in DOMAIN o : s[k] = o[k], s[n + 1] = res, s[n + 2] = "null", B[c] = res,
         NEW i \in Int, i < c => B[i] = A[i],
         NEW p, p = 0 + 2 * (i - r) + 1,
         p \in DOMAIN o => o[p] \in {"sync", "lost"} \/ (i < c /\ o[p] = A[i]),
         p + 1 \in DOMAIN o => o[p + 1] \in {"sync", "lost"} \/ (i < c /\ o[p + 1] = "null")
  PROVE  /\ p \in DOMAIN s => s[p] \in {"sync", "lost"} \/ (i < c + 1 /\ s[p] = B[i])
         /\ p + 1 \in DOMAIN s => s[p + 1] \in {"sync", "lost"} \/ (i < c + 1 /\ s[p + 1] = "null")
<1>1. p \in Int /\ (i < c <=> p + 1 <= n) /\ (i = c <=> p = n + 1) /\ (i > c <=> p > n + 2)
      /\ (i < c \/ i = c \/ i > c)
  OBVIOUS
<1>2. CASE i < c
  <2>1. p <= n /\ p + 1 <= n /\ i < c + 1
    BY <1>1, <1>2
  <2>2. p \in DOMAIN s => p \in DOMAIN o
    BY <1>1, <2>1
  <2>3. p + 1 \in DOMAIN s => p + 1 \in DOMAIN o
    BY <1>1, <2>1
  <2> QED BY <1>2, <2>1, <2>2, <2>3, Zenon
<1>3. CASE i = c
  <2>1. p = n + 1 /\ p + 1 = n + 2 /\ c < c + 1
    BY <1>1, <1>3
  <2> QED BY <1>3, <2>1, Zenon
<1>4. CASE i > c
  <2>1. p \notin DOMAIN s /\ p + 1 \notin DOMAIN s
    BY <1>1, <1>4
  <2> QED BY <2>1
<1> QED BY <1>1, <1>2, <1>3, <1>4

\* As long as the connection works, the server answers for a row what becomes of it.
LEMMA SendRowAnswers ==
  ASSUME Usuals, IInv, NEW res \in {"ok", "error", "aborted"}, SendRow(res), Live
  PROVE  /\ ~ last.broken /\ last' \in LastType /\ ~ last'.broken
         /\ last'.res = last.res /\ last'.rows = last.rows
         /\ last'.ran = (IF res = "ok" THEN last.ran \cup {current} ELSE last.ran)
         /\ last'.failed = (IF res = "error" THEN current ELSE last.failed)
         /\ res = "aborted" <=> last.failed # -1
<1>0. /\ pc = "send" /\ current # Last /\ Sendable(conn)
      /\ res = "aborted" <=> \E i \in DOMAIN out[conn] : out[conn][i] = "error"
      /\ last' = IF link[conn] # "ok" THEN last
                 ELSE [last EXCEPT !.ran = IF res = "ok" THEN @ \cup {current} ELSE @,
                                   !.failed = IF res = "error" THEN current ELSE @]
  BY DEF SendRow
<1>1. TypeOK /\ RowsInv /\ ResultsInv /\ AnswersInv /\ BrokenInv /\ InBulk /\ last \in LastType /\ conn # 0
  BY <1>0 DEF IInv, InBulk, TypeOK, Live
<1>2. /\ size \in 1 .. MaxRows /\ MaxRows \in Nat \ {0} /\ at.first \in Nat /\ current \in Nat
      /\ at.first <= current /\ current < Last /\ Last <= size /\ Last \in Nat
  BY <1>0, <1>1, BulkNumbers
<1>3. current \in Rows
  BY <1>2 DEF Rows
<1>4. ~ last.broken
  BY <1>0, <1>1 DEF BrokenInv
<1> DEFINE n == IF res = "ok" THEN last.ran \cup {current} ELSE last.ran
           m == IF res = "error" THEN current ELSE last.failed
<1>5. n \in SUBSET Rows /\ m \in Rows \cup {-1}
  BY <1>1, <1>3 DEF LastType
<1>6. last' = [last EXCEPT !.ran = n, !.failed = m]
  BY <1>0, <1>1 DEF Live
<1>7. /\ last' \in LastType /\ last'.res = last.res /\ last'.rows = last.rows /\ last'.ran = n
      /\ last'.failed = m /\ (last'.broken <=> last.broken)
  <2> HIDE DEF n, m
  <2> QED BY <1>1, <1>5, <1>6 DEF LastType
<1>8. res = "aborted" => last.failed # -1
  <2>1. QueueOf(0)
    BY <1>0, <1>1, SendQueue
  <2>2. \A k \in DOMAIN out[conn] : out[conn][k] = "error" => last.failed # -1
    BY <2>1 DEF QueueOf
  <2> QED BY <1>0, <2>2
<1>9. last.failed # -1 => res = "aborted"
  <2>1. SUFFICES ASSUME last.failed # -1 PROVE \E k \in DOMAIN out[conn] : out[conn][k] = "error"
    BY <1>0
  <2> DEFINE o == out[conn]
             f == last.failed
             r == at.row
             p == 0 + 2 * (f - r) + 1
  <2>2. QueueOf(0) /\ r = at.first /\ o \in Seq(ResultType)
    BY <1>0, <1>1, SendQueue
  <2>3. f \in Nat /\ f \in 0 .. MaxRows /\ r <= f /\ f < current /\ f \notin last.ran /\ r \in Int
    <3>1. f \in Rows
      BY <1>1, <2>1 DEF LastType
    <3>2. f \in Nat /\ f \in 0 .. MaxRows
      BY <1>2, <3>1 DEF Rows
    <3>3. at.first <= f
      BY <1>1, <1>4, <2>1 DEF AnswersInv
    <3>4. f < current /\ f \notin last.ran
      BY <1>1 DEF RowsInv
    <3> QED BY <1>2, <2>2, <3>2, <3>3, <3>4
  <2>4. /\ p \in DOMAIN o => o[p] \in {"sync", "lost"} \/ o[p] = Answer(f)
        /\ \A k \in DOMAIN o : o[k] # "sync"
        /\ Len(o) = 0 + 2 * (current - r) + 0
    BY <1>0, <1>4, <2>2, <2>3 DEF QueueOf
  <2>5. Len(o) \in Nat /\ DOMAIN o = 1 .. Len(o)
    BY <2>2, LenProperties
  <2>6. \A k \in DOMAIN o : o[k] # "lost"
    BY <1>1 DEF ResultsInv
  <2>7. Answer(f) = "error"
    BY <2>3 DEF Answer
  <2> HIDE DEF o, f, r
  <2>8. p \in DOMAIN o
    <3> DEFINE l == Len(o)
    <3>1. l = 0 + 2 * (current - r) + 0 /\ l \in Nat
      BY <2>4, <2>5
    <3> HIDE DEF l
    <3>2. p \in 1 .. l
      BY <1>2, <2>3, <3>1
    <3> QED BY <2>5, <3>2 DEF l
  <2> HIDE DEF p
  <2> QED BY <2>4, <2>6, <2>7, <2>8 DEF o
<1> QED BY <1>4, <1>7, <1>8, <1>9

\* What is to be read after a row was sent.
LEMMA SendRowQueue ==
  ASSUME Usuals, IInv, NEW res \in {"ok", "error", "aborted"}, SendRow(res)
  PROVE  /\ conn \in Conns /\ conn' = conn /\ link' = link /\ link[conn] # "bad"
         /\ out' \in [Conns -> Seq(ResultType)] /\ \A c \in Conns \ {conn} : out'[c] = out[c]
         /\ Live => \A k \in DOMAIN out'[conn'] : out'[conn'][k] # "lost"
         /\ QueueOf(0)'
<1> DEFINE o == out[conn]
           x == << res, "null" >>
           s == Sent(conn, x)
           r == at.row
<1>0. /\ pc = "send" /\ pc' = "send" /\ current # Last /\ Sendable(conn) /\ at' = at
      /\ out' = [out EXCEPT ![conn] = s]
      /\ link[conn] # "ok" => last' = last
      /\ current' = current + 1 /\ conn' = conn /\ link' = link
  BY DEF SendRow
<1>1. TypeOK /\ RowsInv /\ ResultsInv /\ BrokenInv /\ InBulk /\ out \in [Conns -> Seq(ResultType)]
  BY <1>0 DEF IInv, InBulk, TypeOK
<1>2. conn # 0 /\ link[conn] \in {"ok", "cut"} /\ (Live <=> link[conn] = "ok")
  BY <1>0 DEF Sendable, Live
<1>3. QueueOf(0) /\ r = at.first /\ conn \in Conns /\ o \in Seq(ResultType)
  BY <1>0, <1>2, SendQueue
<1>4. r \in Nat /\ current \in Nat /\ MaxRows \in Nat /\ r <= current
  BY <1>1, <1>3, BulkNumbers
<1>5. x \in Seq(ResultType) /\ DOMAIN x = {1, 2} /\ x[1] = res /\ x[2] = "null" /\ Len(x) = 2
  BY DEF ResultType
<1> HIDE DEF x
<1>6. /\ s \in Seq(ResultType)
      /\ \A k \in DOMAIN o : k \in DOMAIN s /\ s[k] = o[k]
      /\ link[conn] = "ok" => /\ Len(s) = Len(o) + Len(x)
                              /\ \A k \in DOMAIN x : Len(o) + k \in DOMAIN s /\ s[Len(o) + k] = x[k]
      /\ link[conn] # "ok" => \A k \in DOMAIN s : k \in DOMAIN o \/ s[k] = "lost"
  BY <1>3, <1>5, SentIs
<1>7. Len(o) \in Nat /\ DOMAIN o = 1 .. Len(o) /\ Len(s) \in Nat /\ DOMAIN s = 1 .. Len(s)
  BY <1>3, <1>6, LenProperties
<1>8. /\ \A i \in 0 .. MaxRows :
            /\ 0 + 2 * (i - r) + 1 \in DOMAIN o =>
                  \/ o[0 + 2 * (i - r) + 1] \in {"sync", "lost"}
                  \/ i < current /\ o[0 + 2 * (i - r) + 1] = Answer(i)
            /\ 0 + 2 * (i - r) + 1 + 1 \in DOMAIN o =>
                  \/ o[0 + 2 * (i - r) + 1 + 1] \in {"sync", "lost"}
                  \/ i < current /\ o[0 + 2 * (i - r) + 1 + 1] = "null"
      /\ \A k, m \in DOMAIN o : k < m /\ o[k] \in {"sync", "lost"} => o[m] = "lost"
      /\ \A m \in DOMAIN o : o[m] # "sync" /\ (o[m] = "error" => last.failed # -1)
      /\ ~ last.broken => Len(o) = 0 + 2 * (current - r) + (IF pc = "read" /\ at.pipelined THEN 1 ELSE 0)
  BY <1>0, <1>3 DEF QueueOf
<1>9. Live => \A k \in DOMAIN o : o[k] # "lost"
  BY <1>1 DEF ResultsInv
<1>10. ~ last.broken => Live
  BY <1>0, <1>1 DEF BrokenInv
<1> HIDE DEF s, o
<1>11. out' \in [Conns -> Seq(ResultType)] /\ (\A c \in Conns \ {conn} : out'[c] = out[c]) /\ out'[conn'] = s
  BY <1>0, <1>1, <1>3, <1>6
<1> DEFINE A == [i \in 0 .. MaxRows |-> Answer(i)]
           B == [i \in 0 .. MaxRows |->
                    IF i \in last'.ran THEN "ok" ELSE IF i = last'.failed THEN "error" ELSE "aborted"]
<1>12. \A i \in 0 .. MaxRows :
          B[i] = IF i \in last'.ran THEN "ok" ELSE IF i = last'.failed THEN "error" ELSE "aborted"
  OBVIOUS
<1>13. ASSUME NEW i \in 0 .. MaxRows, NEW p, p = 0 + 2 * (i - r) + 1
       PROVE  /\ p \in DOMAIN o => o[p] \in {"sync", "lost"} \/ (i < current /\ o[p] = A[i])
              /\ p + 1 \in DOMAIN o => o[p + 1] \in {"sync", "lost"} \/ (i < current /\ o[p + 1] = "null")
  <2>1. A[i] = Answer(i)
    OBVIOUS
  <2> HIDE DEF A, r
  <2> QED BY <1>8, <1>13, <2>1, Zenon
<1>14. \A i \in 0 .. MaxRows : i < current + 1 <=> i < current'
  BY <1>0
<1>15. CASE Live
  <2>1. /\ ~ last.broken /\ last' \in LastType /\ ~ last'.broken
        /\ last'.ran = (IF res = "ok" THEN last.ran \cup {current} ELSE last.ran)
        /\ last'.failed = (IF res = "error" THEN current ELSE last.failed)
        /\ res = "aborted" <=> last.failed # -1
    BY <1>15, SendRowAnswers
  <2>2. current \in 0 .. MaxRows /\ last.ran \subseteq 0 .. current - 1 /\ last.failed < current
    <3>1. current <= MaxRows
      BY <1>1, BulkNumbers
    <3> QED BY <1>1, <1>4, <3>1 DEF RowsInv
  <2>3. current \notin last.ran /\ current # last.failed /\ current # -1
    BY <1>4, <2>2
  <2>4. B[current] = res
    <3>1. CASE res = "ok"
      BY <2>1, <2>2, <3>1
    <3>2. CASE res = "error"
      BY <2>1, <2>2, <2>3, <3>2
    <3>3. CASE res = "aborted"
      BY <2>1, <2>2, <2>3, <3>3
    <3> QED BY <3>1, <3>2, <3>3
  <2>5. \A i \in 0 .. MaxRows : i < current => B[i] = A[i]
    <3>1. SUFFICES ASSUME NEW i \in 0 .. MaxRows, i < current PROVE B[i] = A[i]
      OBVIOUS
    <3>2. i # current /\ i # -1
      BY <1>4, <3>1
    <3>3. i \in last'.ran <=> i \in last.ran
      BY <2>1, <3>2
    <3>4. i = last'.failed <=> i = last.failed
      BY <2>1, <3>2
    <3> QED BY <3>3, <3>4 DEF Answer
  <2> HIDE DEF A, B
  <2> DEFINE n == Len(o)
  <2>6. n \in Nat /\ DOMAIN o = 1 .. n /\ n = 2 * (current - r) /\ DOMAIN s = 1 .. n + 2
        /\ s[n + 1] = res /\ s[n + 2] = "null"
    <3>1. Len(s) = n + 2 /\ s[n + 1] = res /\ s[n + 2] = "null"
      BY <1>2, <1>5, <1>6, <1>15
    <3>2. n = 0 + 2 * (current - r) + 0
      BY <1>0, <1>8, <2>1
    <3>3. n \in Nat /\ r \in Int /\ current \in Int
      BY <1>4, <1>7
    <3>4. DOMAIN s = 1 .. n + 2
      BY <1>7, <3>1
    <3>5. DOMAIN o = 1 .. n
      BY <1>7
    <3> HIDE DEF n, r
    <3>6. n = 2 * (current - r)
      BY <3>2, <3>3
    <3> QED BY <3>1, <3>3, <3>4, <3>5, <3>6
  <2> HIDE DEF n
  <2>7. r \in Int /\ current \in Int
    BY <1>4
  <2>8. ASSUME NEW i \in 0 .. MaxRows, NEW p, p = 0 + 2 * (i - r) + 1
        PROVE  /\ p \in DOMAIN s => s[p] \in {"sync", "lost"} \/ (i < current + 1 /\ s[p] = B[i])
               /\ p + 1 \in DOMAIN s => s[p + 1] \in {"sync", "lost"} \/ (i < current + 1 /\ s[p + 1] = "null")
    <3>1. /\ p \in DOMAIN o => o[p] \in {"sync", "lost"} \/ (i < current /\ o[p] = A[i])
          /\ p + 1 \in DOMAIN o => o[p + 1] \in {"sync", "lost"} \/ (i < current /\ o[p + 1] = "null")
      BY <1>13, <2>8
    <3>2. i \in Int /\ (i < current => B[i] = A[i]) /\ \A k \in DOMAIN o : s[k] = o[k]
      BY <1>6, <2>5
    <3> HIDE DEF r
    <3> QED BY <2>4, <2>6, <2>7, <2>8, <3>1, <3>2, Answered
  <2>9. \A k \in DOMAIN s : s[k] \notin {"sync", "lost"} /\ (s[k] = "error" => last'.failed # -1)
    <3>1. \A k \in DOMAIN s : k \in DOMAIN o \/ k = n + 1 \/ k = n + 2
      BY <2>6
    <3>2. \A k \in DOMAIN o : s[k] = o[k] /\ o[k] \notin {"sync", "lost"} /\ (o[k] = "error" => last'.failed # -1)
      BY <1>6, <1>8, <1>9, <1>15, <2>1, <2>3
    <3>3. res = "error" => last'.failed # -1
      BY <2>1, <2>3
    <3> QED BY <2>6, <3>1, <3>2, <3>3
  <2>10. Len(s) = 0 + 2 * (current' - at'.row) + (IF pc' = "read" /\ at'.pipelined THEN 1 ELSE 0)
    <3> DEFINE l == Len(s)
    <3>1. l = n + 2 /\ current' = current + 1 /\ at'.row = r /\ pc' # "read"
      BY <1>0, <1>7, <2>6
    <3> HIDE DEF r, l
    <3>2. l = 0 + 2 * (current + 1 - r) + 0
      BY <2>6, <2>7, <3>1
    <3>3. (IF pc' = "read" /\ at'.pipelined THEN 1 ELSE 0) = 0
      BY <3>1
    <3>4. l = 0 + 2 * (current' - at'.row) + 0
      <4> DEFINE c == current'
                 y == at'.row
      <4>1. c = current + 1 /\ y = r
        BY <3>1
      <4> HIDE DEF c, y
      <4>2. l = 0 + 2 * (c - y) + 0
        BY <2>7, <3>2, <4>1
      <4> QED BY <4>2 DEF c, y
    <3> DEFINE e == IF pc' = "read" /\ at'.pipelined THEN 1 ELSE 0
    <3>5. e = 0
      BY <3>3
    <3> HIDE DEF e
    <3>6. l = 0 + 2 * (current' - at'.row) + e
      BY <3>4, <3>5, Zenon
    <3> QED BY <3>6 DEF l, e
  <2>11. QueueParts(0, s, B)
    <3>1. at'.row = r /\ (s = <<>> \/ at'.row <= current') /\ 0 # 1
      BY <1>0, <1>4
    <3> HIDE DEF r
    <3>2. \A i \in 0 .. MaxRows :
            /\ 0 + 2 * (i - at'.row) + 1 \in DOMAIN s =>
                  \/ s[0 + 2 * (i - at'.row) + 1] \in {"sync", "lost"}
                  \/ i < current' /\ s[0 + 2 * (i - at'.row) + 1] = B[i]
            /\ 0 + 2 * (i - at'.row) + 1 + 1 \in DOMAIN s =>
                  \/ s[0 + 2 * (i - at'.row) + 1 + 1] \in {"sync", "lost"}
                  \/ i < current' /\ s[0 + 2 * (i - at'.row) + 1 + 1] = "null"
      BY <1>14, <2>8, <3>1, Zenon
    <3>3. \A k, m \in DOMAIN s : k < m /\ s[k] \in {"sync", "lost"} => s[m] = "lost"
      BY <2>9
    <3>4. \A m \in DOMAIN s :
            (s[m] = "sync" => at'.pipelined /\ pc' = "read") /\ (s[m] = "error" => last'.failed # -1)
      BY <2>9
    <3>5. s = out'[conn']
      BY <1>11
    <3>6. \A i \in 0 .. MaxRows :
            B[i] = IF i \in last'.ran THEN "ok" ELSE IF i = last'.failed THEN "error" ELSE "aborted"
      BY <1>12 DEF B
    <3> QED BY <2>10, <3>1, <3>2, <3>3, <3>4, <3>5, <3>6, Zenon DEF QueueParts
  <2>12. QueueOf(0)'
    <3>1. 0 \in 0 .. 1
      OBVIOUS
    <3> QED BY <2>11, <3>1, QueueAfter, Zenon
  <2>13. \A k \in DOMAIN out'[conn'] : out'[conn'][k] # "lost"
    BY <1>11, <2>9
  <2> QED BY <1>0, <1>2, <1>3, <1>11, <2>12, <2>13
<1>16. CASE ~ Live
  <2>1. last' = last /\ last.broken /\ link[conn] # "ok"
    BY <1>0, <1>2, <1>10, <1>16
  <2>2. \A k \in DOMAIN s : (k \in DOMAIN o /\ s[k] = o[k]) \/ (s[k] = "lost" /\ k \notin DOMAIN o)
    BY <1>6, <2>1
  <2>3. \A i \in 0 .. MaxRows : B[i] = A[i]
    BY <2>1 DEF Answer
  <2> HIDE DEF A, B
  <2>4. \A k, m \in DOMAIN s : k < m /\ s[k] \in {"sync", "lost"} => s[m] = "lost"
    <3>1. \A k, m \in DOMAIN s : k < m /\ m \in DOMAIN o => k \in DOMAIN o
      BY <1>7
    <3> QED BY <1>8, <2>2, <3>1
  <2>5. ASSUME NEW i \in 0 .. MaxRows, NEW p, p = 0 + 2 * (i - r) + 1
        PROVE  /\ p \in DOMAIN s => s[p] \in {"sync", "lost"} \/ (i < current + 1 /\ s[p] = B[i])
               /\ p + 1 \in DOMAIN s => s[p + 1] \in {"sync", "lost"} \/ (i < current + 1 /\ s[p + 1] = "null")
    <3>1. /\ p \in DOMAIN o => o[p] \in {"sync", "lost"} \/ (i < current /\ o[p] = A[i])
          /\ p + 1 \in DOMAIN o => o[p + 1] \in {"sync", "lost"} \/ (i < current /\ o[p + 1] = "null")
      BY <1>13, <2>5
    <3>2. i < current => i < current + 1
      BY <1>4
    <3> HIDE DEF r
    <3> QED BY <2>2, <2>3, <3>1, <3>2, Zenon
  <2>6. QueueParts(0, s, B)
    <3>1. at'.row = r /\ (s = <<>> \/ at'.row <= current') /\ 0 # 1
      BY <1>0, <1>4
    <3> HIDE DEF r
    <3>2. \A i \in 0 .. MaxRows :
            /\ 0 + 2 * (i - at'.row) + 1 \in DOMAIN s =>
                  \/ s[0 + 2 * (i - at'.row) + 1] \in {"sync", "lost"}
                  \/ i < current' /\ s[0 + 2 * (i - at'.row) + 1] = B[i]
            /\ 0 + 2 * (i - at'.row) + 1 + 1 \in DOMAIN s =>
                  \/ s[0 + 2 * (i - at'.row) + 1 + 1] \in {"sync", "lost"}
                  \/ i < current' /\ s[0 + 2 * (i - at'.row) + 1 + 1] = "null"
      BY <1>14, <2>5, <3>1, Zenon
    <3>4. \A m \in DOMAIN s :
            (s[m] = "sync" => at'.pipelined /\ pc' = "read") /\ (s[m] = "error" => last'.failed # -1)
      BY <1>8, <2>1, <2>2
    <3>5. s = out'[conn'] /\ last'.broken
      BY <1>11, <2>1
    <3>6. \A i \in 0 .. MaxRows :
            B[i] = IF i \in last'.ran THEN "ok" ELSE IF i = last'.failed THEN "error" ELSE "aborted"
      BY <1>12 DEF B
    <3> QED BY <2>4, <3>1, <3>2, <3>4, <3>5, <3>6, Zenon DEF QueueParts
  <2>7. QueueOf(0)'
    <3>1. 0 \in 0 .. 1
      OBVIOUS
    <3> QED BY <2>6, <3>1, QueueAfter, Zenon
  <2> QED BY <1>0, <1>2, <1>3, <1>11, <1>16, <2>7
<1> QED BY <1>15, <1>16

LEMMA SendRowStep ==
  ASSUME Usuals, IInv, NEW res \in {"ok", "error", "aborted"}, SendRow(res)
  PROVE  IInv'
<1>0. /\ pc = "send" /\ pc' = "send" /\ current # Last /\ Sendable(conn) /\ current' = current + 1
      /\ link[conn] # "ok" => last' = last
      /\ UNCHANGED <<program, size, affected, at, conn, guard, link, pipe>>
  BY DEF SendRow
<1>1. TypeOK /\ LinkInv /\ GuardInv /\ RowsInv /\ ResultsInv /\ AnswersInv /\ BrokenInv /\ InBulk
      /\ program.kind = "postgresql" /\ last.res = "none" /\ last.rows = size /\ last \in LastType
  BY <1>0, UsualProgram DEF IInv, LinkInv, InBulk, CallInv, TypeOK
<1>2. /\ size \in 1 .. MaxRows /\ MaxRows \in Nat \ {0} /\ at.first \in Nat /\ current \in Nat
      /\ at.first <= current /\ current < Last /\ Last <= size /\ Last \in Nat /\ at.row \in Nat
      /\ at.row = at.first /\ ~ at.error
  BY <1>0, <1>1, BulkNumbers DEF RowsInv
<1>3. /\ conn \in Conns /\ link[conn] # "bad"
      /\ out' \in [Conns -> Seq(ResultType)] /\ \A c \in Conns \ {conn} : out'[c] = out[c]
      /\ Live => \A k \in DOMAIN out'[conn'] : out'[conn'][k] # "lost"
      /\ QueueOf(0)'
  BY SendRowQueue
<1>4. (Live' <=> Live) /\ (~ last.broken <=> Live) /\ (Live <=> link[conn] = "ok")
  BY <1>0, <1>1 DEF BrokenInv, Live, Sendable
<1>5. Last' = Last /\ Depth' = Depth
  BY <1>0 DEF Last, Depth
<1>6. last.ran \subseteq 0 .. current - 1 /\ last.failed < current /\ last.failed \notin last.ran
      /\ 0 .. at.row - 1 \subseteq last.ran /\ current \notin last.ran /\ current # last.failed
  <2>1. last.ran \subseteq 0 .. current - 1 /\ last.failed < current /\ last.failed \notin last.ran
        /\ 0 .. at.row - 1 \subseteq last.ran
    BY <1>1, <1>2 DEF RowsInv
  <2> QED BY <1>2, <2>1
<1> DEFINE Ran == 0 .. (IF last'.failed = -1 THEN current + 1 ELSE last'.failed) - 1
<1>7. /\ last' \in LastType /\ last'.res = last.res /\ last'.rows = last.rows
      /\ (last'.broken <=> last.broken)
      /\ last.ran \subseteq last'.ran /\ last'.ran \subseteq last.ran \cup {current}
      /\ last'.failed \in {last.failed, current} /\ last'.failed \notin last'.ran
      /\ ~ last.broken => /\ last'.failed = -1 \/ at.first <= last'.failed
                          /\ last'.ran = Ran
                          /\ ~ (last'.failed # -1 /\ last'.failed < at.row)
  <2>1. CASE ~ Live
    BY <1>0, <1>1, <1>4, <1>6, <2>1
  <2>2. CASE Live
    <3>1. /\ ~ last.broken /\ last' \in LastType /\ ~ last'.broken
          /\ last'.res = last.res /\ last'.rows = last.rows
          /\ last'.ran = (IF res = "ok" THEN last.ran \cup {current} ELSE last.ran)
          /\ last'.failed = (IF res = "error" THEN current ELSE last.failed)
          /\ res = "aborted" <=> last.failed # -1
      BY <2>2, SendRowAnswers
    <3>2. /\ last.failed = -1 \/ at.first <= last.failed
          /\ last.ran = 0 .. (IF last.failed = -1 THEN current ELSE last.failed) - 1
          /\ ~ (last.failed # -1 /\ last.failed < at.row)
      BY <1>1, <1>2, <3>1 DEF AnswersInv
    <3>3. CASE res = "ok"
      <4>1. last.failed = -1 /\ last'.failed = -1 /\ last'.ran = last.ran \cup {current}
        BY <3>1, <3>3
      <4>2. 0 .. current + 1 - 1 = (0 .. current - 1) \cup {current}
        BY <1>2
      <4>3. Ran = 0 .. current + 1 - 1 /\ last.ran = 0 .. current - 1
        <5> DEFINE v == IF last.failed = -1 THEN current ELSE last.failed
                   w == IF last'.failed = -1 THEN current + 1 ELSE last'.failed
        <5>1. v = current /\ w = current + 1
          BY <4>1
        <5>2. last.ran = 0 .. v - 1 /\ Ran = 0 .. w - 1
          BY <3>2, Zenon
        <5> HIDE DEF v, w, Ran
        <5> QED BY <1>2, <5>1, <5>2
      <4>4. last'.ran = Ran
        BY <4>1, <4>2, <4>3
      <4>5. last'.failed \notin last'.ran
        BY <1>2, <4>1, <1>6
      <4> HIDE DEF Ran
      <4> QED BY <3>1, <4>1, <4>4, <4>5
    <3>4. CASE res = "error"
      <4>1. last.failed = -1 /\ last'.failed = current /\ last'.ran = last.ran
        BY <3>1, <3>4
      <4>2. last'.failed # -1 /\ ~ current < at.row
        BY <1>2, <4>1
      <4>3. last'.ran = Ran
        BY <3>2, <4>1, <4>2
      <4> HIDE DEF Ran
      <4> QED BY <1>2, <1>6, <3>1, <4>1, <4>2, <4>3
    <3>5. CASE res = "aborted"
      <4>1. last.failed # -1 /\ last'.failed = last.failed /\ last'.ran = last.ran
        BY <3>1, <3>5
      <4>2. last'.ran = Ran
        BY <3>2, <4>1
      <4> HIDE DEF Ran
      <4> QED BY <1>6, <3>1, <3>2, <4>1, <4>2
    <3> QED BY <3>3, <3>4, <3>5
  <2> QED BY <2>1, <2>2
<1>8. TypeOK'
  <2>1. current + 1 \in -1 .. MaxRows
    BY <1>2
  <2> QED BY <1>0, <1>1, <1>3, <1>7, <2>1 DEF TypeOK
<1>9. LinkInv'
  <2>1. conn = 1 => out'[2] = out[2]
    BY <1>3 DEF Conns
  <2> QED BY <1>0, <1>1, <2>1 DEF LinkInv
<1>10. GuardInv'
  BY <1>0, <1>1 DEF GuardInv, InBulk, Live
<1>11. RowsInv'
  <2>1. InBulk' /\ pc' = "send" /\ at' = at /\ size' = size /\ affected' = affected
    BY <1>0 DEF InBulk
  <2>2. at.first < size /\ at.first <= at.row /\ at.first <= current' /\ current' <= Last' /\ at.row <= current' + 1
    BY <1>0, <1>2, <1>5
  <2>3. last'.ran \subseteq 0 .. current' - 1
    <3>1. 0 .. current - 1 \subseteq 0 .. current' - 1 /\ current \in 0 .. current' - 1
      BY <1>0, <1>2
    <3> QED BY <1>6, <1>7, <3>1
  <2>4. last'.failed < current'
    <3>1. last.failed \in Int
      BY <1>1, <1>2 DEF LastType, Rows
    <3> QED BY <1>0, <1>2, <1>6, <1>7, <3>1
  <2>5. 0 .. at.row - 1 \subseteq last'.ran
    BY <1>6, <1>7
  <2>6. affected >= 0 /\ affected <= at.row
    BY <1>1 DEF RowsInv
  <2> QED BY <1>2, <1>7, <2>1, <2>2, <2>3, <2>4, <2>5, <2>6 DEF RowsInv
<1>12. ResultsInv'
  <2>1. conn' = conn /\ link' = link /\ 0 \in 0 .. 1
    BY <1>0
  <2> QED BY <1>0, <1>3, <1>4, <2>1 DEF ResultsInv
<1>13. AnswersInv'
  <2>1. ~ last.broken => affected = at.row
    BY <1>1, <1>2 DEF AnswersInv
  <2>2. InBulk' /\ pc' = "send" /\ at' = at /\ affected' = affected /\ current' = current + 1
    BY <1>0 DEF InBulk
  <2> QED BY <1>2, <1>7, <2>1, <2>2 DEF AnswersInv
<1>14. BrokenInv'
  BY <1>0, <1>4, <1>7 DEF BrokenInv
<1>15. CurrentInv' /\ CallInv'
  BY <1>0, <1>1, <1>7 DEF CurrentInv, CallInv, InBulk
<1>16. AffectedAreExecuted' /\ FailedRowShown'
  BY <1>0, <1>1, <1>7 DEF AffectedAreExecuted, FailedRowShown
<1> QED BY <1>8, <1>9, <1>10, <1>11, <1>12, <1>13, <1>14, <1>15, <1>16 DEF IInv

-------------------------------------------------------------------------------
(* The theorems                                                            *)

LEMMA NextStep ==
  ASSUME Usuals, IInv, Next
  PROVE  IInv'
<1>1. CASE Environment
  BY <1>1, ResizeStep, PreUseStep, CutStep DEF Environment
<1>2. CASE ExecuteBulk
  <2>1. ASSUME NEW x \in BOOLEAN, EnterPipelineMode(x) \/ ReadRow(x) \/ GuardSync(x)
        PROVE  IInv'
    BY <2>1, EnterPipelineModeStep, ReadRowStep, GuardSyncStep
  <2>2. ASSUME NEW res \in {"ok", "error", "aborted"}, SendRow(res)
        PROVE  IInv'
    BY <2>2, SendRowStep
  <2>3. CASE SendRowFails \/ PipelineSync \/ PipelineSyncFails \/ ReadNull \/ ReadSync
    BY <2>3, SendRowFailsStep, PipelineSyncStep, PipelineSyncFailsStep, ReadNullStep, ReadSyncStep
  <2>4. CASE ChunkFails \/ NextChunk \/ Leave \/ GuardDrain \/ GuardGivesUp
    BY <2>4, ChunkFailsStep, NextChunkStep, LeaveStep, GuardDrainStep, GuardGivesUpStep
  <2> QED BY <1>2, <2>1, <2>2, <2>3, <2>4, Zenon DEF ExecuteBulk
<1>3. ASSUME NEW refused \in SUBSET (0 .. size - 1),
             ExecuteLoop(refused) \/ \E processed \in 1 .. size : ExecuteBatch(refused, processed)
      PROVE  IInv'
  BY <1>3, ExecuteLoopStep, ExecuteBatchStep
<1>4. ASSUME NEW res \in {"ok", "error", "lost"}, NEW connects \in BOOLEAN, ExecuteSingle(res, connects)
      PROVE  IInv'
  BY <1>4, ExecuteSingleStep
<1>5. CASE ExecuteFails \/ Rethrow
  BY <1>5, ExecuteFailsStep, RethrowStep
<1> QED BY <1>1, <1>2, <1>3, <1>4, <1>5, Zenon DEF Next, Execute

LEMMA Unchanged ==
  ASSUME IInv, UNCHANGED vars
  PROVE  IInv'
BY DEF IInv, vars, TypeOK, LinkInv, GuardInv, RowsInv, ResultsInv, AnswersInv, BrokenInv, CurrentInv, CallInv,
       AffectedAreExecuted, FailedRowShown, InBulk, Live, Last, Depth, Answer, QueueOf, AllLost, Counted, Settled

\* The invariant on which the theorems rest: what is queued, sent and read agrees with what
\* the database did, wherever a row failed, libpq failed or the connection was lost.
THEOREM Inductive == Usuals => (Spec => []IInv)
<1> SUFFICES ASSUME Usuals PROVE Spec => []IInv
  OBVIOUS
<1>1. Init => IInv
  BY InitIInv
<1>2. IInv /\ [Next]_vars => IInv'
  BY NextStep, Unchanged
<1> QED BY <1>1, <1>2, PTL DEF Spec

\* The variables of execute_bulk() and of libpq keep their types: no row number leaves the
\* vectors, whatever their size and the depth of the pipeline.
THEOREM TypeCorrect == Usuals => (Spec => []TypeOK)
<1>1. IInv => TypeOK
  BY DEF IInv
<1> QED BY <1>1, Inductive, PTL

\* pipeline_mode_guard: after execute(), with or without an error, a connection that works
\* is out of the pipeline mode and has no result that is not read.
THEOREM ConnectionStaysUsable == Usuals => (Spec => []ConnectionUsable)
<1>1. IInv => ConnectionUsable
  <2>1. SUFFICES ASSUME IInv, pc = "idle", conn # 0, link[conn] = "ok"
                 PROVE  ~ pipe[conn] /\ out[conn] = <<>>
    BY DEF ConnectionUsable
  <2>2. Live
    BY <2>1 DEF Live
  <2>3. ~ pipe[conn]
    BY <2>1, <2>2 DEF IInv, GuardInv
  <2>4. AllLost(conn) /\ TypeOK /\ ResultsInv
    BY <2>1 DEF IInv, ResultsInv
  <2> QED BY <2>2, <2>3, <2>4, NothingLost
<1> QED BY <1>1, Inductive, PTL

\* get_affected_rows(): after execute() it is the number of the rows that were executed,
\* however many rows there are and whichever of them fail.
THEOREM CountIsRight == Usuals => (Spec => []AffectedAreExecuted)
<1>1. IInv => AffectedAreExecuted
  BY DEF IInv
<1> QED BY <1>1, Inductive, PTL

\* rethrow_current_exception_with_context(): the row whose values an error shows is the first
\* that failed, and no row that failed is passed over.
THEOREM FailedRowIsShown == Usuals => (Spec => []FailedRowShown)
<1>1. IInv => FailedRowShown
  BY DEF IInv
<1> QED BY <1>1, Inductive, PTL

=============================================================================
