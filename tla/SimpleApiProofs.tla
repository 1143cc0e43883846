--------------------------- MODULE SimpleApiProofs ---------------------------
(***************************************************************************)
(* Proofs about SimpleApi: that what the C interface answers and what it   *)
(* sends agrees with what was fetched and with what was set, that blobs    *)
(* have one owner, and that a call that failed left the elements alone.    *)
(*                                                                         *)
(* Each theorem names the habits of a program that its guarantee does not  *)
(* survive, and readsVector, which the common invariant does not; it holds *)
(* whatever the program does of the others.                                *)
(***************************************************************************)
EXTENDS SimpleApi, SequenceTheorems, TLAPS

\* The program has none of these habits.
Without(hs) == Habits \cap hs = {}

-------------------------------------------------------------------------------
(* The inductive invariant, by parts.  v is a statement_wrapper, r the     *)
(* rows got last, g what was given, bs what became of the blobs.           *)

\* The indicators of the into elements are those of their kind, one for each element.
IntoShape(v) ==
    /\ v.into_kind = "empty" => v.into_types = << >>
    /\ Len(v.into_indicators) = IF v.into_kind = "single" THEN Len(v.into_types) ELSE 0
    /\ Len(v.into_indicators_v) = IF v.into_kind = "bulk" THEN Len(v.into_types) ELSE 0
    /\ Len(v.into_types) <= MaxInto

\* A single value and its indicator are the one row of that column.
SingleRows(v, r) ==
    v.into_kind = "single" =>
    \A p \in Positions : p < Len(v.into_types) =>
        /\ Len(r[p]) = 1
        /\ v.into_indicators[p + 1] = "null" <=> r[p][1] = "NULL"
        /\ v.into_types[p + 1] # "blob" /\ r[p][1] # "NULL" => v.into[p] = r[p][1]

\* Values and indicators are those of a column.
IsColumn(values, indicators, column) ==
    /\ Len(values) = Len(column) /\ Len(indicators) = Len(column)
    /\ \A i \in 1 .. Len(column) :
          /\ indicators[i] = "null" <=> column[i] = "NULL"
          /\ column[i] # "NULL" => values[i] = column[i]

\* A vector and the vector of its indicators are the rows of that column.
BulkRows(v, r) ==
    v.into_kind = "bulk" =>
    \A p \in Positions : p < Len(v.into_types) =>
        /\ v.into_types[p + 1] # "blob"
        /\ IsColumn(v.into_v[p], v.into_indicators_v[p + 1], r[p])
        /\ Len(r[p]) <= MaxVector

\* Where no element was added there is nothing, and no single value among vectors.
Untouched(v, r) ==
    \A p \in Positions :
        /\ p >= Len(v.into_types) => v.into_v[p] = << >> /\ r[p] = << >>
        /\ p >= Len(v.into_types) \/ v.into_kind # "single" => v.into[p] = "absent"

IntoInv(v, r) == IntoShape(v) /\ SingleRows(v, r) /\ BulkRows(v, r) /\ Untouched(v, r)

\* A use element has an indicator, and is of the kind of all of them.
UseShape(v) ==
    \A n \in Names :
        /\ v.use_type[n] = "absent" <=> v.use_indicators[n] = "absent"
        /\ v.use_type[n] # "absent" => v.use_kind = "single"
        /\ v.use_type_v[n] # "absent" => v.use_kind = "bulk"
        /\ v.use_type[n] = "blob" => v.use[n] \in Blobs \cup {"absent"}

\* What was set is what the element holds.
GivenSingle(v, g) ==
    \A n \in Names :
        v.use_type[n] # "absent" => g[n] = << Given(v.use[n], v.use_indicators[n]) >>

\* Values and states are those of a vector.
IsVector(values, indicators, cells) ==
    /\ Len(values) = Len(cells) /\ Len(indicators) = Len(cells)
    /\ \A i \in 1 .. Len(cells) : cells[i] = Given(values[i], indicators[i])

GivenVector(v, g) ==
    \A n \in Names :
        /\ v.use_type[n] = "absent" => IsVector(v.use_v[n], v.use_indicators_v[n], g[n])
        /\ v.use_type_v[n] = "absent" => v.use_v[n] = << >> /\ v.use_indicators_v[n] = << >>

UseInv(v, g) == UseShape(v) /\ GivenSingle(v, g) /\ GivenVector(v, g)

\* Every element that there is was bound each time that the statement was prepared.
BoundInv(v) ==
    /\ v.state = "executing" <=> v.boundInto > 0
    /\ \A n \in Names :
          /\ v.boundUse[n] = IF v.use_type[n] = "absent" THEN 0 ELSE v.boundInto
          /\ v.boundUseV[n] = IF v.use_type_v[n] = "absent" THEN 0 ELSE v.boundInto

\* Without a statement there is nothing of one.
IdleInv(v, r, g) == v.alive \/ (v = NoStatement /\ r = NothingFetched /\ g = NothingGiven)

BaseInv ==
    /\ TypeOK
    /\ IntoInv(w, row)
    /\ UseInv(w, given)
    /\ BoundInv(w)
    /\ IdleInv(w, row, given)

\* The statement's own blobs, by the elements that hold them.
IntoHolds(v, p, b) == p < Len(v.into_types) /\ v.into_types[p + 1] = "blob" /\ v.into[p] = b
UseHolds(v, n, b) == v.use_type[n] = "blob" /\ v.use_indicators[n] = "null" /\ v.use[n] = b
UseBorrows(v, n, b) == v.use_type[n] = "blob" /\ v.use_indicators[n] = "ok" /\ v.use[n] = b

\* A blob of the statement's own is held by one element, which is the only one to.
OneHolder(v, b) ==
    /\ \A p, q \in Positions : IntoHolds(v, p, b) /\ IntoHolds(v, q, b) => p = q
    /\ \A n, m \in Names : UseHolds(v, n, b) /\ UseHolds(v, m, b) => n = m
    /\ \A p \in Positions, n \in Names : ~ (IntoHolds(v, p, b) /\ UseHolds(v, n, b))

\* Only elements of that type have blobs.
BlobCells(v) ==
    /\ \A p \in Positions : p < Len(v.into_types) =>
          (v.into_types[p + 1] = "blob" <=> v.into[p] \in Blobs \cup {"absent"}) \/ v.into_kind # "single"
    /\ \A n \in Names : v.use_type[n] = "blob" => v.use[n] \in Blobs \cup {"absent"}

BlobInv(v, bs) ==
    /\ BlobCells(v)
    /\ \A b \in Blobs :
          /\ bs[b] # "stolen"
          /\ bs[b] = "library" <=> \/ \E p \in Positions : IntoHolds(v, p, b)
                                   \/ \E n \in Names : UseHolds(v, n, b)
          /\ \A n \in Names : UseBorrows(v, n, b) => bs[b] = "user"
          /\ OneHolder(v, b)

\* The blob that is bound is the element's.
BoundBlobs(v) ==
    \A n \in Names :
        v.boundBlob[n] = IF v.state = "executing" /\ v.use_type[n] = "blob" THEN v.use[n] ELSE "absent"

\* The backend has blobs.
BlobsMade(v) ==
    /\ \A p \in Positions :
          p < Len(v.into_types) /\ v.into_types[p + 1] = "blob" => v.into[p] # "absent"
    /\ \A n \in Names : v.use_type[n] = "blob" => v.use[n] # "absent"

\* What an action has to keep: the base, and of the other parts those that its habits leave.
Kept ==
    /\ BaseInv'
    /\ "blobState" \notin Habits /\ BlobInv(w, blobs) => BlobInv(w', blobs')
    /\ "blobLate" \notin Habits /\ BoundBlobs(w) => BoundBlobs(w')
    /\ "blobFails" \notin Habits /\ BlobsMade(w) => BlobsMade(w')

-------------------------------------------------------------------------------
(* Fields that a step leaves alone, and the parts that depend on them only *)

SameInto(v, u) ==
    /\ u.into_kind = v.into_kind /\ u.into_types = v.into_types
    /\ u.into_indicators = v.into_indicators /\ u.into = v.into
    /\ u.into_indicators_v = v.into_indicators_v /\ u.into_v = v.into_v

SameUse(v, u) ==
    /\ u.use_kind = v.use_kind /\ u.use_type = v.use_type
    /\ u.use_indicators = v.use_indicators /\ u.use = v.use
    /\ u.use_type_v = v.use_type_v /\ u.use_indicators_v = v.use_indicators_v
    /\ u.use_v = v.use_v

SameCounts(v, u) ==
    /\ u.boundInto = v.boundInto /\ u.boundUse = v.boundUse
    /\ u.boundUseV = v.boundUseV /\ u.boundBlob = v.boundBlob

SameBound(v, u) == u.state = v.state /\ SameCounts(v, u)

\* What SimpleAssumption says, fact by fact.
LEMMA Constants ==
    /\ MaxInto \in Nat /\ MaxVector \in Nat /\ MaxVector >= 1
    /\ \A b \in Blobs : b # "absent" /\ b # "zero" /\ b # "NULL" /\ b \notin Values
    /\ \A x \in Values : x # "absent" /\ x # "zero" /\ x # "NULL" /\ x \notin Blobs
    /\ "absent" \notin Blobs /\ "absent" \notin Values /\ "zero" \notin Blobs
    /\ "NULL" \notin Values
BY SimpleAssumption

LEMMA OneElement ==
    ASSUME NEW x
    PROVE  Len(<< x >>) = 1 /\ << x >>[1] = x
OBVIOUS

LEMMA IntoFrame ==
    ASSUME NEW v, NEW u, NEW r, SameInto(v, u), IntoInv(v, r)
    PROVE  IntoInv(u, r)
BY DEF SameInto, IntoInv, IntoShape, SingleRows, BulkRows, Untouched

LEMMA UseFrame ==
    ASSUME NEW v, NEW u, NEW g, SameUse(v, u), UseInv(v, g)
    PROVE  UseInv(u, g)
BY DEF SameUse, UseInv, UseShape, GivenSingle, GivenVector

LEMMA BoundFrame ==
    ASSUME NEW v, NEW u, SameBound(v, u), u.use_type = v.use_type, u.use_type_v = v.use_type_v,
           BoundInv(v)
    PROVE  BoundInv(u)
BY DEF SameBound, SameCounts, BoundInv

LEMMA BlobFrame ==
    ASSUME NEW v, NEW u, NEW bs,
           u.into_kind = v.into_kind, u.into_types = v.into_types, u.into = v.into,
           u.use_type = v.use_type, u.use_indicators = v.use_indicators, u.use = v.use,
           BlobInv(v, bs)
    PROVE  BlobInv(u, bs)
BY DEF BlobInv, BlobCells, OneHolder, IntoHolds, UseHolds, UseBorrows

LEMMA BoundBlobsFrame ==
    ASSUME NEW v, NEW u, u.state = v.state, u.boundBlob = v.boundBlob,
           u.use_type = v.use_type, u.use = v.use, BoundBlobs(v)
    PROVE  BoundBlobs(u)
BY DEF BoundBlobs

LEMMA MadeFrame ==
    ASSUME NEW v, NEW u, u.into_types = v.into_types, u.into = v.into,
           u.use_type = v.use_type, u.use = v.use, BlobsMade(v)
    PROVE  BlobsMade(u)
BY DEF BlobsMade

\* Only is_ok is set.
LEMMA OkFields ==
    ASSUME NEW v \in WrapperType, NEW x \in BOOLEAN, NEW u, u = [v EXCEPT !.ok = x]
    PROVE  /\ u \in WrapperType /\ (u.alive <=> v.alive) /\ (u.ok <=> x)
           /\ SameInto(v, u) /\ SameUse(v, u) /\ SameBound(v, u)
BY DEF WrapperType, SameInto, SameUse, SameBound, SameCounts

\* A wrapper that differs in none of the elements.
LEMMA QuietStep ==
    ASSUME BaseInv, w' \in WrapperType, w'.alive, w.alive, ub' \in BOOLEAN,
           SameInto(w, w'), SameUse(w, w'), SameBound(w, w'),
           UNCHANGED <<blobs, given, row>>
    PROVE  Kept
<1>1. TypeOK'
  BY DEF BaseInv, TypeOK
<1>2. IntoInv(w', row) /\ UseInv(w', given) /\ BoundInv(w')
  BY IntoFrame, UseFrame, BoundFrame DEF BaseInv, SameUse
<1>3. IdleInv(w', row, given)
  BY DEF IdleInv
<1>4. BaseInv'
  BY <1>1, <1>2, <1>3 DEF BaseInv
<1>5. BlobInv(w, blobs) => BlobInv(w', blobs)
  BY BlobFrame DEF SameInto, SameUse
<1>6. BoundBlobs(w) => BoundBlobs(w')
  BY BoundBlobsFrame DEF SameBound, SameCounts, SameUse
<1>7. BlobsMade(w) => BlobsMade(w')
  BY MadeFrame DEF SameInto, SameUse
<1> QED
  BY <1>4, <1>5, <1>6, <1>7 DEF Kept

LEMMA RefusedKept ==
    ASSUME BaseInv, w.alive, Refused
    PROVE  Kept
<1>1. w \in WrapperType /\ ub \in BOOLEAN
  BY DEF BaseInv, TypeOK
<1>2. w' = [w EXCEPT !.ok = FALSE] /\ UNCHANGED <<blobs, given, row, ub>>
  BY DEF Refused, Only
<1> QED
  BY <1>1, <1>2, OkFields, QuietStep

LEMMA AcceptedKept ==
    ASSUME BaseInv, w.alive, Accepted
    PROVE  Kept
<1>1. w \in WrapperType /\ ub \in BOOLEAN
  BY DEF BaseInv, TypeOK
<1>2. w' = [w EXCEPT !.ok = TRUE] /\ UNCHANGED <<blobs, given, row, ub>>
  BY DEF Accepted, Only
<1> QED
  BY <1>1, <1>2, OkFields, QuietStep

LEMMA AnswersKept ==
    ASSUME BaseInv, w.alive, NEW a, a.ok \in BOOLEAN, Answers(a)
    PROVE  Kept
<1>1. w \in WrapperType /\ ub \in BOOLEAN
  BY DEF BaseInv, TypeOK
<1>2. w' = [w EXCEPT !.ok = a.ok] /\ UNCHANGED <<blobs, given, row>> /\ ub' = (ub \/ ~ a.defined)
  BY DEF Answers
<1>3. ub' \in BOOLEAN
  BY <1>2
<1> QED
  BY <1>1, <1>2, <1>3, OkFields, QuietStep

LEMMA GetIntoStateAnswers ==
    ASSUME NEW p
    PROVE  GetIntoState(p).ok \in BOOLEAN
BY DEF GetIntoState, Answer

LEMMA GetIntoAnswers ==
    ASSUME NEW p, NEW type
    PROVE  GetInto(p, type).ok \in BOOLEAN
BY DEF GetInto, Answer

LEMMA GetIntoStateVAnswers ==
    ASSUME NEW p, NEW i
    PROVE  GetIntoStateV(p, i).ok \in BOOLEAN
BY DEF GetIntoStateV, Answer

LEMMA GetIntoVAnswers ==
    ASSUME NEW p, NEW type, NEW i
    PROVE  GetIntoV(p, type, i).ok \in BOOLEAN
BY DEF GetIntoV, Answer

\* The calls that read an into element.
LEMMA GetIntoKept ==
    ASSUME BaseInv, NEW p, NEW type, NEW i,
           \/ soci_get_into_state(p)
           \/ soci_get_into(p, type)
           \/ soci_get_into_state_v(p, i)
           \/ soci_get_into_v(p, type, i)
    PROVE  Kept
<1>1. w.alive
  BY DEF soci_get_into_state, soci_get_into, soci_get_into_state_v, soci_get_into_v, Reads
<1>2. \/ Answers(GetIntoState(p))
      \/ Answers(GetInto(p, type))
      \/ Answers(GetIntoStateV(p, i))
      \/ Answers(GetIntoV(p, type, i))
  BY DEF soci_get_into_state, soci_get_into, soci_get_into_state_v, soci_get_into_v
<1>3. CASE Answers(GetIntoState(p))
  BY <1>1, <1>3, AnswersKept, GetIntoStateAnswers
<1>4. CASE Answers(GetInto(p, type))
  BY <1>1, <1>4, AnswersKept, GetIntoAnswers
<1>5. CASE Answers(GetIntoStateV(p, i))
  BY <1>1, <1>5, AnswersKept, GetIntoStateVAnswers
<1>6. CASE Answers(GetIntoV(p, type, i))
  BY <1>1, <1>6, AnswersKept, GetIntoVAnswers
<1> QED
  BY <1>2, <1>3, <1>4, <1>5, <1>6

-------------------------------------------------------------------------------
(* Handles                                                                 *)

LEMMA FreshType ==
    /\ Fresh \in WrapperType /\ NoStatement \in WrapperType
    /\ Fresh.alive /\ ~ NoStatement.alive
    /\ SameInto(Fresh, NoStatement) /\ SameUse(Fresh, NoStatement) /\ SameBound(Fresh, NoStatement)
<1>1. Fresh \in WrapperType /\ Fresh.alive
  BY Constants DEF Fresh, WrapperType, Stages, Positions, Cells, Kinds, Indicators
<1> QED
  BY <1>1 DEF NoStatement, WrapperType, SameInto, SameUse, SameBound, SameCounts

\* Of a new handle there is nothing yet.
LEMMA FreshParts ==
    /\ IntoInv(Fresh, NothingFetched) /\ UseInv(Fresh, NothingGiven) /\ BoundInv(Fresh)
    /\ BoundBlobs(Fresh) /\ BlobsMade(Fresh)
    /\ \A bs : (\A b \in Blobs : bs[b] \notin {"stolen", "library"}) => BlobInv(Fresh, bs)
<1> DEFINE F == Fresh
<1>1. /\ F.into_kind = "empty" /\ F.into_types = << >> /\ F.into = [p \in Positions |-> "absent"]
      /\ F.into_indicators = << >> /\ F.into_indicators_v = << >>
      /\ F.into_v = [p \in Positions |-> << >>]
      /\ F.use_kind = "empty" /\ F.use_type = [n \in Names |-> "absent"]
      /\ F.use_indicators = [n \in Names |-> "absent"] /\ F.use = [n \in Names |-> "absent"]
      /\ F.use_type_v = [n \in Names |-> "absent"] /\ F.use_indicators_v = [n \in Names |-> << >>]
      /\ F.use_v = [n \in Names |-> << >>] /\ F.state = "clean" /\ F.boundInto = 0
      /\ F.boundUse = [n \in Names |-> 0] /\ F.boundUseV = [n \in Names |-> 0]
      /\ F.boundBlob = [n \in Names |-> "absent"]
  BY DEF Fresh
<1> HIDE DEF F
<1>2. Len(F.into_types) = 0
  BY <1>1
<1>3. \A p \in Positions : ~ (p < 0) /\ p \in Int
  BY Constants DEF Positions
<1>4. IntoShape(F) /\ SingleRows(F, NothingFetched) /\ BulkRows(F, NothingFetched)
  BY <1>1, <1>2, Constants DEF IntoShape, SingleRows, BulkRows
<1>5. Untouched(F, NothingFetched)
  BY <1>1, <1>2 DEF Untouched, NothingFetched
<1>6. UseInv(F, NothingGiven)
  BY <1>1 DEF UseInv, UseShape, GivenSingle, GivenVector, IsVector, NothingGiven
<1>7. BoundInv(F) /\ BoundBlobs(F)
  BY <1>1 DEF BoundInv, BoundBlobs
<1>8. BlobsMade(F)
  BY <1>1, <1>2, <1>3 DEF BlobsMade
<1>9. ASSUME NEW bs, \A b \in Blobs : bs[b] \notin {"stolen", "library"}
      PROVE  BlobInv(F, bs)
  <2>1. \A p \in Positions, b \in Blobs : ~ IntoHolds(F, p, b)
    BY <1>2, <1>3 DEF IntoHolds
  <2>2. \A n \in Names, b \in Blobs : ~ UseHolds(F, n, b) /\ ~ UseBorrows(F, n, b)
    BY <1>1 DEF UseHolds, UseBorrows
  <2>3. BlobCells(F)
    BY <1>1, <1>2, <1>3 DEF BlobCells
  <2> QED
    BY <1>9, <2>1, <2>2, <2>3 DEF BlobInv, OneHolder
<1> QED
  BY <1>4, <1>5, <1>6, <1>7, <1>8, <1>9 DEF F, IntoInv

LEMMA CreateStatementKept ==
    ASSUME BaseInv, soci_create_statement
    PROVE  Kept
<1>1. /\ ~ w.alive /\ w' = Fresh /\ UNCHANGED <<blobs, given, row, ub>>
      /\ w = NoStatement /\ row = NothingFetched /\ given = NothingGiven
  BY DEF soci_create_statement, BaseInv, IdleInv
<1>2. TypeOK'
  BY <1>1, FreshType DEF BaseInv, TypeOK
<1>3. IntoInv(w', row') /\ UseInv(w', given') /\ BoundInv(w') /\ BoundBlobs(w') /\ BlobsMade(w')
  BY <1>1, FreshParts
<1>4. IdleInv(w', row', given')
  BY <1>1, FreshType DEF IdleInv
<1>5. BlobInv(w, blobs) => BlobInv(w', blobs')
  BY <1>1, FreshType, BlobFrame DEF SameInto, SameUse
<1> QED
  BY <1>2, <1>3, <1>4, <1>5 DEF Kept, BaseInv

\* A blob that no element has may come to be the program's, or go.
LEMMA BlobChange ==
    ASSUME NEW v, NEW bs \in [Blobs -> BlobType], BlobInv(v, bs),
           NEW b \in Blobs, bs[b] # "library", \A n \in Names : ~ UseBorrows(v, n, b),
           NEW x \in {"none", "user"}
    PROVE  BlobInv(v, [bs EXCEPT ![b] = x])
<1> DEFINE cs == [bs EXCEPT ![b] = x]
<1>1. cs[b] = x /\ \A c \in Blobs : c # b => cs[c] = bs[c]
  OBVIOUS
<1> HIDE DEF cs
<1>2. ASSUME NEW c \in Blobs
      PROVE  /\ cs[c] # "stolen"
             /\ cs[c] = "library" <=> \/ \E p \in Positions : IntoHolds(v, p, c)
                                      \/ \E n \in Names : UseHolds(v, n, c)
             /\ \A n \in Names : UseBorrows(v, n, c) => cs[c] = "user"
             /\ OneHolder(v, c)
  BY <1>1, <1>2 DEF BlobInv
<1>3. BlobInv(v, cs)
  BY <1>2 DEF BlobInv
<1> QED
  BY <1>3 DEF cs

\* Only the blobs change.
LEMMA BlobStep ==
    ASSUME BaseInv, UNCHANGED <<w, given, row>>, ub' \in BOOLEAN, blobs' \in [Blobs -> BlobType]
    PROVE  /\ BaseInv'
           /\ BoundBlobs(w) => BoundBlobs(w')
           /\ BlobsMade(w) => BlobsMade(w')
<1>1. TypeOK'
  BY DEF BaseInv, TypeOK
<1>2. /\ IntoInv(w', row') /\ UseInv(w', given') /\ BoundInv(w') /\ IdleInv(w', row', given')
  BY DEF BaseInv
<1> QED
  BY <1>1, <1>2 DEF BaseInv

LEMMA CreateBlobKept ==
    ASSUME BaseInv, NEW b \in Blobs, soci_create_blob(b)
    PROVE  Kept
<1>1. /\ blobs[b] = "none" /\ blobs' = [blobs EXCEPT ![b] = "user"]
      /\ UNCHANGED <<w, given, row, ub>>
  BY Constants DEF soci_create_blob, CreatedBlob, WithBlob
<1>2. ub \in BOOLEAN /\ blobs \in [Blobs -> BlobType]
  BY DEF BaseInv, TypeOK
<1>3. blobs' \in [Blobs -> BlobType] /\ ub' \in BOOLEAN
  BY <1>1, <1>2 DEF BlobType
<1>4. ASSUME BlobInv(w, blobs)
      PROVE  BlobInv(w', blobs')
  <2>1. \A n \in Names : ~ UseBorrows(w, n, b)
    BY <1>1, <1>4 DEF BlobInv
  <2>2. BlobInv(w, [blobs EXCEPT ![b] = "user"])
    BY <1>1, <1>2, <1>4, <2>1, BlobChange
  <2> QED
    BY <1>1, <2>2
<1> QED
  BY <1>1, <1>3, <1>4, BlobStep DEF Kept

LEMMA DestroyBlobKept ==
    ASSUME BaseInv, NEW b \in Blobs, soci_destroy_blob(b)
    PROVE  Kept
<1>1. /\ blobs[b] \in {"user", "stolen"} /\ blobs' = [blobs EXCEPT ![b] = "none"]
      /\ UNCHANGED <<w, given, row>> /\ ub' = (ub \/ blobs[b] = "stolen")
      /\ \A n \in Names : w.use[n] # b
  BY DEF soci_destroy_blob
<1>2. ub \in BOOLEAN /\ blobs \in [Blobs -> BlobType]
  BY DEF BaseInv, TypeOK
<1>3. blobs' \in [Blobs -> BlobType]
  BY <1>1, <1>2 DEF BlobType
<1>4. ub' \in BOOLEAN
  BY <1>1
<1>5. ASSUME BlobInv(w, blobs)
      PROVE  BlobInv(w', blobs')
  <2>1. \A n \in Names : ~ UseBorrows(w, n, b)
    BY <1>1 DEF UseBorrows
  <2>2. BlobInv(w, [blobs EXCEPT ![b] = "none"])
    BY <1>1, <1>2, <1>5, <2>1, BlobChange
  <2> QED
    BY <1>1, <2>2
<1> QED
  BY <1>1, <1>3, <1>4, <1>5, BlobStep DEF Kept

\* The blobs that the destructor deletes are those that the elements hold.
LEMMA IntoBlobsHeld ==
    ASSUME BaseInv, BlobCells(w), NEW b \in Blobs
    PROVE  b \in IntoBlobs <=> \E p \in Positions : IntoHolds(w, p, b)
<1>1. \A p \in Positions : w.into_kind # "single" => w.into[p] = "absent"
  BY DEF BaseInv, IntoInv, Untouched
<1>2. \A p \in Positions : p >= 0 /\ p \in Int
  BY Constants DEF Positions
<1>3. b \in IntoBlobs <=> \E p \in Positions : p < Len(w.into_types) /\ w.into[p] = b
  BY <1>2 DEF IntoBlobs, ValidPosition, next_position
<1>4. \A p \in Positions : p < Len(w.into_types) /\ w.into[p] = b => w.into_types[p + 1] = "blob"
  BY <1>1, Constants DEF BlobCells
<1> QED
  BY <1>3, <1>4 DEF IntoHolds

LEMMA OwnedByHeld ==
    ASSUME NEW b \in Blobs, NEW n \in Names
    PROVE  b \in OwnedBy(n) <=> UseHolds(w, n, b)
BY Constants DEF OwnedBy, UseHolds

\* What ~statement_wrapper() deletes.
AllOwned == IntoBlobs \cup UNION {OwnedBy(n) : n \in Names}

LEMMA AllOwnedHeld ==
    ASSUME BaseInv, BlobInv(w, blobs), NEW b \in Blobs
    PROVE  b \in AllOwned <=> blobs[b] = "library"
<1>1. b \in IntoBlobs <=> \E p \in Positions : IntoHolds(w, p, b)
  BY IntoBlobsHeld DEF BlobInv
<1>2. b \in UNION {OwnedBy(n) : n \in Names} <=> \E n \in Names : UseHolds(w, n, b)
  BY OwnedByHeld
<1> QED
  BY <1>1, <1>2 DEF BlobInv, AllOwned

LEMMA DestroyStatementKept ==
    ASSUME BaseInv, soci_destroy_statement
    PROVE  Kept
<1>1. /\ w' = NoStatement /\ given' = NothingGiven /\ row' = NothingFetched
      /\ blobs' = Forgotten(Deleted(AllOwned)) /\ ub' = (ub \/ DeletedTwice(AllOwned))
  BY DEF soci_destroy_statement, AllOwned
<1>2. ub \in BOOLEAN /\ blobs \in [Blobs -> BlobType]
  BY DEF BaseInv, TypeOK
<1>3. ub' \in BOOLEAN
  BY <1>1
<1>4. blobs' \in [Blobs -> BlobType]
  BY <1>1, <1>2 DEF Forgotten, Deleted, BlobType
<1>5. TypeOK'
  <2>1. NothingGiven \in [Names -> Seq([value : Cells, state : Indicators])]
    BY DEF NothingGiven
  <2>2. NothingFetched \in [Positions -> Seq(Fetched \cup {"zero"})]
    BY DEF NothingFetched
  <2> QED
    BY <1>1, <1>3, <1>4, <2>1, <2>2, FreshType DEF TypeOK
<1>6. /\ IntoInv(w', row') /\ UseInv(w', given') /\ BoundInv(w')
      /\ BoundBlobs(w') /\ BlobsMade(w')
  <2>1. IntoInv(NoStatement, NothingFetched) /\ UseInv(NoStatement, NothingGiven)
    BY FreshType, FreshParts, IntoFrame, UseFrame
  <2>2. BoundInv(NoStatement) /\ BoundBlobs(NoStatement) /\ BlobsMade(NoStatement)
    BY FreshType, FreshParts, BoundFrame, BoundBlobsFrame, MadeFrame
       DEF SameInto, SameUse, SameBound, SameCounts
  <2> QED
    BY <1>1, <2>1, <2>2
<1>7. IdleInv(w', row', given')
  BY <1>1 DEF IdleInv
<1>8. ASSUME BlobInv(w, blobs)
      PROVE  BlobInv(w', blobs')
  <2>1. ASSUME NEW b \in Blobs
        PROVE  blobs'[b] \notin {"stolen", "library"}
    <3>1. b \in AllOwned <=> blobs[b] = "library"
      BY <1>8, AllOwnedHeld
    <3>2. blobs[b] # "stolen"
      BY <1>8 DEF BlobInv
    <3> QED
      BY <1>1, <1>2, <3>1, <3>2 DEF Forgotten, Deleted
  <2>2. BlobInv(Fresh, blobs')
    BY <2>1, FreshParts
  <2> QED
    BY <1>1, <2>2, FreshType, BlobFrame DEF SameInto, SameUse
<1> QED
  BY <1>5, <1>6, <1>7, <1>8 DEF Kept, BaseInv

-------------------------------------------------------------------------------
(* Into elements                                                           *)

\* While elements are added nothing is bound.
LEMMA BoundDefining ==
    ASSUME NEW v \in WrapperType, NEW u, v.state # "executing", u.state = "defining",
           SameCounts(v, u), BoundInv(v)
    PROVE  /\ BoundInv(u)
           /\ BoundBlobs(v) => BoundBlobs(u)
<1>1. v.boundInto = 0
  BY DEF BoundInv, WrapperType
<1>2. BoundInv(u)
  BY <1>1 DEF BoundInv, SameCounts
<1>3. BoundBlobs(v) => BoundBlobs(u)
  BY DEF BoundBlobs, SameCounts
<1> QED
  BY <1>2, <1>3

\* u is v with another into element, of that type and with that value.
IntoAddition(v, u, type, cell) ==
    /\ u \in WrapperType /\ (u.alive <=> v.alive) /\ u.state = "defining"
    /\ u.into_kind = "single" /\ u.into_types = Append(v.into_types, type)
    /\ u.into_indicators = Append(v.into_indicators, "ok")
    /\ u.into = [v.into EXCEPT ![Len(v.into_types)] = cell]
    /\ u.into_indicators_v = v.into_indicators_v /\ u.into_v = v.into_v
    /\ SameUse(v, u) /\ SameCounts(v, u)

LEMMA IntoAddFields ==
    ASSUME w \in WrapperType, NEW type \in Types, NEW cell \in Cells,
           Len(w.into_types) \in Positions,
           w' = [w EXCEPT !.ok = TRUE, !.state = "defining", !.into_kind = "single",
                          !.into_types = Append(@, type), !.into_indicators = Append(@, "ok"),
                          !.into[Len(w.into_types)] = cell]
    PROVE  IntoAddition(w, w', type, cell)
<1> DEFINE L == Len(w.into_types)
           v == w
           u == w'
<1>0. v \in WrapperType /\ L \in Positions
  OBVIOUS
<1>e. u = [v EXCEPT !.ok = TRUE, !.state = "defining", !.into_kind = "single",
                    !.into_types = Append(@, type), !.into_indicators = Append(@, "ok"),
                    !.into[L] = cell]
  OBVIOUS
<1> HIDE DEF L, u, v
<1>1. /\ u.into_types = Append(v.into_types, type) /\ u.into_types \in Seq(Types)
      /\ u.into_indicators = Append(v.into_indicators, "ok") /\ u.into_indicators \in Seq(Indicators)
      /\ u.into = [v.into EXCEPT ![L] = cell] /\ u.into \in [Positions -> Cells]
  BY <1>0, <1>e DEF WrapperType, Indicators
<1>2. /\ (u.alive <=> v.alive) /\ u.state = "defining" /\ u.into_kind = "single"
      /\ u.into_indicators_v = v.into_indicators_v /\ u.into_v = v.into_v
      /\ SameUse(v, u) /\ SameCounts(v, u)
  BY <1>0, <1>e DEF WrapperType, SameUse, SameCounts
<1>3. u \in WrapperType
  BY <1>0, <1>e, <1>1 DEF WrapperType, Kinds
<1> QED
  BY <1>1, <1>2, <1>3 DEF L, u, v, IntoAddition

\* The element that is added is one of the row that has not been fetched.
LEMMA IntoAdded ==
    ASSUME NEW v \in WrapperType, NEW u, NEW r \in [Positions -> Seq(Fetched \cup {"zero"})],
           IntoInv(v, r), v.into_kind # "bulk",
           NEW type \in Types, NEW cell, type # "blob" => cell = "zero",
           Len(v.into_types) \in Positions, IntoAddition(v, u, type, cell)
    PROVE  IntoInv(u, [r EXCEPT ![Len(v.into_types)] = << "zero" >>])
<1> USE DEF IntoAddition
<1> DEFINE L == Len(v.into_types)
           s == [r EXCEPT ![L] = << "zero" >>]
<1>1. /\ v.into_types \in Seq(Types) /\ v.into_indicators \in Seq(Indicators)
      /\ v.into \in [Positions -> Cells]
  BY DEF WrapperType
<1>2. L \in Nat /\ L + 1 <= MaxInto /\ L \in Positions
  BY <1>1, Constants DEF Positions
<1>3. Len(v.into_indicators) = L /\ Len(v.into_indicators_v) = 0
  BY <1>1, <1>2 DEF IntoInv, IntoShape, WrapperType, Kinds
<1>4. /\ Len(u.into_types) = L + 1 /\ Len(u.into_indicators) = L + 1
      /\ u.into_types[L + 1] = type /\ u.into_indicators[L + 1] = "ok"
      /\ \A k \in 1 .. L : u.into_types[k] = v.into_types[k]
                           /\ u.into_indicators[k] = v.into_indicators[k]
  BY <1>1, <1>2, <1>3, AppendProperties DEF Indicators
<1>5. /\ s[L] = << "zero" >> /\ u.into[L] = cell
      /\ \A p \in Positions : p # L => s[p] = r[p] /\ u.into[p] = v.into[p]
  BY <1>1, <1>2
<1>6. \A p \in Positions : p \in Int /\ p >= 0
  BY Constants DEF Positions
<1>7. \A p \in Positions : p < L => v.into_kind = "single"
  BY <1>2, <1>6 DEF IntoInv, IntoShape, WrapperType, Kinds
<1> HIDE DEF L, s
<1>8. IntoShape(u)
  BY <1>2, <1>3, <1>4 DEF IntoShape
<1>9. SingleRows(u, s)
  <2> SUFFICES ASSUME NEW p \in Positions, p < L + 1
               PROVE  /\ Len(s[p]) = 1
                      /\ u.into_indicators[p + 1] = "null" <=> s[p][1] = "NULL"
                      /\ u.into_types[p + 1] # "blob" /\ s[p][1] # "NULL" => u.into[p] = s[p][1]
    BY <1>4 DEF SingleRows
  <2>1. CASE p = L
    <3>0. s[p] = << "zero" >>
      BY <1>5, <2>1
    <3>1. Len(s[p]) = 1 /\ s[p][1] = "zero"
      BY <3>0, OneElement
    <3> QED
      BY <1>4, <1>5, <2>1, <3>1
  <2>2. CASE p # L
    <3>1. p < L /\ p + 1 \in 1 .. L
      BY <1>2, <1>6, <2>2
    <3>2. /\ Len(r[p]) = 1
          /\ v.into_indicators[p + 1] = "null" <=> r[p][1] = "NULL"
          /\ v.into_types[p + 1] # "blob" /\ r[p][1] # "NULL" => v.into[p] = r[p][1]
      BY <1>7, <3>1 DEF IntoInv, SingleRows, L
    <3> QED
      BY <1>4, <1>5, <2>2, <3>1, <3>2
  <2> QED
    BY <2>1, <2>2
<1>10. Untouched(u, s)
  <2> SUFFICES ASSUME NEW p \in Positions, p >= L + 1
               PROVE  u.into_v[p] = << >> /\ s[p] = << >> /\ u.into[p] = "absent"
    BY <1>4 DEF Untouched
  <2>1. p # L /\ p >= L
    BY <1>2, <1>6
  <2> QED
    BY <1>5, <2>1 DEF IntoInv, Untouched, L
<1> QED
  BY <1>8, <1>9, <1>10 DEF IntoInv, BulkRows, L, s

\* The elements have the same blobs as before.
LEMMA BlobSame ==
    ASSUME NEW v, NEW u, NEW bs, BlobInv(v, bs), BlobCells(u),
           \A p \in Positions, c \in Blobs : IntoHolds(u, p, c) <=> IntoHolds(v, p, c),
           \A n \in Names, c \in Blobs : /\ UseHolds(u, n, c) <=> UseHolds(v, n, c)
                                         /\ UseBorrows(u, n, c) <=> UseBorrows(v, n, c)
    PROVE  BlobInv(u, bs)
<1>1. \A c \in Blobs : OneHolder(u, c)
  BY DEF BlobInv, OneHolder
<1> QED
  BY <1>1 DEF BlobInv

\* One of them has got a blob of its own besides.
LEMMA BlobGained ==
    ASSUME NEW v, NEW u, NEW bs, NEW cs, BlobInv(v, bs), BlobCells(u),
           NEW b \in Blobs, cs[b] = "library", \A c \in Blobs : c # b => cs[c] = bs[c],
           \A p \in Positions, c \in Blobs : c # b => (IntoHolds(u, p, c) <=> IntoHolds(v, p, c)),
           \A n \in Names, c \in Blobs : c # b => (UseHolds(u, n, c) <=> UseHolds(v, n, c)),
           \A n \in Names, c \in Blobs : c # b => (UseBorrows(u, n, c) <=> UseBorrows(v, n, c)),
           \A n \in Names : ~ UseBorrows(u, n, b),
           \/ \E p \in Positions : IntoHolds(u, p, b)
           \/ \E n \in Names : UseHolds(u, n, b),
           OneHolder(u, b)
    PROVE  BlobInv(u, cs)
<1>1. ASSUME NEW c \in Blobs, c # b
      PROVE  /\ cs[c] # "stolen"
             /\ cs[c] = "library" <=> \/ \E p \in Positions : IntoHolds(u, p, c)
                                      \/ \E n \in Names : UseHolds(u, n, c)
             /\ \A n \in Names : UseBorrows(u, n, c) => cs[c] = "user"
             /\ OneHolder(u, c)
  <2>1. OneHolder(u, c)
    BY <1>1 DEF BlobInv, OneHolder
  <2> QED
    BY <1>1, <2>1 DEF BlobInv
<1> QED
  BY <1>1 DEF BlobInv

LEMMA IntoAddedBlob ==
    ASSUME NEW v \in WrapperType, NEW u, NEW bs \in [Blobs -> BlobType],
           BlobInv(v, bs), IntoShape(v), v.into_kind # "bulk", Len(v.into_types) \in Positions,
           NEW type \in Types, NEW b \in Blobs \cup {"absent"},
           type # "blob" => b = "absent", b \in Blobs => bs[b] = "none",
           NEW cell, cell = (IF type = "blob" THEN b ELSE "zero"),
           IntoAddition(v, u, type, cell)
    PROVE  BlobInv(u, IF b = "absent" THEN bs ELSE [bs EXCEPT ![b] = "library"])
<1> USE DEF IntoAddition
<1> DEFINE L == Len(v.into_types)
           cs == IF b = "absent" THEN bs ELSE [bs EXCEPT ![b] = "library"]
<1>1. v.into_types \in Seq(Types) /\ v.into \in [Positions -> Cells]
  BY DEF WrapperType
<1>2. L \in Nat /\ L \in Positions
  BY <1>1
<1>3. /\ Len(u.into_types) = L + 1 /\ u.into_types[L + 1] = type
      /\ \A k \in 1 .. L : u.into_types[k] = v.into_types[k]
  BY <1>1, <1>2, AppendProperties
<1>4. u.into[L] = cell /\ \A p \in Positions : p # L => u.into[p] = v.into[p]
  BY <1>1, <1>2
<1>5. \A p \in Positions : p \in Int /\ p >= 0
  BY Constants DEF Positions
<1>6. \A p \in Positions : p < L => v.into_kind = "single"
  BY <1>2, <1>5 DEF IntoShape, WrapperType, Kinds
<1>7. \A p \in Positions : p # L => (p < L + 1 <=> p < L) /\ (p < L => p + 1 \in 1 .. L)
  BY <1>2, <1>5
<1>8. b \in Blobs => cs[b] = "library" /\ b # "absent" /\ \A c \in Blobs : c # b => cs[c] = bs[c]
  BY Constants
<1>9. b = "absent" => cs = bs /\ b \notin Blobs
  BY Constants
<1> HIDE DEF L, cs
<1>10. \A p \in Positions, c \in Blobs :
          IntoHolds(u, p, c) <=> IntoHolds(v, p, c) \/ (p = L /\ type = "blob" /\ c = b)
  <2> TAKE p \in Positions, c \in Blobs
  <2>1. CASE p = L
    <3>1. ~ IntoHolds(v, p, c)
      BY <1>2, <2>1 DEF IntoHolds, L
    <3>2. type # "blob" => cell # c
      BY Constants
    <3> QED
      BY <1>2, <1>3, <1>4, <2>1, <3>1, <3>2 DEF IntoHolds
  <2>2. CASE p # L
    BY <1>3, <1>4, <1>7, <2>2 DEF IntoHolds, L
  <2> QED
    BY <2>1, <2>2
<1>11. \A n \in Names, c \in Blobs : /\ UseHolds(u, n, c) <=> UseHolds(v, n, c)
                                     /\ UseBorrows(u, n, c) <=> UseBorrows(v, n, c)
  BY DEF SameUse, UseHolds, UseBorrows
<1>12. BlobCells(u)
  <2>1. ASSUME NEW p \in Positions, p < L + 1
        PROVE  u.into_types[p + 1] = "blob" <=> u.into[p] \in Blobs \cup {"absent"}
    <3>1. CASE p = L
      BY <1>3, <1>4, <3>1, Constants
    <3>2. CASE p # L
      <4>1. p < L /\ v.into_kind = "single" /\ p + 1 \in 1 .. L
        BY <1>6, <1>7, <2>1, <3>2
      <4>2. v.into_types[p + 1] = "blob" <=> v.into[p] \in Blobs \cup {"absent"}
        BY <4>1 DEF BlobInv, BlobCells, L
      <4> QED
        BY <1>3, <1>4, <3>2, <4>1, <4>2
    <3> QED
      BY <3>1, <3>2
  <2>2. \A n \in Names : u.use_type[n] = "blob" => u.use[n] \in Blobs \cup {"absent"}
    BY DEF BlobCells, BlobInv, SameUse
  <2> QED
    BY <1>3, <2>1, <2>2 DEF BlobCells
<1>13. CASE b = "absent"
  BY <1>9, <1>10, <1>11, <1>12, <1>13, BlobSame DEF cs
<1>14. CASE b # "absent"
  <2>1. b \in Blobs /\ bs[b] = "none" /\ type = "blob"
    BY <1>14
  <2>2. /\ \A p \in Positions : ~ IntoHolds(v, p, b)
        /\ \A n \in Names : ~ UseHolds(v, n, b) /\ ~ UseBorrows(v, n, b)
    BY <2>1 DEF BlobInv
  <2>3. OneHolder(u, b) /\ \A n \in Names : ~ UseBorrows(u, n, b)
    BY <1>10, <1>11, <2>1, <2>2 DEF OneHolder
  <2>4. \E p \in Positions : IntoHolds(u, p, b)
    BY <1>2, <1>10, <2>1
  <2>5. BlobInv(u, cs)
    BY <1>8, <1>10, <1>11, <1>12, <2>1, <2>3, <2>4, BlobGained
  <2> QED
    BY <2>5 DEF cs
<1> QED
  BY <1>13, <1>14

LEMMA IntoKept ==
    ASSUME BaseInv, NEW type \in Types, NEW b \in Blobs \cup {"absent"}, soci_into(type, b)
    PROVE  Kept
<1> DEFINE L == Len(w.into_types)
           cell == IF type = "blob" THEN b ELSE "zero"
<1>1. w.alive
  BY DEF soci_into
<1>2. CASE cannot_add_elements("single", w.into_kind)
  BY <1>1, <1>2, RefusedKept DEF soci_into
<1>3. CASE ~ cannot_add_elements("single", w.into_kind)
  <2>1. /\ L < MaxInto
        /\ IF type = "blob" THEN CreatedBlob(b) ELSE b = "absent"
        /\ w' = [w EXCEPT !.ok = TRUE, !.state = "defining", !.into_kind = "single",
                          !.into_types = Append(@, type), !.into_indicators = Append(@, "ok"),
                          !.into[L] = cell]
        /\ blobs' = WithBlob(b, "library")
        /\ row' = [row EXCEPT ![L] = << "zero" >>]
        /\ UNCHANGED <<given, ub>>
    BY <1>3 DEF soci_into, next_position
  <2>2. w.state # "executing" /\ w.into_kind # "bulk"
    BY <1>3 DEF cannot_add_elements
  <2>3. /\ w \in WrapperType /\ blobs \in [Blobs -> BlobType] /\ ub \in BOOLEAN
        /\ row \in [Positions -> Seq(Fetched \cup {"zero"})]
        /\ given \in [Names -> Seq([value : Cells, state : Indicators])]
        /\ IntoInv(w, row) /\ UseInv(w, given) /\ BoundInv(w)
    BY DEF BaseInv, TypeOK
  <2>4. L \in Positions
    BY <2>1, <2>3, Constants DEF WrapperType, Positions
  <2>5. cell \in Cells /\ (type # "blob" => cell = "zero")
    BY DEF Cells
  <2>6. /\ b \in Blobs => blobs[b] = "none"
        /\ type # "blob" => b = "absent"
        /\ b = "absent" /\ type = "blob" => "blobFails" \in Habits
    BY <2>1, Constants DEF CreatedBlob
  <2> HIDE DEF L, cell
  <2>7. IntoAddition(w, w', type, cell)
    BY <2>1, <2>3, <2>4, <2>5, IntoAddFields DEF L
  <2>a. /\ w' \in WrapperType /\ w'.alive /\ w'.state = "defining"
        /\ w'.into_types = Append(w.into_types, type) /\ w'.into = [w.into EXCEPT ![L] = cell]
        /\ SameUse(w, w') /\ SameCounts(w, w')
    BY <1>1, <2>7 DEF IntoAddition, L
  <2>8. IntoInv(w', row')
    <3>1. IntoInv(w', [row EXCEPT ![Len(w.into_types)] = << "zero" >>])
      BY <2>2, <2>3, <2>4, <2>5, <2>7, IntoAdded DEF L
    <3> QED
      BY <2>1, <3>1 DEF L
  <2>9. UseInv(w', given')
    BY <2>1, <2>3, <2>a, UseFrame
  <2>10. BoundInv(w') /\ (BoundBlobs(w) => BoundBlobs(w'))
    BY <2>2, <2>3, <2>a, BoundDefining
  <2>11. TypeOK'
    <3>1. row' \in [Positions -> Seq(Fetched \cup {"zero"})]
      BY <2>1, <2>3, <2>4
    <3>2. blobs' \in [Blobs -> BlobType]
      BY <2>1, <2>3 DEF WithBlob, BlobType
    <3> QED
      BY <2>1, <2>3, <2>a, <3>1, <3>2 DEF TypeOK
  <2>12. BaseInv'
    BY <2>a, <2>8, <2>9, <2>10, <2>11 DEF BaseInv, IdleInv
  <2>13. ASSUME BlobInv(w, blobs)
         PROVE  BlobInv(w', blobs')
    <3>1. BlobInv(w', IF b = "absent" THEN blobs ELSE [blobs EXCEPT ![b] = "library"])
      BY <2>2, <2>3, <2>4, <2>6, <2>7, <2>13, IntoAddedBlob DEF L, cell, IntoInv
    <3> QED
      BY <2>1, <3>1 DEF WithBlob
  <2>14. ASSUME "blobFails" \notin Habits, BlobsMade(w)
         PROVE  BlobsMade(w')
    <3>1. w.into_types \in Seq(Types) /\ w.into \in [Positions -> Cells] /\ L \in Nat
      BY <2>3 DEF WrapperType, L
    <3>2. /\ Len(w'.into_types) = L + 1 /\ w'.into_types[L + 1] = type
          /\ \A k \in 1 .. L : w'.into_types[k] = w.into_types[k]
      BY <2>a, <3>1, AppendProperties DEF L
    <3>3. ASSUME NEW p \in Positions, p < L + 1, w'.into_types[p + 1] = "blob"
          PROVE  w'.into[p] # "absent"
      <4>1. p \in Nat
        BY Constants DEF Positions
      <4>2. CASE p = L
        BY <2>6, <2>a, <2>14, <3>1, <3>2, <3>3, <4>2 DEF cell
      <4>3. CASE p # L
        <5>1. p < L /\ p + 1 \in 1 .. L
          BY <3>1, <3>3, <4>1, <4>3
        <5>2. w'.into[p] = w.into[p] /\ w.into_types[p + 1] = "blob"
          BY <2>a, <3>1, <3>2, <3>3, <4>3, <5>1
        <5> QED
          BY <2>14, <5>1, <5>2 DEF BlobsMade, L
      <4> QED
        BY <4>2, <4>3
    <3>4. \A n \in Names : w'.use_type[n] = "blob" => w'.use[n] # "absent"
      BY <2>a, <2>14 DEF BlobsMade, SameUse
    <3> QED
      BY <3>2, <3>3, <3>4 DEF BlobsMade
  <2> QED
    BY <2>10, <2>12, <2>13, <2>14 DEF Kept
<1> QED
  BY <1>2, <1>3

\* u is v with another vector, of that type and empty.
VectorAddition(v, u, type) ==
    /\ u \in WrapperType /\ (u.alive <=> v.alive) /\ u.state = "defining"
    /\ u.into_kind = "bulk" /\ u.into_types = Append(v.into_types, type)
    /\ u.into_indicators_v = Append(v.into_indicators_v, << >>)
    /\ u.into_indicators = v.into_indicators /\ u.into = v.into /\ u.into_v = v.into_v
    /\ SameUse(v, u) /\ SameCounts(v, u)

LEMMA VectorAddFields ==
    ASSUME w \in WrapperType, NEW type \in Types,
           w' = [w EXCEPT !.ok = TRUE, !.state = "defining", !.into_kind = "bulk",
                          !.into_types = Append(@, type),
                          !.into_indicators_v = Append(@, << >>)]
    PROVE  VectorAddition(w, w', type)
<1> DEFINE v == w
           u == w'
<1>0. v \in WrapperType /\ << >> \in Seq(Indicators)
  OBVIOUS
<1>e. u = [v EXCEPT !.ok = TRUE, !.state = "defining", !.into_kind = "bulk",
                    !.into_types = Append(@, type), !.into_indicators_v = Append(@, << >>)]
  OBVIOUS
<1> HIDE DEF u, v
<1>1. /\ u.into_types = Append(v.into_types, type)
      /\ u.into_indicators_v = Append(v.into_indicators_v, << >>)
  BY <1>0, <1>e DEF WrapperType
<1>2. u.into_types \in Seq(Types) /\ u.into_indicators_v \in Seq(Seq(Indicators))
  BY <1>0, <1>1, AppendProperties DEF WrapperType
<1>3. /\ (u.alive <=> v.alive) /\ u.state = "defining" /\ u.into_kind = "bulk"
      /\ u.into_indicators = v.into_indicators /\ u.into = v.into /\ u.into_v = v.into_v
      /\ SameUse(v, u) /\ SameCounts(v, u)
  BY <1>0, <1>e DEF WrapperType, SameUse, SameCounts
<1>4. u \in WrapperType
  BY <1>0, <1>e, <1>2 DEF WrapperType, Kinds
<1> QED
  BY <1>1, <1>3, <1>4 DEF u, v, VectorAddition

LEMMA VectorAdded ==
    ASSUME NEW v \in WrapperType, NEW u, NEW r \in [Positions -> Seq(Fetched \cup {"zero"})],
           IntoInv(v, r), v.into_kind # "single",
           NEW type \in Types, type # "blob", Len(v.into_types) \in Positions,
           VectorAddition(v, u, type)
    PROVE  IntoInv(u, r)
<1> DEFINE L == Len(v.into_types)
           I == v.into_indicators_v
           J == u.into_indicators_v
<1>1. v.into_types \in Seq(Types) /\ I \in Seq(Seq(Indicators))
  BY DEF WrapperType
<1>2. L \in Nat /\ L + 1 <= MaxInto /\ L \in Positions
  BY <1>1, Constants DEF Positions
<1>3. Len(I) = L /\ Len(v.into_indicators) = 0
  BY <1>1, <1>2 DEF IntoInv, IntoShape, WrapperType, Kinds
<1>4. /\ Len(u.into_types) = L + 1 /\ u.into_types[L + 1] = type
      /\ \A k \in 1 .. L : u.into_types[k] = v.into_types[k]
  BY <1>1, <1>2, AppendProperties DEF VectorAddition
<1>5. Len(J) = L + 1 /\ J[L + 1] = << >> /\ \A k \in 1 .. L : J[k] = I[k]
  BY <1>1, <1>3, AppendProperties DEF VectorAddition
<1>6. \A p \in Positions : p \in Int /\ p >= 0
  BY Constants DEF Positions
<1>7. \A p \in Positions : p < L => v.into_kind = "bulk"
  BY <1>2, <1>6 DEF IntoInv, IntoShape, WrapperType, Kinds
<1>8. /\ u.into_kind = "bulk" /\ u.into_indicators = v.into_indicators /\ u.into = v.into
      /\ u.into_v = v.into_v
  BY DEF VectorAddition
<1> HIDE DEF L, J
<1>9. IntoShape(u)
  BY <1>2, <1>3, <1>4, <1>5, <1>8 DEF IntoShape, J
<1>10. BulkRows(u, r)
  <2> SUFFICES ASSUME NEW p \in Positions, p < L + 1
               PROVE  /\ u.into_types[p + 1] # "blob"
                      /\ IsColumn(v.into_v[p], J[p + 1], r[p])
                      /\ Len(r[p]) <= MaxVector
    BY <1>4, <1>8 DEF BulkRows, J
  <2>1. CASE p = L
    <3>1. v.into_v[p] = << >> /\ r[p] = << >> /\ J[p + 1] = << >> /\ u.into_types[p + 1] = type
      BY <1>2, <1>4, <1>5, <2>1 DEF IntoInv, Untouched, L
    <3> HIDE DEF J
    <3>2. Len(v.into_v[p]) = 0 /\ Len(r[p]) = 0 /\ Len(J[p + 1]) = 0
      BY <3>1
    <3> QED
      BY <3>1, <3>2, Constants DEF IsColumn
  <2>2. CASE p # L
    <3>1. p < L /\ p + 1 \in 1 .. L
      BY <1>2, <1>6, <2>2
    <3>2. J[p + 1] = I[p + 1] /\ u.into_types[p + 1] = v.into_types[p + 1]
      BY <1>4, <1>5, <3>1
    <3> QED
      BY <1>7, <3>1, <3>2 DEF IntoInv, BulkRows, L
  <2> QED
    BY <2>1, <2>2
<1>11. Untouched(u, r)
  <2>1. \A p \in Positions : p >= L + 1 => p >= L
    BY <1>2, <1>6
  <2> QED
    BY <1>4, <1>8, <2>1 DEF IntoInv, Untouched, L
<1> QED
  BY <1>8, <1>9, <1>10, <1>11 DEF IntoInv, SingleRows

LEMMA IntoVKept ==
    ASSUME BaseInv, NEW type \in Types, soci_into_v(type)
    PROVE  Kept
<1> DEFINE L == Len(w.into_types)
<1>1. w.alive /\ type # "blob"
  BY DEF soci_into_v
<1>2. CASE cannot_add_elements("bulk", w.into_kind)
  BY <1>1, <1>2, RefusedKept DEF soci_into_v
<1>3. CASE ~ cannot_add_elements("bulk", w.into_kind)
  <2>1. /\ L < MaxInto
        /\ w' = [w EXCEPT !.ok = TRUE, !.state = "defining", !.into_kind = "bulk",
                          !.into_types = Append(@, type), !.into_indicators_v = Append(@, << >>)]
        /\ UNCHANGED <<blobs, given, row, ub>>
    BY <1>3 DEF soci_into_v, next_position, Only
  <2>2. w.state # "executing" /\ w.into_kind # "single"
    BY <1>3 DEF cannot_add_elements
  <2>3. TypeOK /\ IntoInv(w, row) /\ UseInv(w, given) /\ BoundInv(w)
    BY DEF BaseInv
  <2>4. w \in WrapperType /\ row \in [Positions -> Seq(Fetched \cup {"zero"})]
    BY <2>3 DEF TypeOK
  <2>5. L \in Positions /\ w.into_types \in Seq(Types) /\ L \in Nat
    BY <2>1, <2>4, Constants DEF WrapperType, Positions
  <2> HIDE DEF L
  <2>6. VectorAddition(w, w', type)
    BY <2>1, <2>4, VectorAddFields
  <2>7. /\ w' \in WrapperType /\ w'.alive /\ w'.state = "defining" /\ w'.into_kind = "bulk"
        /\ w'.into = w.into /\ w'.into_types = Append(w.into_types, type)
        /\ SameUse(w, w') /\ SameCounts(w, w')
    BY <1>1, <2>6 DEF VectorAddition
  <2>8. IntoInv(w', row)
    BY <1>1, <2>2, <2>3, <2>4, <2>5, <2>6, VectorAdded DEF L
  <2>9. UseInv(w', given)
    BY <2>3, <2>7, UseFrame
  <2>10. BoundInv(w') /\ (BoundBlobs(w) => BoundBlobs(w'))
    BY <2>2, <2>3, <2>4, <2>7, BoundDefining
  <2>11. TypeOK'
    BY <2>1, <2>3, <2>7 DEF TypeOK
  <2>12. BaseInv'
    BY <2>1, <2>7, <2>8, <2>9, <2>10, <2>11 DEF BaseInv, IdleInv
  <2>13. /\ Len(w'.into_types) = L + 1 /\ w'.into_types[L + 1] = type
         /\ \A k \in 1 .. L : w'.into_types[k] = w.into_types[k]
    BY <2>5, <2>7, AppendProperties DEF L
  <2>14. ASSUME NEW p \in Positions
         PROVE  (p < L + 1 /\ w'.into_types[p + 1] = "blob") <=> (p < L /\ w.into_types[p + 1] = "blob")
    <3>1. p \in Nat
      BY Constants DEF Positions
    <3>2. CASE p = L
      BY <1>1, <2>5, <2>13, <3>2
    <3>3. CASE p # L
      <4>1. (p < L + 1 <=> p < L) /\ (p < L => p + 1 \in 1 .. L)
        BY <2>5, <3>1, <3>3
      <4> QED
        BY <2>13, <4>1
    <3> QED
      BY <3>2, <3>3
  <2>15. ASSUME BlobInv(w, blobs)
         PROVE  BlobInv(w', blobs')
    <3>1. \A p \in Positions, c \in Blobs : IntoHolds(w', p, c) <=> IntoHolds(w, p, c)
      BY <2>7, <2>13, <2>14 DEF IntoHolds, L
    <3>2. \A n \in Names, c \in Blobs : /\ UseHolds(w', n, c) <=> UseHolds(w, n, c)
                                        /\ UseBorrows(w', n, c) <=> UseBorrows(w, n, c)
      BY <2>7 DEF SameUse, UseHolds, UseBorrows
    <3>3. BlobCells(w')
      BY <2>7, <2>15 DEF BlobCells, BlobInv, SameUse
    <3>4. BlobInv(w', blobs)
      BY <2>15, <3>1, <3>2, <3>3, BlobSame
    <3> QED
      BY <2>1, <3>4
  <2>16. BlobsMade(w) => BlobsMade(w')
    BY <2>7, <2>13, <2>14 DEF BlobsMade, SameUse, L
  <2> QED
    BY <2>10, <2>12, <2>15, <2>16 DEF Kept
<1> QED
  BY <1>2, <1>3

\* std::vector::resize() keeps what fits and fills the rest.
IsResized(t, s, n, fill) ==
    /\ Len(t) = n
    /\ \A k \in 1 .. n : t[k] = IF k <= Len(s) THEN s[k] ELSE fill

LEMMA ResizedIs ==
    ASSUME NEW S, NEW s \in Seq(S), NEW n \in Nat, NEW fill \in S
    PROVE  Resized(s, n, fill) \in Seq(S) /\ IsResized(Resized(s, n, fill), s, n, fill)
<1> DEFINE t == [k \in 1 .. n |-> IF k <= Len(s) THEN s[k] ELSE fill]
<1>1. \A k \in 1 .. n : k <= Len(s) => s[k] \in S
  BY ElementOfSeq, LenProperties
<1>2. t \in [1 .. n -> S]
  BY <1>1
<1>3. t \in Seq(S)
  BY <1>2, SeqDef
<1>4. Len(t) = n
  BY <1>2, <1>3, LenProperties
<1> QED
  BY <1>3, <1>4 DEF Resized, IsResized

\* u is v with all its vectors resized.
IntoResized(v, u, size) ==
    /\ u \in WrapperType /\ (u.alive <=> v.alive)
    /\ u.into_kind = v.into_kind /\ u.into_types = v.into_types
    /\ u.into_indicators = v.into_indicators /\ u.into = v.into
    /\ u.into_indicators_v = [k \in DOMAIN v.into_indicators_v |->
                                 Resized(v.into_indicators_v[k], size, "ok")]
    /\ u.into_v = [p \in Positions |-> IF p >= 0 /\ p < Len(v.into_types)
                                       THEN Resized(v.into_v[p], size, "zero") ELSE v.into_v[p]]
    /\ SameUse(v, u) /\ SameBound(v, u)

LEMMA IntoResizeFields ==
    ASSUME w \in WrapperType, NEW size \in Nat,
           w' = [w EXCEPT
                    !.ok = TRUE,
                    !.into_indicators_v = [k \in DOMAIN @ |-> Resized(@[k], size, "ok")],
                    !.into_v = [p \in Positions |->
                                   IF ValidPosition(p) THEN Resized(@[p], size, "zero") ELSE @[p]]]
    PROVE  IntoResized(w, w', size)
<1> DEFINE v == w
           u == w'
           I == v.into_indicators_v
           V == v.into_v
           A == [k \in DOMAIN I |-> Resized(I[k], size, "ok")]
           B == [p \in Positions |-> IF p >= 0 /\ p < Len(v.into_types)
                                     THEN Resized(V[p], size, "zero") ELSE V[p]]
<1>1. v \in WrapperType /\ I \in Seq(Seq(Indicators)) /\ V \in [Positions -> Seq(Cells)]
  BY DEF WrapperType
<1>2. u = [v EXCEPT !.ok = TRUE, !.into_indicators_v = A, !.into_v = B]
  BY DEF ValidPosition, next_position
<1>3. A \in Seq(Seq(Indicators))
  <2>1. DOMAIN I = 1 .. Len(I) /\ Len(I) \in Nat
    BY <1>1, LenProperties
  <2>2. \A k \in 1 .. Len(I) : I[k] \in Seq(Indicators)
    BY <1>1, ElementOfSeq
  <2> HIDE DEF I
  <2>3. \A k \in 1 .. Len(I) : Resized(I[k], size, "ok") \in Seq(Indicators)
    BY <2>2, ResizedIs DEF Indicators
  <2> QED
    BY <2>1, <2>3, SeqDef
<1>4. B \in [Positions -> Seq(Cells)]
  <2> HIDE DEF V
  <2>1. \A p \in Positions : Resized(V[p], size, "zero") \in Seq(Cells)
    BY <1>1, ResizedIs DEF Cells
  <2> QED
    BY <1>1, <2>1
<1> HIDE DEF A, B, u, v
<1>5. u \in WrapperType /\ u.into_indicators_v = A /\ u.into_v = B
  BY <1>1, <1>2, <1>3, <1>4 DEF WrapperType
<1>6. /\ (u.alive <=> v.alive) /\ u.into_kind = v.into_kind /\ u.into_types = v.into_types
      /\ u.into_indicators = v.into_indicators /\ u.into = v.into
      /\ SameUse(v, u) /\ SameBound(v, u)
  BY <1>1, <1>2 DEF WrapperType, SameUse, SameBound, SameCounts
<1> QED
  BY <1>5, <1>6 DEF IntoResized, A, B, u, v

\* Vectors that are the rows of a column still are, with as many empty rows as were added.
LEMMA ColumnResized ==
    ASSUME NEW c \in Seq(Cells), NEW d \in Seq(Indicators), NEW e \in Seq(Fetched \cup {"zero"}),
           NEW size \in Nat, IsColumn(c, d, e)
    PROVE  /\ IsColumn(Resized(c, size, "zero"), Resized(d, size, "ok"), Resized(e, size, "zero"))
           /\ Len(Resized(e, size, "zero")) = size
<1> DEFINE C == Resized(c, size, "zero")
           D == Resized(d, size, "ok")
           E == Resized(e, size, "zero")
<1>0. "zero" \in Cells /\ "ok" \in Indicators /\ "zero" \in Fetched \cup {"zero"}
  BY DEF Cells, Indicators
<1>1. IsResized(C, c, size, "zero")
  BY <1>0, ResizedIs
<1>2. IsResized(D, d, size, "ok")
  BY <1>0, ResizedIs
<1>3. IsResized(E, e, size, "zero")
  BY <1>0, ResizedIs
<1> HIDE DEF C, D, E
<1>4. ASSUME NEW i \in 1 .. size
      PROVE  (D[i] = "null" <=> E[i] = "NULL") /\ (E[i] # "NULL" => C[i] = E[i])
  <2>1. Len(e) \in Nat
    OBVIOUS
  <2>2. CASE i <= Len(e)
    <3>1. C[i] = c[i] /\ D[i] = d[i] /\ E[i] = e[i] /\ i \in 1 .. Len(e)
      BY <1>1, <1>2, <1>3, <2>1, <2>2 DEF IsResized, IsColumn
    <3> QED
      BY <3>1 DEF IsColumn
  <2>3. CASE ~ (i <= Len(e))
    BY <1>1, <1>2, <1>3, <2>3 DEF IsResized, IsColumn
  <2> QED
    BY <2>2, <2>3
<1> QED
  BY <1>1, <1>2, <1>3, <1>4 DEF C, D, E, IsResized, IsColumn

LEMMA IntoResizedRows ==
    ASSUME NEW v \in WrapperType, NEW u, NEW r \in [Positions -> Seq(Fetched \cup {"zero"})],
           NEW s, NEW size \in Nat, size <= MaxVector, IntoInv(v, r), v.into_kind = "bulk",
           IntoResized(v, u, size),
           s = [p \in Positions |-> IF p >= 0 /\ p < Len(v.into_types)
                                    THEN Resized(r[p], size, "zero") ELSE r[p]]
    PROVE  IntoInv(u, s)
<1> DEFINE L == Len(v.into_types)
           I == v.into_indicators_v
<1>1. /\ v.into_types \in Seq(Types) /\ I \in Seq(Seq(Indicators)) /\ L \in Nat
      /\ v.into_v \in [Positions -> Seq(Cells)]
  BY DEF WrapperType
<1>2. \A p \in Positions : p \in Int /\ p >= 0
  BY Constants DEF Positions
<1>3. Len(I) = L /\ DOMAIN I = 1 .. L
  BY <1>1, LenProperties DEF IntoInv, IntoShape
<1>4. /\ u.into_kind = "bulk" /\ u.into_types = v.into_types /\ u.into_indicators = v.into_indicators
      /\ u.into = v.into
      /\ u.into_indicators_v = [k \in 1 .. L |-> Resized(I[k], size, "ok")]
      /\ \A p \in Positions : u.into_v[p] = IF p < L THEN Resized(v.into_v[p], size, "zero")
                                            ELSE v.into_v[p]
      /\ \A p \in Positions : s[p] = IF p < L THEN Resized(r[p], size, "zero") ELSE r[p]
  BY <1>2, <1>3 DEF IntoResized
<1>5. Len(u.into_indicators_v) = L
  <2>1. u.into_indicators_v \in Seq(Seq(Indicators))
    BY DEF IntoResized, WrapperType
  <2> QED
    BY <1>1, <1>4, <2>1, LenProperties
<1>6. IntoShape(u)
  BY <1>3, <1>4, <1>5 DEF IntoShape, IntoInv
<1>7. BulkRows(u, s)
  <2> SUFFICES ASSUME NEW p \in Positions, p < L
               PROVE  /\ v.into_types[p + 1] # "blob"
                      /\ IsColumn(u.into_v[p], u.into_indicators_v[p + 1], s[p])
                      /\ Len(s[p]) <= MaxVector
    BY <1>4 DEF BulkRows
  <2> DEFINE c == v.into_v[p]
             d == I[p + 1]
             e == r[p]
  <2>1. p + 1 \in 1 .. L
    BY <1>1, <1>2
  <2>2. c \in Seq(Cells) /\ d \in Seq(Indicators) /\ e \in Seq(Fetched \cup {"zero"})
    BY <1>1, <1>3, <2>1, ElementOfSeq
  <2>3. v.into_types[p + 1] # "blob" /\ IsColumn(c, d, e)
    BY DEF IntoInv, BulkRows
  <2>4. /\ u.into_v[p] = Resized(c, size, "zero") /\ s[p] = Resized(e, size, "zero")
        /\ u.into_indicators_v[p + 1] = Resized(d, size, "ok")
    BY <1>4, <2>1
  <2> HIDE DEF c, d, e
  <2>5. /\ IsColumn(Resized(c, size, "zero"), Resized(d, size, "ok"), Resized(e, size, "zero"))
        /\ Len(Resized(e, size, "zero")) = size
    BY <2>2, <2>3, ColumnResized
  <2> QED
    BY <2>3, <2>4, <2>5
<1>8. Untouched(u, s)
  <2>1. \A p \in Positions : p >= L => ~ (p < L)
    BY <1>1, <1>2
  <2> QED
    BY <1>4, <2>1 DEF Untouched, IntoInv
<1> QED
  BY <1>4, <1>6, <1>7, <1>8 DEF IntoInv, SingleRows

LEMMA IntoResizeKept ==
    ASSUME BaseInv, NEW size \in 0 .. MaxVector, soci_into_resize_v(size)
    PROVE  Kept
<1>1. w.alive /\ size \in Nat /\ size <= MaxVector
  BY Constants DEF soci_into_resize_v
<1>2. CASE size <= 0 \/ w.into_kind # "bulk"
  BY <1>1, <1>2, RefusedKept DEF soci_into_resize_v
<1>3. CASE ~ (size <= 0 \/ w.into_kind # "bulk")
  <2>1. /\ w' = [w EXCEPT
                    !.ok = TRUE,
                    !.into_indicators_v = [k \in DOMAIN @ |-> Resized(@[k], size, "ok")],
                    !.into_v = [p \in Positions |->
                                   IF ValidPosition(p) THEN Resized(@[p], size, "zero") ELSE @[p]]]
        /\ row' = [p \in Positions |-> IF p >= 0 /\ p < Len(w.into_types)
                                       THEN Resized(row[p], size, "zero") ELSE row[p]]
        /\ UNCHANGED <<blobs, given, ub>>
    BY <1>3 DEF soci_into_resize_v, ValidPosition, next_position
  <2>2. TypeOK /\ IntoInv(w, row) /\ UseInv(w, given) /\ BoundInv(w)
    BY DEF BaseInv
  <2>3. w \in WrapperType /\ row \in [Positions -> Seq(Fetched \cup {"zero"})]
    BY <2>2 DEF TypeOK
  <2>4. IntoResized(w, w', size)
    BY <1>1, <2>1, <2>3, IntoResizeFields
  <2>5. IntoInv(w', row')
    BY <1>1, <1>3, <2>1, <2>2, <2>3, <2>4, IntoResizedRows
  <2>6. /\ w' \in WrapperType /\ w'.alive /\ w'.into_kind = w.into_kind
        /\ w'.into_types = w.into_types /\ w'.into = w.into
        /\ SameUse(w, w') /\ SameBound(w, w')
    BY <1>1, <2>4 DEF IntoResized
  <2>7. UseInv(w', given') /\ BoundInv(w')
    BY <2>1, <2>2, <2>6, UseFrame, BoundFrame DEF SameUse
  <2>8. row' \in [Positions -> Seq(Fetched \cup {"zero"})]
    <3>1. \A p \in Positions : Resized(row[p], size, "zero") \in Seq(Fetched \cup {"zero"})
      BY <1>1, <2>3, ResizedIs
    <3> QED
      BY <2>1, <2>3, <3>1
  <2>9. TypeOK'
    BY <2>1, <2>2, <2>6, <2>8 DEF TypeOK
  <2>10. BaseInv'
    BY <2>5, <2>6, <2>7, <2>9 DEF BaseInv, IdleInv
  <2>11. BlobInv(w, blobs) => BlobInv(w', blobs')
    BY <2>1, <2>6, BlobFrame DEF SameUse
  <2>12. /\ BoundBlobs(w) => BoundBlobs(w')
         /\ BlobsMade(w) => BlobsMade(w')
    BY <2>6, BoundBlobsFrame, MadeFrame DEF SameUse, SameBound, SameCounts
  <2> QED
    BY <2>10, <2>11, <2>12 DEF Kept
<1> QED
  BY <1>2, <1>3

-------------------------------------------------------------------------------
(* Use elements                                                            *)

\* u is v with a single use element set to this.
SingleSet(v, u, n, type, cell, ind) ==
    /\ u \in WrapperType /\ (u.alive <=> v.alive) /\ SameInto(v, u) /\ SameCounts(v, u)
    /\ u.use_kind = "single" /\ u.use_type = [v.use_type EXCEPT ![n] = type]
    /\ u.use = [v.use EXCEPT ![n] = cell] /\ u.use_indicators = [v.use_indicators EXCEPT ![n] = ind]
    /\ u.use_type_v = v.use_type_v /\ u.use_indicators_v = v.use_indicators_v
    /\ u.use_v = v.use_v

\* Field by field, for use in the steps.
LEMMA SingleSetFields ==
    ASSUME NEW v \in WrapperType, NEW u, NEW n \in Names, NEW type, NEW cell, NEW ind,
           SingleSet(v, u, n, type, cell, ind)
    PROVE  /\ u.use_type[n] = type /\ u.use[n] = cell /\ u.use_indicators[n] = ind
           /\ \A m \in Names : m # n => /\ u.use_type[m] = v.use_type[m] /\ u.use[m] = v.use[m]
                                        /\ u.use_indicators[m] = v.use_indicators[m]
           /\ u.use_kind = "single" /\ u.use_type_v = v.use_type_v
           /\ u.use_indicators_v = v.use_indicators_v /\ u.use_v = v.use_v
BY DEF SingleSet, WrapperType

\* What is given of it is what it is set to.
LEMMA SingleSetUse ==
    ASSUME NEW v \in WrapperType, NEW u, NEW n \in Names, NEW type \in Types, NEW cell,
           NEW ind \in Indicators, NEW g \in [Names -> Seq([value : Cells, state : Indicators])],
           UseInv(v, g), SingleSet(v, u, n, type, cell, ind),
           type = "blob" => cell \in Blobs \cup {"absent"},
           \A m \in Names : v.use_type_v[m] = "absent"
    PROVE  UseInv(u, [g EXCEPT ![n] = << Given(cell, ind) >>])
<1> DEFINE h == [g EXCEPT ![n] = << Given(cell, ind) >>]
<1>1. /\ u.use_type[n] = type /\ u.use[n] = cell /\ u.use_indicators[n] = ind
      /\ \A m \in Names : m # n => /\ u.use_type[m] = v.use_type[m] /\ u.use[m] = v.use[m]
                                   /\ u.use_indicators[m] = v.use_indicators[m]
      /\ u.use_kind = "single" /\ u.use_type_v = v.use_type_v
      /\ u.use_indicators_v = v.use_indicators_v /\ u.use_v = v.use_v
  BY SingleSetFields
<1>2. h[n] = << Given(cell, ind) >> /\ \A m \in Names : m # n => h[m] = g[m]
  OBVIOUS
<1>3. type # "absent" /\ ind # "absent"
  BY DEF Types, Indicators
<1> HIDE DEF h
<1>4. UseShape(u)
  BY <1>1, <1>3 DEF UseInv, UseShape
<1>5. GivenSingle(u, h)
  BY <1>1, <1>2 DEF UseInv, GivenSingle
<1>6. GivenVector(u, h)
  BY <1>1, <1>2, <1>3 DEF UseInv, GivenVector
<1> QED
  BY <1>4, <1>5, <1>6 DEF UseInv, h

LEMMA UseFields ==
    ASSUME w \in WrapperType, NEW n \in Names, NEW type \in Types, NEW cell \in Cells,
           NEW ind \in Indicators,
           w' = [w EXCEPT !.ok = TRUE, !.state = "defining", !.use_kind = "single",
                          !.use_indicators[n] = ind, !.use_type[n] = type, !.use[n] = cell]
    PROVE  SingleSet(w, w', n, type, cell, ind) /\ w'.state = "defining"
<1> DEFINE v == w
           u == w'
<1>1. v \in WrapperType
  OBVIOUS
<1>2. u = [v EXCEPT !.ok = TRUE, !.state = "defining", !.use_kind = "single",
                    !.use_indicators[n] = ind, !.use_type[n] = type, !.use[n] = cell]
  OBVIOUS
<1> HIDE DEF u, v
<1>3. u \in WrapperType
  BY <1>1, <1>2 DEF WrapperType, Kinds
<1>4. /\ (u.alive <=> v.alive) /\ SameInto(v, u) /\ SameCounts(v, u) /\ u.state = "defining"
      /\ u.use_kind = "single" /\ u.use_type = [v.use_type EXCEPT ![n] = type]
      /\ u.use = [v.use EXCEPT ![n] = cell] /\ u.use_indicators = [v.use_indicators EXCEPT ![n] = ind]
      /\ u.use_type_v = v.use_type_v /\ u.use_indicators_v = v.use_indicators_v
      /\ u.use_v = v.use_v
  BY <1>1, <1>2 DEF WrapperType, SameInto, SameCounts
<1> QED
  BY <1>3, <1>4 DEF u, v, SingleSet

\* The two that set the value and the state of an element there is, and the one that sets
\* its state only.
LEMMA SetUseFields ==
    ASSUME w \in WrapperType, NEW n \in Names, NEW cell \in Cells, NEW ind \in Indicators,
           w.use_kind = "single",
           \/ w' = [w EXCEPT !.ok = TRUE, !.use[n] = cell, !.use_indicators[n] = ind]
           \/ w' = [w EXCEPT !.ok = TRUE, !.use_indicators[n] = ind] /\ cell = w.use[n]
    PROVE  SingleSet(w, w', n, w.use_type[n], cell, ind) /\ w'.state = w.state
<1> DEFINE v == w
           u == w'
<1>1. v \in WrapperType /\ v.use_kind = "single"
  OBVIOUS
<1>2. u = [v EXCEPT !.ok = TRUE, !.use[n] = cell, !.use_indicators[n] = ind]
  <2>1. CASE w' = [w EXCEPT !.ok = TRUE, !.use_indicators[n] = ind] /\ cell = w.use[n]
    <3>1. w.use = [w.use EXCEPT ![n] = cell]
      BY <2>1 DEF WrapperType
    <3> QED
      BY <2>1, <3>1 DEF WrapperType
  <2> QED
    BY <2>1
<1> HIDE DEF u, v
<1>3. u \in WrapperType
  BY <1>1, <1>2 DEF WrapperType
<1>4. /\ (u.alive <=> v.alive) /\ SameInto(v, u) /\ SameCounts(v, u) /\ u.state = v.state
      /\ u.use_kind = "single" /\ u.use_type = v.use_type
      /\ u.use = [v.use EXCEPT ![n] = cell] /\ u.use_indicators = [v.use_indicators EXCEPT ![n] = ind]
      /\ u.use_type_v = v.use_type_v /\ u.use_indicators_v = v.use_indicators_v
      /\ u.use_v = v.use_v
  BY <1>1, <1>2 DEF WrapperType, SameInto, SameCounts
<1>5. u.use_type = [v.use_type EXCEPT ![n] = v.use_type[n]]
  BY <1>1, <1>4 DEF WrapperType
<1> QED
  BY <1>3, <1>4, <1>5 DEF u, v, SingleSet

LEMMA SingleStep ==
    ASSUME BaseInv, w.alive, NEW n \in Names, NEW type \in Types, NEW cell \in Cells,
           NEW ind \in Indicators, SingleSet(w, w', n, type, cell, ind),
           type = "blob" => cell \in Blobs \cup {"absent"},
           \A m \in Names : w.use_type_v[m] = "absent",
           given' = [given EXCEPT ![n] = << Given(cell, ind) >>], row' = row,
           ub' \in BOOLEAN, blobs' \in [Blobs -> BlobType], BoundInv(w')
    PROVE  BaseInv'
<1>1. /\ w \in WrapperType /\ given \in [Names -> Seq([value : Cells, state : Indicators])]
      /\ row \in [Positions -> Seq(Fetched \cup {"zero"})]
      /\ IntoInv(w, row) /\ UseInv(w, given)
  BY DEF BaseInv, TypeOK
<1>2. UseInv(w', given')
  <2>1. UseInv(w', [given EXCEPT ![n] = << Given(cell, ind) >>])
    BY <1>1, SingleSetUse
  <2> QED
    BY <2>1
<1>3. IntoInv(w', row')
  BY <1>1, IntoFrame DEF SingleSet
<1>4. given' \in [Names -> Seq([value : Cells, state : Indicators])]
  <2>1. Given(cell, ind) \in [value : Cells, state : Indicators]
    BY DEF Given
  <2> DEFINE S == [value : Cells, state : Indicators]
             x == Given(cell, ind)
  <2>2. << x >> \in Seq(S)
    BY <2>1
  <2> HIDE DEF S, x
  <2>3. [given EXCEPT ![n] = << x >>] \in [Names -> Seq(S)]
    BY <1>1, <2>2 DEF S
  <2> QED
    BY <2>3 DEF S, x
<1>5. w' \in WrapperType /\ w'.alive
  BY DEF SingleSet
<1>6. TypeOK'
  BY <1>1, <1>4, <1>5 DEF TypeOK
<1> QED
  BY <1>2, <1>3, <1>5, <1>6 DEF BaseInv, IdleInv

\* A single element is there only when no vector is.
LEMMA NoVectors ==
    ASSUME BaseInv, w.use_kind # "bulk"
    PROVE  \A m \in Names : w.use_type_v[m] = "absent"
BY DEF BaseInv, UseInv, UseShape

LEMMA UseKept ==
    ASSUME BaseInv, NEW n \in Names, NEW type \in Types, NEW b \in Blobs \cup {"absent"},
           soci_use(n, type, b)
    PROVE  Kept
<1> DEFINE cell == IF type = "blob" THEN b ELSE "zero"
           ind == IF type = "blob" THEN "null" ELSE "ok"
           blocked == cannot_add_elements("single", w.use_kind) \/ name_unique_check_failed(n, "single")
<1>1. w.alive
  BY DEF soci_use
<1>2. CASE blocked
  BY <1>1, <1>2, RefusedKept DEF soci_use
<1>3. CASE ~ blocked
  <2>1. /\ IF type = "blob" THEN CreatedBlob(b) ELSE b = "absent"
        /\ w' = [w EXCEPT !.ok = TRUE, !.state = "defining", !.use_kind = "single",
                          !.use_indicators[n] = ind, !.use_type[n] = type, !.use[n] = cell]
        /\ blobs' = WithBlob(b, "library")
        /\ given' = [given EXCEPT ![n] = << Given(cell, ind) >>]
        /\ UNCHANGED <<row, ub>>
    BY <1>3 DEF soci_use, IsGiven
  <2>2. w.state # "executing" /\ w.use_kind # "bulk" /\ w.use_indicators[n] = "absent"
    BY <1>3 DEF cannot_add_elements, name_unique_check_failed
  <2>3. w \in WrapperType /\ blobs \in [Blobs -> BlobType] /\ ub \in BOOLEAN /\ BoundInv(w)
    BY DEF BaseInv, TypeOK
  <2>4. w.use_type[n] = "absent"
    BY <2>2 DEF BaseInv, UseInv, UseShape
  <2>5. cell \in Cells /\ ind \in Indicators
    BY DEF Cells, Indicators
  <2>6. /\ b \in Blobs => blobs[b] = "none"
        /\ type # "blob" => b = "absent"
        /\ b = "absent" /\ type = "blob" => "blobFails" \in Habits
    BY <2>1, Constants DEF CreatedBlob
  <2>c. (type = "blob" => cell = b /\ ind = "null") /\ (type # "blob" => cell = "zero")
    OBVIOUS
  <2> HIDE DEF cell, ind
  <2>7. SingleSet(w, w', n, type, cell, ind) /\ w'.state = "defining"
    BY <2>1, <2>3, <2>5, UseFields
  <2>8. BoundInv(w') /\ (BoundBlobs(w) => BoundBlobs(w'))
    BY <2>2, <2>3, <2>7, BoundDefining DEF SingleSet
  <2>9. blobs' \in [Blobs -> BlobType]
    BY <2>1, <2>3 DEF WithBlob, BlobType
  <2>10. BaseInv'
    BY <1>1, <2>1, <2>2, <2>3, <2>5, <2>7, <2>8, <2>9, <2>c, NoVectors, SingleStep
  <2>11. /\ w'.use_type[n] = type /\ w'.use[n] = cell /\ w'.use_indicators[n] = ind
         /\ \A m \in Names : m # n => /\ w'.use_type[m] = w.use_type[m] /\ w'.use[m] = w.use[m]
                                      /\ w'.use_indicators[m] = w.use_indicators[m]
    BY <2>3, <2>7, SingleSetFields
  <2>12. w'.into_kind = w.into_kind /\ w'.into_types = w.into_types /\ w'.into = w.into
    BY <2>7 DEF SingleSet, SameInto
  <2>13. ASSUME BlobInv(w, blobs)
         PROVE  BlobInv(w', blobs')
    <3>1. \A m \in Names, c \in Blobs :
            /\ UseHolds(w', m, c) <=> UseHolds(w, m, c) \/ (m = n /\ type = "blob" /\ c = b)
            /\ UseBorrows(w', m, c) <=> UseBorrows(w, m, c)
      BY <2>4, <2>11, <2>c DEF UseHolds, UseBorrows
    <3>2. \A p \in Positions, c \in Blobs : IntoHolds(w', p, c) <=> IntoHolds(w, p, c)
      BY <2>12 DEF IntoHolds
    <3>3. BlobCells(w')
      BY <2>11, <2>12, <2>13, <2>c DEF BlobInv, BlobCells
    <3>4. CASE b = "absent"
      <4>1. b \notin Blobs
        BY <3>4, Constants
      <4>2. BlobInv(w', blobs)
        BY <2>13, <3>1, <3>2, <3>3, <4>1, BlobSame
      <4> QED
        BY <2>1, <3>4, <4>2 DEF WithBlob
    <3>5. CASE b # "absent"
      <4>1. b \in Blobs /\ blobs[b] = "none" /\ type = "blob"
        BY <2>6, <3>5
      <4>2. blobs'[b] = "library" /\ \A c \in Blobs : c # b => blobs'[c] = blobs[c]
        BY <2>1, <2>3, <3>5, <4>1 DEF WithBlob
      <4>3. /\ \A p \in Positions : ~ IntoHolds(w, p, b)
            /\ \A m \in Names : ~ UseHolds(w, m, b) /\ ~ UseBorrows(w, m, b)
        BY <2>13, <4>1 DEF BlobInv
      <4>4. OneHolder(w', b) /\ \A m \in Names : ~ UseBorrows(w', m, b)
        BY <3>1, <3>2, <4>1, <4>3 DEF OneHolder
      <4>5. \E m \in Names : UseHolds(w', m, b)
        BY <3>1, <4>1
      <4> QED
        BY <2>13, <3>1, <3>2, <3>3, <4>1, <4>2, <4>4, <4>5, BlobGained
    <3> QED
      BY <3>4, <3>5
  <2>14. ASSUME "blobFails" \notin Habits, BlobsMade(w)
         PROVE  BlobsMade(w')
    BY <2>6, <2>11, <2>12, <2>14, <2>c DEF BlobsMade
  <2> QED
    BY <2>8, <2>10, <2>13, <2>14 DEF Kept
<1> QED
  BY <1>2, <1>3

LEMMA SetUseStateKept ==
    ASSUME BaseInv, NEW n \in Names, NEW state \in Indicators, soci_set_use_state(n, state)
    PROVE  Kept
<1>1. w.alive /\ (w.use_type[n] = "blob" => "blobState" \in Habits)
  BY DEF soci_set_use_state
<1>2. CASE w.use_indicators[n] = "absent"
  BY <1>1, <1>2, RefusedKept DEF soci_set_use_state
<1>3. CASE w.use_indicators[n] # "absent"
  <2> DEFINE cell == w.use[n]
             type == w.use_type[n]
  <2>1. /\ w' = [w EXCEPT !.ok = TRUE, !.use_indicators[n] = state]
        /\ given' = [given EXCEPT ![n] = << Given(given[n][1].value, state) >>]
        /\ UNCHANGED <<blobs, row, ub>>
    BY <1>3 DEF soci_set_use_state, IsGiven
  <2>2. w \in WrapperType /\ blobs \in [Blobs -> BlobType] /\ ub \in BOOLEAN /\ BoundInv(w)
    BY DEF BaseInv, TypeOK
  <2>3. type # "absent" /\ w.use_kind = "single"
    BY <1>3 DEF BaseInv, UseInv, UseShape
  <2>4. type \in Types /\ cell \in Cells /\ (type = "blob" => cell \in Blobs \cup {"absent"})
    BY <2>2, <2>3 DEF WrapperType, BaseInv, UseInv, UseShape
  <2>5. given[n][1].value = cell
    <3>1. given[n] = << Given(w.use[n], w.use_indicators[n]) >>
      BY <2>3 DEF BaseInv, UseInv, GivenSingle
    <3> QED
      BY <3>1 DEF Given
  <2>6. SingleSet(w, w', n, type, cell, state) /\ w'.state = w.state
    BY <2>1, <2>2, <2>3, <2>4, SetUseFields
  <2> HIDE DEF cell, type
  <2>7. w'.use_type = w.use_type /\ w'.use_type_v = w.use_type_v /\ w'.use = w.use
    BY <2>2, <2>6 DEF SingleSet, WrapperType, cell, type
  <2>8. SameBound(w, w')
    BY <2>6 DEF SameBound, SingleSet
  <2>9. BoundInv(w')
    BY <2>2, <2>7, <2>8, BoundFrame
  <2>10. BaseInv'
    BY <1>1, <2>1, <2>2, <2>3, <2>4, <2>5, <2>6, <2>9, NoVectors, SingleStep
  <2>11. w'.into_kind = w.into_kind /\ w'.into_types = w.into_types /\ w'.into = w.into
    BY <2>6 DEF SingleSet, SameInto
  <2>12. /\ BoundBlobs(w) => BoundBlobs(w')
         /\ BlobsMade(w) => BlobsMade(w')
    BY <2>7, <2>8, <2>11, BoundBlobsFrame, MadeFrame DEF SameBound, SameCounts
  <2>13. ASSUME "blobState" \notin Habits, BlobInv(w, blobs)
         PROVE  BlobInv(w', blobs')
    <3>1. w.use_type[n] # "blob"
      BY <1>1, <2>13
    <3>2. \A m \in Names : m # n => w'.use_indicators[m] = w.use_indicators[m]
      BY <2>2, <2>6 DEF SingleSet, WrapperType
    <3>3. \A m \in Names, c \in Blobs : /\ UseHolds(w', m, c) <=> UseHolds(w, m, c)
                                        /\ UseBorrows(w', m, c) <=> UseBorrows(w, m, c)
      BY <2>7, <3>1, <3>2 DEF UseHolds, UseBorrows
    <3>4. \A p \in Positions, c \in Blobs : IntoHolds(w', p, c) <=> IntoHolds(w, p, c)
      BY <2>11 DEF IntoHolds
    <3>5. BlobCells(w')
      BY <2>7, <2>11, <2>13 DEF BlobInv, BlobCells
    <3>6. BlobInv(w', blobs)
      BY <2>13, <3>3, <3>4, <3>5, BlobSame
    <3> QED
      BY <2>1, <3>6
  <2> QED
    BY <2>10, <2>12, <2>13 DEF Kept
<1> QED
  BY <1>2, <1>3

LEMMA SetUseKept ==
    ASSUME BaseInv, NEW n \in Names, NEW type \in Types, NEW value \in Values,
           NEW converts \in BOOLEAN, soci_set_use(n, type, value, converts)
    PROVE  Kept
<1> DEFINE blocked == name_exists_check_failed(n, type, "single") \/ ~ converts
<1>1. w.alive /\ type # "blob"
  BY DEF soci_set_use
<1>2. CASE blocked
  BY <1>1, <1>2, RefusedKept DEF soci_set_use
<1>3. CASE ~ blocked
  <2>1. /\ w' = [w EXCEPT !.ok = TRUE, !.use[n] = value, !.use_indicators[n] = "ok"]
        /\ given' = [given EXCEPT ![n] = << Given(value, "ok") >>]
        /\ UNCHANGED <<blobs, row, ub>>
    BY <1>3 DEF soci_set_use, IsGiven
  <2>2. w \in WrapperType /\ blobs \in [Blobs -> BlobType] /\ ub \in BOOLEAN /\ BoundInv(w)
    BY DEF BaseInv, TypeOK
  <2>3. w.use_type[n] = type /\ type # "absent"
    BY <1>3 DEF name_exists_check_failed, UseExists, Types
  <2>4. w.use_kind = "single"
    BY <2>3 DEF BaseInv, UseInv, UseShape
  <2>5. value \in Cells /\ "ok" \in Indicators
    BY DEF Cells, Indicators
  <2>6. SingleSet(w, w', n, w.use_type[n], value, "ok") /\ w'.state = w.state
    BY <2>1, <2>2, <2>4, <2>5, SetUseFields
  <2>7. /\ w'.use_type = w.use_type /\ w'.use_type_v = w.use_type_v
        /\ \A m \in Names : m # n => /\ w'.use[m] = w.use[m]
                                     /\ w'.use_indicators[m] = w.use_indicators[m]
    BY <2>2, <2>6 DEF SingleSet, WrapperType
  <2>8. SameBound(w, w')
    BY <2>6 DEF SameBound, SingleSet
  <2>9. BoundInv(w')
    BY <2>2, <2>7, <2>8, BoundFrame
  <2>10. BaseInv'
    BY <1>1, <2>1, <2>2, <2>3, <2>4, <2>5, <2>6, <2>9, NoVectors, SingleStep
  <2>11. w'.into_kind = w.into_kind /\ w'.into_types = w.into_types /\ w'.into = w.into
    BY <2>6 DEF SingleSet, SameInto
  <2>12. /\ BoundBlobs(w) => BoundBlobs(w')
         /\ BlobsMade(w) => BlobsMade(w')
    BY <1>1, <2>3, <2>7, <2>8, <2>11 DEF BoundBlobs, BlobsMade, SameBound, SameCounts
  <2>13. ASSUME BlobInv(w, blobs)
         PROVE  BlobInv(w', blobs')
    <3>1. \A m \in Names, c \in Blobs : /\ UseHolds(w', m, c) <=> UseHolds(w, m, c)
                                        /\ UseBorrows(w', m, c) <=> UseBorrows(w, m, c)
      BY <1>1, <2>3, <2>7 DEF UseHolds, UseBorrows
    <3>2. \A p \in Positions, c \in Blobs : IntoHolds(w', p, c) <=> IntoHolds(w, p, c)
      BY <2>11 DEF IntoHolds
    <3>3. BlobCells(w')
      BY <1>1, <2>3, <2>7, <2>11, <2>13 DEF BlobInv, BlobCells
    <3>4. BlobInv(w', blobs)
      BY <2>13, <3>1, <3>2, <3>3, BlobSame
    <3> QED
      BY <2>1, <3>4
  <2> QED
    BY <2>10, <2>12, <2>13 DEF Kept
<1> QED
  BY <1>2, <1>3

LEMMA SetUseBlobKept ==
    ASSUME BaseInv, NEW n \in Names, NEW b \in Blobs, soci_set_use_blob(n, b)
    PROVE  Kept
<1>1. /\ w.alive /\ blobs[b] = "user"
      /\ w.state = "executing" => "blobLate" \in Habits
  BY DEF soci_set_use_blob
<1>2. CASE name_exists_check_failed(n, "blob", "single")
  BY <1>1, <1>2, RefusedKept DEF soci_set_use_blob
<1>3. CASE ~ name_exists_check_failed(n, "blob", "single")
  <2>1. /\ w' = [w EXCEPT !.ok = TRUE, !.use[n] = b, !.use_indicators[n] = "ok"]
        /\ blobs' = Deleted(OwnedBy(n)) /\ ub' = (ub \/ DeletedTwice(OwnedBy(n)))
        /\ given' = [given EXCEPT ![n] = << Given(b, "ok") >>]
        /\ row' = row
    BY <1>3 DEF soci_set_use_blob, IsGiven
  <2>2. w \in WrapperType /\ blobs \in [Blobs -> BlobType] /\ ub \in BOOLEAN /\ BoundInv(w)
    BY DEF BaseInv, TypeOK
  <2>3. w.use_type[n] = "blob"
    BY <1>3 DEF name_exists_check_failed, UseExists
  <2>4. w.use_kind = "single"
    BY <2>3 DEF BaseInv, UseInv, UseShape
  <2>5. b \in Cells /\ "ok" \in Indicators /\ "blob" \in Types
    BY DEF Cells, Indicators, Types
  <2>6. SingleSet(w, w', n, w.use_type[n], b, "ok") /\ w'.state = w.state
    BY <2>1, <2>2, <2>4, <2>5, SetUseFields
  <2>7. /\ w'.use_type = w.use_type /\ w'.use_type_v = w.use_type_v
        /\ w'.use[n] = b /\ w'.use_indicators[n] = "ok"
        /\ \A m \in Names : m # n => /\ w'.use[m] = w.use[m]
                                     /\ w'.use_indicators[m] = w.use_indicators[m]
    BY <2>2, <2>6 DEF SingleSet, WrapperType
  <2>8. SameBound(w, w')
    BY <2>6 DEF SameBound, SingleSet
  <2>9. BoundInv(w')
    BY <2>2, <2>7, <2>8, BoundFrame
  <2>10. ub' \in BOOLEAN
    BY <2>1
  <2>11. blobs' \in [Blobs -> BlobType]
    BY <2>1, <2>2 DEF Deleted, BlobType
  <2>12. BaseInv'
    BY <1>1, <2>1, <2>3, <2>4, <2>5, <2>6, <2>9, <2>10, <2>11, NoVectors, SingleStep
  <2>13. w'.into_kind = w.into_kind /\ w'.into_types = w.into_types /\ w'.into = w.into
    BY <2>6 DEF SingleSet, SameInto
  <2>14. "blobLate" \notin Habits /\ BoundBlobs(w) => BoundBlobs(w')
    BY <1>1, <2>8 DEF BoundBlobs, SameBound, SameCounts
  <2>15. BlobsMade(w) => BlobsMade(w')
    BY <2>7, <2>13, Constants DEF BlobsMade
  <2>16. ASSUME BlobInv(w, blobs)
         PROVE  BlobInv(w', blobs')
    <3>1. \A m \in Names, c \in Blobs :
            /\ UseHolds(w', m, c) <=> m # n /\ UseHolds(w, m, c)
            /\ UseBorrows(w', m, c) <=> (m = n /\ c = b) \/ (m # n /\ UseBorrows(w, m, c))
      BY <2>3, <2>7 DEF UseHolds, UseBorrows
    <3>2. \A p \in Positions, c \in Blobs : IntoHolds(w', p, c) <=> IntoHolds(w, p, c)
      BY <2>13 DEF IntoHolds
    <3>3. BlobCells(w')
      BY <2>7, <2>13, <2>16 DEF BlobInv, BlobCells
    <3>4. \A c \in Blobs : UseHolds(w, n, c) => blobs[c] = "library"
      BY <2>16 DEF BlobInv
    <3>5. \A c \in Blobs : blobs'[c] = IF UseHolds(w, n, c) THEN "gone" ELSE blobs[c]
      BY <2>1, <3>4, OwnedByHeld DEF Deleted
    <3>6. ASSUME NEW c \in Blobs
          PROVE  /\ blobs'[c] # "stolen"
                 /\ blobs'[c] = "library" <=> \/ \E p \in Positions : IntoHolds(w', p, c)
                                              \/ \E m \in Names : UseHolds(w', m, c)
                 /\ \A m \in Names : UseBorrows(w', m, c) => blobs'[c] = "user"
                 /\ OneHolder(w', c)
      <4>1. /\ blobs[c] # "stolen"
            /\ blobs[c] = "library" <=> \/ \E p \in Positions : IntoHolds(w, p, c)
                                        \/ \E m \in Names : UseHolds(w, m, c)
            /\ \A m \in Names : UseBorrows(w, m, c) => blobs[c] = "user"
            /\ OneHolder(w, c)
        BY <2>16 DEF BlobInv
      <4>2. OneHolder(w', c)
        BY <3>1, <3>2, <4>1 DEF OneHolder
      <4>3. CASE UseHolds(w, n, c)
        <5>1. blobs'[c] = "gone" /\ blobs[c] = "library"
          BY <3>4, <3>5, <4>3
        <5>2. \A p \in Positions : ~ IntoHolds(w', p, c)
          BY <3>2, <4>1, <4>3 DEF OneHolder
        <5>3. \A m \in Names : ~ UseHolds(w', m, c)
          BY <3>1, <4>1, <4>3 DEF OneHolder
        <5>4. \A m \in Names : ~ UseBorrows(w', m, c)
          BY <1>1, <3>1, <4>1, <5>1
        <5> QED
          BY <4>2, <5>1, <5>2, <5>3, <5>4
      <4>4. CASE ~ UseHolds(w, n, c)
        <5>1. blobs'[c] = blobs[c]
          BY <3>5, <4>4
        <5> QED
          BY <1>1, <3>1, <3>2, <4>1, <4>2, <4>4, <5>1
      <4> QED
        BY <4>3, <4>4
    <3> QED
      BY <3>3, <3>6 DEF BlobInv
  <2> QED
    BY <2>12, <2>14, <2>15, <2>16 DEF Kept
<1> QED
  BY <1>2, <1>3

\* u is v with these vectors and indicators of its use elements.
VectorsSet(v, u, values, indicators) ==
    /\ u \in WrapperType /\ (u.alive <=> v.alive) /\ SameInto(v, u) /\ SameCounts(v, u)
    /\ u.use_type = v.use_type /\ u.use = v.use /\ u.use_indicators = v.use_indicators
    /\ u.use_v = values /\ u.use_indicators_v = indicators

\* What is given of the vectors is what they are set to.
VectorsGiven(values, indicators) ==
    /\ VectorsSet(w, w', values, indicators)
    /\ BoundInv(w') /\ (BoundBlobs(w) => BoundBlobs(w'))
    /\ w'.use_kind = "bulk"
    /\ \A m \in Names :
          /\ w.use_type[m] = "absent"
          /\ IsVector(values[m], indicators[m], given'[m])
          /\ w'.use_type_v[m] = "absent" => values[m] = << >> /\ indicators[m] = << >>
    /\ given' \in [Names -> Seq([value : Cells, state : Indicators])]
    /\ UNCHANGED <<blobs, row, ub>>

LEMMA VectorStep ==
    ASSUME BaseInv, w.alive, NEW values, NEW indicators, VectorsGiven(values, indicators)
    PROVE  Kept
<1> USE DEF VectorsGiven
<1>1. TypeOK /\ IntoInv(w, row) /\ UseInv(w, given)
  BY DEF BaseInv
<1>2. TypeOK'
  BY <1>1 DEF TypeOK, VectorsSet
<1>3. IntoInv(w', row') /\ w'.alive
  BY <1>1, IntoFrame DEF VectorsSet
<1>4. UseShape(w')
  BY <1>1 DEF UseInv, UseShape, VectorsSet
<1>5. GivenSingle(w', given') /\ GivenVector(w', given')
  BY DEF GivenSingle, GivenVector, VectorsSet
<1>6. BaseInv'
  BY <1>2, <1>3, <1>4, <1>5 DEF BaseInv, UseInv, IdleInv
<1>7. BlobInv(w, blobs) => BlobInv(w', blobs')
  BY BlobFrame DEF VectorsSet, SameInto
<1>8. BlobsMade(w) => BlobsMade(w')
  BY MadeFrame DEF VectorsSet, SameInto
<1> QED
  BY <1>6, <1>7, <1>8 DEF Kept

\* A vector is there only when no single element is.
LEMMA NoSingles ==
    ASSUME BaseInv, w.use_kind # "single"
    PROVE  \A m \in Names : /\ w.use_type[m] = "absent"
                            /\ IsVector(w.use_v[m], w.use_indicators_v[m], given[m])
                            /\ w.use_type_v[m] = "absent" =>
                                  w.use_v[m] = << >> /\ w.use_indicators_v[m] = << >>
BY DEF BaseInv, UseInv, UseShape, GivenVector

LEMMA UseVKept ==
    ASSUME BaseInv, NEW n \in Names, NEW type \in Types, soci_use_v(n, type)
    PROVE  Kept
<1> DEFINE blocked == cannot_add_elements("bulk", w.use_kind) \/ name_unique_check_failed(n, "bulk")
           v == w
           u == w'
<1>1. w.alive
  BY DEF soci_use_v
<1>2. CASE blocked
  BY <1>1, <1>2, RefusedKept DEF soci_use_v
<1>3. CASE ~ blocked
  <2>1. /\ u = [v EXCEPT !.ok = TRUE, !.state = "defining", !.use_kind = "bulk",
                         !.use_type_v[n] = type]
        /\ UNCHANGED <<blobs, given, row, ub>>
    BY <1>3 DEF soci_use_v, Only
  <2>2. w.state # "executing" /\ w.use_kind # "single"
    BY <1>3 DEF cannot_add_elements
  <2>3. v \in WrapperType /\ BoundInv(w) /\ TypeOK
    BY DEF BaseInv, TypeOK
  <2> HIDE DEF u, v
  <2>4. u \in WrapperType
    BY <2>1, <2>3 DEF WrapperType, Kinds
  <2>5. /\ (u.alive <=> v.alive) /\ SameInto(v, u) /\ SameCounts(v, u)
        /\ u.use_type = v.use_type /\ u.use = v.use /\ u.use_indicators = v.use_indicators
        /\ u.use_v = v.use_v /\ u.use_indicators_v = v.use_indicators_v
        /\ u.use_type_v = [v.use_type_v EXCEPT ![n] = type] /\ u.use_kind = "bulk"
        /\ u.state = "defining"
    BY <2>1, <2>3 DEF WrapperType, SameInto, SameCounts
  <2> USE DEF u, v
  <2>6. VectorsSet(w, w', w.use_v, w.use_indicators_v)
    BY <2>4, <2>5 DEF VectorsSet
  <2>7. BoundInv(w') /\ (BoundBlobs(w) => BoundBlobs(w'))
    BY <2>2, <2>3, <2>5, BoundDefining
  <2>8. \A m \in Names : w'.use_type_v[m] = "absent" => w.use_type_v[m] = "absent"
    BY <2>3, <2>5 DEF WrapperType, Types
  <2>9. given' \in [Names -> Seq([value : Cells, state : Indicators])] /\ given' = given
    BY <2>1, <2>3 DEF TypeOK
  <2>10. VectorsGiven(w.use_v, w.use_indicators_v)
    BY <2>1, <2>2, <2>5, <2>6, <2>7, <2>8, <2>9, NoSingles DEF VectorsGiven
  <2> QED
    BY <1>1, <2>10, VectorStep
<1> QED
  BY <1>2, <1>3

\* One element of a vector is set.
LEMMA VectorElementSet ==
    ASSUME NEW values \in Seq(Cells), NEW indicators \in Seq(Indicators),
           NEW cells \in Seq([value : Cells, state : Indicators]),
           IsVector(values, indicators, cells), NEW k \in 1 .. Len(cells),
           NEW x \in Cells, NEW y \in Indicators
    PROVE  /\ IsVector([values EXCEPT ![k] = x], [indicators EXCEPT ![k] = y],
                       [cells EXCEPT ![k] = Given(x, y)])
           /\ [cells EXCEPT ![k] = Given(x, y)] \in Seq([value : Cells, state : Indicators])
<1> DEFINE V == [values EXCEPT ![k] = x]
           I == [indicators EXCEPT ![k] = y]
           C == [cells EXCEPT ![k] = Given(x, y)]
           S == [value : Cells, state : Indicators]
<1>1. Given(x, y) \in S
  BY DEF Given
<1>2. /\ Len(values) = Len(cells) /\ Len(indicators) = Len(cells) /\ Len(cells) \in Nat
      /\ \A i \in 1 .. Len(cells) : cells[i] = Given(values[i], indicators[i])
  BY DEF IsVector
<1> HIDE DEF S
<1>3. C \in Seq(S) /\ Len(C) = Len(cells)
  BY <1>1, ExceptSeq DEF S
<1>4. Len(V) = Len(cells) /\ Len(I) = Len(cells)
  BY <1>2, ExceptSeq
<1>5. ASSUME NEW i \in 1 .. Len(cells)
      PROVE  C[i] = Given(V[i], I[i])
  <2>1. /\ DOMAIN cells = 1 .. Len(cells) /\ DOMAIN values = 1 .. Len(cells)
        /\ DOMAIN indicators = 1 .. Len(cells)
    BY <1>2, LenProperties
  <2>2. CASE i = k
    BY <2>1, <2>2
  <2>3. CASE i # k
    BY <1>2, <2>1, <2>3
  <2> QED
    BY <2>2, <2>3
<1> QED
  BY <1>3, <1>4, <1>5 DEF IsVector, S

LEMMA SetUseVKept ==
    ASSUME BaseInv, NEW n \in Names, NEW type \in Types, NEW i \in 0 .. MaxVector,
           NEW value \in Values, NEW converts \in BOOLEAN,
           soci_set_use_v(n, type, i, value, converts)
    PROVE  Kept
<1> DEFINE blocked == \/ name_exists_check_failed(n, type, "bulk") \/ ~ ValidIndex(w.use_v[n], i)
                      \/ ~ converts
           k == i + 1
           V == [w.use_v EXCEPT ![n] = [w.use_v[n] EXCEPT ![k] = value]]
           I == [w.use_indicators_v EXCEPT ![n] = [w.use_indicators_v[n] EXCEPT ![k] = "ok"]]
           v == w
           u == w'
           S == [value : Cells, state : Indicators]
<1>1. w.alive
  BY DEF soci_set_use_v
<1>2. CASE blocked
  BY <1>1, <1>2, RefusedKept DEF soci_set_use_v
<1>3. CASE ~ blocked
  <2>1. /\ u = [v EXCEPT !.ok = TRUE, !.use_v[n][k] = value, !.use_indicators_v[n][k] = "ok"]
        /\ given' = [given EXCEPT ![n] = [given[n] EXCEPT ![k] = Given(value, "ok")]]
        /\ UNCHANGED <<blobs, row, ub>>
    BY <1>3 DEF soci_set_use_v, IsGiven
  <2>2. w.use_type_v[n] # "absent" /\ i >= 0 /\ i < Len(w.use_v[n])
    BY <1>3 DEF name_exists_check_failed, UseVectorExists, ValidIndex, Types
  <2>3. v \in WrapperType /\ BoundInv(w) /\ given \in [Names -> Seq(S)]
    BY DEF BaseInv, TypeOK
  <2>4. w.use_kind = "bulk"
    BY <2>2 DEF BaseInv, UseInv, UseShape
  <2>5. \A m \in Names : /\ w.use_type[m] = "absent"
                         /\ IsVector(w.use_v[m], w.use_indicators_v[m], given[m])
                         /\ w.use_type_v[m] = "absent" =>
                               w.use_v[m] = << >> /\ w.use_indicators_v[m] = << >>
    BY <2>4, NoSingles
  <2>6. /\ w.use_v \in [Names -> Seq(Cells)] /\ w.use_indicators_v \in [Names -> Seq(Indicators)]
        /\ w.use_v[n] \in Seq(Cells) /\ w.use_indicators_v[n] \in Seq(Indicators)
        /\ given[n] \in Seq(S)
    BY <2>3 DEF WrapperType
  <2>7. k \in 1 .. Len(given[n]) /\ Len(w.use_v[n]) = Len(given[n])
        /\ Len(w.use_indicators_v[n]) = Len(given[n])
    BY <2>2, <2>5, <2>6 DEF IsVector
  <2>8. value \in Cells /\ "ok" \in Indicators
    BY DEF Cells, Indicators
  <2>9. [w.use_v[n] EXCEPT ![k] = value] \in Seq(Cells)
    BY <2>6, <2>7, <2>8, ExceptSeq
  <2>10. [w.use_indicators_v[n] EXCEPT ![k] = "ok"] \in Seq(Indicators)
    BY <2>6, <2>7, <2>8, ExceptSeq
  <2>11. V \in [Names -> Seq(Cells)] /\ I \in [Names -> Seq(Indicators)]
    BY <2>6, <2>9, <2>10
  <2>12. u = [v EXCEPT !.ok = TRUE, !.use_v = V, !.use_indicators_v = I]
    BY <2>1, <2>3 DEF WrapperType
  <2>13. /\ IsVector(V[n], I[n], given'[n])
         /\ given'[n] \in Seq(S)
         /\ \A m \in Names : m # n => V[m] = w.use_v[m] /\ I[m] = w.use_indicators_v[m]
                                      /\ given'[m] = given[m]
    <3>1. /\ IsVector([w.use_v[n] EXCEPT ![k] = value], [w.use_indicators_v[n] EXCEPT ![k] = "ok"],
                      [given[n] EXCEPT ![k] = Given(value, "ok")])
          /\ [given[n] EXCEPT ![k] = Given(value, "ok")] \in Seq(S)
      BY <2>5, <2>6, <2>7, <2>8, VectorElementSet
    <3> QED
      BY <2>1, <2>3, <2>6, <3>1
  <2> HIDE DEF u, v, V, I, k, S
  <2>14. /\ u \in WrapperType
         /\ u.use_v = V /\ u.use_indicators_v = I
    BY <2>3, <2>11, <2>12 DEF WrapperType
  <2>15. /\ (u.alive <=> v.alive) /\ SameInto(v, u) /\ SameBound(v, u)
         /\ u.use_type = v.use_type /\ u.use = v.use /\ u.use_indicators = v.use_indicators
         /\ u.use_type_v = v.use_type_v /\ u.use_kind = v.use_kind
    BY <2>3, <2>12 DEF WrapperType, SameInto, SameBound, SameCounts
  <2> USE DEF u, v
  <2>16. VectorsSet(w, w', V, I)
    BY <2>14, <2>15 DEF VectorsSet, SameBound
  <2>17. BoundInv(w') /\ (BoundBlobs(w) => BoundBlobs(w'))
    BY <2>3, <2>15, BoundFrame, BoundBlobsFrame DEF SameBound, SameCounts
  <2>18. given' \in [Names -> Seq(S)]
    BY <2>1, <2>3, <2>13
  <2>19. \A m \in Names : /\ IsVector(V[m], I[m], given'[m])
                          /\ w'.use_type_v[m] = "absent" => V[m] = << >> /\ I[m] = << >>
    BY <2>2, <2>5, <2>13, <2>15
  <2>20. VectorsGiven(V, I)
    BY <2>1, <2>4, <2>5, <2>15, <2>16, <2>17, <2>18, <2>19 DEF VectorsGiven, S
  <2> QED
    BY <1>1, <2>20, VectorStep
<1> QED
  BY <1>2, <1>3

LEMMA SetUseStateVKept ==
    ASSUME BaseInv, NEW n \in Names, NEW i \in 0 .. MaxVector, NEW state \in Indicators,
           soci_set_use_state_v(n, i, state)
    PROVE  Kept
<1> DEFINE blocked == w.use_type_v[n] = "absent" \/ ~ ValidIndex(w.use_indicators_v[n], i)
           k == i + 1
           x == w.use_v[n][k]
           I == [w.use_indicators_v EXCEPT ![n] = [w.use_indicators_v[n] EXCEPT ![k] = state]]
           v == w
           u == w'
           S == [value : Cells, state : Indicators]
<1>1. w.alive
  BY DEF soci_set_use_state_v
<1>2. CASE blocked
  BY <1>1, <1>2, RefusedKept DEF soci_set_use_state_v
<1>3. CASE ~ blocked
  <2>1. /\ u = [v EXCEPT !.ok = TRUE, !.use_indicators_v[n][k] = state]
        /\ given' = [given EXCEPT ![n] = [given[n] EXCEPT ![k].state = state]]
        /\ UNCHANGED <<blobs, row, ub>>
    BY <1>3 DEF soci_set_use_state_v, IsGiven
  <2>2. w.use_type_v[n] # "absent" /\ i >= 0 /\ i < Len(w.use_indicators_v[n])
    BY <1>3 DEF ValidIndex
  <2>3. v \in WrapperType /\ BoundInv(w) /\ given \in [Names -> Seq(S)]
    BY DEF BaseInv, TypeOK
  <2>4. w.use_kind = "bulk"
    BY <2>2 DEF BaseInv, UseInv, UseShape
  <2>5. \A m \in Names : /\ w.use_type[m] = "absent"
                         /\ IsVector(w.use_v[m], w.use_indicators_v[m], given[m])
                         /\ w.use_type_v[m] = "absent" =>
                               w.use_v[m] = << >> /\ w.use_indicators_v[m] = << >>
    BY <2>4, NoSingles
  <2>6. /\ w.use_indicators_v \in [Names -> Seq(Indicators)]
        /\ w.use_v[n] \in Seq(Cells) /\ w.use_indicators_v[n] \in Seq(Indicators)
        /\ given[n] \in Seq(S)
    BY <2>3 DEF WrapperType
  <2>7. /\ k \in 1 .. Len(given[n]) /\ Len(w.use_v[n]) = Len(given[n])
        /\ Len(w.use_indicators_v[n]) = Len(given[n])
        /\ given[n][k] = Given(x, w.use_indicators_v[n][k])
    BY <2>2, <2>5, <2>6 DEF IsVector
  <2>8. x \in Cells
    BY <2>6, <2>7, ElementOfSeq
  <2>9. [w.use_indicators_v[n] EXCEPT ![k] = state] \in Seq(Indicators)
    BY <2>6, <2>7, ExceptSeq
  <2>10. I \in [Names -> Seq(Indicators)]
    BY <2>6, <2>9
  <2>11. u = [v EXCEPT !.ok = TRUE, !.use_indicators_v = I]
    BY <2>1, <2>3 DEF WrapperType
  <2>12. [given[n] EXCEPT ![k].state = state] = [given[n] EXCEPT ![k] = Given(x, state)]
    BY <2>7 DEF Given
  <2>13. [w.use_v[n] EXCEPT ![k] = x] = w.use_v[n]
    BY <2>6, <2>7, LenProperties
  <2>14. /\ IsVector(w.use_v[n], I[n], given'[n]) /\ given'[n] \in Seq(S)
         /\ \A m \in Names : m # n => I[m] = w.use_indicators_v[m] /\ given'[m] = given[m]
    <3>1. /\ IsVector([w.use_v[n] EXCEPT ![k] = x], [w.use_indicators_v[n] EXCEPT ![k] = state],
                      [given[n] EXCEPT ![k] = Given(x, state)])
          /\ [given[n] EXCEPT ![k] = Given(x, state)] \in Seq(S)
      BY <2>5, <2>6, <2>7, <2>8, VectorElementSet
    <3> QED
      BY <2>1, <2>3, <2>6, <2>12, <2>13, <3>1
  <2> HIDE DEF u, v, I, k, x, S
  <2>15. u \in WrapperType /\ u.use_indicators_v = I /\ u.use_v = v.use_v
    BY <2>3, <2>10, <2>11 DEF WrapperType
  <2>16. /\ (u.alive <=> v.alive) /\ SameInto(v, u) /\ SameBound(v, u)
         /\ u.use_type = v.use_type /\ u.use = v.use /\ u.use_indicators = v.use_indicators
         /\ u.use_type_v = v.use_type_v /\ u.use_kind = v.use_kind
    BY <2>3, <2>11 DEF WrapperType, SameInto, SameBound, SameCounts
  <2> USE DEF u, v
  <2>17. VectorsSet(w, w', w.use_v, I)
    BY <2>15, <2>16 DEF VectorsSet, SameBound
  <2>18. BoundInv(w') /\ (BoundBlobs(w) => BoundBlobs(w'))
    BY <2>3, <2>16, BoundFrame, BoundBlobsFrame DEF SameBound, SameCounts
  <2>19. given' \in [Names -> Seq(S)]
    BY <2>1, <2>3, <2>14
  <2>20. \A m \in Names : /\ IsVector(w.use_v[m], I[m], given'[m])
                          /\ w'.use_type_v[m] = "absent" => w.use_v[m] = << >> /\ I[m] = << >>
    BY <2>2, <2>5, <2>14, <2>16
  <2>21. VectorsGiven(w.use_v, I)
    BY <2>1, <2>4, <2>5, <2>16, <2>17, <2>18, <2>19, <2>20 DEF VectorsGiven, S
  <2> QED
    BY <1>1, <2>21, VectorStep
<1> QED
  BY <1>2, <1>3

LEMMA VectorResized ==
    ASSUME NEW values \in Seq(Cells), NEW indicators \in Seq(Indicators),
           NEW cells \in Seq([value : Cells, state : Indicators]), NEW size \in Nat,
           IsVector(values, indicators, cells)
    PROVE  /\ IsVector(Resized(values, size, "zero"), Resized(indicators, size, "ok"),
                       Resized(cells, size, Given("zero", "ok")))
           /\ Resized(values, size, "zero") \in Seq(Cells)
           /\ Resized(indicators, size, "ok") \in Seq(Indicators)
           /\ Resized(cells, size, Given("zero", "ok")) \in Seq([value : Cells, state : Indicators])
<1> DEFINE S == [value : Cells, state : Indicators]
           fill == Given("zero", "ok")
           C == Resized(values, size, "zero")
           D == Resized(indicators, size, "ok")
           E == Resized(cells, size, fill)
<1>1. "zero" \in Cells /\ "ok" \in Indicators /\ fill \in S
  BY DEF Cells, Indicators, Given
<1> HIDE DEF S
<1>2. IsResized(C, values, size, "zero") /\ C \in Seq(Cells)
  BY <1>1, ResizedIs
<1>3. IsResized(D, indicators, size, "ok") /\ D \in Seq(Indicators)
  BY <1>1, ResizedIs
<1>4. IsResized(E, cells, size, fill) /\ E \in Seq(S)
  BY <1>1, ResizedIs DEF S
<1> HIDE DEF C, D, E
<1>5. ASSUME NEW i \in 1 .. size
      PROVE  E[i] = Given(C[i], D[i])
  <2>1. Len(cells) \in Nat
    OBVIOUS
  <2>2. CASE i <= Len(cells)
    <3>1. C[i] = values[i] /\ D[i] = indicators[i] /\ E[i] = cells[i] /\ i \in 1 .. Len(cells)
      BY <1>2, <1>3, <1>4, <2>1, <2>2 DEF IsResized, IsVector
    <3> QED
      BY <3>1 DEF IsVector
  <2>3. CASE ~ (i <= Len(cells))
    BY <1>2, <1>3, <1>4, <2>3 DEF IsResized, IsVector
  <2> QED
    BY <2>2, <2>3
<1> QED
  BY <1>2, <1>3, <1>4, <1>5 DEF C, D, E, S, IsResized, IsVector

LEMMA UseResizeKept ==
    ASSUME BaseInv, NEW size \in 0 .. MaxVector, soci_use_resize_v(size)
    PROVE  Kept
<1> DEFINE S == [value : Cells, state : Indicators]
           V == [m \in Names |-> IF w.use_type_v[m] = "absent" THEN w.use_v[m]
                                 ELSE Resized(w.use_v[m], size, "zero")]
           I == [m \in Names |-> IF w.use_type_v[m] = "absent" THEN w.use_indicators_v[m]
                                 ELSE Resized(w.use_indicators_v[m], size, "ok")]
           G == [m \in Names |-> IF w.use_type_v[m] = "absent" THEN given[m]
                                 ELSE Resized(given[m], size, Given("zero", "ok"))]
           v == w
           u == w'
<1>1. w.alive /\ size \in Nat
  BY Constants DEF soci_use_resize_v
<1>2. CASE size <= 0 \/ w.use_kind # "bulk"
  BY <1>1, <1>2, RefusedKept DEF soci_use_resize_v
<1>3. CASE ~ (size <= 0 \/ w.use_kind # "bulk")
  <2>1. /\ u = [v EXCEPT !.ok = TRUE, !.use_indicators_v = I, !.use_v = V]
        /\ given' = G
        /\ UNCHANGED <<blobs, row, ub>>
    BY <1>3 DEF soci_use_resize_v
  <2>2. v \in WrapperType /\ BoundInv(w) /\ given \in [Names -> Seq(S)] /\ w.use_kind = "bulk"
    BY <1>3 DEF BaseInv, TypeOK
  <2>3. \A m \in Names : /\ w.use_type[m] = "absent"
                         /\ IsVector(w.use_v[m], w.use_indicators_v[m], given[m])
                         /\ w.use_type_v[m] = "absent" =>
                               w.use_v[m] = << >> /\ w.use_indicators_v[m] = << >>
    BY <2>2, NoSingles
  <2>4. w.use_v \in [Names -> Seq(Cells)] /\ w.use_indicators_v \in [Names -> Seq(Indicators)]
    BY <2>2 DEF WrapperType
  <2>5. ASSUME NEW m \in Names
        PROVE  /\ IsVector(V[m], I[m], G[m])
               /\ V[m] \in Seq(Cells) /\ I[m] \in Seq(Indicators) /\ G[m] \in Seq(S)
               /\ w.use_type_v[m] = "absent" => V[m] = << >> /\ I[m] = << >>
    <3> DEFINE values == w.use_v[m]
               indicators == w.use_indicators_v[m]
               cells == given[m]
    <3>1. /\ values \in Seq(Cells) /\ indicators \in Seq(Indicators) /\ cells \in Seq(S)
          /\ IsVector(values, indicators, cells)
      BY <2>2, <2>3, <2>4
    <3>2. CASE w.use_type_v[m] = "absent"
      BY <2>3, <3>1, <3>2
    <3>3. CASE w.use_type_v[m] # "absent"
      <4>1. /\ V[m] = Resized(values, size, "zero") /\ I[m] = Resized(indicators, size, "ok")
            /\ G[m] = Resized(cells, size, Given("zero", "ok"))
        BY <3>3
      <4> HIDE DEF V, I, G, values, indicators, cells
      <4> QED
        BY <1>1, <3>1, <3>3, <4>1, VectorResized
    <3> QED
      BY <3>2, <3>3
  <2>6. V \in [Names -> Seq(Cells)] /\ I \in [Names -> Seq(Indicators)] /\ G \in [Names -> Seq(S)]
    BY <2>5
  <2> HIDE DEF u, v, V, I, G, S
  <2>7. u \in WrapperType /\ u.use_indicators_v = I /\ u.use_v = V
    BY <2>1, <2>2, <2>6 DEF WrapperType
  <2>8. /\ (u.alive <=> v.alive) /\ SameInto(v, u) /\ SameBound(v, u)
        /\ u.use_type = v.use_type /\ u.use = v.use /\ u.use_indicators = v.use_indicators
        /\ u.use_type_v = v.use_type_v /\ u.use_kind = v.use_kind
    BY <2>1, <2>2 DEF WrapperType, SameInto, SameBound, SameCounts
  <2> USE DEF u, v
  <2>9. VectorsSet(w, w', V, I)
    BY <2>7, <2>8 DEF VectorsSet, SameBound
  <2>10. BoundInv(w') /\ (BoundBlobs(w) => BoundBlobs(w'))
    BY <2>2, <2>8, BoundFrame, BoundBlobsFrame DEF SameBound, SameCounts
  <2>11. VectorsGiven(V, I)
    BY <2>1, <2>2, <2>3, <2>5, <2>6, <2>8, <2>9, <2>10 DEF VectorsGiven, S
  <2> QED
    BY <1>1, <2>11, VectorStep
<1> QED
  BY <1>2, <1>3

\* Of the functions that look for a vector to return a single value only those that find
\* none are called.
LEMMA GetUseKept ==
    ASSUME BaseInv, "readsVector" \notin Habits, NEW n \in Names, NEW type \in Types,
           soci_get_use(n, type)
    PROVE  Kept
BY RefusedKept DEF soci_get_use

LEMMA GetUseStateKept ==
    ASSUME BaseInv, NEW n \in Names, soci_get_use_state(n)
    PROVE  Kept
BY RefusedKept, AcceptedKept DEF soci_get_use_state

LEMMA GetSizeKept ==
    ASSUME BaseInv, soci_into_get_size_v \/ soci_use_get_size_v
    PROVE  Kept
BY RefusedKept DEF soci_into_get_size_v, soci_use_get_size_v

-------------------------------------------------------------------------------
(* The statement behind the interface                                      *)

\* What soci_prepare() binds, of a wrapper in which the parts hold.
LEMMA PrepareFields ==
    ASSUME BaseInv, NEW goesWell \in BOOLEAN, soci_prepare(goesWell)
    PROVE  /\ w' \in WrapperType /\ w'.alive /\ SameInto(w, w') /\ SameUse(w, w')
           /\ w'.state = "executing" /\ w'.boundInto = w.boundInto + 1
           /\ w'.boundUse = UsesBound /\ w'.boundUseV = UseVectorsBound
           /\ w'.boundBlob = [n \in Names |-> IF w.use_type[n] = "blob" THEN w.use[n] ELSE "absent"]
           /\ (w'.ok <=> goesWell)
<1> DEFINE v == w
           u == w'
           B == [n \in Names |-> IF w.use_type[n] = "blob" THEN w.use[n] ELSE "absent"]
           I == [n \in Names |-> IF w.use_type[n] # "absent" /\ w.use_indicators[n] = "absent"
                                 THEN "ok" ELSE w.use_indicators[n]]
           P == IF ~ goesWell THEN "failed"
                ELSE IF w.prepared = "executed" THEN w.prepared ELSE "prepared"
           U == UsesBound
           V == UseVectorsBound
           N == w.boundInto + 1
<1>1. v \in WrapperType /\ BoundInv(w) /\ UseInv(w, given)
  BY DEF BaseInv, TypeOK
<1>2. u = [v EXCEPT !.ok = goesWell, !.state = "executing", !.prepared = P, !.boundInto = N,
                    !.boundUse = U, !.boundUseV = V, !.boundBlob = B, !.use_indicators = I]
  BY <1>1 DEF soci_prepare, WrapperType
<1>3. w.alive /\ (w.state = "executing" => w.boundInto < 2)
  BY DEF soci_prepare
<1>4. w.boundInto \in 0 .. 2 /\ (w.state # "executing" => w.boundInto = 0)
  BY <1>1 DEF WrapperType, BoundInv
<1>5. N \in 0 .. 2
  BY <1>3, <1>4
<1>6. /\ \A n \in Names : w.use_type[n] = "absent" => w.boundUse[n] = 0
      /\ \A n \in Names : w.use_type[n] # "absent" => w.boundUse[n] + 1 = N
      /\ \A n \in Names : w.use_type_v[n] = "absent" => w.boundUseV[n] = 0
      /\ \A n \in Names : w.use_type_v[n] # "absent" => w.boundUseV[n] + 1 = N
  BY <1>1 DEF BoundInv
<1>7. U \in [Names -> 0 .. 2] /\ V \in [Names -> 0 .. 2]
  BY <1>5, <1>6 DEF UsesBound, UseVectorsBound
<1>8. B \in [Names -> Blobs \cup {"absent"}]
  BY <1>1 DEF UseInv, UseShape
<1>9. P \in Stages
  BY DEF Stages
<1>10. I = w.use_indicators
  <2>1. \A n \in Names : I[n] = w.use_indicators[n]
    BY <1>1 DEF UseInv, UseShape
  <2>2. w.use_indicators = [n \in Names |-> w.use_indicators[n]]
    BY <1>1 DEF WrapperType
  <2> QED
    BY <2>1, <2>2
<1>11. v.alive
  BY <1>3
<1>12. v.use_indicators = I
  BY <1>10
<1> HIDE DEF u, v, B, I, P, U, V, N
<1>13. u \in WrapperType
  BY <1>1, <1>2, <1>5, <1>7, <1>8, <1>9, <1>12 DEF WrapperType
<1>14. /\ u.alive /\ SameInto(v, u) /\ SameUse(v, u) /\ u.state = "executing"
       /\ u.boundInto = N /\ u.boundUse = U /\ u.boundUseV = V /\ u.boundBlob = B
       /\ (u.ok <=> goesWell)
  BY <1>1, <1>2, <1>11, <1>12 DEF WrapperType, SameInto, SameUse
<1> QED
  BY <1>13, <1>14 DEF u, v, B, U, V, N

LEMMA PrepareKept ==
    ASSUME BaseInv, NEW goesWell \in BOOLEAN, soci_prepare(goesWell)
    PROVE  Kept
<1>1. /\ w' \in WrapperType /\ w'.alive /\ SameInto(w, w') /\ SameUse(w, w')
      /\ w'.state = "executing" /\ w'.boundInto = w.boundInto + 1
      /\ w'.boundUse = UsesBound /\ w'.boundUseV = UseVectorsBound
      /\ w'.boundBlob = [n \in Names |-> IF w.use_type[n] = "blob" THEN w.use[n] ELSE "absent"]
  BY PrepareFields
<1>2. /\ ub' = (ub \/ NullIntoIsBound \/ NullUseIsBound)
      /\ UNCHANGED <<blobs, given, row>>
  BY DEF soci_prepare
<1>3. ub' \in BOOLEAN
  BY <1>2
<1>4. TypeOK'
  BY <1>1, <1>2, <1>3 DEF BaseInv, TypeOK
<1>5. IntoInv(w', row') /\ UseInv(w', given')
  BY <1>1, <1>2, IntoFrame, UseFrame DEF BaseInv
<1>6. BoundInv(w')
  <2>1. w.boundInto \in 0 .. 2 /\ BoundInv(w)
    BY DEF BaseInv, TypeOK, WrapperType
  <2>2. w'.use_type = w.use_type /\ w'.use_type_v = w.use_type_v
    BY <1>1 DEF SameUse
  <2>3. \A n \in Names :
          /\ UsesBound[n] = IF w.use_type[n] = "absent" THEN 0 ELSE w.boundInto + 1
          /\ UseVectorsBound[n] = IF w.use_type_v[n] = "absent" THEN 0 ELSE w.boundInto + 1
    BY <2>1 DEF UsesBound, UseVectorsBound, BoundInv
  <2> QED
    BY <1>1, <2>1, <2>2, <2>3 DEF BoundInv
<1>7. BaseInv'
  BY <1>1, <1>4, <1>5, <1>6 DEF BaseInv, IdleInv
<1>8. BlobInv(w, blobs) => BlobInv(w', blobs')
  BY <1>1, <1>2, BlobFrame DEF SameInto, SameUse
<1>9. BoundBlobs(w')
  BY <1>1 DEF BoundBlobs, SameUse
<1>10. BlobsMade(w) => BlobsMade(w')
  BY <1>1, MadeFrame DEF SameInto, SameUse
<1> QED
  BY <1>7, <1>8, <1>9, <1>10 DEF Kept

\* u is v with another is_ok and other sizes.
RunsOn(v, u) ==
    /\ u \in WrapperType /\ (u.alive <=> v.alive)
    /\ SameInto(v, u) /\ SameUse(v, u) /\ SameBound(v, u)

LEMMA RunsOnSteps ==
    ASSUME NEW v \in WrapperType, NEW x \in BOOLEAN, NEW a \in 0 .. MaxVector,
           NEW b \in 0 .. MaxVector, NEW c \in Stages
    PROVE  /\ RunsOn(v, v) /\ RunsOn(v, [v EXCEPT !.ok = x])
           /\ RunsOn(v, [v EXCEPT !.initial = a]) /\ RunsOn(v, [v EXCEPT !.fetchSize = b])
           /\ RunsOn(v, [v EXCEPT !.initial = a, !.fetchSize = b])
           /\ RunsOn(v, [v EXCEPT !.prepared = c])
           /\ RunsOn(v, [v EXCEPT !.initial = a, !.fetchSize = b, !.prepared = c])
<1> USE DEF RunsOn, WrapperType, SameInto, SameUse, SameBound, SameCounts
<1>1. RunsOn(v, v)
  OBVIOUS
<1>2. RunsOn(v, [v EXCEPT !.ok = x])
  OBVIOUS
<1>3. RunsOn(v, [v EXCEPT !.initial = a])
  OBVIOUS
<1>4. RunsOn(v, [v EXCEPT !.fetchSize = b])
  OBVIOUS
<1>5. RunsOn(v, [v EXCEPT !.initial = a, !.fetchSize = b])
  OBVIOUS
<1>6. RunsOn(v, [v EXCEPT !.prepared = c])
  OBVIOUS
<1>7. RunsOn(v, [v EXCEPT !.initial = a, !.fetchSize = b, !.prepared = c])
  OBVIOUS
<1> HIDE DEF RunsOn
<1> QED
  BY <1>1, <1>2, <1>3, <1>4, <1>5, <1>6, <1>7

LEMMA RunsOnAgain ==
    ASSUME NEW v, NEW u, NEW t, RunsOn(v, u), RunsOn(u, t)
    PROVE  RunsOn(v, t)
BY DEF RunsOn, SameInto, SameUse, SameBound, SameCounts

\* u is v with other rows in its into elements, and s those rows.
Refetched(v, u, s) ==
    /\ u \in WrapperType /\ (u.alive <=> v.alive) /\ SameUse(v, u) /\ SameBound(v, u)
    /\ u.into_kind = v.into_kind /\ u.into_types = v.into_types
    /\ IntoInv(u, s) /\ s \in [Positions -> Seq(Fetched \cup {"zero"})]
    /\ \A p \in Positions :
          p < Len(v.into_types) /\ v.into_types[p + 1] = "blob" => u.into[p] = v.into[p]
    /\ \A p \in Positions : u.into[p] = v.into[p] \/ u.into[p] \in Values

LEMMA RefetchedRunsOn ==
    ASSUME NEW v, NEW u, NEW t, NEW s, Refetched(v, u, s), RunsOn(u, t)
    PROVE  Refetched(v, t, s)
<1>1. IntoInv(t, s)
  BY IntoFrame DEF Refetched, RunsOn
<1> QED
  BY <1>1 DEF Refetched, RunsOn, SameInto, SameUse, SameBound, SameCounts

LEMMA RefetchedSame ==
    ASSUME BaseInv
    PROVE  Refetched(w, w, row)
BY DEF BaseInv, TypeOK, Refetched, SameUse, SameBound, SameCounts

LEMMA RefetchedStep ==
    ASSUME BaseInv, w.alive, Refetched(w, w', row'), UNCHANGED <<blobs, given>>, ub' \in BOOLEAN
    PROVE  Kept
<1>1. TypeOK'
  BY DEF BaseInv, TypeOK, Refetched
<1>2. IntoInv(w', row') /\ w'.alive /\ SameUse(w, w') /\ SameBound(w, w')
  BY DEF Refetched
<1>3. UseInv(w', given') /\ BoundInv(w')
  BY <1>2, UseFrame, BoundFrame DEF BaseInv, SameUse
<1>4. BaseInv'
  BY <1>1, <1>2, <1>3 DEF BaseInv, IdleInv
<1>5. BoundBlobs(w) => BoundBlobs(w')
  BY <1>2, BoundBlobsFrame DEF SameUse, SameBound, SameCounts
<1>6. BlobsMade(w) => BlobsMade(w')
  BY DEF Refetched, BlobsMade, SameUse
<1>7. ASSUME BlobInv(w, blobs)
      PROVE  BlobInv(w', blobs')
  <2>1. \A p \in Positions, c \in Blobs : IntoHolds(w', p, c) <=> IntoHolds(w, p, c)
    BY DEF Refetched, IntoHolds
  <2>2. \A m \in Names, c \in Blobs : /\ UseHolds(w', m, c) <=> UseHolds(w, m, c)
                                      /\ UseBorrows(w', m, c) <=> UseBorrows(w, m, c)
    BY <1>2 DEF SameUse, UseHolds, UseBorrows
  <2>3. BlobCells(w')
    <3>1. \A p \in Positions : p < Len(w.into_types) =>
             (w.into_types[p + 1] = "blob" <=> w.into[p] \in Blobs \cup {"absent"})
                \/ w.into_kind # "single"
      BY <1>7 DEF BlobInv, BlobCells
    <3>2. ASSUME NEW p \in Positions, p < Len(w.into_types), w.into_kind = "single"
          PROVE  w.into_types[p + 1] = "blob" <=> w'.into[p] \in Blobs \cup {"absent"}
      <4>1. CASE w.into_types[p + 1] = "blob"
        BY <3>1, <3>2, <4>1 DEF Refetched
      <4>2. CASE w.into_types[p + 1] # "blob"
        BY <3>1, <3>2, <4>2, Constants DEF Refetched
      <4> QED
        BY <4>1, <4>2
    <3>3. w'.into_kind = w.into_kind /\ w'.into_types = w.into_types
      BY DEF Refetched
    <3>4. \A n \in Names : w'.use_type[n] = "blob" => w'.use[n] \in Blobs \cup {"absent"}
      BY <1>2, <1>7 DEF SameUse, BlobInv, BlobCells
    <3> QED
      BY <3>2, <3>3, <3>4 DEF BlobCells
  <2>4. BlobInv(w', blobs)
    BY <1>7, <2>1, <2>2, <2>3, BlobSame
  <2> QED
    BY <2>4
<1> QED
  BY <1>4, <1>5, <1>6, <1>7 DEF Kept

\* The size that is exchanged is that of the vectors, or one.
LEMMA IntoSizeIs ==
    ASSUME BaseInv
    PROVE  /\ IntoSizes \subseteq 0 .. MaxVector /\ IntoSize \in 0 .. MaxVector
           /\ w.into_kind = "single" => IntoSize <= 1
           /\ w.into_kind = "empty" => IntoSize = 0
<1>1. IntoInv(w, row) /\ w \in WrapperType /\ row \in [Positions -> Seq(Fetched \cup {"zero"})]
  BY DEF BaseInv, TypeOK
<1>2. \A p \in Added : p \in Positions /\ p \in Int /\ p >= 0 /\ p < Len(w.into_types)
  BY Constants DEF Added, Positions, ValidPosition, next_position
<1>3. w.into_kind = "empty" => Added = {}
  <2>1. w.into_kind = "empty" => Len(w.into_types) = 0
    BY <1>1 DEF IntoInv, IntoShape
  <2> QED
    BY <1>2, <2>1
<1>4. \A p \in Added : w.into_kind = "bulk" => Len(w.into_v[p]) \in 0 .. MaxVector
  <2> SUFFICES ASSUME NEW p \in Added, w.into_kind = "bulk"
               PROVE  Len(w.into_v[p]) \in 0 .. MaxVector
    OBVIOUS
  <2>1. Len(w.into_v[p]) = Len(row[p]) /\ Len(row[p]) <= MaxVector
    BY <1>1, <1>2 DEF IntoInv, BulkRows, IsColumn
  <2>2. Len(row[p]) \in Nat
    BY <1>1, <1>2
  <2> QED
    BY <2>1, <2>2, Constants
<1>5. w.into_kind \in {"empty", "single", "bulk"}
  BY <1>1 DEF WrapperType, Kinds
<1>6. IntoSizes \subseteq 0 .. MaxVector
  BY <1>3, <1>4, <1>5, Constants DEF IntoSizes
<1>7. IntoSizes = {} \/ IntoSize \in IntoSizes
  BY DEF IntoSize
<1>8. IntoSizes = {} => IntoSize = 0
  BY DEF IntoSize
<1>9. w.into_kind = "single" => IntoSizes \subseteq {1}
  BY DEF IntoSizes
<1>10. w.into_kind = "empty" => IntoSizes = {}
  BY <1>3 DEF IntoSizes
<1> HIDE DEF IntoSize, IntoSizes
<1>11. IntoSize \in 0 .. MaxVector
  <2>1. CASE IntoSizes = {}
    <3>1. IntoSize = 0
      BY <1>8, <2>1
    <3> QED
      BY <3>1, Constants
  <2>2. CASE IntoSize \in IntoSizes
    BY <1>6, <2>2
  <2> QED
    BY <1>7, <2>1, <2>2
<1>12. w.into_kind = "single" => IntoSize = 0 \/ IntoSize = 1
  BY <1>7, <1>8, <1>9
<1> QED
  BY <1>6, <1>8, <1>10, <1>11, <1>12

\* What a vector and its indicators become when a column of rows was got.
LEMMA ColumnGot ==
    ASSUME NEW n \in Nat, NEW col \in [1 .. n -> Fetched],
           NEW values, values = [j \in 1 .. n |-> IF col[j] = "NULL" THEN "zero" ELSE col[j]],
           NEW indicators, indicators = [j \in 1 .. n |-> IF col[j] = "NULL" THEN "null" ELSE "ok"]
    PROVE  /\ IsColumn(values, indicators, col) /\ Len(col) = n
           /\ values \in Seq(Cells) /\ indicators \in Seq(Indicators)
           /\ col \in Seq(Fetched \cup {"zero"})
<1>1. values \in [1 .. n -> Cells] /\ indicators \in [1 .. n -> Indicators]
  BY DEF Cells, Indicators, Fetched
<1>2. /\ values \in Seq(Cells) /\ indicators \in Seq(Indicators)
      /\ col \in Seq(Fetched \cup {"zero"})
  BY <1>1, SeqDef
<1>3. Len(values) = n /\ Len(indicators) = n /\ Len(col) = n
  BY <1>1, <1>2, LenProperties
<1> QED
  BY <1>2, <1>3 DEF IsColumn

LEMMA BulkRowsGot ==
    ASSUME BaseInv, NEW n \in 0 .. IntoSize, NEW cols \in [Added -> [1 .. n -> Fetched]],
           w.into_kind = "bulk"
    PROVE  Refetched(w, WithRows(n, cols), RowsOf(n, cols))
<1> DEFINE v == w
           u == WithRows(n, cols)
           s == RowsOf(n, cols)
           L == Len(w.into_types)
           Col(p) == [j \in 1 .. n |-> IF cols[p][j] = "NULL" THEN "zero" ELSE cols[p][j]]
           Ind(p) == [j \in 1 .. n |-> IF cols[p][j] = "NULL" THEN "null" ELSE "ok"]
           A == [k \in DOMAIN w.into_indicators_v |-> Ind(k - 1)]
           B == [p \in Positions |-> IF p \in Added THEN Col(p) ELSE w.into_v[p]]
<1>1. /\ v \in WrapperType /\ row \in [Positions -> Seq(Fetched \cup {"zero"})]
      /\ IntoInv(w, row)
  BY DEF BaseInv, TypeOK
<1>2. n \in Nat /\ n <= MaxVector
  BY IntoSizeIs, Constants
<1>3. /\ w.into_types \in Seq(Types) /\ L \in Nat /\ L <= MaxInto
      /\ w.into_indicators_v \in Seq(Seq(Indicators)) /\ w.into_v \in [Positions -> Seq(Cells)]
  BY <1>1 DEF WrapperType, IntoInv, IntoShape
<1>4. DOMAIN w.into_indicators_v = 1 .. L
  BY <1>1, <1>3, LenProperties DEF IntoInv, IntoShape
<1>5. \A p \in Positions : p \in Int /\ p >= 0 /\ (p \in Added <=> p < L)
  BY Constants DEF Positions, Added, ValidPosition, next_position
<1>6. \A k \in 1 .. L : k - 1 \in Added /\ k - 1 \in Positions
  BY <1>3, Constants DEF Added, Positions, ValidPosition, next_position
<1>7. ASSUME NEW p \in Added
      PROVE  /\ IsColumn(Col(p), Ind(p), cols[p]) /\ Len(cols[p]) = n
             /\ Col(p) \in Seq(Cells) /\ Ind(p) \in Seq(Indicators)
             /\ cols[p] \in Seq(Fetched \cup {"zero"})
  <2> DEFINE col == cols[p]
  <2>1. col \in [1 .. n -> Fetched]
    OBVIOUS
  <2> HIDE DEF col
  <2> DEFINE values == [j \in 1 .. n |-> IF col[j] = "NULL" THEN "zero" ELSE col[j]]
             indicators == [j \in 1 .. n |-> IF col[j] = "NULL" THEN "null" ELSE "ok"]
  <2>2. /\ IsColumn(values, indicators, col) /\ Len(col) = n
        /\ values \in Seq(Cells) /\ indicators \in Seq(Indicators)
        /\ col \in Seq(Fetched \cup {"zero"})
    BY <1>2, <2>1, ColumnGot
  <2> QED
    BY <2>2 DEF col
<1> HIDE DEF Col, Ind
<1>8. A = [k \in 1 .. L |-> Ind(k - 1)]
  BY <1>4
<1>9. A \in Seq(Seq(Indicators)) /\ Len(A) = L
  <2>1. A \in [1 .. L -> Seq(Indicators)]
    BY <1>6, <1>7, <1>8
  <2> DEFINE S == Seq(Indicators)
  <2>2. A \in [1 .. L -> S] /\ L \in Nat
    BY <1>3, <2>1
  <2> HIDE DEF A, S, L
  <2>3. A \in Seq(S)
    BY <2>2, SeqDef
  <2>4. Len(A) = L
    BY <2>2, <2>3, LenProperties
  <2> QED
    BY <2>3, <2>4 DEF S
<1>10. B \in [Positions -> Seq(Cells)]
  BY <1>3, <1>7
<1>11. u = [v EXCEPT !.into_indicators_v = A, !.into_v = B]
  BY <1>1 DEF WithRows, Col, Ind, WrapperType
<1>12. \A p \in Positions : s[p] = (IF p \in Added THEN cols[p] ELSE row[p])
                            /\ B[p] = (IF p \in Added THEN Col(p) ELSE w.into_v[p])
  BY DEF RowsOf
<1>13. \A p \in Added : p \in Positions /\ p + 1 \in 1 .. L /\ A[p + 1] = Ind(p)
  <2> SUFFICES ASSUME NEW p \in Added
               PROVE  p \in Positions /\ p + 1 \in 1 .. L /\ A[p + 1] = Ind(p)
    OBVIOUS
  <2>1. p \in Positions
    BY DEF Added
  <2>2. p \in Int /\ p + 1 \in 1 .. L
    BY <1>3, <1>5, <2>1
  <2>3. (p + 1) - 1 = p
    BY <2>2
  <2>4. A[p + 1] = Ind((p + 1) - 1)
    BY <1>8, <2>2
  <2> QED
    BY <2>1, <2>2, <2>3, <2>4
<1>14. s \in [Positions -> Seq(Fetched \cup {"zero"})]
  BY <1>1, <1>7 DEF RowsOf
<1>15. v.into_kind = "bulk" /\ v.into_types = w.into_types
  OBVIOUS
<1> HIDE DEF u, s, A, B, v
<1>16. u \in WrapperType /\ u.into_indicators_v = A /\ u.into_v = B
  BY <1>1, <1>9, <1>10, <1>11 DEF WrapperType
<1>17. /\ (u.alive <=> v.alive) /\ SameUse(v, u) /\ SameBound(v, u)
       /\ u.into_kind = v.into_kind /\ u.into_types = v.into_types /\ u.into = v.into
       /\ u.into_indicators = v.into_indicators
  BY <1>1, <1>11 DEF WrapperType, SameUse, SameBound, SameCounts
<1>18. IntoShape(u)
  BY <1>1, <1>9, <1>15, <1>16, <1>17 DEF IntoInv, IntoShape, v
<1>19. BulkRows(u, s)
  <2> SUFFICES ASSUME NEW p \in Positions, p < L
               PROVE  /\ w.into_types[p + 1] # "blob"
                      /\ IsColumn(B[p], A[p + 1], s[p])
                      /\ Len(s[p]) <= MaxVector
    BY <1>15, <1>16, <1>17 DEF BulkRows
  <2>1. p \in Added /\ s[p] = cols[p] /\ B[p] = Col(p) /\ A[p + 1] = Ind(p)
    BY <1>5, <1>12, <1>13
  <2>2. w.into_types[p + 1] # "blob"
    BY <1>1 DEF IntoInv, BulkRows
  <2> QED
    BY <1>2, <1>7, <2>1, <2>2
<1>20. Untouched(u, s)
  <2>1. \A p \in Positions : p >= L => ~ (p < L)
    BY <1>3, <1>5
  <2> QED
    BY <1>1, <1>5, <1>12, <1>15, <1>16, <1>17, <2>1 DEF Untouched, IntoInv, v
<1>21. IntoInv(u, s)
  BY <1>15, <1>17, <1>18, <1>19, <1>20 DEF IntoInv, SingleRows
<1> QED
  BY <1>14, <1>16, <1>17, <1>21 DEF Refetched, u, s, v

\* A single value and its indicator when a row was got.
LEMMA SingleRowsGot ==
    ASSUME BaseInv, NEW n \in 0 .. IntoSize, NEW cols \in [Added -> [1 .. n -> Fetched]],
           w.into_kind = "single", n > 0
    PROVE  Refetched(w, WithRows(n, cols), RowsOf(n, cols))
<1> DEFINE v == w
           u == WithRows(n, cols)
           s == RowsOf(n, cols)
           L == Len(w.into_types)
           Got(p) == cols[p][1]
           A == [k \in DOMAIN w.into_indicators |-> IF Got(k - 1) = "NULL" THEN "null" ELSE "ok"]
           B == [p \in Positions |->
                    IF p \in Added /\ w.into_types[p + 1] # "blob" /\ Got(p) # "NULL"
                    THEN Got(p) ELSE w.into[p]]
<1>1. /\ v \in WrapperType /\ row \in [Positions -> Seq(Fetched \cup {"zero"})]
      /\ IntoInv(w, row)
  BY DEF BaseInv, TypeOK
<1>2. n = 1
  <2>1. IntoSize \in Int /\ IntoSize <= 1
    BY IntoSizeIs, Constants
  <2> QED
    BY <2>1
<1>3. /\ w.into_types \in Seq(Types) /\ L \in Nat /\ L <= MaxInto
      /\ w.into_indicators \in Seq(Indicators) /\ w.into \in [Positions -> Cells]
  BY <1>1 DEF WrapperType, IntoInv, IntoShape
<1>4. DOMAIN w.into_indicators = 1 .. L
  BY <1>1, <1>3, LenProperties DEF IntoInv, IntoShape
<1>5. \A p \in Positions : p \in Int /\ p >= 0 /\ (p \in Added <=> p < L)
  BY Constants DEF Positions, Added, ValidPosition, next_position
<1>6. \A k \in 1 .. L : k - 1 \in Added /\ k - 1 \in Positions
  BY <1>3, Constants DEF Added, Positions, ValidPosition, next_position
<1>7. ASSUME NEW p \in Added
      PROVE  /\ Got(p) \in Fetched /\ Len(cols[p]) = 1 /\ cols[p][1] = Got(p)
             /\ cols[p] \in Seq(Fetched \cup {"zero"})
  <2> DEFINE col == cols[p]
  <2>1. col \in [1 .. 1 -> Fetched]
    BY <1>2
  <2>2. Got(p) = col[1]
    OBVIOUS
  <2> HIDE DEF col, Got
  <2>3. col \in Seq(Fetched \cup {"zero"})
    <3> DEFINE S == Fetched \cup {"zero"}
    <3>1. col \in [1 .. 1 -> S] /\ 1 \in Nat
      BY <2>1
    <3> HIDE DEF S
    <3>2. col \in Seq(S)
      BY <3>1, SeqDef
    <3> QED
      BY <3>2 DEF S
  <2>4. Len(col) = 1
    BY <2>1, <2>3, LenProperties
  <2> QED
    BY <2>1, <2>2, <2>3, <2>4 DEF col
<1>8. u = [v EXCEPT !.into_indicators = A, !.into = B]
  BY <1>1, <1>2 DEF WithRows, WrapperType
<1> HIDE DEF Got
<1>9. A = [k \in 1 .. L |-> IF Got(k - 1) = "NULL" THEN "null" ELSE "ok"]
  BY <1>4
<1>10. A \in Seq(Indicators) /\ Len(A) = L
  <2>1. A \in [1 .. L -> Indicators] /\ L \in Nat
    BY <1>3, <1>9 DEF Indicators
  <2> HIDE DEF A, L
  <2>2. A \in Seq(Indicators)
    BY <2>1, SeqDef
  <2> QED
    BY <2>1, <2>2, LenProperties
<1>11. B \in [Positions -> Cells]
  <2> SUFFICES ASSUME NEW p \in Positions
               PROVE  (IF p \in Added /\ w.into_types[p + 1] # "blob" /\ Got(p) # "NULL"
                       THEN Got(p) ELSE w.into[p]) \in Cells
    OBVIOUS
  <2> QED
    BY <1>3, <1>7 DEF Fetched, Cells
<1>12. \A p \in Positions : s[p] = (IF p \in Added THEN cols[p] ELSE row[p])
  BY <1>2 DEF RowsOf
<1>13. \A p \in Positions :
          B[p] = IF p \in Added /\ w.into_types[p + 1] # "blob" /\ Got(p) # "NULL"
                 THEN Got(p) ELSE w.into[p]
  OBVIOUS
<1>14. ASSUME NEW p \in Added
       PROVE  p \in Positions /\ p + 1 \in 1 .. L
              /\ A[p + 1] = IF Got(p) = "NULL" THEN "null" ELSE "ok"
  <2>1. p \in Positions
    BY DEF Added
  <2>2. p \in Int /\ p + 1 \in 1 .. L
    BY <1>3, <1>5, <2>1
  <2>3. (p + 1) - 1 = p
    BY <2>2
  <2>4. A[p + 1] = IF Got((p + 1) - 1) = "NULL" THEN "null" ELSE "ok"
    BY <1>9, <2>2
  <2> QED
    BY <2>1, <2>2, <2>3, <2>4
<1>15. s \in [Positions -> Seq(Fetched \cup {"zero"})]
  BY <1>1, <1>7 DEF RowsOf
<1>16. v.into_kind = "single" /\ v.into_types = w.into_types
  OBVIOUS
<1> HIDE DEF u, s, A, B, v
<1>17. u \in WrapperType /\ u.into_indicators = A /\ u.into = B
  BY <1>1, <1>8, <1>10, <1>11 DEF WrapperType
<1>18. /\ (u.alive <=> v.alive) /\ SameUse(v, u) /\ SameBound(v, u)
       /\ u.into_kind = v.into_kind /\ u.into_types = v.into_types /\ u.into_v = v.into_v
       /\ u.into_indicators_v = v.into_indicators_v
  BY <1>1, <1>8 DEF WrapperType, SameUse, SameBound, SameCounts
<1>19. IntoShape(u)
  BY <1>1, <1>10, <1>16, <1>17, <1>18 DEF IntoInv, IntoShape, v
<1>20. SingleRows(u, s)
  <2> SUFFICES ASSUME NEW p \in Positions, p < L
               PROVE  /\ Len(s[p]) = 1
                      /\ A[p + 1] = "null" <=> s[p][1] = "NULL"
                      /\ w.into_types[p + 1] # "blob" /\ s[p][1] # "NULL" => B[p] = s[p][1]
    BY <1>16, <1>17, <1>18 DEF SingleRows
  <2>1. p \in Added /\ s[p] = cols[p]
    BY <1>5, <1>12
  <2>2. Len(s[p]) = 1 /\ s[p][1] = Got(p)
    BY <1>7, <2>1
  <2>3. A[p + 1] = "null" <=> Got(p) = "NULL"
    BY <1>14, <2>1
  <2>4. w.into_types[p + 1] # "blob" /\ Got(p) # "NULL" => B[p] = Got(p)
    BY <1>13, <2>1
  <2> QED
    BY <2>2, <2>3, <2>4
<1>21. Untouched(u, s)
  <2> SUFFICES ASSUME NEW p \in Positions
               PROVE  p >= L => w.into_v[p] = << >> /\ s[p] = << >> /\ B[p] = "absent"
    BY <1>16, <1>17, <1>18 DEF Untouched, v
  <2>1. p >= L => p \notin Added
    BY <1>3, <1>5
  <2>2. p >= L => w.into_v[p] = << >> /\ row[p] = << >> /\ w.into[p] = "absent"
    BY <1>1 DEF IntoInv, Untouched
  <2> QED
    BY <1>12, <1>13, <2>1, <2>2
<1>22. IntoInv(u, s)
  BY <1>16, <1>18, <1>19, <1>20, <1>21 DEF IntoInv, BulkRows
<1>23. ASSUME NEW p \in Positions
       PROVE  /\ p < L /\ w.into_types[p + 1] = "blob" => u.into[p] = w.into[p]
              /\ u.into[p] = w.into[p] \/ u.into[p] \in Values
  <2>1. p \in Added /\ Got(p) # "NULL" => Got(p) \in Values
    BY <1>7 DEF Fetched
  <2> QED
    BY <1>13, <1>17, <2>1
<1> QED
  <2>1. Refetched(v, u, s)
    BY <1>15, <1>17, <1>18, <1>22, <1>23 DEF Refetched, v
  <2> QED
    BY <2>1 DEF v, u, s

\* Whatever rows were got, the into elements are those rows.
LEMMA RowsGot ==
    ASSUME BaseInv, NEW n \in 0 .. IntoSize, NEW cols \in [Added -> [1 .. n -> Fetched]]
    PROVE  Refetched(w, WithRows(n, cols), RowsOf(n, cols))
<1>1. CASE w.into_kind = "bulk"
  BY <1>1, BulkRowsGot
<1>2. CASE w.into_kind = "single" /\ n > 0
  BY <1>2, SingleRowsGot
<1>3. CASE w.into_kind # "bulk" /\ ~ (n > 0)
  <2>1. n = 0
    BY <1>3, IntoSizeIs, Constants
  <2>2. WithRows(n, cols) = w
    BY <1>3, <2>1 DEF WithRows
  <2>3. RowsOf(n, cols) = row
    <3>1. row = [p \in Positions |-> row[p]]
      BY DEF BaseInv, TypeOK
    <3>2. RowsOf(n, cols) = [p \in Positions |-> row[p]]
      BY <1>3 DEF RowsOf
    <3> QED
      BY <3>1, <3>2
  <2> QED
    BY <2>2, <2>3, RefetchedSame
<1>4. w.into_kind = "empty" => ~ (n > 0)
  <2>1. w.into_kind = "empty" => IntoSize = 0
    BY IntoSizeIs
  <2> QED
    BY <2>1
<1>5. w.into_kind \in {"empty", "single", "bulk"}
  BY DEF BaseInv, TypeOK, WrapperType, Kinds
<1> QED
  BY <1>1, <1>2, <1>3, <1>4, <1>5

\* What has been got stays when the statement then sets is_ok and its sizes.
LEMMA RefetchedThen ==
    ASSUME NEW v, NEW u, NEW s, Refetched(v, u, s), NEW x \in BOOLEAN, NEW a \in 0 .. MaxVector,
           NEW b \in 0 .. MaxVector, NEW c \in Stages
    PROVE  /\ Refetched(v, [u EXCEPT !.ok = x], s)
           /\ Refetched(v, [u EXCEPT !.initial = a], s)
           /\ Refetched(v, [u EXCEPT !.fetchSize = b], s)
           /\ Refetched(v, [u EXCEPT !.initial = a, !.fetchSize = b], s)
           /\ Refetched(v, [u EXCEPT !.prepared = c], s)
           /\ Refetched(v, [u EXCEPT !.initial = a, !.fetchSize = b, !.prepared = c], s)
<1>1. u \in WrapperType
  BY DEF Refetched
<1>2. /\ RunsOn(u, [u EXCEPT !.ok = x]) /\ RunsOn(u, [u EXCEPT !.initial = a])
      /\ RunsOn(u, [u EXCEPT !.fetchSize = b])
      /\ RunsOn(u, [u EXCEPT !.initial = a, !.fetchSize = b])
      /\ RunsOn(u, [u EXCEPT !.prepared = c])
      /\ RunsOn(u, [u EXCEPT !.initial = a, !.fetchSize = b, !.prepared = c])
  BY <1>1, RunsOnSteps
<1>3. \A t : RunsOn(u, t) => Refetched(v, t, s)
  BY RefetchedRunsOn
<1> HIDE DEF Refetched
<1> QED
  BY <1>2, <1>3

LEMMA ExecuteFetched ==
    ASSUME BaseInv, NEW exchange \in BOOLEAN, NEW n \in 0 .. IntoSize,
           NEW cols \in [Added -> [1 .. n -> Fetched]], NEW res,
           soci_execute(exchange, res, n, cols)
    PROVE  Refetched(w, w', row')
<1> DEFINE z == IntoSize
           started == IF Mismatch(IntoSizes) THEN w
                      ELSE IF IntoSizes = {0} THEN [w EXCEPT !.initial = 0]
                      ELSE [w EXCEPT !.initial = z, !.fetchSize = z]
           got == WithRows(n, cols)
           rows == RowsOf(n, cols)
           ran == IF w.prepared = "no" THEN "no" ELSE "executed"
           after == [got EXCEPT !.initial = z, !.fetchSize = z, !.prepared = ran]
           before == [started EXCEPT !.prepared = ran]
<1>1. Refetched(w, w, row) /\ Refetched(w, got, rows)
  BY RefetchedSame, RowsGot
<1>2. z \in 0 .. MaxVector /\ 0 \in 0 .. MaxVector /\ ran \in Stages
  BY IntoSizeIs, Constants DEF Stages
<1>3. \/ w' = [started EXCEPT !.ok = FALSE] /\ row' = row
      \/ w' = [after EXCEPT !.ok = TRUE] /\ row' = rows
      \/ w' = [before EXCEPT !.ok = TRUE] /\ row' = row
  BY DEF soci_execute, Throws, Returns
<1> HIDE DEF z, got, rows, ran
<1>4. Refetched(w, started, row)
  <2>1. Refetched(w, [w EXCEPT !.initial = 0], row)
    BY <1>1, <1>2, RefetchedThen
  <2>2. Refetched(w, [w EXCEPT !.initial = z, !.fetchSize = z], row)
    BY <1>1, <1>2, RefetchedThen
  <2> QED
    BY <1>1, <2>1, <2>2
<1>5. Refetched(w, after, rows)
  BY <1>1, <1>2, RefetchedThen
<1> HIDE DEF started
<1>6. Refetched(w, before, row)
  BY <1>2, <1>4, RefetchedThen
<1> HIDE DEF after, before
<1>7. /\ Refetched(w, [started EXCEPT !.ok = FALSE], row)
      /\ Refetched(w, [after EXCEPT !.ok = TRUE], rows)
      /\ Refetched(w, [before EXCEPT !.ok = TRUE], row)
  BY <1>2, <1>4, <1>5, <1>6, RefetchedThen
<1> QED
  BY <1>3, <1>7

LEMMA ExecuteKept ==
    ASSUME BaseInv, NEW exchange \in BOOLEAN, NEW n \in 0 .. IntoSize,
           NEW cols \in [Added -> [1 .. n -> Fetched]], NEW res,
           soci_execute(exchange, res, n, cols)
    PROVE  Kept
<1>1. w.alive /\ UNCHANGED <<blobs, given>> /\ ub' \in BOOLEAN
  BY DEF soci_execute, BaseInv, TypeOK
<1> QED
  BY <1>1, ExecuteFetched, RefetchedStep

LEMMA FetchFetched ==
    ASSUME BaseInv, NEW n \in 0 .. IntoSize,
           NEW cols \in [Added -> [1 .. n -> Fetched]], NEW res, soci_fetch(res, n, cols)
    PROVE  Refetched(w, w', row')
<1> DEFINE z == IntoSize
           got == WithRows(n, cols)
           rows == RowsOf(n, cols)
<1>1. Refetched(w, w, row) /\ Refetched(w, got, rows)
  BY RefetchedSame, RowsGot
<1>2. z \in 0 .. MaxVector /\ 0 \in 0 .. MaxVector /\ "no" \in Stages
  BY IntoSizeIs, Constants DEF Stages
<1>3. \/ w' = [got EXCEPT !.ok = TRUE] /\ row' = rows
      \/ w' = [w EXCEPT !.ok = FALSE] /\ row' = row
      \/ w' = [w EXCEPT !.ok = TRUE] /\ row' = row
      \/ w' = [[w EXCEPT !.fetchSize = z] EXCEPT !.ok = FALSE] /\ row' = row
      \/ \E size \in {0, z} : w' = [[got EXCEPT !.fetchSize = size] EXCEPT !.ok = TRUE] /\ row' = rows
  BY DEF soci_fetch, Throws, Returns
<1> HIDE DEF z, got, rows
<1>4. CASE w' = [got EXCEPT !.ok = TRUE] /\ row' = rows
  BY <1>1, <1>2, <1>4, RefetchedThen
<1>5. CASE w' = [w EXCEPT !.ok = FALSE] /\ row' = row
  BY <1>1, <1>2, <1>5, RefetchedThen
<1>6. CASE w' = [w EXCEPT !.ok = TRUE] /\ row' = row
  BY <1>1, <1>2, <1>6, RefetchedThen
<1>7. CASE w' = [[w EXCEPT !.fetchSize = z] EXCEPT !.ok = FALSE] /\ row' = row
  <2> DEFINE t == [w EXCEPT !.fetchSize = z]
  <2>1. Refetched(w, t, row)
    BY <1>1, <1>2, RefetchedThen
  <2> HIDE DEF t
  <2>2. Refetched(w, [t EXCEPT !.ok = FALSE], row)
    BY <1>2, <2>1, RefetchedThen
  <2> QED
    BY <1>7, <2>2 DEF t
<1>8. ASSUME NEW size \in {0, z},
             w' = [[got EXCEPT !.fetchSize = size] EXCEPT !.ok = TRUE] /\ row' = rows
      PROVE  Refetched(w, w', row')
  <2> DEFINE t == [got EXCEPT !.fetchSize = size]
  <2>1. Refetched(w, t, rows)
    BY <1>1, <1>2, RefetchedThen
  <2> HIDE DEF t
  <2>2. Refetched(w, [t EXCEPT !.ok = TRUE], rows)
    BY <1>2, <2>1, RefetchedThen
  <2> QED
    BY <1>8, <2>2 DEF t
<1> QED
  BY <1>3, <1>4, <1>5, <1>6, <1>7, <1>8

LEMMA FetchKept ==
    ASSUME BaseInv, NEW n \in 0 .. IntoSize,
           NEW cols \in [Added -> [1 .. n -> Fetched]], NEW res, soci_fetch(res, n, cols)
    PROVE  Kept
<1>1. w.alive /\ UNCHANGED <<blobs, given>> /\ ub' \in BOOLEAN
  BY DEF soci_fetch, BaseInv, TypeOK
<1> QED
  BY <1>1, FetchFetched, RefetchedStep

-------------------------------------------------------------------------------
(* The invariant holds                                                     *)

LEMMA NextKept ==
    ASSUME BaseInv, "readsVector" \notin Habits, Next
    PROVE  Kept
<1>1. CASE HandleCalls
  BY <1>1, CreateStatementKept, DestroyStatementKept, CreateBlobKept, DestroyBlobKept
     DEF HandleCalls
<1>2. CASE IntoCalls
  BY <1>2, IntoKept, IntoVKept, GetIntoKept, GetSizeKept, IntoResizeKept DEF IntoCalls
<1>3. CASE UseCalls
  <2>1. ASSUME NEW n \in Names, NEW type \in Types,
               \/ \E b \in Blobs \cup {"absent"} : soci_use(n, type, b)
               \/ soci_use_v(n, type)
               \/ soci_get_use(n, type)
        PROVE  Kept
    BY <2>1, UseKept, UseVKept, GetUseKept
  <2>2. ASSUME NEW n \in Names, NEW type \in Types, NEW value \in Values, NEW converts \in BOOLEAN,
               \/ soci_set_use(n, type, value, converts)
               \/ \E i \in 0 .. MaxVector : soci_set_use_v(n, type, i, value, converts)
        PROVE  Kept
    BY <2>2, SetUseKept, SetUseVKept
  <2>3. ASSUME NEW n \in Names,
               \/ \E b \in Blobs : soci_set_use_blob(n, b)
               \/ \E state \in Indicators : soci_set_use_state(n, state)
               \/ \E state \in Indicators, i \in 0 .. MaxVector : soci_set_use_state_v(n, i, state)
               \/ soci_get_use_state(n)
        PROVE  Kept
    BY <2>3, SetUseBlobKept, SetUseStateKept, SetUseStateVKept, GetUseStateKept
  <2>4. ASSUME \/ soci_use_get_size_v
               \/ \E size \in 0 .. MaxVector : soci_use_resize_v(size)
        PROVE  Kept
    BY <2>4, GetSizeKept, UseResizeKept
  <2> QED
    BY <1>3, <2>1, <2>2, <2>3, <2>4 DEF UseCalls
<1>4. CASE StatementCalls
  <2>1. ASSUME NEW goesWell \in BOOLEAN, soci_prepare(goesWell)
        PROVE  Kept
    BY <2>1, PrepareKept
  <2>2. ASSUME NEW n \in 0 .. IntoSize, NEW res, NEW cols \in [Added -> [1 .. n -> Fetched]],
               \/ \E exchange \in BOOLEAN : soci_execute(exchange, res, n, cols)
               \/ soci_fetch(res, n, cols)
        PROVE  Kept
    BY <2>2, ExecuteKept, FetchKept
  <2> QED
    BY <1>4, <2>1, <2>2 DEF StatementCalls
<1> QED
  BY <1>1, <1>2, <1>3, <1>4 DEF Next

\* A step that changes nothing.
LEMMA StutterKept ==
    ASSUME BaseInv, UNCHANGED vars
    PROVE  Kept
<1>1. w' = w /\ blobs' = blobs /\ given' = given /\ row' = row /\ ub' = ub
  BY DEF vars
<1>2. BaseInv'
  BY <1>1 DEF BaseInv, TypeOK
<1> QED
  BY <1>1, <1>2 DEF Kept

LEMMA InitKept ==
    ASSUME Init
    PROVE  BaseInv /\ BlobInv(w, blobs) /\ BoundBlobs(w) /\ BlobsMade(w)
<1>1. /\ w = NoStatement /\ blobs = [b \in Blobs |-> "none"] /\ given = NothingGiven
      /\ row = NothingFetched /\ ub = FALSE
  BY DEF Init
<1>2. TypeOK
  <2>1. NothingGiven \in [Names -> Seq([value : Cells, state : Indicators])]
    BY DEF NothingGiven
  <2>2. NothingFetched \in [Positions -> Seq(Fetched \cup {"zero"})]
    BY DEF NothingFetched
  <2>3. blobs \in [Blobs -> BlobType]
    BY <1>1 DEF BlobType
  <2> QED
    BY <1>1, <2>1, <2>2, <2>3, FreshType DEF TypeOK
<1>3. IntoInv(w, row) /\ UseInv(w, given) /\ BoundInv(w) /\ BoundBlobs(w) /\ BlobsMade(w)
  <2>1. IntoInv(NoStatement, NothingFetched) /\ UseInv(NoStatement, NothingGiven)
    BY FreshType, FreshParts, IntoFrame, UseFrame
  <2>2. BoundInv(NoStatement) /\ BoundBlobs(NoStatement) /\ BlobsMade(NoStatement)
    BY FreshType, FreshParts, BoundFrame, BoundBlobsFrame, MadeFrame
       DEF SameInto, SameUse, SameBound, SameCounts
  <2> QED
    BY <1>1, <2>1, <2>2
<1>4. BlobInv(w, blobs)
  <2>1. \A b \in Blobs : blobs[b] \notin {"stolen", "library"}
    BY <1>1
  <2>2. BlobInv(Fresh, blobs)
    BY <2>1, FreshParts
  <2>3. BlobInv(NoStatement, blobs)
    BY <2>2, FreshType, BlobFrame DEF SameInto, SameUse
  <2> QED
    BY <1>1, <2>3
<1> QED
  BY <1>1, <1>2, <1>3, <1>4 DEF BaseInv, IdleInv

LEMMA BaseHolds ==
    ASSUME Without({"readsVector"})
    PROVE  Spec => []BaseInv
<1>1. "readsVector" \notin Habits
  BY DEF Without
<1>2. Init => BaseInv
  BY InitKept
<1>3. BaseInv /\ [Next]_vars => BaseInv'
  BY <1>1, NextKept, StutterKept DEF Kept
<1> QED
  BY <1>2, <1>3, PTL DEF Spec

\* Every field of the statement_wrapper stays in its range whatever is called in whatever
\* order; soci_get_use_*() for a vector is left out, which makes a single entry of that name
\* for which there is no indicator.
THEOREM TypeCorrect ==
    ASSUME Without({"readsVector"})
    PROVE  Spec => []TypeOK
<1>1. BaseInv => TypeOK
  BY DEF BaseInv
<1> QED
  BY <1>1, BaseHolds, PTL

LEMMA SingleAnswers ==
    ASSUME BaseInv, NEW p \in Added, NEW type \in Types \ {"blob"}, w.into_kind = "single"
    PROVE  LET a == GetInto(p, type)
           IN  /\ a.ok <=> w.into_types[p + 1] = type /\ row[p] # << "NULL" >>
               /\ a.ok => a.value = row[p][1]
<1> DEFINE a == GetInto(p, type)
<1>1. p \in Positions /\ ValidPosition(p) /\ p < Len(w.into_types)
  BY DEF Added, ValidPosition, next_position
<1>2. /\ Len(row[p]) = 1 /\ (w.into_indicators[p + 1] = "null" <=> row[p][1] = "NULL")
      /\ w.into_types[p + 1] # "blob" /\ row[p][1] # "NULL" => w.into[p] = row[p][1]
      /\ Len(w.into_indicators) = Len(w.into_types)
  BY <1>1 DEF BaseInv, IntoInv, SingleRows, IntoShape
<1>3. row[p] = << "NULL" >> <=> row[p][1] = "NULL"
  <2>1. row[p] \in Seq(Fetched \cup {"zero"})
    BY <1>1 DEF BaseInv, TypeOK
  <2> QED
    BY <1>2, <2>1, OneElement
<1>4. p < Len(w.into_indicators) /\ ~ (p >= Len(w.into_indicators))
  <2>1. p \in Int /\ Len(w.into_indicators) \in Nat
    BY <1>1, Constants DEF Positions, BaseInv, TypeOK, WrapperType
  <2> QED
    BY <1>1, <1>2, <2>1
<1>5. position_check_failed(p, type) <=> w.into_types[p + 1] # type
  BY <1>1 DEF position_check_failed
<1>6. not_null_check_failed(p) <=> row[p][1] = "NULL"
  BY <1>2, <1>4 DEF not_null_check_failed
<1>7. a.ok <=> ~ position_check_failed(p, type) /\ ~ not_null_check_failed(p)
  BY <1>4 DEF GetInto, Answer
<1>8. a.ok => a.value = w.into[p]
  BY <1>4 DEF GetInto, Answer
<1> HIDE DEF a
<1>9. (a.ok <=> w.into_types[p + 1] = type /\ row[p] # << "NULL" >>) /\ (a.ok => a.value = row[p][1])
  BY <1>2, <1>3, <1>5, <1>6, <1>7, <1>8
<1> QED
  BY <1>9 DEF a

LEMMA VectorAnswers ==
    ASSUME BaseInv, NEW p \in Added, NEW type \in Types \ {"blob"}, w.into_kind # "single",
           NEW i \in 0 .. MaxVector
    PROVE  LET a == GetIntoV(p, type, i)
           IN  /\ a.ok <=> w.into_types[p + 1] = type /\ i < Len(row[p]) /\ row[p][i + 1] # "NULL"
               /\ a.ok => a.value = row[p][i + 1]
<1> DEFINE a == GetIntoV(p, type, i)
<1>1. p \in Positions /\ ValidPosition(p) /\ p < Len(w.into_types) /\ p >= 0 /\ p \in Int
  BY Constants DEF Added, ValidPosition, next_position, Positions
<1>2. w.into_kind = "bulk"
  <2>1. w.into_kind \in {"empty", "single", "bulk"}
    BY DEF BaseInv, TypeOK, WrapperType, Kinds
  <2>2. w.into_kind = "empty" => Len(w.into_types) = 0
    BY DEF BaseInv, IntoInv, IntoShape
  <2> QED
    BY <1>1, <2>1, <2>2
<1>3. IsColumn(w.into_v[p], w.into_indicators_v[p + 1], row[p])
  BY <1>1, <1>2 DEF BaseInv, IntoInv, BulkRows
<1>4. /\ Len(w.into_v[p]) = Len(row[p]) /\ Len(row[p]) \in Nat /\ i \in Int /\ i >= 0
      /\ p < Len(w.into_indicators_v)
  BY <1>1, <1>2, <1>3, Constants DEF IsColumn, BaseInv, TypeOK, IntoInv, IntoShape
<1>5. ValidIndex(w.into_v[p], i) <=> i < Len(row[p])
  BY <1>4 DEF ValidIndex
<1>6. ASSUME i < Len(row[p])
      PROVE  /\ w.into_indicators_v[p + 1][i + 1] = "null" <=> row[p][i + 1] = "NULL"
             /\ row[p][i + 1] # "NULL" => w.into_v[p][i + 1] = row[p][i + 1]
  <2>1. i + 1 \in 1 .. Len(row[p])
    BY <1>4, <1>6
  <2> QED
    BY <1>3, <2>1 DEF IsColumn
<1>7. position_check_failed(p, type) <=> w.into_types[p + 1] # type
  BY <1>1 DEF position_check_failed
<1>8. not_null_check_failed_v(p, i) <=> w.into_indicators_v[p + 1][i + 1] = "null"
  BY <1>4 DEF not_null_check_failed_v
<1>9. a.ok <=> /\ ~ position_check_failed(p, type) /\ ValidIndex(w.into_v[p], i)
               /\ ~ not_null_check_failed_v(p, i)
  BY DEF GetIntoV, Answer
<1>10. a.ok => a.value = w.into_v[p][i + 1]
  BY DEF GetIntoV, Answer
<1> HIDE DEF a
<1>11. /\ a.ok <=> w.into_types[p + 1] = type /\ i < Len(row[p]) /\ row[p][i + 1] # "NULL"
       /\ a.ok => a.value = row[p][i + 1]
  BY <1>5, <1>6, <1>7, <1>8, <1>9, <1>10
<1> QED
  BY <1>11 DEF a

\* For any number of elements and rows, after any calls: soci_get_into_*() finds exactly the
\* cells of its type that the last rows have and that are not null, and answers with their
\* values.
THEOREM AnswersCorrect ==
    ASSUME Without({"readsVector"})
    PROVE  Spec => []AnswersAreRows
<1>1. BaseInv => AnswersAreRows
  BY SingleAnswers, VectorAnswers DEF AnswersAreRows
<1> QED
  BY <1>1, BaseHolds, PTL

LEMMA BlobsHold ==
    ASSUME Without({"readsVector", "blobState"})
    PROVE  Spec => [](BaseInv /\ BlobInv(w, blobs))
<1>1. "readsVector" \notin Habits /\ "blobState" \notin Habits
  BY DEF Without
<1>2. Init => BaseInv /\ BlobInv(w, blobs)
  BY InitKept
<1>3. BaseInv /\ BlobInv(w, blobs) /\ [Next]_vars => BaseInv' /\ BlobInv(w, blobs)'
  BY <1>1, NextKept, StutterKept DEF Kept
<1> QED
  BY <1>2, <1>3, PTL DEF Spec

\* For any number of blobs and elements, also when the backend cannot make some of them and
\* when the program sets one after soci_prepare(): no blob of the program's is ever destroyed
\* by the statement, and every blob that the statement made is found by the destructor of
\* statement_wrapper in the element that holds it, unless soci_set_use_state() is called for
\* a blob.
THEOREM BlobsAccountedFor ==
    ASSUME Without({"readsVector", "blobState"})
    PROVE  Spec => []BlobsAccounted
<1>1. ASSUME BaseInv, BlobInv(w, blobs), NEW b \in Blobs
      PROVE  /\ blobs[b] # "stolen"
             /\ blobs[b] = "library" => b \in IntoBlobs \/ \E n \in Names : b \in OwnedBy(n)
  <2>1. b \in AllOwned <=> blobs[b] = "library"
    BY <1>1, AllOwnedHeld
  <2>2. blobs[b] # "stolen"
    BY <1>1 DEF BlobInv
  <2> QED
    BY <2>1, <2>2 DEF AllOwned
<1>2. BaseInv /\ BlobInv(w, blobs) => BlobsAccounted
  BY <1>1 DEF BlobsAccounted
<1> QED
  BY <1>2, BlobsHold, PTL

\* No blob that the statement made is held by two of its elements: the destructor of
\* statement_wrapper deletes each one once.
BlobsHeldOnce == \A b \in Blobs : blobs[b] = "library" => OneHolder(w, b)

\* Under the same habits no blob of the statement's own is in two elements.
THEOREM OneHolderOfBlobs ==
    ASSUME Without({"readsVector", "blobState"})
    PROVE  Spec => []BlobsHeldOnce
<1>1. BlobInv(w, blobs) => BlobsHeldOnce
  BY DEF BlobInv, BlobsHeldOnce
<1> QED
  BY <1>1, BlobsHold, PTL

-------------------------------------------------------------------------------
(* A statement that is prepared once                                       *)

\* What a step that is no soci_prepare() does to the number of times.
LEMMA BoundOnce ==
    ASSUME BaseInv, Next, "readsVector" \notin Habits, "prepareAgain" \notin Habits,
           w.boundInto <= 1
    PROVE  w'.boundInto <= 1
<1>1. w \in WrapperType
  BY DEF BaseInv, TypeOK
<1>2. w.boundInto \in 0 .. 2
  BY <1>1 DEF WrapperType
<1>3. ASSUME Refused \/ Accepted
      PROVE  w'.boundInto <= 1
  BY <1>1, <1>3 DEF Refused, Accepted, Only, WrapperType
<1>4. CASE HandleCalls
  <2>1. CASE \E b \in Blobs : soci_create_blob(b) \/ soci_destroy_blob(b)
    BY <2>1 DEF soci_create_blob, soci_destroy_blob
  <2>2. CASE soci_create_statement \/ soci_destroy_statement
    <3>1. w' = Fresh \/ w' = NoStatement
      BY <2>2 DEF soci_create_statement, soci_destroy_statement
    <3> QED
      BY <3>1 DEF NoStatement, Fresh
  <2> QED
    BY <1>4, <2>1, <2>2 DEF HandleCalls
<1>5. CASE IntoCalls
  <2>1. ASSUME NEW type, NEW b, soci_into(type, b)
        PROVE  w'.boundInto <= 1
    BY <1>1, <1>3, <2>1 DEF soci_into, WrapperType
  <2>2. ASSUME NEW type, soci_into_v(type)
        PROVE  w'.boundInto <= 1
    BY <1>1, <1>3, <2>2 DEF soci_into_v, Only, WrapperType
  <2>3. ASSUME NEW a, Answers(a)
        PROVE  w'.boundInto <= 1
    BY <1>1, <2>3 DEF Answers, WrapperType
  <2>4. ASSUME NEW size, soci_into_resize_v(size)
        PROVE  w'.boundInto <= 1
    BY <1>1, <1>3, <2>4 DEF soci_into_resize_v, WrapperType
  <2>5. soci_into_get_size_v => w'.boundInto <= 1
    BY <1>3 DEF soci_into_get_size_v
  <2> QED
    BY <1>5, <2>1, <2>2, <2>3, <2>4, <2>5
       DEF IntoCalls, soci_get_into_state, soci_get_into, soci_get_into_state_v, soci_get_into_v
<1>6. CASE UseCalls
  <2>1. ASSUME NEW n, NEW type, NEW b, soci_use(n, type, b)
        PROVE  w'.boundInto <= 1
    BY <1>1, <1>3, <2>1 DEF soci_use, WrapperType
  <2>2. ASSUME NEW n, NEW type, soci_use_v(n, type)
        PROVE  w'.boundInto <= 1
    BY <1>1, <1>3, <2>2 DEF soci_use_v, Only, WrapperType
  <2>3. ASSUME NEW n, NEW type, NEW value, NEW converts, soci_set_use(n, type, value, converts)
        PROVE  w'.boundInto <= 1
    BY <1>1, <1>3, <2>3 DEF soci_set_use, WrapperType
  <2>4. ASSUME NEW n, NEW type, NEW i, NEW value, NEW converts,
               soci_set_use_v(n, type, i, value, converts)
        PROVE  w'.boundInto <= 1
    BY <1>1, <1>3, <2>4 DEF soci_set_use_v, WrapperType
  <2>5. ASSUME NEW n, NEW type, soci_get_use(n, type)
        PROVE  w'.boundInto <= 1
    BY <1>1, <1>3, <2>5 DEF soci_get_use
  <2>6. ASSUME NEW n, NEW b, soci_set_use_blob(n, b)
        PROVE  w'.boundInto <= 1
    BY <1>1, <1>3, <2>6 DEF soci_set_use_blob, WrapperType
  <2>7. ASSUME NEW n, NEW state, soci_set_use_state(n, state)
        PROVE  w'.boundInto <= 1
    BY <1>1, <1>3, <2>7 DEF soci_set_use_state, WrapperType
  <2>8. ASSUME NEW n, NEW i, NEW state, soci_set_use_state_v(n, i, state)
        PROVE  w'.boundInto <= 1
    BY <1>1, <1>3, <2>8 DEF soci_set_use_state_v, WrapperType
  <2>9. ASSUME NEW n, soci_get_use_state(n)
        PROVE  w'.boundInto <= 1
    BY <1>3, <2>9 DEF soci_get_use_state
  <2>10. ASSUME NEW size, soci_use_resize_v(size)
         PROVE  w'.boundInto <= 1
    BY <1>1, <1>3, <2>10 DEF soci_use_resize_v, WrapperType
  <2>11. soci_use_get_size_v => w'.boundInto <= 1
    BY <1>3 DEF soci_use_get_size_v
  <2> QED
    BY <1>6, <2>1, <2>2, <2>3, <2>4, <2>5, <2>6, <2>7, <2>8, <2>9, <2>10, <2>11 DEF UseCalls
<1>7. CASE StatementCalls
  <2>1. ASSUME NEW goesWell \in BOOLEAN, soci_prepare(goesWell)
        PROVE  w'.boundInto <= 1
    <3>1. w.state # "executing"
      BY <2>1 DEF soci_prepare
    <3>2. w.boundInto = 0
      BY <1>2, <3>1 DEF BaseInv, BoundInv
    <3>3. w'.boundInto = w.boundInto + 1
      BY <2>1, PrepareFields
    <3> QED
      BY <3>2, <3>3
  <2>2. ASSUME NEW n \in 0 .. IntoSize, NEW res, NEW cols \in [Added -> [1 .. n -> Fetched]],
               \/ \E exchange \in BOOLEAN : soci_execute(exchange, res, n, cols)
               \/ soci_fetch(res, n, cols)
        PROVE  w'.boundInto <= 1
    <3>1. Refetched(w, w', row')
      BY <2>2, ExecuteFetched, FetchFetched
    <3> QED
      BY <3>1 DEF Refetched, SameBound, SameCounts
  <2> QED
    BY <1>7, <2>1, <2>2 DEF StatementCalls
<1> QED
  BY <1>4, <1>5, <1>6, <1>7 DEF Next

\* The parts that what is sent depends on.
SentInv == BaseInv /\ BoundBlobs(w) /\ w.boundInto <= 1

LEMMA SentHolds ==
    ASSUME Without({"readsVector", "prepareAgain", "blobLate"})
    PROVE  Spec => []SentInv
<1>1. "readsVector" \notin Habits /\ "prepareAgain" \notin Habits /\ "blobLate" \notin Habits
  BY DEF Without
<1>2. Init => SentInv
  <2>1. Init => w.boundInto <= 1
    BY DEF Init, NoStatement, Fresh
  <2> QED
    BY <2>1, InitKept DEF SentInv
<1>3. SentInv /\ [Next]_vars => SentInv'
  <2>1. SentInv /\ Next => SentInv'
    BY <1>1, NextKept, BoundOnce DEF SentInv, Kept
  <2>2. SentInv /\ UNCHANGED vars => SentInv'
    <3>1. UNCHANGED vars => w' = w
      BY DEF vars
    <3> QED
      BY <3>1, <1>1, StutterKept DEF SentInv, Kept
  <2> QED
    BY <2>1, <2>2
<1> QED
  BY <1>2, <1>3, PTL DEF Spec

LEMMA SentOfName ==
    ASSUME SentInv, w.state = "executing", NEW n \in Names
    PROVE  /\ w.boundUse[n] + w.boundUseV[n] = (IF w.use_type[n] # "absent" \/ w.use_type_v[n] # "absent"
                                                THEN 1 ELSE 0)
           /\ w.boundUse[n] = 1 =>
                 given[n] = << Given(IF w.use_type[n] = "blob" THEN w.boundBlob[n] ELSE w.use[n],
                                     w.use_indicators[n]) >>
           /\ w.boundUseV[n] = 1 =>
                 /\ Len(w.use_v[n]) = Len(given[n]) /\ Len(w.use_indicators_v[n]) = Len(given[n])
                 /\ \A i \in DOMAIN given[n] :
                       given[n][i] = Given(w.use_v[n][i], w.use_indicators_v[n][i])
<1>1. BaseInv /\ BoundBlobs(w) /\ UseInv(w, given) /\ BoundInv(w)
  BY DEF SentInv, BaseInv
<1>2. w.boundInto = 1
  <2>1. w.boundInto \in 0 .. 2
    BY <1>1 DEF BaseInv, TypeOK, WrapperType
  <2> QED
    BY <1>1, <2>1 DEF SentInv, BoundInv
<1>3. /\ w.boundUse[n] = IF w.use_type[n] = "absent" THEN 0 ELSE 1
      /\ w.boundUseV[n] = IF w.use_type_v[n] = "absent" THEN 0 ELSE 1
  BY <1>1, <1>2 DEF BoundInv
<1>4. w.use_type[n] = "absent" \/ w.use_type_v[n] = "absent"
  BY <1>1 DEF UseInv, UseShape
<1>5. w.boundUse[n] + w.boundUseV[n] = (IF w.use_type[n] # "absent" \/ w.use_type_v[n] # "absent"
                                        THEN 1 ELSE 0)
  BY <1>3, <1>4
<1>6. ASSUME w.boundUse[n] = 1
      PROVE  given[n] = << Given(IF w.use_type[n] = "blob" THEN w.boundBlob[n] ELSE w.use[n],
                                 w.use_indicators[n]) >>
  <2>1. w.use_type[n] # "absent"
    BY <1>3, <1>6
  <2>2. given[n] = << Given(w.use[n], w.use_indicators[n]) >>
    BY <1>1, <2>1 DEF UseInv, GivenSingle
  <2>3. w.use_type[n] = "blob" => w.boundBlob[n] = w.use[n]
    BY <1>1 DEF BoundBlobs
  <2> QED
    BY <2>2, <2>3
<1>7. ASSUME w.boundUseV[n] = 1
      PROVE  /\ Len(w.use_v[n]) = Len(given[n]) /\ Len(w.use_indicators_v[n]) = Len(given[n])
             /\ \A i \in DOMAIN given[n] :
                   given[n][i] = Given(w.use_v[n][i], w.use_indicators_v[n][i])
  <2>1. w.use_type[n] = "absent"
    BY <1>3, <1>4, <1>7
  <2>2. IsVector(w.use_v[n], w.use_indicators_v[n], given[n])
    BY <1>1, <2>1 DEF UseInv, GivenVector
  <2>3. given[n] \in Seq([value : Cells, state : Indicators])
    BY <1>1 DEF BaseInv, TypeOK
  <2>4. DOMAIN given[n] = 1 .. Len(given[n])
    BY <2>3, LenProperties
  <2> QED
    BY <2>2, <2>4 DEF IsVector
<1> QED
  BY <1>5, <1>6, <1>7

\* Of every statement that is prepared once, after which no blob is set: each use element is
\* bound once and what an execution sends of it, single values, vectors and blobs, is what
\* the program's calls set last.
THEOREM SentIsSet ==
    ASSUME Without({"readsVector", "prepareAgain", "blobLate"})
    PROVE  Spec => []SentAsSet
<1>1. SentInv => SentAsSet
  BY SentOfName DEF SentAsSet
<1> QED
  BY <1>1, SentHolds, PTL

-------------------------------------------------------------------------------
(* Calls that fail                                                         *)

\* What FailureLeavesElements says of a step.
LeavesElements ==
    w.alive /\ w'.alive /\ ~ w'.ok => UNCHANGED UseElements /\ UNCHANGED w.into_types

LEMMA SameLeaves ==
    ASSUME SameUse(w, w'), w'.into_types = w.into_types
    PROVE  LeavesElements
BY DEF SameUse, LeavesElements, UseElements

LEMMA NextLeaves ==
    ASSUME BaseInv, Next, "readsVector" \notin Habits
    PROVE  LeavesElements
<1>1. w \in WrapperType
  BY DEF BaseInv, TypeOK
<1>2. ASSUME Refused \/ Accepted
      PROVE  LeavesElements
  <2>1. SameUse(w, w') /\ w'.into_types = w.into_types
    BY <1>1, <1>2 DEF Refused, Accepted, Only, WrapperType, SameUse
  <2> QED
    BY <2>1, SameLeaves
<1>3. ASSUME w'.ok
      PROVE  LeavesElements
  BY <1>3 DEF LeavesElements
<1>4. CASE HandleCalls
  <2>1. CASE \E b \in Blobs : soci_create_blob(b) \/ soci_destroy_blob(b)
    <3>1. w' = w
      BY <2>1 DEF soci_create_blob, soci_destroy_blob
    <3> QED
      BY <3>1 DEF LeavesElements, UseElements
  <2>2. CASE soci_create_statement
    BY <2>2 DEF soci_create_statement, LeavesElements
  <2>3. CASE soci_destroy_statement
    BY <2>3, FreshType DEF soci_destroy_statement, LeavesElements
  <2> QED
    BY <1>4, <2>1, <2>2, <2>3 DEF HandleCalls
<1>5. CASE IntoCalls
  <2>1. ASSUME NEW type, NEW b, soci_into(type, b)
        PROVE  LeavesElements
    <3>1. Refused \/ w'.ok
      BY <1>1, <2>1 DEF soci_into, WrapperType
    <3> QED
      BY <1>2, <1>3, <3>1
  <2>2. ASSUME NEW type, soci_into_v(type)
        PROVE  LeavesElements
    <3>1. Refused \/ w'.ok
      <4>1. CASE cannot_add_elements("bulk", w.into_kind)
        BY <2>2, <4>1 DEF soci_into_v
      <4>2. CASE ~ cannot_add_elements("bulk", w.into_kind)
        <5>1. w' = [w EXCEPT !.ok = TRUE, !.state = "defining", !.into_kind = "bulk",
                             !.into_types = Append(@, type),
                             !.into_indicators_v = Append(@, <<>>)]
          BY <2>2, <4>2 DEF soci_into_v, Only
        <5> QED
          BY <1>1, <5>1 DEF WrapperType
      <4> QED
        BY <4>1, <4>2
    <3> QED
      BY <1>2, <1>3, <3>1
  <2>3. ASSUME NEW a, Answers(a)
        PROVE  LeavesElements
    <3>1. SameUse(w, w') /\ w'.into_types = w.into_types
      BY <1>1, <2>3 DEF Answers, WrapperType, SameUse
    <3> QED
      BY <3>1, SameLeaves
  <2>4. ASSUME NEW size, soci_into_resize_v(size)
        PROVE  LeavesElements
    <3>1. Refused \/ w'.ok
      BY <1>1, <2>4 DEF soci_into_resize_v, WrapperType
    <3> QED
      BY <1>2, <1>3, <3>1
  <2>5. soci_into_get_size_v => LeavesElements
    BY <1>2 DEF soci_into_get_size_v
  <2> QED
    BY <1>5, <2>1, <2>2, <2>3, <2>4, <2>5
       DEF IntoCalls, soci_get_into_state, soci_get_into, soci_get_into_state_v, soci_get_into_v
<1>6. CASE UseCalls
  <2>1. ASSUME NEW n, NEW type, NEW b, soci_use(n, type, b)
        PROVE  Refused \/ w'.ok
    <3> DEFINE blocked == \/ cannot_add_elements("single", w.use_kind)
                          \/ name_unique_check_failed(n, "single")
    <3>1. CASE blocked
      BY <2>1, <3>1 DEF soci_use
    <3>2. CASE ~ blocked
      <4>1. \E value, state :
               w' = [w EXCEPT !.ok = TRUE, !.state = "defining", !.use_kind = "single",
                              !.use_indicators[n] = state, !.use_type[n] = type, !.use[n] = value]
        BY <2>1, <3>2 DEF soci_use
      <4> QED
        BY <1>1, <4>1 DEF WrapperType
    <3> QED
      BY <3>1, <3>2
  <2>2. ASSUME NEW n, NEW type, soci_use_v(n, type)
        PROVE  Refused \/ w'.ok
    BY <1>1, <2>2 DEF soci_use_v, Only, WrapperType
  <2>3. ASSUME NEW n, NEW type, NEW value, NEW converts, soci_set_use(n, type, value, converts)
        PROVE  Refused \/ w'.ok
    BY <1>1, <2>3 DEF soci_set_use, WrapperType
  <2>4. ASSUME NEW n, NEW type, NEW i, NEW value, NEW converts,
               soci_set_use_v(n, type, i, value, converts)
        PROVE  Refused \/ w'.ok
    BY <1>1, <2>4 DEF soci_set_use_v, WrapperType
  <2>5. ASSUME NEW n, NEW type, soci_get_use(n, type)
        PROVE  Refused \/ w'.ok
    BY <2>5 DEF soci_get_use
  <2>6. ASSUME NEW n, NEW b, soci_set_use_blob(n, b)
        PROVE  Refused \/ w'.ok
    BY <1>1, <2>6 DEF soci_set_use_blob, WrapperType
  <2>7. ASSUME NEW n, NEW state, soci_set_use_state(n, state)
        PROVE  Refused \/ w'.ok
    BY <1>1, <2>7 DEF soci_set_use_state, WrapperType
  <2>8. ASSUME NEW n, NEW i, NEW state, soci_set_use_state_v(n, i, state)
        PROVE  Refused \/ w'.ok
    BY <1>1, <2>8 DEF soci_set_use_state_v, WrapperType
  <2>9. ASSUME NEW n, soci_get_use_state(n)
        PROVE  Refused \/ Accepted
    BY <2>9 DEF soci_get_use_state
  <2>10. ASSUME NEW size, soci_use_resize_v(size)
         PROVE  Refused \/ w'.ok
    BY <1>1, <2>10 DEF soci_use_resize_v, WrapperType
  <2>11. soci_use_get_size_v => Refused
    BY DEF soci_use_get_size_v
  <2>12. Refused \/ Accepted \/ w'.ok
    BY <1>6, <2>1, <2>2, <2>3, <2>4, <2>5, <2>6, <2>7, <2>8, <2>9, <2>10, <2>11 DEF UseCalls
  <2> QED
    BY <1>2, <1>3, <2>12
<1>7. CASE StatementCalls
  <2>1. ASSUME NEW goesWell \in BOOLEAN, soci_prepare(goesWell)
        PROVE  LeavesElements
    <3>1. SameUse(w, w') /\ SameInto(w, w')
      BY <2>1, PrepareFields
    <3> QED
      BY <3>1, SameLeaves DEF SameInto
  <2>2. ASSUME NEW n \in 0 .. IntoSize, NEW res, NEW cols \in [Added -> [1 .. n -> Fetched]],
               \/ \E exchange \in BOOLEAN : soci_execute(exchange, res, n, cols)
               \/ soci_fetch(res, n, cols)
        PROVE  LeavesElements
    <3>1. Refetched(w, w', row')
      BY <2>2, ExecuteFetched, FetchFetched
    <3> QED
      BY <3>1, SameLeaves DEF Refetched
  <2> QED
    BY <1>7, <2>1, <2>2 DEF StatementCalls
<1> QED
  BY <1>4, <1>5, <1>6, <1>7 DEF Next

\* Whatever call fails, for whatever reason and after whatever others, a date that cannot be
\* converted, a name or a type that does not exist or a query that the database refuses: the
\* use elements and the list of the into elements are left as they were.
THEOREM FailuresLeaveElements ==
    ASSUME Without({"readsVector"})
    PROVE  Spec => FailureLeavesElements
<1>1. "readsVector" \notin Habits
  BY DEF Without
<1>2. BaseInv /\ [Next]_vars => [LeavesElements]_vars
  BY <1>1, NextLeaves
<1>3. Spec => [][LeavesElements]_vars
  BY <1>2, BaseHolds, PTL DEF Spec
<1> QED
  BY <1>3 DEF LeavesElements, FailureLeavesElements

-------------------------------------------------------------------------------
(* Undefined behaviour                                                     *)

\* What has been found of blobs, of all calls before.
BlobsInv == BaseInv /\ BlobInv(w, blobs) /\ BoundBlobs(w) /\ BlobsMade(w)

\* The blobs that are deleted were not deleted before.
LEMMA DeletedOnce ==
    ASSUME BlobsInv
    PROVE  ~ DeletedTwice(AllOwned) /\ \A n \in Names : ~ DeletedTwice(OwnedBy(n))
<1>1. BaseInv /\ BlobInv(w, blobs)
  BY DEF BlobsInv
<1>2. AllOwned \subseteq Blobs /\ \A n \in Names : OwnedBy(n) \subseteq AllOwned
  <2>1. \A m \in Names : OwnedBy(m) \subseteq Blobs
    BY <1>1 DEF OwnedBy, BlobInv, BlobCells
  <2> QED
    BY <2>1 DEF AllOwned, IntoBlobs
<1>3. \A b \in AllOwned : blobs[b] = "library"
  BY <1>1, <1>2, AllOwnedHeld
<1> QED
  BY <1>2, <1>3 DEF DeletedTwice

\* A blob that is bound is one that an element holds or borrows.
LEMMA BoundBlobsLive ==
    ASSUME BlobsInv
    PROVE  ~ BoundBlobIsGone
<1> SUFFICES ASSUME NEW n \in Names, w.boundBlob[n] # "absent"
             PROVE  blobs[w.boundBlob[n]] \notin {"gone", "stolen"}
  BY DEF BoundBlobIsGone
<1> DEFINE b == w.boundBlob[n]
<1>1. BaseInv /\ BlobInv(w, blobs) /\ BoundBlobs(w)
  BY DEF BlobsInv
<1>2. w.use_type[n] = "blob" /\ w.use[n] = b
  BY <1>1 DEF BoundBlobs
<1>3. b \in Blobs
  BY <1>1, <1>2 DEF BlobInv, BlobCells
<1>4. w.use_indicators[n] \in {"ok", "null"}
  <2>1. w.use_indicators[n] \in {"ok", "null", "absent"}
    BY <1>1 DEF BaseInv, TypeOK, WrapperType, Indicators
  <2>2. w.use_indicators[n] # "absent"
    BY <1>1, <1>2 DEF BaseInv, UseInv, UseShape
  <2> QED
    BY <2>1, <2>2
<1>5. UseHolds(w, n, b) \/ UseBorrows(w, n, b)
  BY <1>2, <1>4 DEF UseHolds, UseBorrows
<1>6. blobs[b] = "library" \/ blobs[b] = "user"
  BY <1>1, <1>3, <1>5 DEF BlobInv
<1> QED
  BY <1>6

\* No null pointer is dereferenced when elements are bound.
LEMMA NoNullIsBound ==
    ASSUME BlobsInv
    PROVE  ~ NullIntoIsBound /\ ~ NullUseIsBound
BY DEF BlobsInv, BlobsMade, NullIntoIsBound, NullUseIsBound, ValidPosition, next_position

\* The calls that the program makes for the kind of its elements read indicators that are there.
LEMMA AnswersDefined ==
    ASSUME BaseInv, "otherKind" \notin Habits, NEW p \in 0 .. MaxInto, NEW type, NEW i
    PROVE  /\ Reads("single") => GetIntoState(p).defined /\ GetInto(p, type).defined
           /\ Reads("bulk") => GetIntoStateV(p, i).defined /\ GetIntoV(p, type, i).defined
<1>1. w.into_types \in Seq(Types) /\ Len(w.into_types) \in Nat /\ p \in Int
  BY Constants DEF BaseInv, TypeOK, WrapperType
<1>2. IntoShape(w)
  BY DEF BaseInv, IntoInv
<1>3. ValidPosition(p) => p < Len(w.into_types) /\ w.into_kind # "empty"
  <2>1. w.into_kind = "empty" => Len(w.into_types) = 0
    BY <1>2 DEF IntoShape
  <2> QED
    BY <1>1, <2>1 DEF ValidPosition, next_position
<1>4. ASSUME Reads("single"), ValidPosition(p)
      PROVE  p < Len(w.into_indicators) /\ ~ (p >= Len(w.into_indicators))
  <2>1. w.into_kind = "single"
    BY <1>3, <1>4 DEF Reads
  <2>2. Len(w.into_indicators) = Len(w.into_types)
    BY <1>2, <2>1 DEF IntoShape
  <2> QED
    BY <1>1, <1>3, <1>4, <2>2
<1>5. ASSUME Reads("bulk"), ValidPosition(p)
      PROVE  ~ (p >= Len(w.into_indicators_v))
  <2>1. w.into_kind = "bulk"
    BY <1>3, <1>5 DEF Reads
  <2>2. Len(w.into_indicators_v) = Len(w.into_types)
    BY <1>2, <2>1 DEF IntoShape
  <2> QED
    BY <1>1, <1>3, <1>5, <2>2
<1>6. Reads("single") => GetIntoState(p).defined
  BY <1>4 DEF GetIntoState, Answer
<1>7. Reads("single") => GetInto(p, type).defined
  BY <1>4 DEF GetInto, Answer, position_check_failed
<1>8. Reads("bulk") => GetIntoStateV(p, i).defined
  BY <1>5 DEF GetIntoStateV, Answer
<1>9. GetIntoV(p, type, i).defined
  BY DEF GetIntoV, Answer
<1> QED
  BY <1>6, <1>7, <1>8, <1>9

LEMMA NextDefined ==
    ASSUME BlobsInv, ~ ub, Next, "readsVector" \notin Habits, "otherKind" \notin Habits,
           "unprepared" \notin Habits
    PROVE  ~ ub'
<1>1. BaseInv /\ BlobInv(w, blobs)
  BY DEF BlobsInv
<1>2. ASSUME Refused \/ Accepted
      PROVE  ~ ub'
  BY <1>2 DEF Refused, Accepted, Only
<1>3. CASE HandleCalls
  <2>1. ASSUME NEW b \in Blobs, soci_destroy_blob(b)
        PROVE  ~ ub'
    <3>1. blobs[b] # "stolen"
      BY <1>1 DEF BlobInv
    <3> QED
      BY <2>1, <3>1 DEF soci_destroy_blob
  <2>2. CASE soci_destroy_statement
    <3>1. ub' = (ub \/ DeletedTwice(AllOwned))
      BY <2>2 DEF soci_destroy_statement, AllOwned
    <3> QED
      BY <3>1, DeletedOnce
  <2>3. ASSUME NEW b \in Blobs, soci_create_blob(b)
        PROVE  ~ ub'
    BY <2>3 DEF soci_create_blob
  <2>4. soci_create_statement => ~ ub'
    BY DEF soci_create_statement
  <2> QED
    BY <1>3, <2>1, <2>2, <2>3, <2>4 DEF HandleCalls
<1>4. CASE IntoCalls
  <2>1. ASSUME NEW type, NEW b, soci_into(type, b)
        PROVE  ~ ub'
    BY <1>2, <2>1 DEF soci_into
  <2>2. ASSUME NEW type, soci_into_v(type)
        PROVE  ~ ub'
    BY <1>2, <2>2 DEF soci_into_v, Only
  <2>3. ASSUME NEW p \in 0 .. MaxInto, NEW type, NEW i,
               \/ soci_get_into_state(p) \/ soci_get_into(p, type)
               \/ soci_get_into_state_v(p, i) \/ soci_get_into_v(p, type, i)
        PROVE  ~ ub'
    <3>1. ASSUME NEW a, Answers(a), a.defined
          PROVE  ~ ub'
      BY <3>1 DEF Answers
    <3> QED
      BY <1>1, <2>3, <3>1, AnswersDefined
         DEF soci_get_into_state, soci_get_into, soci_get_into_state_v, soci_get_into_v
  <2>4. ASSUME NEW size, soci_into_resize_v(size)
        PROVE  ~ ub'
    BY <1>2, <2>4 DEF soci_into_resize_v
  <2>5. soci_into_get_size_v => ~ ub'
    BY <1>2 DEF soci_into_get_size_v
  <2> QED
    BY <1>4, <2>1, <2>2, <2>3, <2>4, <2>5 DEF IntoCalls
<1>5. CASE UseCalls
  <2>1. ASSUME NEW n, NEW type, NEW b, soci_use(n, type, b)
        PROVE  ~ ub'
    BY <1>2, <2>1 DEF soci_use
  <2>2. ASSUME NEW n, NEW type, soci_use_v(n, type)
        PROVE  ~ ub'
    BY <1>2, <2>2 DEF soci_use_v, Only
  <2>3. ASSUME NEW n, NEW type, NEW value, NEW converts, soci_set_use(n, type, value, converts)
        PROVE  ~ ub'
    BY <1>2, <2>3 DEF soci_set_use
  <2>4. ASSUME NEW n, NEW type, NEW i, NEW value, NEW converts,
               soci_set_use_v(n, type, i, value, converts)
        PROVE  ~ ub'
    BY <1>2, <2>4 DEF soci_set_use_v
  <2>5. ASSUME NEW n, NEW type, soci_get_use(n, type)
        PROVE  ~ ub'
    BY <1>2, <2>5 DEF soci_get_use
  <2>6. ASSUME NEW n \in Names, NEW b, soci_set_use_blob(n, b)
        PROVE  ~ ub'
    <3>1. Refused \/ ub' = (ub \/ DeletedTwice(OwnedBy(n)))
      BY <2>6 DEF soci_set_use_blob
    <3> QED
      BY <1>2, <3>1, DeletedOnce
  <2>7. ASSUME NEW n, NEW state, soci_set_use_state(n, state)
        PROVE  ~ ub'
    BY <1>2, <2>7 DEF soci_set_use_state
  <2>8. ASSUME NEW n, NEW i, NEW state, soci_set_use_state_v(n, i, state)
        PROVE  ~ ub'
    BY <1>2, <2>8 DEF soci_set_use_state_v
  <2>9. ASSUME NEW n, soci_get_use_state(n)
        PROVE  ~ ub'
    BY <1>2, <2>9 DEF soci_get_use_state
  <2>10. ASSUME NEW size, soci_use_resize_v(size)
         PROVE  ~ ub'
    BY <1>2, <2>10 DEF soci_use_resize_v
  <2>11. soci_use_get_size_v => ~ ub'
    BY <1>2 DEF soci_use_get_size_v
  <2> QED
    BY <1>5, <2>1, <2>2, <2>3, <2>4, <2>5, <2>6, <2>7, <2>8, <2>9, <2>10, <2>11 DEF UseCalls
<1>6. CASE StatementCalls
  <2>1. ASSUME NEW goesWell, soci_prepare(goesWell)
        PROVE  ~ ub'
    BY <2>1, NoNullIsBound DEF soci_prepare
  <2>2. ASSUME NEW exchange, NEW res, NEW n, NEW cols, soci_execute(exchange, res, n, cols)
        PROVE  ~ ub'
    <3>1. ~ ExecutesUnprepared
      BY <2>2 DEF soci_execute, ExecutesUnprepared
    <3> QED
      BY <2>2, <3>1, BoundBlobsLive DEF soci_execute
  <2>3. ASSUME NEW res, NEW n, NEW cols, soci_fetch(res, n, cols)
        PROVE  ~ ub'
    <3>1. ~ FetchesUnprepared
      BY <2>3 DEF soci_fetch, FetchesUnprepared
    <3> QED
      BY <2>3, <3>1 DEF soci_fetch
  <2> QED
    BY <1>6, <2>1, <2>2, <2>3 DEF StatementCalls
<1> QED
  BY <1>3, <1>4, <1>5, <1>6 DEF Next

\* Of every program that sets a blob's state by soci_set_use_blob() alone and before
\* soci_prepare(), that reads elements by the functions for their kind, that executes what was
\* prepared and fetches from what was executed, and whose backend has blobs: no indicator is
\* read past its vector, no null pointer is bound, no element without a backend is used, no
\* blob is used or deleted after it was deleted, also when the statement is prepared again.
THEOREM NothingUndefined ==
    ASSUME Without({"readsVector", "blobState", "blobLate", "otherKind", "blobFails", "unprepared"})
    PROVE  Spec => []NoUndefined
<1>1. /\ "readsVector" \notin Habits /\ "blobState" \notin Habits /\ "blobLate" \notin Habits
      /\ "otherKind" \notin Habits /\ "blobFails" \notin Habits /\ "unprepared" \notin Habits
  BY DEF Without
<1>2. Init => BlobsInv /\ ~ ub
  BY InitKept DEF BlobsInv, Init
<1>3. BlobsInv /\ ~ ub /\ [Next]_vars => BlobsInv' /\ ~ ub'
  <2>1. BlobsInv /\ Next => BlobsInv'
    BY <1>1, NextKept DEF BlobsInv, Kept
  <2>2. BlobsInv /\ ~ ub /\ Next => ~ ub'
    BY <1>1, NextDefined
  <2>3. BlobsInv /\ ~ ub /\ UNCHANGED vars => BlobsInv' /\ ~ ub'
    <3>1. UNCHANGED vars => ub' = ub
      BY DEF vars
    <3> QED
      BY <1>1, <3>1, StutterKept DEF BlobsInv, Kept
  <2> QED
    BY <2>1, <2>2, <2>3
<1>4. BlobsInv /\ ~ ub => NoUndefined
  BY DEF NoUndefined
<1> QED
  BY <1>2, <1>3, <1>4, PTL DEF Spec

=============================================================================
