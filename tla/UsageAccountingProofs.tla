------------------------ MODULE UsageAccountingProofs -------------------------
(***************************************************************************)
(* Proofs about module UsageAccounting, for any number of profiles, bytes, *)
(* launches and clearings.                                                 *)
(*                                                                         *)
(* That nothing is booked twice needs to know, in every state, how much    *)
(* may still be booked: the slack between what the counters have moved and *)
(* the total of the books.  While the log counts, the slack covers what    *)
(* the child logged since the last sample; while the API counts, it covers *)
(* what the child moved since, and what its log still adds.  The handlers  *)
(* change the account (books, session, sample, save timer) by a few        *)
(* operators, so the lemmas about these come first, and a step is then a   *)
(* booking of at most d on one profile.                                    *)
(***************************************************************************)
EXTENDS UsageAccounting, FiniteSetTheorems, WellFoundedInduction, TLAPS

-----------------------------------------------------------------------------
(* Sums.  The library's induction theorems take a predicate as a parameter;  *)
(* its theorem about minimal elements is first order, and does instead.      *)

LEMMA SmallestNumber ==
    ASSUME NEW B, B \subseteq Nat, B # {}
    PROVE  \E n \in B : \A m \in B : n <= m
<1>1. PICK n \in B : \A m \in B : ~ (<<m, n>> \in OpToRel(<, Nat))
  BY NatLessThanWellFounded, WFMin
<1>2. \A m \in B : <<m, n>> \in Nat \X Nat
  OBVIOUS
<1>3. \A m \in B : ~ (m < n)
  BY <1>1, <1>2 DEF OpToRel
<1> QED
  BY <1>3

First(s) == CHOOSE x \in s : TRUE

\* One step of the sum over s, and a function that is the sum on the subsets of S that
\* have n elements at most.
SumStep(b, f, s) == IF s = {} THEN 0 ELSE b[First(s)].total + f[s \ {First(s)}]

SumsUpTo(b, S, f, n) ==
    \A s \in SUBSET S : Cardinality(s) <= n => f[s] = SumStep(b, f, s)

SumOf(b, S) == MapThenSumSet(LAMBDA p : b[p].total, S)

LEMMA FirstRemoved ==
    ASSUME NEW S, IsFiniteSet(S), NEW s \in SUBSET S, s # {}
    PROVE  /\ First(s) \in s /\ s \ {First(s)} \in SUBSET S
           /\ Cardinality(s) \in Nat /\ Cardinality(s \ {First(s)}) = Cardinality(s) - 1
<1>1. First(s) \in s
  BY DEF First
<1>2. IsFiniteSet(s)
  BY FS_Subset
<1> QED
  BY <1>1, <1>2, FS_RemoveElement, FS_CardinalityType

\* Induction on subsets: of a nonempty set of them one has no smaller one in the set.
LEMMA SmallestSubset ==
    ASSUME NEW S, IsFiniteSet(S), NEW Bad, Bad \subseteq SUBSET S, Bad # {}
    PROVE  \E s \in Bad : s = {} \/ s \ {First(s)} \notin Bad
<1> DEFINE B == {Cardinality(s) : s \in Bad}
<1>1. \A s \in Bad : Cardinality(s) \in Nat
  BY FS_Subset, FS_CardinalityType
<1>2. PICK n \in B : \A m \in B : n <= m
  <2>1. B \subseteq Nat /\ B # {}
    BY <1>1
  <2> HIDE DEF B
  <2> QED
    BY <2>1, SmallestNumber
<1>3. PICK s \in Bad : Cardinality(s) = n
  BY <1>2
<1>4. ASSUME s # {}, s \ {First(s)} \in Bad PROVE FALSE
  <2>1. Cardinality(s \ {First(s)}) = n - 1 /\ n \in Nat
    BY <1>3, <1>4, FirstRemoved
  <2>2. n <= Cardinality(s \ {First(s)})
    BY <1>2, <1>4
  <2> QED
    BY <2>1, <2>2
<1> QED
  BY <1>3, <1>4

LEMMA SumsExist ==
    ASSUME NEW b, NEW S, IsFiniteSet(S)
    PROVE  \A n \in Nat : \E f : SumsUpTo(b, S, f, n)
<1> DEFINE B == {n \in Nat : ~ \E f : SumsUpTo(b, S, f, n)}
<1> SUFFICES ASSUME B # {} PROVE FALSE
  OBVIOUS
<1>1. PICK n \in B : \A m \in B : n <= m
  BY SmallestNumber, B \subseteq Nat
<1>2. \A s \in SUBSET S : IsFiniteSet(s) /\ Cardinality(s) \in Nat
  BY FS_Subset, FS_CardinalityType
<1>3. CASE n = 0
  <2> DEFINE f == [s \in SUBSET S |-> 0]
  <2>1. ASSUME NEW s \in SUBSET S, Cardinality(s) <= 0 PROVE f[s] = SumStep(b, f, s)
    <3>1. Cardinality(s) = 0
      BY <1>2, <2>1
    <3>2. s = {}
      BY <1>2, <3>1, FS_EmptySet
    <3> QED
      BY <3>2 DEF SumStep
  <2>2. SumsUpTo(b, S, f, 0)
    BY <2>1 DEF SumsUpTo
  <2> QED
    BY <1>1, <1>3, <2>2
<1>4. CASE n # 0
  <2>1. n - 1 \in Nat /\ n - 1 \notin B
    BY <1>1, <1>4
  <2>2. PICK g : SumsUpTo(b, S, g, n - 1)
    BY <2>1
  <2> DEFINE f == [s \in SUBSET S |-> IF Cardinality(s) <= n - 1 THEN g[s]
                                                               ELSE SumStep(b, g, s)]
  <2>3. ASSUME NEW s \in SUBSET S, Cardinality(s) <= n PROVE f[s] = SumStep(b, f, s)
    <3>1. f[s] = SumStep(b, g, s)
      BY <2>2 DEF SumsUpTo
    <3>2. CASE s = {}
      BY <3>1, <3>2 DEF SumStep
    <3>3. CASE s # {}
      <4>1. s \ {First(s)} \in SUBSET S /\ Cardinality(s \ {First(s)}) <= n - 1
        BY <1>1, <2>3, <3>3, FirstRemoved
      <4>2. f[s \ {First(s)}] = g[s \ {First(s)}]
        BY <4>1
      <4> HIDE DEF f
      <4> QED
        BY <3>1, <3>3, <4>2 DEF SumStep
    <3> QED
      BY <3>2, <3>3
  <2>4. SumsUpTo(b, S, f, n)
    BY <2>3 DEF SumsUpTo
  <2> QED
    BY <1>1, <2>4
<1> QED
  BY <1>3, <1>4

\* A function that is the sum on every subset of S.
IsSum(b, S, f) ==
    SumOf(b, S) = f[S] /\ \A s \in SUBSET S : f[s] = SumStep(b, f, s)

\* The fold that computes the sum takes such steps.
LEMMA SumUnfolds ==
    ASSUME NEW b, NEW S, IsFiniteSet(S)
    PROVE  \E f : IsSum(b, S, f)
<1> DEFINE IsIter(f) ==
      f = [s \in SUBSET S |-> IF s = {} THEN 0
             ELSE b[CHOOSE x \in s : TRUE].total + f[s \ {CHOOSE x \in s : TRUE}]]
<1>1. SumOf(b, S) = (CHOOSE f : IsIter(f))[S]
  BY Zenon DEF SumOf, MapThenSumSet, MapThenFoldSet
<1>2. PICK g : SumsUpTo(b, S, g, Cardinality(S))
  BY SumsExist, FS_CardinalityType
<1> DEFINE f == [s \in SUBSET S |-> g[s]]
<1>3. ASSUME NEW s \in SUBSET S PROVE g[s] = SumStep(b, g, s)
  BY <1>2, FS_Subset DEF SumsUpTo
<1>4. ASSUME NEW s \in SUBSET S
      PROVE  f[s] = IF s = {} THEN 0 ELSE b[First(s)].total + f[s \ {First(s)}]
  BY <1>3 DEF SumStep
<1>5. IsIter(f)
  BY <1>4, Zenon DEF First
<1>6. IsIter(CHOOSE h : IsIter(h))
  BY <1>5
<1>7. PICK h : h = (CHOOSE i : IsIter(i)) /\ IsIter(h)
  BY <1>6
<1>8. \A s \in SUBSET S : h[s] = SumStep(b, h, s)
  BY <1>7 DEF SumStep, First
<1> QED
  BY <1>1, <1>7, <1>8 DEF IsSum

\* Sums are numbers, and grow by what one of their terms grows by at most.
LEMMA SumGrows ==
    ASSUME NEW S, IsFiniteSet(S), NEW p, NEW d \in Nat, NEW b, NEW c,
           \A q \in S : b[q].total \in Nat /\ c[q].total \in Nat,
           \A q \in S \ {p} : c[q].total <= b[q].total,
           p \in S => c[p].total <= b[p].total + d
    PROVE  SumOf(b, S) \in Nat /\ SumOf(c, S) \in Nat /\ SumOf(c, S) <= SumOf(b, S) + d
<1>1. PICK f : IsSum(b, S, f)
  BY SumUnfolds
<1>2. PICK g : IsSum(c, S, g)
  BY SumUnfolds
<1> DEFINE Fine(s) == /\ f[s] \in Nat /\ g[s] \in Nat
                      /\ g[s] <= f[s] + IF p \in s THEN d ELSE 0
           Bad == {s \in SUBSET S : ~Fine(s)}
<1>3. ASSUME Bad # {} PROVE FALSE
  <2>1. PICK s \in Bad : s = {} \/ s \ {First(s)} \notin Bad
    BY <1>3, SmallestSubset
  <2>2. CASE s = {}
    <3>1. f[s] = SumStep(b, f, s) /\ g[s] = SumStep(c, g, s)
      BY <1>1, <1>2 DEF IsSum
    <3>2. f[s] = 0 /\ g[s] = 0 /\ p \notin s
      BY <3>1, <2>2 DEF SumStep
    <3> QED
      BY <3>2, <2>1
  <2>3. CASE s # {}
    <3> DEFINE x == First(s)
               t == s \ {x}
    <3>1. x \in s /\ t \in SUBSET S
      BY <2>3, FirstRemoved
    <3>2. Fine(t)
      BY <2>1, <2>3, <3>1
    <3>3. f[s] = b[x].total + f[t] /\ g[s] = c[x].total + g[t]
      BY <1>1, <1>2, <2>3 DEF IsSum, SumStep
    <3> HIDE DEF x, t
    <3>4. b[x].total \in Nat /\ c[x].total \in Nat /\ x \in S
      BY <3>1
    <3>5. CASE x = p
      <4>1. p \in s /\ p \notin t
        BY <3>1, <3>5 DEF t
      <4> QED
        BY <2>1, <3>2, <3>3, <3>4, <3>5, <4>1
    <3>6. CASE x # p
      <4>1. (p \in s) = (p \in t)
        BY <3>6 DEF t
      <4> QED
        BY <2>1, <3>2, <3>3, <3>4, <3>6, <4>1
    <3> QED
      BY <3>5, <3>6
  <2> QED
    BY <2>2, <2>3
<1>4. Fine(S)
  BY <1>3
<1> QED
  BY <1>1, <1>2, <1>4 DEF IsSum

LEMMA SumOfNothing ==
    ASSUME NEW S, IsFiniteSet(S), NEW b, \A q \in S : b[q].total = 0
    PROVE  SumOf(b, S) = 0
<1>1. PICK f : IsSum(b, S, f)
  BY SumUnfolds
<1> DEFINE Bad == {s \in SUBSET S : f[s] # 0}
<1>2. ASSUME Bad # {} PROVE FALSE
  <2>1. PICK s \in Bad : s = {} \/ s \ {First(s)} \notin Bad
    BY <1>2, SmallestSubset
  <2>2. CASE s = {}
    BY <1>1, <2>1, <2>2 DEF IsSum, SumStep
  <2>3. CASE s # {}
    <3>1. First(s) \in s /\ s \ {First(s)} \in SUBSET S
      BY <2>3, FirstRemoved
    <3>2. f[s \ {First(s)}] = 0 /\ b[First(s)].total = 0
      BY <2>1, <2>3, <3>1
    <3>3. f[s] = b[First(s)].total + f[s \ {First(s)}]
      BY <1>1, <2>3 DEF IsSum, SumStep
    <3> QED
      BY <2>1, <3>2, <3>3
  <2> QED
    BY <2>2, <2>3
<1> QED
  BY <1>1, <1>2 DEF IsSum

-----------------------------------------------------------------------------
(* Accounts *)

AccountType ==
    [books : BooksType, session : [id : Profile0, bytes : Nat], sample : -1..MaxBytes,
     saving : BOOLEAN]

Within(a) ==
    \A p \in Profiles :
        a.books[p].closed + (IF a.session.id = p THEN a.session.bytes ELSE 0)
            <= a.books[p].total

\* b follows a, has at most d more on the books of q and on no other, and a change
\* of the books is going to be saved.
Keeps(a, b, q, d) ==
    /\ b \in AccountType /\ Within(b)
    /\ a.saving \/ b.books # a.books => b.saving
    /\ \A p \in Profiles : b.books[p].total <= a.books[p].total + IF p = q THEN d ELSE 0

Delta(old, next) == IF old < 0 THEN 0 ELSE IF next < old THEN next ELSE next - old

LEMMA RecordKeeps ==
    ASSUME NEW a \in AccountType, Within(a), NEW p \in Profiles, NEW d \in Nat
    PROVE  Keeps(a, Record(a, p, d), p, d) /\ Record(a, p, d).sample = a.sample
<1> DEFINE b == Record(a, p, d)
           bk == [a.books EXCEPT ![p].total = @ + d]
           ss == [a.session EXCEPT !.bytes = IF a.session.id = p THEN @ + d ELSE @]
<1>1. b = [a EXCEPT !.books = bk, !.session = ss, !.saving = TRUE]
  BY DEF Record
<1>2. bk \in BooksType
  BY DEF AccountType, BooksType
<1>3. ss \in [id : Profile0, bytes : Nat]
  BY DEF AccountType
<1>4. b.books = bk /\ b.session = ss /\ b.sample = a.sample /\ b.saving = TRUE
  <2> HIDE DEF b, bk, ss
  <2> QED
    BY <1>1 DEF AccountType
<1>5. b \in AccountType
  <2> HIDE DEF b, bk, ss
  <2> QED
    BY <1>1, <1>2, <1>3 DEF AccountType
<1>6. /\ b.books[p].total = a.books[p].total + d /\ b.books[p].closed = a.books[p].closed
      /\ \A q \in Profiles \ {p} : b.books[q] = a.books[q]
  BY <1>4 DEF AccountType, BooksType
<1>7. /\ b.session.id = a.session.id
      /\ b.session.bytes = IF a.session.id = p THEN a.session.bytes + d ELSE a.session.bytes
  BY <1>4 DEF AccountType
<1>8. /\ a.session.bytes \in Nat
      /\ \A q \in Profiles : a.books[q].total \in Nat /\ a.books[q].closed \in Nat
  BY DEF AccountType, BooksType
<1> HIDE DEF b
<1>9. Within(b)
  BY <1>6, <1>7, <1>8 DEF Within
<1> QED
  BY <1>4, <1>5, <1>6, <1>8, <1>9 DEF Keeps, b

LEMMA KeptAsIs ==
    ASSUME NEW a \in AccountType, Within(a), NEW n \in -1..MaxBytes, NEW q, NEW d \in Nat
    PROVE  LET b == [a EXCEPT !.sample = n]
           IN  Keeps(a, a, q, d) /\ Keeps(a, b, q, d) /\ b.sample = n
<1> DEFINE b == [a EXCEPT !.sample = n]
<1>1. b \in AccountType /\ b.books = a.books /\ b.session = a.session /\ b.saving = a.saving
      /\ b.sample = n
  BY DEF AccountType
<1>2. Within(b)
  BY <1>1 DEF Within
<1>3. \A p \in Profiles : a.books[p].total \in Nat
  BY DEF AccountType, BooksType
<1> QED
  BY <1>1, <1>2, <1>3 DEF Keeps

\* A sample books on one profile, and no more than the counter tells.
LEMMA SampledKeeps ==
    ASSUME NEW a \in AccountType, Within(a), NEW c \in CtlType, NEW next \in 0..MaxBytes
    PROVE  /\ Keeps(a, Sampled(a, c, next), BookedOn(c), Delta(a.sample, next))
           /\ Sampled(a, c, next).sample = next
<1> DEFINE p == BookedOn(c)
           d == Delta(a.sample, next)
           known == [a EXCEPT !.sample = next]
<1>1. a.sample \in Int /\ next \in Nat /\ d \in Nat
  BY UsageAssumption DEF AccountType, Delta
<1>2. known \in AccountType /\ known.books = a.books /\ known.saving = a.saving
      /\ known.session = a.session /\ known.sample = next
  BY UsageAssumption DEF AccountType
<1>3. p \in Profile0
  BY DEF BookedOn, CtlType
<1>4. CASE p = 0 \/ d = 0
  <2>1. Sampled(a, c, next) = known \/ (p # 0 /\ a.sample >= 0 /\ d # 0)
    BY <1>1, <1>4 DEF Sampled, Delta
  <2> HIDE DEF d, p
  <2>2. Sampled(a, c, next) = known
    BY <2>1, <1>4
  <2> QED
    BY <2>2, <1>1, KeptAsIs, UsageAssumption DEF p, d
<1>5. CASE p # 0 /\ d # 0
  <2>1. Sampled(a, c, next) = Record(known, p, d)
    BY <1>1, <1>5 DEF Sampled, Delta
  <2> HIDE DEF d, p, known
  <2>2. Within(known)
    BY <1>2 DEF Within
  <2>3. p \in Profiles
    BY <1>3, <1>5, UsageAssumption DEF Profiles, Profile0
  <2>4. Keeps(known, Record(known, p, d), p, d) /\ Record(known, p, d).sample = next
    BY <2>2, <2>3, <1>1, <1>2, RecordKeeps
  <2>5. Keeps(a, Record(known, p, d), p, d)
    BY <2>4, <1>2 DEF Keeps
  <2> QED
    BY <2>1, <2>4, <2>5 DEF p, d
<1> QED
  BY <1>4, <1>5

\* A change of session moves bytes from the open session to the closed ones.
LEMMA EndedKeeps ==
    ASSUME NEW a \in AccountType, Within(a), NEW id \in Profile0, NEW q, NEW d \in Nat
    PROVE  LET b == SessionEnded(a, id)
           IN  /\ Keeps(a, b, q, d) /\ b.sample = a.sample
               /\ b = a \/ b.session.id = 0
<1> DEFINE b == SessionEnded(a, id)
           i == a.session.id
           bk == [a.books EXCEPT ![i].closed = @ + a.session.bytes]
<1>1. CASE i = 0 \/ id \notin {0, i}
  <2>1. b = a
    BY <1>1 DEF SessionEnded
  <2>2. a.sample \in -1..MaxBytes
    BY DEF AccountType
  <2> QED
    BY <2>1, <2>2, KeptAsIs
<1>2. CASE i # 0 /\ id \in {0, i}
  <2>1. b = [a EXCEPT !.books = bk, !.session = NoSession, !.saving = TRUE]
    BY <1>2 DEF SessionEnded
  <2>2. i \in Profiles
    BY <1>2, UsageAssumption DEF AccountType, Profiles, Profile0
  <2>3. bk \in BooksType
    BY <2>2 DEF AccountType, BooksType
  <2>4. NoSession \in [id : Profile0, bytes : Nat]
    BY UsageAssumption DEF NoSession, Profile0
  <2>5. b \in AccountType /\ b.books = bk /\ b.session = NoSession /\ b.saving = TRUE
        /\ b.sample = a.sample
    <3> HIDE DEF b, bk
    <3> QED
      BY <2>1, <2>3, <2>4 DEF AccountType
  <2>6. /\ bk[i].total = a.books[i].total
        /\ bk[i].closed = a.books[i].closed + a.session.bytes
        /\ \A p \in Profiles \ {i} : bk[p] = a.books[p]
    BY <2>2 DEF AccountType, BooksType
  <2>7. /\ a.session.bytes \in Nat
        /\ \A p \in Profiles : a.books[p].total \in Nat /\ a.books[p].closed \in Nat
    BY DEF AccountType, BooksType
  <2>8. NoSession.id = 0 /\ 0 \notin Profiles
    BY DEF NoSession, Profiles
  <2> HIDE DEF b, bk
  <2>9. Within(b)
    BY <2>2, <2>5, <2>6, <2>7, <2>8 DEF Within
  <2>10. \A p \in Profiles : b.books[p].total = a.books[p].total
    BY <2>5, <2>6
  <2> QED
    BY <2>5, <2>7, <2>8, <2>9, <2>10 DEF Keeps, b
<1> QED
  BY <1>1, <1>2

LEMMA BegunKeeps ==
    ASSUME NEW a \in AccountType, Within(a), NEW id \in Profile0, NEW q, NEW d \in Nat
    PROVE  Keeps(a, SessionBegun(a, id), q, d) /\ SessionBegun(a, id).sample = a.sample
<1>1. CASE id \in {0, a.session.id}
  <2>1. a.sample \in -1..MaxBytes
    BY DEF AccountType
  <2> QED
    BY <1>1, <2>1, KeptAsIs DEF SessionBegun
<1>2. CASE id \notin {0, a.session.id}
  <2> DEFINE e == SessionEnded(a, a.session.id)
             s == [id |-> id, bytes |-> 0]
             b == [e EXCEPT !.session = s]
  <2>1. SessionBegun(a, id) = b
    BY <1>2 DEF SessionBegun
  <2>2. a.session.id \in Profile0
    BY DEF AccountType
  <2>3. Keeps(a, e, q, d) /\ e.sample = a.sample /\ (e = a \/ e.session.id = 0)
    BY <2>2, EndedKeeps
  <2>4. e \in AccountType /\ Within(e)
    BY <2>3 DEF Keeps
  <2>5. s \in [id : Profile0, bytes : Nat] /\ s.id = id /\ s.bytes = 0
    OBVIOUS
  <2> HIDE DEF e, s
  <2>6. b \in AccountType /\ b.books = e.books /\ b.saving = e.saving
        /\ b.sample = e.sample /\ b.session = s
    BY <2>4, <2>5 DEF AccountType
  <2>7. /\ e.session.bytes \in Nat
        /\ \A p \in Profiles : e.books[p].total \in Nat /\ e.books[p].closed \in Nat
    BY <2>4 DEF AccountType, BooksType
  <2> HIDE DEF b
  <2>8. Within(b)
    BY <2>4, <2>5, <2>6, <2>7 DEF Within
  <2> QED
    BY <2>1, <2>3, <2>6, <2>8 DEF Keeps
<1> QED
  BY <1>1, <1>2

\* Two steps that book nothing make one.
LEMMA KeepsTwice ==
    ASSUME NEW a \in AccountType, NEW b, NEW c, NEW q, NEW d \in Nat,
           Keeps(a, b, q, 0), Keeps(b, c, q, d)
    PROVE  Keeps(a, c, q, d)
<1>1. \A p \in Profiles :
        a.books[p].total \in Nat /\ b.books[p].total \in Nat /\ c.books[p].total \in Nat
  BY DEF Keeps, AccountType, BooksType
<1> QED
  BY <1>1 DEF Keeps

-----------------------------------------------------------------------------
(* The account in a state *)

AccountOK ==
    Account \in AccountType /\ dirty \in BOOLEAN /\ SessionWithinTotal /\ DirtyIsScheduled

\* A step that leaves the books in order and books d on q at most.
Booking(q, d) ==
    /\ AccountOK'
    /\ \A p \in Profiles : books'[p].total <= books[p].total + IF p = q THEN d ELSE 0

LEMMA AccountInState ==
    /\ Within(Account) <=> SessionWithinTotal
    /\ Account.books = books /\ Account.session = session /\ Account.sample = sample
    /\ Account.saving = saving
  BY DEF Account, Within, SessionWithinTotal

LEMMA BecomesBooks ==
    ASSUME AccountOK, NEW b, NEW q, NEW d \in Nat, Keeps(Account, b, q, d), Becomes(b)
    PROVE  Booking(q, d) /\ sample' = b.sample
<1>1. b \in AccountType /\ Within(b) /\ (saving \/ b.books # books => b.saving)
      /\ \A p \in Profiles : b.books[p].total <= books[p].total + IF p = q THEN d ELSE 0
  BY AccountInState DEF Keeps
<1>2. Account' = b
  BY <1>1 DEF Account, Becomes, AccountType
<1>3. SessionWithinTotal'
  BY <1>1 DEF Becomes, Within, SessionWithinTotal
<1>4. dirty' \in BOOLEAN /\ DirtyIsScheduled'
  BY <1>1 DEF Becomes, AccountOK, DirtyIsScheduled, AccountType
<1> QED
  BY <1>1, <1>2, <1>3, <1>4 DEF Booking, AccountOK, Becomes

LEMMA UnchangedBooks ==
    ASSUME AccountOK, UNCHANGED <<books, session, saving, dirty>>, sample' \in -1..MaxBytes,
           NEW q, NEW d \in Nat
    PROVE  Booking(q, d)
<1>1. \A p \in Profiles : books[p].total \in Nat
  BY DEF AccountOK, Account, AccountType, BooksType
<1> QED
  BY <1>1 DEF Booking, AccountOK, Account, AccountType, SessionWithinTotal, DirtyIsScheduled

LEMMA TotalIsSum == TotalBooked = SumOf(books, Profiles)
  BY Zenon DEF TotalBooked, SumOf

LEMMA TotalIsSumNext == (TotalBooked = SumOf(books, Profiles))'
  BY TotalIsSum, PTL

LEMMA TotalGrows ==
    ASSUME AccountOK, NEW q, NEW d \in Nat, Booking(q, d)
    PROVE  TotalBooked \in Nat /\ TotalBooked' \in Nat /\ TotalBooked' <= TotalBooked + d
<1>1. \A p \in Profiles : books[p].total \in Nat /\ books'[p].total \in Nat
  BY DEF AccountOK, Booking, Account, AccountType, BooksType
<1>2. IsFiniteSet(Profiles)
  BY FS_Interval, UsageAssumption DEF Profiles
<1>3. /\ \A p \in Profiles \ {q} : books'[p].total <= books[p].total
      /\ q \in Profiles => books'[q].total <= books[q].total + d
  BY <1>1 DEF Booking
<1>4. /\ SumOf(books, Profiles) \in Nat /\ SumOf(books', Profiles) \in Nat
      /\ SumOf(books', Profiles) <= SumOf(books, Profiles) + d
  BY <1>1, <1>2, <1>3, SumGrows
<1> QED
  BY <1>4, TotalIsSum, TotalIsSumNext

-----------------------------------------------------------------------------
(* The inductive invariant *)

OthersOK ==
    /\ ctl \in CtlType /\ child \in ChildType /\ shown \in 0..MaxBytes /\ poll \in PollType
    /\ phase \in {"up", "quitting", "gone"}
    /\ moved \in [real : 0..MaxBytes, logged : 0..MaxBytes, again : Nat]
    /\ used \in [starts : 0..MaxStarts, clears : 0..MaxClears]

ChildOK ==
    /\ ctl.timer => child.pc = "running" /\ ctl.state = "Connected"
    /\ ctl.state = "Connected" => child.pc = "running"
    /\ phase = "up" /\ child.pc = "starting" => ctl.state = "Connecting"
    /\ child.pc # "running" => child.api = 0 /\ child.log = 0
    /\ Alive /\ ctl.active # 0 => child.profile = ctl.active

TrafficOK ==
    /\ child.log <= child.api /\ child.api <= moved.real
    /\ moved.logged + child.api - child.log <= moved.real
    /\ sample <= moved.real /\ poll.value <= moved.real
    /\ poll.stage # "answered" => poll.value = -1
    /\ ctl.timer /\ sample >= 0 => poll.value <= child.api

\* What may still be booked without booking anything twice.
Slack == moved.real + moved.logged + moved.again - TotalBooked

\* While the log counts, the slack covers what the child logged since the sample, and
\* all of it when the sample is another counter's.
LogCounts(slack, log, smp) ==
    /\ slack >= 0
    /\ smp \in 0..(log + 1) => slack >= log - smp
    /\ smp > log + 1 => slack >= log

\* While the API counts, x of the child's bytes have been booked by it at most, no more
\* than the last sample tells, and the slack covers the others and what the log adds.
ApiCounts(slack, log, api, smp, value) ==
    \E x \in 0..api :
        /\ slack >= log + api - x
        /\ smp >= 0 => x <= smp
        /\ x > 0 => /\ smp <= api /\ value <= api
                    /\ value >= 0 => x <= value /\ smp <= value

SlackOK ==
    IF ctl.timer THEN ApiCounts(Slack, child.log, child.api, sample, poll.value)
                 ELSE LogCounts(Slack, child.log, sample)

IInv == OthersOK /\ AccountOK /\ ChildOK /\ TrafficOK /\ SlackOK

LEMMA TotalIsNat == AccountOK => TotalBooked \in Nat
<1> SUFFICES ASSUME AccountOK PROVE TotalBooked \in Nat
  OBVIOUS
<1>1. \A p \in Profiles : books[p].total \in Nat
  BY DEF AccountOK, Account, AccountType, BooksType
<1>2. IsFiniteSet(Profiles)
  BY FS_Interval, UsageAssumption DEF Profiles
<1>3. /\ \A p \in Profiles \ {0} : books[p].total <= books[p].total
      /\ 0 \in Profiles => books[0].total <= books[0].total + 0
  BY <1>1
<1>4. SumOf(books, Profiles) \in Nat
  BY <1>1, <1>2, <1>3, SumGrows
<1> QED
  BY <1>4, TotalIsSum

LEMMA TotalIsNatNext == (AccountOK => TotalBooked \in Nat)'
  BY TotalIsNat, PTL

LEMMA Numbers ==
    ASSUME IInv
    PROVE  /\ child.log \in Nat /\ child.api \in Nat /\ sample \in -1..MaxBytes
           /\ sample \in Int /\ sample >= -1 /\ poll.value \in Int /\ poll.value >= -1
           /\ moved.real \in Nat /\ moved.logged \in Nat /\ moved.again \in Nat
           /\ Slack \in Int /\ TotalBooked \in Nat
<1>4. /\ child.log \in Nat /\ child.api \in Nat
      /\ poll.value \in Int /\ poll.value >= -1
      /\ moved.real \in Nat /\ moved.logged \in Nat /\ moved.again \in Nat
  BY UsageAssumption DEF IInv, OthersOK, ChildType, PollType
<1>5. sample \in -1..MaxBytes
  BY DEF IInv, AccountOK, Account, AccountType
<1> QED
  BY <1>4, <1>5, TotalIsNat, UsageAssumption DEF Slack, IInv

LEMMA TypeFromParts == OthersOK /\ AccountOK => TypeOK
  BY DEF TypeOK, OthersOK, AccountOK, Account, AccountType

\* Nobody moves anything and nothing is booked.
LEMMA SlackKept ==
    ASSUME IInv, Booking(0, 0), child'.log = child.log, child'.api = child.api,
           moved' = moved, poll'.value \in {poll.value, -1}, ctl'.timer \in {ctl.timer, FALSE},
           sample' \in {sample, -1}, ctl.timer \in BOOLEAN
    PROVE  SlackOK'
<1>1. Slack' \in Int /\ Slack' >= Slack
  BY Numbers, TotalGrows DEF Slack, IInv
<1>2. CASE ctl'.timer
  <2>1. ApiCounts(Slack, child.log, child.api, sample, poll.value)
    BY <1>2 DEF IInv, SlackOK
  <2>2. ApiCounts(Slack', child.log, child.api, sample', poll'.value)
    BY <1>1, <2>1, Numbers DEF ApiCounts
  <2> QED
    BY <1>2, <2>2 DEF SlackOK
<1>3. CASE ~ctl'.timer
  <2>1. CASE ctl.timer
    <3>1. Slack >= child.log
      BY <2>1, Numbers DEF IInv, SlackOK, ApiCounts
    <3> QED
      BY <1>1, <1>3, <3>1, Numbers DEF SlackOK, LogCounts
  <2>2. CASE ~ctl.timer
    BY <1>1, <1>3, <2>2, Numbers DEF IInv, SlackOK, LogCounts
  <2> QED
    BY <2>1, <2>2
<1> QED
  BY <1>2, <1>3

LEMMA SlackIsNat ==
    ASSUME IInv PROVE Slack \in Nat
  BY Numbers DEF IInv, SlackOK, ApiCounts, LogCounts

\* A child that has moved nothing.
LEMMA SlackRestarted ==
    ASSUME IInv, Booking(0, 0), child'.log = 0, child'.api = 0, moved' = moved, sample' = -1
    PROVE  SlackOK'
<1>1. Slack' \in Int /\ Slack' >= 0
  BY Numbers, SlackIsNat, TotalGrows DEF Slack, IInv
<1>2. ApiCounts(Slack', 0, 0, -1, poll'.value)
  BY <1>1 DEF ApiCounts
<1>3. LogCounts(Slack', 0, -1)
  BY <1>1 DEF LogCounts
<1> QED
  BY <1>2, <1>3 DEF SlackOK

-----------------------------------------------------------------------------
(* Steps *)

BookedRight ==
    \A p \in Profiles : books'[p].total > books[p].total /\ ctl.active # 0 => child.profile = p

LEMMA NothingBooked ==
    ASSUME AccountOK, Booking(0, 0) PROVE BookedRight
<1>1. \A p \in Profiles : books[p].total \in Nat /\ books'[p].total \in Nat
  BY DEF AccountOK, Booking, Account, AccountType, BooksType
<1> QED
  BY <1>1 DEF Booking, BookedRight

LEMMA ReconnectingFields ==
    ASSUME NEW c \in CtlType
    PROVE  LET r == Reconnecting(c)
           IN  /\ r \in CtlType /\ r.timer = c.timer /\ r.state = c.state
               /\ r.active = c.active
<1>1. CASE c.pending = 0
  BY <1>1 DEF Reconnecting
<1>2. CASE c.pending # 0
  <2>1. 0 \in Profile0 /\ c.pending \in Profile0
    BY UsageAssumption DEF CtlType, Profile0
  <2> QED
    BY <1>2, <2>1 DEF Reconnecting, CtlType
<1> QED
  BY <1>1, <1>2

LEMMA StopCallFine ==
    ASSUME IInv, NEW c \in CtlType, c.state = ctl.state, c.timer = ctl.timer,
           c.active = ctl.active, StopCall(c),
           UNCHANGED <<child, shown, poll, phase, moved, used>>
    PROVE  IInv' /\ BookedRight
<1> DEFINE r == Reset(Account)
<1>1. AccountOK /\ Account \in AccountType /\ Within(Account)
  BY AccountInState DEF IInv, AccountOK
<1>2. Keeps(Account, r, 0, 0) /\ r.sample = -1
  BY <1>1, KeptAsIs, UsageAssumption DEF Reset
<1>3. CASE Alive
  <2>1. Becomes(r)
    BY <1>3 DEF StopCall
  <2> HIDE DEF r
  <2>2. Booking(0, 0) /\ sample' = -1
    BY <1>1, <1>2, <2>1, BecomesBooks
  <2>3. ctl' \in CtlType /\ ctl'.timer = FALSE /\ ctl'.state = "Connecting"
        /\ ctl'.active = ctl.active
    BY <1>3 DEF StopCall, CtlType
  <2>4. ChildOK'
    BY <2>3 DEF IInv, ChildOK, Alive
  <2>5. TrafficOK'
    BY <2>2, <2>3, Numbers DEF IInv, TrafficOK
  <2>6. SlackOK'
    BY <2>2, <2>3, SlackKept DEF IInv, OthersOK, CtlType
  <2>7. OthersOK'
    BY <2>3 DEF IInv, OthersOK
  <2> QED
    BY <1>1, <2>2, <2>4, <2>5, <2>6, <2>7, NothingBooked DEF IInv, Booking
<1>4. CASE ~Alive
  <2> DEFINE e == SessionEnded(r, c.active)
  <2>1. Becomes(e)
    BY <1>4 DEF StopCall
  <2>2. c.active \in Profile0 /\ r \in AccountType /\ Within(r)
    BY <1>2 DEF CtlType, Keeps
  <2>3. Keeps(r, e, 0, 0) /\ e.sample = r.sample
    BY <2>2, EndedKeeps
  <2> HIDE DEF r, e
  <2>4. Keeps(Account, e, 0, 0) /\ e.sample = -1
    BY <1>1, <1>2, <2>3, KeepsTwice
  <2>5. Booking(0, 0) /\ sample' = -1
    BY <1>1, <2>1, <2>4, BecomesBooks
  <2> DEFINE s == [c EXCEPT !.cancelled = FALSE, !.timer = FALSE, !.stopping = FALSE,
                            !.state = "Disconnected"]
  <2>6. s \in CtlType /\ s.timer = FALSE /\ s.state = "Disconnected" /\ s.active = ctl.active
    BY DEF CtlType
  <2>7. ctl' = Reconnecting(s)
    BY <1>4 DEF StopCall, CtlType
  <2> HIDE DEF s
  <2>8. ctl' \in CtlType /\ ctl'.timer = FALSE /\ ctl'.state = "Disconnected"
        /\ ctl'.active = ctl.active
    BY <2>6, <2>7, ReconnectingFields
  <2>9. ChildOK'
    BY <1>4, <2>8 DEF IInv, ChildOK, Alive
  <2>10. TrafficOK'
    BY <2>5, <2>8, Numbers DEF IInv, TrafficOK
  <2>11. SlackOK'
    BY <2>5, <2>8, SlackKept DEF IInv, OthersOK, CtlType
  <2>12. OthersOK'
    BY <2>8 DEF IInv, OthersOK
  <2> QED
    BY <1>1, <2>5, <2>9, <2>10, <2>11, <2>12, NothingBooked DEF IInv, Booking
<1> QED
  BY <1>3, <1>4

\* A step of the connection that books nothing, and may forget the sample.
LEMMA QuietBookingFine ==
    ASSUME IInv, Booking(0, 0), sample' \in {sample, -1},
           OthersOK', ChildOK', moved' = moved, poll'.value \in {poll.value, -1},
           poll'.stage # "answered" => poll'.value = -1,
           \/ child'.log = child.log /\ child'.api = child.api
              /\ ctl'.timer \in {ctl.timer, FALSE}
           \/ child'.log = 0 /\ child'.api = 0 /\ sample' = -1
    PROVE  IInv' /\ BookedRight
<1>3. ctl.timer \in BOOLEAN
  BY DEF IInv, OthersOK, CtlType
<1>4. SlackOK'
  BY <1>3, SlackKept, SlackRestarted
<1>5. TrafficOK'
  <2>1. /\ child.log \in Nat /\ child.api \in Nat /\ sample \in Int /\ sample >= -1
        /\ poll.value \in Int /\ poll.value >= -1 /\ moved.real \in Nat /\ moved.logged \in Nat
    BY Numbers
  <2>2. /\ child.log <= child.api /\ child.api <= moved.real
        /\ moved.logged + child.api - child.log <= moved.real
        /\ sample <= moved.real /\ poll.value <= moved.real
        /\ ctl.timer /\ sample >= 0 => poll.value <= child.api
    BY DEF IInv, TrafficOK
  <2>3. CASE /\ child'.log = child.log /\ child'.api = child.api
             /\ ctl'.timer \in {ctl.timer, FALSE}
    <3>1. ctl'.timer /\ sample' >= 0 => poll'.value <= child'.api
      <4>1. ctl'.timer => ctl.timer
        BY <2>3, Zenon
      <4>2. sample' >= 0 => sample' = sample
        OBVIOUS
      <4>3. poll'.value <= poll.value
        BY <2>1
      <4> QED
        BY <2>1, <2>2, <2>3, <4>1, <4>2, <4>3
    <3>2. sample' <= moved'.real /\ poll'.value <= moved'.real
      BY <2>1, <2>2
    <3>3. /\ child'.log <= child'.api /\ child'.api <= moved'.real
          /\ moved'.logged + child'.api - child'.log <= moved'.real
      BY <2>2, <2>3
    <3> QED
      BY <3>1, <3>2, <3>3 DEF TrafficOK
  <2>4. CASE child'.log = 0 /\ child'.api = 0 /\ sample' = -1
    <3>1. poll'.value <= moved'.real
      BY <2>1, <2>2
    <3> QED
      BY <2>1, <2>2, <2>4, <3>1 DEF TrafficOK
  <2> QED
    BY <2>3, <2>4
<1> QED
  BY <1>4, <1>5, NothingBooked DEF IInv, Booking

LEMMA QuietFine ==
    ASSUME IInv, UNCHANGED <<books, session, saving, dirty>>, sample' \in {sample, -1},
           OthersOK', ChildOK', moved' = moved, poll'.value \in {poll.value, -1},
           poll'.stage # "answered" => poll'.value = -1,
           \/ child'.log = child.log /\ child'.api = child.api
              /\ ctl'.timer \in {ctl.timer, FALSE}
           \/ child'.log = 0 /\ child'.api = 0 /\ sample' = -1
    PROVE  IInv' /\ BookedRight
<1>1. AccountOK /\ sample' \in -1..MaxBytes
  BY Numbers, UsageAssumption DEF IInv
<1>2. Booking(0, 0)
  BY <1>1, UnchangedBooks
<1> QED
  BY <1>2, QuietBookingFine

LEMMA DisconnectFine ==
    ASSUME IInv, Disconnect PROVE IInv' /\ BookedRight
  BY StopCallFine DEF Disconnect, IInv, OthersOK

LEMMA SelectProfileFine ==
    ASSUME IInv, SelectProfile PROVE IInv' /\ BookedRight
<1> USE DEF SelectProfile
<1>1. PICK p \in Profiles :
        IF ~Busy /\ ctl.selected # 0 /\ (ctl.state = "Connected" \/ Alive)
        THEN StopCall([ctl EXCEPT !.selected = p, !.pending = p])
        ELSE ctl' = [ctl EXCEPT !.selected = p] /\ UNCHANGED account
  OBVIOUS
<1>2. p \in Profile0 /\ ctl \in CtlType
  BY DEF IInv, OthersOK, Profiles, Profile0
<1>3. CASE StopCall([ctl EXCEPT !.selected = p, !.pending = p])
  <2> DEFINE c == [ctl EXCEPT !.selected = p, !.pending = p]
  <2>1. c \in CtlType /\ c.state = ctl.state /\ c.timer = ctl.timer /\ c.active = ctl.active
    BY <1>2 DEF CtlType
  <2> QED
    BY <1>3, <2>1, StopCallFine
<1>4. CASE ctl' = [ctl EXCEPT !.selected = p] /\ UNCHANGED account
  <2>1. ctl' \in CtlType /\ ctl'.state = ctl.state /\ ctl'.timer = ctl.timer
        /\ ctl'.active = ctl.active
    BY <1>2, <1>4 DEF CtlType
  <2>2. OthersOK' /\ ChildOK'
    BY <2>1 DEF IInv, OthersOK, ChildOK, Alive
  <2>3. poll.stage # "answered" => poll.value = -1
    BY DEF IInv, TrafficOK
  <2> QED
    BY <1>4, <2>1, <2>2, <2>3, QuietFine DEF account
<1> QED
  BY <1>1, <1>3, <1>4

LEMMA ClearSelectionFine ==
    ASSUME IInv, ClearSelection PROVE IInv' /\ BookedRight
<1> USE DEF ClearSelection
<1>1. 0 \in Profile0 /\ ctl \in CtlType
  BY UsageAssumption DEF IInv, OthersOK, Profile0
<1>2. ctl' \in CtlType /\ ctl'.state = ctl.state /\ ctl'.timer = ctl.timer /\ ctl'.active = 0
  BY <1>1 DEF CtlType
<1>3. OthersOK' /\ ChildOK'
  BY <1>2 DEF IInv, OthersOK, ChildOK, Alive
<1>4. poll.stage # "answered" => poll.value = -1
  BY DEF IInv, TrafficOK
<1> QED
  BY <1>2, <1>3, <1>4, QuietFine

LEMMA LaunchFine ==
    ASSUME IInv, NEW p \in Profiles, NEW c \in CtlType, c.timer = ctl.timer, ~Alive,
           Launch(p, c), UNCHANGED <<poll, phase, moved>>
    PROVE  IInv' /\ BookedRight
<1> DEFINE f == ForProfile(p, c)
<1>1. f \in CtlType /\ f.timer = ctl.timer /\ f.active = p
  <2>1. p \in Profile0
    BY DEF Profiles, Profile0
  <2> QED
    BY <2>1 DEF ForProfile, CtlType
<1>2. p # 0 /\ p \in Profile0 /\ ctl.timer = FALSE
  BY DEF Profiles, Profile0, IInv, ChildOK, Alive, OthersOK, CtlType
<1>3. poll.stage # "answered" => poll.value = -1
  BY DEF IInv, TrafficOK
<1>4. sample' = -1 /\ UNCHANGED <<books, session, saving, dirty>>
  BY DEF Launch
<1>5. CASE /\ ctl' = [f EXCEPT !.state = "Connecting"] /\ shown' = 0
           /\ child' = [NoChild EXCEPT !.pc = "starting", !.profile = p]
           /\ used.starts < MaxStarts /\ used' = [used EXCEPT !.starts = @ + 1]
  <2> HIDE DEF f
  <2>1. ctl' \in CtlType /\ ctl'.timer = FALSE /\ ctl'.active = p /\ ctl'.state = "Connecting"
    BY <1>1, <1>2, <1>5 DEF CtlType
  <2>2. child' \in ChildType /\ child'.pc = "starting" /\ child'.profile = p
        /\ child'.api = 0 /\ child'.log = 0
    <3>1. child' = [pc |-> "starting", profile |-> p, api |-> 0, log |-> 0]
      BY <1>5 DEF NoChild
    <3>2. 0 \in 0..MaxBytes
      BY UsageAssumption
    <3> QED
      BY <1>2, <3>1, <3>2 DEF ChildType
  <2>3. shown' \in 0..MaxBytes /\ used' \in [starts : 0..MaxStarts, clears : 0..MaxClears]
    BY <1>5, UsageAssumption DEF IInv, OthersOK
  <2>4. OthersOK' /\ ChildOK'
    BY <2>1, <2>2, <2>3 DEF IInv, OthersOK, ChildOK, Alive
  <2> QED
    BY <1>3, <1>4, <2>2, <2>4, QuietFine
<1>6. CASE ctl' = [f EXCEPT !.state = "Error"] /\ UNCHANGED <<shown, child, used>>
  <2> HIDE DEF f
  <2>1. ctl' \in CtlType /\ ctl'.timer = FALSE /\ ctl'.active = p /\ ctl'.state = "Error"
    BY <1>1, <1>2, <1>6 DEF CtlType
  <2>2. OthersOK' /\ ChildOK'
    BY <1>6, <2>1 DEF IInv, OthersOK, ChildOK, Alive
  <2> QED
    BY <1>3, <1>4, <1>6, <2>1, <2>2, QuietFine
<1> QED
  BY <1>5, <1>6 DEF Launch

LEMMA ConnectCallFine ==
    ASSUME IInv, phase = "up", NEW p \in Profiles, NEW c \in CtlType, c.state = ctl.state,
           c.timer = ctl.timer, c.active = ctl.active, ConnectCall(p, c),
           UNCHANGED <<poll, phase, moved>>
    PROVE  IInv' /\ BookedRight
<1>1. CASE ~Alive
  BY <1>1, LaunchFine DEF ConnectCall
<1>2. CASE Alive /\ (p # c.selected \/ c.pending # 0)
  <2> DEFINE s == [c EXCEPT !.pending = p]
  <2>1. s \in CtlType /\ s.state = ctl.state /\ s.timer = ctl.timer /\ s.active = ctl.active
    BY DEF CtlType, Profiles, Profile0
  <2> QED
    BY <1>2, <2>1, StopCallFine DEF ConnectCall
<1>3. CASE Alive /\ ~(p # c.selected \/ c.pending # 0)
  <2>1. c.state # "Connecting" /\ ctl' = [c EXCEPT !.state = "Connected"]
        /\ UNCHANGED account /\ UNCHANGED <<shown, child, used>>
    BY <1>3 DEF ConnectCall
  <2>2. ctl' \in CtlType /\ ctl'.timer = ctl.timer /\ ctl'.active = ctl.active
        /\ ctl'.state = "Connected"
    BY <2>1 DEF CtlType
  <2>3. child.pc = "running"
    BY <1>3, <2>1 DEF IInv, ChildOK, Alive, OthersOK, ChildType
  <2>4. OthersOK' /\ ChildOK'
    BY <2>1, <2>2, <2>3 DEF IInv, OthersOK, ChildOK, Alive
  <2>5. poll.stage # "answered" => poll.value = -1
    BY DEF IInv, TrafficOK
  <2> QED
    BY <2>1, <2>2, <2>4, <2>5, QuietFine DEF account
<1> QED
  BY <1>1, <1>2, <1>3

LEMMA ConnectToProfileFine ==
    ASSUME IInv, phase = "up", ConnectToProfile PROVE IInv' /\ BookedRight
  BY ConnectCallFine DEF ConnectToProfile, IInv, OthersOK

LEMMA ReconnectFiresFine ==
    ASSUME IInv, phase = "up", ReconnectFires PROVE IInv' /\ BookedRight
<1> USE DEF ReconnectFires
<1> DEFINE c == [ctl EXCEPT !.posted = 0]
<1>1. 0 \in Profile0 /\ ctl \in CtlType
  BY UsageAssumption DEF IInv, OthersOK, Profile0
<1>2. ctl.posted \in Profiles
  BY <1>1, UsageAssumption DEF CtlType, Profiles, Profile0
<1>3. c \in CtlType /\ c.state = ctl.state /\ c.timer = ctl.timer /\ c.active = ctl.active
  BY <1>1 DEF CtlType
<1>4. CASE ConnectCall(ctl.posted, c)
  BY <1>2, <1>3, <1>4, ConnectCallFine
<1>5. CASE ctl' = c /\ UNCHANGED <<account, shown, child, used>>
  <2>1. OthersOK' /\ ChildOK'
    BY <1>3, <1>5 DEF IInv, OthersOK, ChildOK, Alive
  <2>2. poll.stage # "answered" => poll.value = -1
    BY DEF IInv, TrafficOK
  <2> QED
    BY <1>3, <1>5, <2>1, <2>2, QuietFine DEF account
<1> QED
  BY <1>4, <1>5

LEMMA AccountOfIInv ==
    ASSUME IInv
    PROVE  /\ AccountOK /\ Account \in AccountType /\ Within(Account)
           /\ ctl.active \in Profile0 /\ ctl \in CtlType /\ child \in ChildType
           /\ poll.stage # "answered" => poll.value = -1
  BY AccountInState DEF IInv, AccountOK, OthersOK, CtlType, TrafficOK

\* The session of the stopped profile ends, the sample is forgotten; in either order.
LEMMA EndAndReset ==
    ASSUME IInv, NEW b, Becomes(b),
           \/ b = Reset(SessionEnded(Account, ctl.active))
           \/ b = SessionBegun(Reset(Account), ctl.active)
    PROVE  Booking(0, 0) /\ sample' = -1
<1>1. -1 \in -1..MaxBytes
  BY UsageAssumption
<1>2. CASE b = Reset(SessionEnded(Account, ctl.active))
  <2> DEFINE e == SessionEnded(Account, ctl.active)
  <2>1. Keeps(Account, e, 0, 0)
    BY AccountOfIInv, EndedKeeps
  <2>2. e \in AccountType /\ Within(e)
    BY <2>1 DEF Keeps
  <2> HIDE DEF e
  <2>3. Keeps(e, Reset(e), 0, 0) /\ Reset(e).sample = -1
    BY <1>1, <2>2, KeptAsIs DEF Reset
  <2>4. Keeps(Account, Reset(e), 0, 0)
    BY <2>1, <2>3, AccountOfIInv, KeepsTwice
  <2> QED
    BY <1>2, <2>3, <2>4, AccountOfIInv, BecomesBooks DEF e
<1>3. CASE b = SessionBegun(Reset(Account), ctl.active)
  <2> DEFINE r == Reset(Account)
  <2>1. Keeps(Account, r, 0, 0) /\ r.sample = -1
    BY <1>1, AccountOfIInv, KeptAsIs DEF Reset
  <2>2. r \in AccountType /\ Within(r)
    BY <2>1 DEF Keeps
  <2> HIDE DEF r
  <2>3. Keeps(r, b, 0, 0) /\ b.sample = -1
    BY <1>3, <2>1, <2>2, AccountOfIInv, BegunKeeps DEF r
  <2>4. Keeps(Account, b, 0, 0)
    BY <2>1, <2>3, AccountOfIInv, KeepsTwice
  <2> QED
    BY <2>3, <2>4, AccountOfIInv, BecomesBooks
<1> QED
  BY <1>2, <1>3

LEMMA ProcessStartedFine ==
    ASSUME IInv, phase = "up", ProcessStarted PROVE IInv' /\ BookedRight
<1> USE DEF ProcessStarted
<1>1. child' = [child EXCEPT !.pc = "running"] /\ child.pc = "starting"
      /\ UNCHANGED <<shown, phase, moved, used>>
  OBVIOUS
<1>2. child' \in ChildType /\ child'.pc = "running" /\ child'.profile = child.profile
      /\ child'.api = child.api /\ child'.log = child.log
  BY <1>1, AccountOfIInv DEF ChildType
<1>3. child.api = 0 /\ child.log = 0
  BY <1>1 DEF IInv, ChildOK
<1>4. CASE ctl.cancelled
  <2>1. ctl' \in CtlType /\ ctl'.state = ctl.state /\ ctl'.timer = ctl.timer
        /\ ctl'.active = ctl.active
    BY <1>4, AccountOfIInv DEF CtlType
  <2>2. UNCHANGED <<account, poll>>
    BY <1>4
  <2>3. OthersOK' /\ ChildOK'
    BY <1>1, <1>2, <2>1, <2>2 DEF IInv, OthersOK, ChildOK, Alive
  <2> QED
    BY <1>1, <1>2, <2>1, <2>2, <2>3, AccountOfIInv, QuietFine DEF account
<1>5. CASE ~ctl.cancelled
  <2>1. ctl' \in CtlType /\ ctl'.state = "Connected" /\ ctl'.active = ctl.active
    BY <1>5, AccountOfIInv DEF CtlType
  <2>2. Booking(0, 0) /\ sample' = -1
    BY <1>5, EndAndReset
  <2>3. poll' \in PollType /\ poll'.value \in {poll.value, -1}
        /\ (poll'.stage # "answered" => poll'.value = -1)
    BY <1>5, AccountOfIInv, UsageAssumption DEF Asked, PollType, IInv, OthersOK
  <2>4. OthersOK' /\ ChildOK'
    BY <1>1, <1>2, <2>1, <2>3 DEF IInv, OthersOK, ChildOK, Alive
  <2> QED
    BY <1>1, <1>2, <1>3, <2>2, <2>3, <2>4, QuietBookingFine
<1> QED
  BY <1>4, <1>5

LEMMA ProcessErrorFine ==
    ASSUME IInv, ProcessError PROVE IInv' /\ BookedRight
<1> USE DEF ProcessError
<1>1. UNCHANGED <<shown, poll, phase, moved, used>> /\ Alive
  OBVIOUS
<1>2. /\ child' \in ChildType /\ child'.api = child.api /\ child'.log = child.log
      /\ (child' = child /\ child.pc = "running") \/ child'.pc = "none"
  <2>1. CASE child.pc = "starting"
    <3>1. child' = NoChild /\ child.api = 0 /\ child.log = 0
      BY <2>1 DEF IInv, ChildOK
    <3> QED
      BY <3>1, UsageAssumption DEF NoChild, ChildType, Profile0
  <2>2. CASE child.pc # "starting"
    BY <1>1, <2>2, AccountOfIInv DEF Alive, ChildType
  <2> QED
    BY <2>1, <2>2
<1>3. CASE ctl.stopping
  <2>1. UNCHANGED <<ctl, account>>
    BY <1>3
  <2>2. child.pc # "running" => ctl.state # "Connected" /\ ctl.timer = FALSE
    BY AccountOfIInv DEF IInv, ChildOK, CtlType
  <2>3. OthersOK' /\ ChildOK'
    BY <1>1, <1>2, <2>1, <2>2 DEF IInv, OthersOK, ChildOK, Alive
  <2> QED
    BY <1>1, <1>2, <2>1, <2>3, AccountOfIInv, QuietFine DEF account
<1>4. CASE ~ctl.stopping
  <2>1. ctl' \in CtlType /\ ctl'.timer = FALSE /\ ctl'.state = "Error"
        /\ ctl'.active = ctl.active
    BY <1>4, AccountOfIInv DEF CtlType
  <2>2. Booking(0, 0) /\ sample' = -1
    BY <1>4, EndAndReset
  <2>3. OthersOK' /\ ChildOK'
    BY <1>1, <1>2, <2>1 DEF IInv, OthersOK, ChildOK, Alive
  <2> QED
    BY <1>1, <1>2, <2>1, <2>2, <2>3, AccountOfIInv, QuietBookingFine
<1> QED
  BY <1>3, <1>4

LEMMA ProcessStoppedFine ==
    ASSUME IInv, ProcessStopped PROVE IInv' /\ BookedRight
<1> USE DEF ProcessStopped
<1>1. UNCHANGED <<shown, poll, phase, moved, used>> /\ child' = NoChild
  OBVIOUS
<1>2. Booking(0, 0) /\ sample' = -1
  BY EndAndReset DEF ClosedByEnd
<1>3. child' \in ChildType /\ child'.api = 0 /\ child'.log = 0 /\ child'.pc = "none"
  BY <1>1, UsageAssumption DEF NoChild, ChildType, Profile0
<1>4. ctl' \in CtlType /\ ctl'.timer = FALSE /\ ctl'.state # "Connected"
  <2> DEFINE c == [ctl EXCEPT !.timer = FALSE]
             s == [c EXCEPT !.stopping = FALSE, !.cancelled = FALSE, !.state = "Disconnected"]
             d == [c EXCEPT !.state = IF @ = "Error" THEN @ ELSE "Disconnected",
                            !.cancelled = FALSE, !.pending = 0, !.active = 0]
  <2>1. c \in CtlType /\ c.timer = FALSE /\ 0 \in Profile0
    <3>1. 0 \in Profile0
      BY UsageAssumption DEF Profile0
    <3>2. ctl \in CtlType
      BY AccountOfIInv
    <3> QED
      BY <3>1, <3>2 DEF CtlType
  <2>2. CASE ctl.stopping /\ ctl' = Reconnecting(s)
    <3>1. s \in CtlType /\ s.timer = FALSE /\ s.state = "Disconnected"
      BY <2>1 DEF CtlType
    <3> HIDE DEF s
    <3> QED
      BY <2>2, <3>1, ReconnectingFields
  <2>3. CASE ctl' = [c EXCEPT !.state = "Error"]
    BY <2>1, <2>3 DEF CtlType
  <2>4. CASE ctl' = d
    <3> HIDE DEF c
    <3>1. d \in CtlType /\ d.timer = FALSE /\ d.state \in {"Error", "Disconnected"}
      BY <2>1 DEF CtlType
    <3> QED
      BY <2>4, <3>1
  <2> QED
    BY <2>2, <2>3, <2>4
<1>5. OthersOK' /\ ChildOK'
  BY <1>1, <1>3, <1>4 DEF IInv, OthersOK, ChildOK, Alive
<1> QED
  BY <1>1, <1>2, <1>3, <1>5, AccountOfIInv, QuietBookingFine

LEMMA TrafficMovesFine ==
    ASSUME IInv, TrafficMoves PROVE IInv' /\ BookedRight
<1> USE DEF TrafficMoves
<1>1. UNCHANGED <<ctl, shown, poll, books, session, sample, saving, dirty, phase, used>>
      /\ child.pc = "running"
  BY DEF account
<1>2. /\ child'.pc = child.pc /\ child'.profile = child.profile
      /\ child'.api = child.api + 1 /\ child'.log = child.log
      /\ child \in ChildType
  BY AccountOfIInv DEF ChildType
<1>3. /\ moved'.real = moved.real + 1 /\ moved'.logged = moved.logged
      /\ moved'.again = moved.again /\ moved.real < MaxBytes
      /\ moved' \in [real : 0..MaxBytes, logged : 0..MaxBytes, again : Nat]
  BY UsageAssumption DEF IInv, OthersOK
<1>4. Booking(0, 0)
  BY <1>1, AccountOfIInv, Numbers, UnchangedBooks
<1>5. child.api + 1 \in 0..MaxBytes
  BY <1>3, Numbers, UsageAssumption DEF IInv, TrafficOK
<1>6. OthersOK' /\ ChildOK'
  <2>1. child' \in ChildType
    BY <1>5, AccountOfIInv DEF ChildType
  <2> QED
    BY <1>1, <1>2, <1>3, <2>1 DEF IInv, OthersOK, ChildOK, Alive
<1>7. TrafficOK'
  BY <1>1, <1>2, <1>3, Numbers DEF IInv, TrafficOK
<1>8. SlackOK'
  <2>1. Slack' \in Int /\ Slack' >= Slack + 1
    BY <1>3, <1>4, Numbers, TotalGrows DEF Slack, IInv
  <2>2. CASE ctl.timer
    BY <1>1, <1>2, <2>1, <2>2, Numbers DEF IInv, SlackOK, ApiCounts
  <2>3. CASE ~ctl.timer
    BY <1>1, <1>2, <2>1, <2>3, Numbers DEF IInv, SlackOK, LogCounts
  <2> QED
    BY <2>2, <2>3
<1> QED
  BY <1>4, <1>6, <1>7, <1>8, NothingBooked DEF IInv, Booking

\* An answer or a log line that is noted books on the child's profile.
LEMMA NotedBooks ==
    ASSUME IInv, NEW next \in 0..MaxBytes, Noted(next), child.pc = "running"
    PROVE  /\ BookedRight /\ AccountOK' /\ shown' \in 0..MaxBytes
           /\ \/ next = shown /\ sample' = sample /\ TotalBooked' <= TotalBooked
              \/ next # shown /\ sample' = next
                 /\ TotalBooked' <= TotalBooked + Delta(sample, next)
<1>1. CASE next = shown
  <2>1. UNCHANGED <<books, session, sample, saving, dirty, shown>>
    BY <1>1 DEF Noted, account
  <2>2. Booking(0, 0)
    BY <2>1, AccountOfIInv, Numbers, UnchangedBooks
  <2> QED
    BY <1>1, <2>1, <2>2, AccountOfIInv, NothingBooked, TotalGrows, Numbers
       DEF Booking, IInv, OthersOK
<1>2. CASE next # shown
  <2> DEFINE b == Sampled(Account, ctl, next)
             q == BookedOn(ctl)
             d == Delta(sample, next)
  <2>1. Becomes(b) /\ shown' = next
    BY <1>2 DEF Noted
  <2>2. Keeps(Account, b, q, d) /\ b.sample = next
    BY AccountOfIInv, AccountInState, SampledKeeps
  <2>3. d \in Nat
    BY Numbers, UsageAssumption DEF Delta
  <2>4. ctl.active # 0 => q = child.profile
    BY DEF BookedOn, IInv, ChildOK, Alive
  <2> HIDE DEF b, q, d
  <2>5. Booking(q, d) /\ sample' = next
    BY <2>1, <2>2, <2>3, AccountOfIInv, BecomesBooks
  <2>6. \A p \in Profiles : books[p].total \in Nat /\ books'[p].total \in Nat
    BY <2>5, AccountOfIInv DEF AccountOK, Booking, Account, AccountType, BooksType
  <2>7. BookedRight
    BY <2>4, <2>5, <2>6 DEF Booking, BookedRight
  <2>8. TotalBooked' <= TotalBooked + d
    BY <2>3, <2>5, AccountOfIInv, TotalGrows
  <2> QED
    BY <1>2, <2>1, <2>5, <2>7, <2>8 DEF Booking, d
<1> QED
  BY <1>1, <1>2

LEMMA LogLineFine ==
    ASSUME IInv, LogLine PROVE IInv' /\ BookedRight
<1> DEFINE next == child.log + 1
<1>1. /\ child' = [child EXCEPT !.log = @ + 1] /\ moved' = [moved EXCEPT !.logged = @ + 1]
      /\ UNCHANGED <<ctl, poll, phase, used>>
      /\ child.pc = "running" /\ child.log < child.api
  BY DEF LogLine
<1>2. next \in 0..MaxBytes /\ moved.logged + 1 \in 0..MaxBytes
  BY <1>1, Numbers, UsageAssumption DEF IInv, TrafficOK, OthersOK, ChildType
<1>3. /\ child' \in ChildType /\ child'.pc = child.pc /\ child'.profile = child.profile
      /\ child'.api = child.api /\ child'.log = next
  BY <1>1, <1>2, AccountOfIInv DEF ChildType
<1>4. /\ moved'.real = moved.real /\ moved'.logged = moved.logged + 1
      /\ moved'.again = moved.again
      /\ moved' \in [real : 0..MaxBytes, logged : 0..MaxBytes, again : Nat]
  BY <1>1, <1>2 DEF IInv, OthersOK
<1>5. ChildOK'
  BY <1>1, <1>3 DEF IInv, ChildOK, Alive
<1>6. child'.log <= child'.api /\ child'.api <= moved'.real
      /\ moved'.logged + child'.api - child'.log <= moved'.real
  BY <1>1, <1>3, <1>4, Numbers DEF IInv, TrafficOK
<1>7. CASE ctl.timer
  <2>1. UNCHANGED <<account, shown>>
    BY <1>7 DEF LogLine
  <2>2. Booking(0, 0)
    BY <2>1, AccountOfIInv, Numbers, UnchangedBooks DEF account
  <2>3. Slack' \in Int /\ Slack' >= Slack + 1
    BY <1>4, <2>2, Numbers, TotalGrows DEF Slack, IInv
  <2>4. SlackOK'
    BY <1>1, <1>3, <1>7, <2>1, <2>3, Numbers DEF IInv, SlackOK, ApiCounts, account
  <2>5. TrafficOK'
    BY <1>1, <1>3, <1>4, <1>6, <2>1 DEF IInv, TrafficOK, account
  <2>6. OthersOK'
    BY <1>1, <1>3, <1>4, <2>1 DEF IInv, OthersOK
  <2> QED
    BY <1>5, <2>2, <2>4, <2>5, <2>6, AccountOfIInv, NothingBooked DEF IInv, Booking
<1>8. CASE ~ctl.timer
  <2>1. Noted(next)
    BY <1>3, <1>8 DEF LogLine
  <2> HIDE DEF next
  <2>2. /\ BookedRight /\ AccountOK' /\ shown' \in 0..MaxBytes
        /\ \/ sample' = sample /\ TotalBooked' <= TotalBooked
           \/ sample' = next /\ TotalBooked' <= TotalBooked + Delta(sample, next)
    BY <1>1, <1>2, <2>1, NotedBooks
  <2>3. OthersOK'
    BY <1>1, <1>3, <1>4, <2>2 DEF IInv, OthersOK
  <2>4. LogCounts(Slack, child.log, sample)
    BY <1>8 DEF IInv, SlackOK
  <2>5. TotalBooked' \in Nat
    BY <2>2, TotalIsNatNext
  <2>6. Slack' = moved.real + moved.logged + 1 + moved.again - TotalBooked' /\ Slack' \in Int
    BY <1>4, <2>5, Numbers DEF Slack
  <2>7. LogCounts(Slack', next, sample')
    <3>1. CASE sample' = sample /\ TotalBooked' <= TotalBooked
      <4>1. Slack' >= Slack + 1
        BY <2>5, <2>6, <3>1, Numbers DEF Slack
      <4> QED
        BY <2>4, <2>6, <3>1, <4>1, Numbers DEF LogCounts, next
    <3>2. CASE sample' = next /\ TotalBooked' <= TotalBooked + Delta(sample, next)
      <4>1. Delta(sample, next) \in Nat
        BY <1>2, Numbers, UsageAssumption DEF Delta
      <4>2. Slack' >= Slack + 1 - Delta(sample, next)
        BY <2>5, <2>6, <3>2, <4>1, Numbers DEF Slack
      <4>3. Slack' >= 0
        BY <2>4, <2>6, <4>1, <4>2, Numbers DEF LogCounts, Delta, next
      <4> QED
        BY <1>2, <2>6, <3>2, <4>3, UsageAssumption DEF LogCounts
    <3> QED
      BY <2>2, <3>1, <3>2
  <2>8. SlackOK'
    BY <1>1, <1>3, <1>8, <2>7 DEF SlackOK
  <2>9. sample' <= moved'.real
    BY <1>1, <1>4, <2>2, Numbers DEF IInv, TrafficOK, next
  <2>10. TrafficOK'
    BY <1>1, <1>4, <1>6, <1>8, <2>9 DEF IInv, TrafficOK
  <2> QED
    BY <1>5, <2>2, <2>3, <2>8, <2>10 DEF IInv
<1> QED
  BY <1>7, <1>8

LEMMA PollAsksFine ==
    ASSUME IInv, PollAsks PROVE IInv' /\ BookedRight
<1>1. UNCHANGED <<ctl, child, shown, account, phase, moved, used>>
      /\ poll' = [stage |-> "asked", value |-> -1]
  BY DEF PollAsks, Asked
<1>2. poll' \in PollType
  BY <1>1, UsageAssumption DEF PollType
<1>3. OthersOK' /\ ChildOK'
  BY <1>1, <1>2 DEF IInv, OthersOK, ChildOK, Alive
<1> QED
  BY <1>1, <1>3, QuietFine DEF account

LEMMA PollReadsFine ==
    ASSUME IInv, PollReads PROVE IInv' /\ BookedRight
<1>1. UNCHANGED <<ctl, child, shown, books, session, sample, saving, dirty, phase, moved, used>>
  BY DEF PollReads, account
<1>2. poll'.stage = "answered" /\ poll'.value \in {-1, child.api} /\ poll' \in PollType
  BY AccountOfIInv, UsageAssumption DEF PollReads, PollType, ChildType
<1>3. OthersOK' /\ ChildOK'
  BY <1>1, <1>2 DEF IInv, OthersOK, ChildOK, Alive
<1>4. Booking(0, 0)
  BY <1>1, AccountOfIInv, Numbers, UnchangedBooks
<1>5. TrafficOK'
  BY <1>1, <1>2, Numbers DEF IInv, TrafficOK
<1>6. SlackOK'
  <2>1. Slack' \in Int /\ Slack' >= Slack
    BY <1>1, <1>4, Numbers, TotalGrows DEF Slack, IInv
  <2>2. CASE ctl.timer
    <3>1. ApiCounts(Slack, child.log, child.api, sample, poll.value)
      BY <2>2 DEF IInv, SlackOK
    <3>2. ApiCounts(Slack', child.log, child.api, sample, poll'.value)
      BY <1>2, <2>1, <3>1, Numbers DEF ApiCounts
    <3> QED
      BY <1>1, <2>2, <3>2 DEF SlackOK
  <2>3. CASE ~ctl.timer
    BY <1>1, <2>1, <2>3, Numbers DEF IInv, SlackOK, LogCounts
  <2> QED
    BY <2>2, <2>3
<1> QED
  BY <1>3, <1>4, <1>5, <1>6, NothingBooked DEF IInv, Booking

\* An answer in time raises what is booked of the child to the answer at most ...
LEMMA AnswerInTime ==
    ASSUME NEW slack \in Int, NEW slack2 \in Int, NEW log \in Nat, NEW api \in Nat,
           NEW smp \in Int, smp >= -1, NEW value \in Nat, smp >= 0 => value <= api,
           ApiCounts(slack, log, api, smp, value), slack2 >= slack - Delta(smp, value)
    PROVE  ApiCounts(slack2, log, api, value, -1)
<1>1. PICK x \in 0..api : /\ slack >= log + api - x
                          /\ smp >= 0 => x <= smp
                          /\ x > 0 => smp <= api /\ value <= api /\ x <= value /\ smp <= value
  BY DEF ApiCounts
<1>2. CASE smp < 0
  <2>1. slack2 >= log + api - x /\ x <= value
    BY <1>1, <1>2 DEF Delta
  <2> QED
    BY <1>1, <2>1 DEF ApiCounts
<1>3. CASE smp >= 0
  <2>1. value \in 0..api
    BY <1>3
  <2>2. slack2 >= log + api - value
    <3>1. CASE value < smp
      <4>1. x = 0
        BY <1>1, <3>1
      <4> QED
        BY <1>1, <1>3, <3>1, <4>1 DEF Delta
    <3>2. CASE value >= smp
      BY <1>1, <1>3, <3>2 DEF Delta
    <3> QED
      BY <3>1, <3>2
  <2> QED
    BY <2>1, <2>2 DEF ApiCounts
<1> QED
  BY <1>2, <1>3

\* ... and one that is too late is made up for by what all children have moved.
LEMMA AnswerTooLate ==
    ASSUME NEW slack \in Int, NEW slack2 \in Int, NEW log \in Nat, NEW real \in Nat,
           NEW smp \in Int, smp >= -1, NEW value \in Nat, value <= real, log <= real,
           LogCounts(slack, log, smp), slack2 >= slack + real - Delta(smp, value)
    PROVE  LogCounts(slack2, log, value)
<1>1. CASE smp < 0
  BY <1>1 DEF LogCounts, Delta
<1>2. CASE smp >= 0 /\ value < smp
  BY <1>2 DEF LogCounts, Delta
<1>3. CASE smp >= 0 /\ value >= smp
  BY <1>3 DEF LogCounts, Delta
<1> QED
  BY <1>1, <1>2, <1>3

LEMMA PollArrivesFine ==
    ASSUME IInv, PollArrives PROVE IInv' /\ BookedRight
<1>1. UNCHANGED <<ctl, child, phase, used>> /\ poll' = NoPoll
  BY DEF PollArrives
<1>2. poll' \in PollType /\ poll'.value = -1
  BY <1>1, UsageAssumption DEF NoPoll, PollType
<1>3. CASE ctl.state = "Connected" /\ poll.value >= 0
  <2> DEFINE next == poll.value
  <2>1. next \in 0..MaxBytes /\ next \in Nat
    BY <1>3, UsageAssumption DEF IInv, OthersOK, PollType
  <2>2. Noted(next) /\ child.pc = "running"
        /\ moved' = IF TooLate THEN [moved EXCEPT !.again = @ + moved.real] ELSE moved
    BY <1>3 DEF PollArrives, IInv, ChildOK
  <2>3. /\ BookedRight /\ AccountOK' /\ shown' \in 0..MaxBytes
        /\ \/ next = shown /\ sample' = sample /\ TotalBooked' <= TotalBooked
           \/ next # shown /\ sample' = next
              /\ TotalBooked' <= TotalBooked + Delta(sample, next)
    BY <2>1, <2>2, NotedBooks
  <2>4. /\ moved'.real = moved.real /\ moved'.logged = moved.logged
        /\ moved'.again = IF TooLate THEN moved.again + moved.real ELSE moved.again
        /\ moved' \in [real : 0..MaxBytes, logged : 0..MaxBytes, again : Nat]
    BY <2>2, UsageAssumption DEF IInv, OthersOK
  <2>5. OthersOK' /\ ChildOK'
    BY <1>1, <1>2, <2>3, <2>4 DEF IInv, OthersOK, ChildOK, Alive
  <2>6. TrafficOK'
    BY <1>1, <1>2, <2>3, <2>4, Numbers DEF IInv, TrafficOK
  <2>7. TotalBooked' \in Nat /\ TotalBooked \in Nat /\ Slack' \in Int
        /\ Slack' - Slack = moved'.again - moved.again + TotalBooked - TotalBooked'
    BY <2>3, <2>4, TotalIsNatNext, Numbers DEF Slack
  <2>8. Delta(sample, next) \in Nat
    BY <2>1, Numbers DEF Delta
  <2>9. ASSUME ctl.timer PROVE SlackOK'
    <3>1. ApiCounts(Slack, child.log, child.api, sample, next) /\ ~TooLate
      BY <2>9 DEF IInv, SlackOK, TooLate
    <3>2. sample >= 0 => next <= child.api
      BY <2>9 DEF IInv, TrafficOK
    <3> HIDE DEF next
    <3>3. ApiCounts(Slack', child.log, child.api, sample', -1)
      <4>1. CASE sample' = sample /\ TotalBooked' <= TotalBooked
        <5>1. Slack' >= Slack
          BY <2>4, <2>7, <3>1, <4>1, Numbers
        <5> QED
          BY <3>1, <4>1, <5>1, <2>1, <2>7, Numbers DEF ApiCounts
      <4>2. CASE sample' = next /\ TotalBooked' <= TotalBooked + Delta(sample, next)
        <5>1. Slack' >= Slack - Delta(sample, next)
          BY <2>4, <2>7, <2>8, <3>1, <4>2, Numbers
        <5> QED
          BY <3>1, <3>2, <4>2, <5>1, <2>1, <2>7, Numbers, AnswerInTime
      <4> QED
        BY <2>3, <4>1, <4>2
    <3> QED
      BY <1>1, <1>2, <2>9, <3>3 DEF SlackOK
  <2>10. ASSUME ~ctl.timer PROVE SlackOK'
    <3>1. LogCounts(Slack, child.log, sample)
      BY <2>10 DEF IInv, SlackOK
    <3>2. next <= moved.real /\ child.log <= moved.real
      BY Numbers DEF IInv, TrafficOK
    <3>3. TooLate <=> next # shown
      BY <2>10 DEF TooLate
    <3> HIDE DEF next
    <3>4. LogCounts(Slack', child.log, sample')
      <4>1. CASE sample' = sample /\ TotalBooked' <= TotalBooked
        <5>1. Slack' >= Slack
          BY <2>4, <2>7, <4>1, Numbers
        <5> QED
          BY <3>1, <4>1, <5>1, <2>7, Numbers DEF LogCounts
      <4>2. CASE next # shown /\ sample' = next
                 /\ TotalBooked' <= TotalBooked + Delta(sample, next)
        <5>1. Slack' >= Slack + moved.real - Delta(sample, next)
          BY <2>4, <2>7, <2>8, <3>3, <4>2, Numbers
        <5> QED
          BY <3>1, <3>2, <4>2, <5>1, <2>1, <2>7, Numbers, AnswerTooLate
      <4> QED
        BY <2>3, <4>1, <4>2
    <3> QED
      BY <1>1, <2>10, <3>4 DEF SlackOK
  <2>11. SlackOK'
    BY <2>9, <2>10
  <2> QED
    BY <2>3, <2>5, <2>6, <2>11 DEF IInv
<1>4. CASE ~(ctl.state = "Connected" /\ poll.value >= 0)
  <2>1. UNCHANGED <<account, shown, moved>>
    BY <1>4 DEF PollArrives
  <2>2. OthersOK' /\ ChildOK'
    BY <1>1, <1>2, <2>1 DEF IInv, OthersOK, ChildOK, Alive
  <2> QED
    BY <1>1, <1>2, <2>1, <2>2, QuietFine DEF account
<1> QED
  BY <1>3, <1>4

\* The books are saved, or parts of them cleared: the connection is not concerned.
LEMMA FileFine ==
    ASSUME IInv, Booking(0, 0), UNCHANGED <<ctl, child, sample, shown, poll, phase, moved>>,
           used' \in [starts : 0..MaxStarts, clears : 0..MaxClears]
    PROVE  IInv' /\ BookedRight
<1>1. OthersOK' /\ ChildOK'
  BY DEF IInv, OthersOK, ChildOK, Alive
<1> QED
  BY <1>1, AccountOfIInv, QuietBookingFine

LEMMA SaveTimerFiresFine ==
    ASSUME IInv, SaveTimerFires PROVE IInv' /\ BookedRight
<1>1. UNCHANGED <<ctl, child, sample, shown, session, poll, books, phase, moved, used>>
      /\ saving' = FALSE /\ dirty' = FALSE
  BY DEF SaveTimerFires, Saved
<1>2. AccountOK'
  BY <1>1, AccountOfIInv
     DEF AccountOK, Account, AccountType, SessionWithinTotal, DirtyIsScheduled
<1>3. Booking(0, 0)
  BY <1>1, <1>2, AccountOfIInv
     DEF Booking, AccountOK, Account, AccountType, BooksType
<1> QED
  BY <1>1, <1>3, FileFine DEF IInv, OthersOK

LEMMA ClearCurrentProfileUsageFine ==
    ASSUME IInv, ClearCurrentProfileUsage PROVE IInv' /\ BookedRight
<1> DEFINE p == ctl.selected
<1>1. /\ p # 0 /\ used.clears < MaxClears /\ used' = [used EXCEPT !.clears = @ + 1]
      /\ books' = [books EXCEPT ![p] = Empty]
      /\ session' = IF session.id = p THEN [session EXCEPT !.bytes = 0] ELSE session
      /\ saving' = TRUE /\ dirty' = TRUE
      /\ UNCHANGED <<ctl, child, sample, shown, poll, phase, moved>>
  BY DEF ClearCurrentProfileUsage, Clearing, Forget, ClearIsSaved
<1>2. p \in Profiles
  BY <1>1, AccountOfIInv, UsageAssumption DEF CtlType, Profiles, Profile0
<1>3. /\ books \in BooksType /\ session \in [id : Profile0, bytes : Nat]
      /\ sample \in -1..MaxBytes /\ SessionWithinTotal
  BY AccountOfIInv DEF AccountOK, Account, AccountType
<1> HIDE DEF p
<1>4. /\ books' \in BooksType /\ books'[p] = Empty
      /\ \A q \in Profiles \ {p} : books'[q] = books[q]
  BY <1>1, <1>2, <1>3 DEF BooksType, Empty
<1>5. /\ session' \in [id : Profile0, bytes : Nat] /\ session'.id = session.id
      /\ session'.bytes = IF session.id = p THEN 0 ELSE session.bytes
  BY <1>1, <1>3
<1>6. SessionWithinTotal'
  BY <1>3, <1>4, <1>5 DEF SessionWithinTotal, Empty
<1>7. AccountOK'
  BY <1>1, <1>3, <1>4, <1>5, <1>6 DEF AccountOK, Account, AccountType, DirtyIsScheduled
<1>8. Booking(0, 0)
  BY <1>3, <1>4, <1>7 DEF Booking, BooksType, Empty
<1>9. used' \in [starts : 0..MaxStarts, clears : 0..MaxClears]
  BY <1>1, UsageAssumption DEF IInv, OthersOK
<1> QED
  BY <1>1, <1>8, <1>9, FileFine

LEMMA NothingInTheBooks ==
    /\ NoBooks \in BooksType /\ NoSession \in [id : Profile0, bytes : Nat]
    /\ \A p \in Profiles : NoBooks[p] = Empty
  BY UsageAssumption DEF NoBooks, NoSession, BooksType, Empty, Profile0

LEMMA ClearAllProfileUsageFine ==
    ASSUME IInv, ClearAllProfileUsage PROVE IInv' /\ BookedRight
<1>1. /\ used.clears < MaxClears /\ used' = [used EXCEPT !.clears = @ + 1]
      /\ books' = NoBooks /\ session' = NoSession /\ saving' = TRUE /\ dirty' = TRUE
      /\ UNCHANGED <<ctl, child, sample, shown, poll, phase, moved>>
  BY DEF ClearAllProfileUsage, Clearing, ClearIsSaved
<1>2. books \in BooksType /\ sample \in -1..MaxBytes
  BY AccountOfIInv DEF AccountOK, Account, AccountType
<1>3. /\ NoBooks \in BooksType /\ NoSession \in [id : Profile0, bytes : Nat]
      /\ \A p \in Profiles : NoBooks[p] = Empty
  BY UsageAssumption DEF NoBooks, NoSession, BooksType, Empty, Profile0
<1>4. SessionWithinTotal'
  BY <1>1, <1>3 DEF SessionWithinTotal, Empty, NoSession
<1>5. AccountOK'
  BY <1>1, <1>2, <1>3, <1>4 DEF AccountOK, Account, AccountType, DirtyIsScheduled
<1>6. Booking(0, 0)
  BY <1>1, <1>2, <1>3, <1>5 DEF Booking, BooksType, Empty
<1>7. used' \in [starts : 0..MaxStarts, clears : 0..MaxClears]
  BY <1>1, UsageAssumption DEF IInv, OthersOK
<1> QED
  BY <1>1, <1>6, <1>7, FileFine

LEMMA AtStartType ==
    ASSUME NEW p \in Profile0 PROVE AtStart(p) \in CtlType
  BY UsageAssumption DEF AtStart, CtlType, Profile0

LEMMA AboutToQuitFine ==
    ASSUME IInv, AboutToQuit PROVE IInv' /\ BookedRight
<1>1. /\ phase' = "quitting" /\ poll' = NoPoll /\ UNCHANGED <<child, shown, moved, used>>
      /\ ctl' = [AtStart(ctl.selected) EXCEPT !.active = ctl.active, !.cancelled = TRUE]
      /\ Becomes(SessionEnded(Account, ctl.active))
  BY DEF AboutToQuit
<1>2. ctl' \in CtlType /\ ctl'.timer = FALSE /\ ctl'.state = "Disconnected"
      /\ ctl'.active = ctl.active
  <2>1. AtStart(ctl.selected) \in CtlType /\ AtStart(ctl.selected).timer = FALSE
        /\ AtStart(ctl.selected).state = "Disconnected"
    BY AtStartType, AccountOfIInv DEF CtlType, AtStart
  <2> QED
    BY <1>1, <2>1, AccountOfIInv DEF CtlType
<1>3. poll' \in PollType /\ poll'.value = -1
  BY <1>1, UsageAssumption DEF NoPoll, PollType
<1> DEFINE e == SessionEnded(Account, ctl.active)
<1>4. Keeps(Account, e, 0, 0) /\ e.sample = sample
  BY AccountOfIInv, AccountInState, EndedKeeps
<1>5. Becomes(e)
  BY <1>1
<1> HIDE DEF e
<1>6. Booking(0, 0) /\ sample' = sample
  BY <1>4, <1>5, AccountOfIInv, BecomesBooks
<1>7. OthersOK' /\ ChildOK'
  BY <1>1, <1>2, <1>3 DEF IInv, OthersOK, ChildOK, Alive
<1> QED
  BY <1>1, <1>2, <1>3, <1>6, <1>7, QuietBookingFine

LEMMA DestroyedFine ==
    ASSUME IInv, Destroyed PROVE IInv' /\ BookedRight
<1>1. /\ phase' = "gone" /\ saving' = FALSE /\ dirty' = FALSE /\ ctl' = AtStart(0)
      /\ child' = NoChild /\ poll' = NoPoll /\ shown' = 0 /\ sample' = -1
      /\ UNCHANGED <<books, session, moved, used>>
  BY DEF Destroyed, FinalSave, Saved
<1>2. /\ ctl' \in CtlType /\ ctl'.timer = FALSE /\ ctl'.state = "Disconnected"
      /\ ctl'.active = 0
  BY <1>1, AtStartType, UsageAssumption DEF AtStart, Profile0
<1>3. /\ poll' \in PollType /\ poll'.value = -1 /\ shown' \in 0..MaxBytes
      /\ child' \in ChildType /\ child'.pc = "none" /\ child'.api = 0 /\ child'.log = 0
  BY <1>1, UsageAssumption DEF NoPoll, PollType, NoChild, ChildType, Profile0
<1>4. AccountOK'
  <2>1. /\ books \in BooksType /\ session \in [id : Profile0, bytes : Nat]
        /\ SessionWithinTotal /\ -1 \in -1..MaxBytes
    BY AccountOfIInv, UsageAssumption DEF AccountOK, Account, AccountType
  <2>2. Account' \in AccountType
    BY <1>1, <2>1 DEF Account, AccountType
  <2>3. SessionWithinTotal'
    BY <1>1, <2>1 DEF SessionWithinTotal
  <2> QED
    BY <1>1, <2>2, <2>3 DEF AccountOK, DirtyIsScheduled
<1>5. Booking(0, 0)
  BY <1>1, <1>4, AccountOfIInv DEF Booking, AccountOK, Account, AccountType, BooksType
<1>6. OthersOK' /\ ChildOK'
  BY <1>1, <1>2, <1>3 DEF IInv, OthersOK, ChildOK, Alive
<1> QED
  BY <1>1, <1>3, <1>5, <1>6, QuietBookingFine

-----------------------------------------------------------------------------
(* Theorems *)

LEMMA InitIInv == Init => IInv
<1> SUFFICES ASSUME Init PROVE IInv
  OBVIOUS
<1> USE DEF Init
<1>1. OthersOK
  <2>1. ctl \in CtlType
    BY AtStartType, UsageAssumption DEF Profile0
  <2>2. child \in ChildType /\ poll \in PollType
    BY UsageAssumption DEF NoChild, ChildType, NoPoll, PollType, Profile0
  <2> QED
    BY <2>1, <2>2, UsageAssumption DEF OthersOK
<1>2. AccountOK
  <2>1. -1 \in -1..MaxBytes
    BY UsageAssumption
  <2>2. Account \in AccountType
    BY <2>1, NothingInTheBooks DEF Account, AccountType
  <2>3. SessionWithinTotal
    BY NothingInTheBooks DEF SessionWithinTotal, Empty, NoSession
  <2> QED
    BY <2>2, <2>3 DEF AccountOK, DirtyIsScheduled
<1>3. ctl.timer = FALSE /\ ctl.state = "Disconnected" /\ ctl.active = 0
  BY DEF AtStart
<1>4. ChildOK
  BY <1>3 DEF ChildOK, NoChild, Alive
<1>5. TrafficOK
  BY <1>3 DEF TrafficOK, NoChild, NoPoll
<1>6. SlackOK
  <2>1. IsFiniteSet(Profiles)
    BY FS_Interval, UsageAssumption DEF Profiles
  <2>2. SumOf(books, Profiles) = 0
    BY <2>1, SumOfNothing DEF NoBooks, Empty
  <2>3. Slack = 0
    BY <2>2, TotalIsSum DEF Slack
  <2> QED
    BY <1>3, <2>3 DEF SlackOK, LogCounts, NoChild
<1> QED
  BY <1>1, <1>2, <1>4, <1>5, <1>6 DEF IInv

LEMMA StutterFine ==
    ASSUME IInv, UNCHANGED vars PROVE IInv' /\ BookedRight
<1>1. OthersOK' /\ ChildOK'
  BY DEF IInv, OthersOK, ChildOK, Alive, vars
<1> QED
  BY <1>1, AccountOfIInv, QuietFine DEF vars, account

LEMMA NextFine ==
    ASSUME IInv, [Next]_vars PROVE IInv' /\ BookedRight
<1>1. CASE UNCHANGED vars
  BY <1>1, StutterFine
<1>2. CASE phase = "up" /\ Running
  BY <1>2, DisconnectFine, SelectProfileFine, ClearSelectionFine, ConnectToProfileFine,
     ReconnectFiresFine, ProcessStartedFine, ProcessErrorFine, ProcessStoppedFine,
     TrafficMovesFine, LogLineFine, PollAsksFine, PollReadsFine, PollArrivesFine,
     SaveTimerFiresFine, ClearCurrentProfileUsageFine, ClearAllProfileUsageFine DEF Running
<1>3. CASE AboutToQuit
  BY <1>3, AboutToQuitFine
<1>4. CASE LogLine
  BY <1>4, LogLineFine
<1>5. CASE Destroyed
  BY <1>5, DestroyedFine
<1> QED
  BY <1>1, <1>2, <1>3, <1>4, <1>5 DEF Next

LEMMA IInvGivesProperties == IInv => TypeOK /\ BooksAddUp /\ DirtyIsScheduled
<1> SUFFICES ASSUME IInv PROVE TypeOK /\ BooksAddUp /\ DirtyIsScheduled
  OBVIOUS
<1>1. BookedPerCounter
  BY SlackIsNat, Numbers DEF BookedPerCounter, Slack
<1> QED
  BY <1>1, TypeFromParts DEF IInv, AccountOK, BooksAddUp

LEMMA IInvAlways == Spec => []IInv
<1>1. IInv /\ [Next]_vars => IInv'
  BY NextFine
<1> QED
  BY InitIInv, <1>1, PTL DEF Spec

\* Every variable of the usage accounting keeps its type.
THEOREM TypeCorrect == Spec => []TypeOK
  BY IInvAlways, IInvGivesProperties, PTL

\* No movement of a counter is booked twice, however many children, profiles, samples
\* and late answers there are, and the sessions of a profile stay within its total
\* (updatePerProfileUsageCounters, recordProfileUsageDelta, clearCurrentProfileUsage).
THEOREM BooksAddUpAlways == Spec => []BooksAddUp
  BY IInvAlways, IInvGivesProperties, PTL

\* A change of the books always has the save timer running, also when the application
\* quits (scheduleProfileUsageSave, the destructor's last save).
THEOREM DirtyIsScheduledAlways == Spec => []DirtyIsScheduled
  BY IInvAlways, IInvGivesProperties, PTL

\* Traffic is booked on the profile of the child that runs, whatever the user has
\* selected since, while the controller knows that profile's usage id.
THEOREM BookedOnRunnerAlways == Spec => BookedOnRunner
<1>1. IInv /\ [Next]_vars => [BookedRight]_vars
  BY NextFine
<1>2. BookedRight <=> \A p \in Profiles : books'[p].total > books[p].total /\ ctl.active # 0
                                              => child.profile = p
  BY DEF BookedRight
<1> QED
  BY IInvAlways, <1>1, <1>2, PTL DEF Spec, BookedOnRunner
=============================================================================
