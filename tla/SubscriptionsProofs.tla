------------------------- MODULE SubscriptionsProofs --------------------------
(***************************************************************************)
(* Proofs about module Subscriptions, for any groups, servers and urls.    *)
(*                                                                         *)
(* The handlers change the book (profiles, subscriptions, groups) by a few *)
(* operators.  Refresh and Recompute repair different halves of what       *)
(* GroupsAgree asks: after both, in this order, any book is sound.  The    *)
(* model's signals run them in the other order, and Refresh may then       *)
(* change what is shown after it was counted; that this is harmless rests  *)
(* on the book being anchored: its current group is enabled, and either    *)
(* has a row of options, which Refresh keeps, or is noted as a stray.      *)
(***************************************************************************)
EXTENDS Subscriptions, FiniteSetTheorems, WellFoundedInduction, TLAPS

-----------------------------------------------------------------------------
(* What holds of a book *)

NamedIn(b) == NamedBy(b.subs) \cup NamedBy(b.profiles) \cup DOMAIN b.options

\* The groups that the user can see, or whose options are kept.
Known(b) == b.listed \cup DOMAIN b.options

Anchored(b) ==
    /\ b.listed \ {All} \subseteq DOMAIN b.options
    /\ b.stray = FALSE => b.current \in b.listed
    /\ b.current # All => OptionsFor(b, b.current).enabled

Complete(b) == NamedBy(b.subs) \cup NamedBy(b.profiles) \subseteq b.listed \cap DOMAIN b.options

Exclusive(b, g) == g \in DOMAIN b.options /\ b.options[g].exclusive = TRUE

AtMostOne(b) ==
    \A g \in Groups : Exclusive(b, g) =>
        /\ b.options[g].enabled = TRUE
        /\ \A h \in Groups : Exclusive(b, h) => g = h

Counted(b) == b.stray = TRUE \/ b.filtered = Cardinality(Shown(b))

Sound(b) ==
    /\ b \in BookType
    /\ All \in b.listed
    /\ Anchored(b) /\ Complete(b) /\ AtMostOne(b) /\ Counted(b)

USE SubscriptionsAssumption

\* The parts of a book, one by one.
LEMMA BookParts ==
    ASSUME NEW b \in BookType
    PROVE  /\ b.subs \in [Urls -> Groups \cup {None}]
           /\ b.profiles \in [Servers -> Groups \cup {None}]
           /\ DOMAIN b.options \subseteq Groups /\ b.options \in [DOMAIN b.options -> OptionsType]
           /\ b.listed \subseteq Groups \cup {All}
           /\ b.current \in Groups \cup {All}
           /\ b.filtered \in 0 .. Cardinality(Servers)
           /\ b.stray \in BOOLEAN
<1>1. /\ b.subs \in [Urls -> Groups \cup {None}]
      /\ b.profiles \in [Servers -> Groups \cup {None}]
      /\ b.options \in UNION {[G -> OptionsType] : G \in SUBSET Groups}
      /\ b.listed \in SUBSET (Groups \cup {All})
      /\ b.current \in Groups \cup {All}
      /\ b.filtered \in 0 .. Cardinality(Servers)
      /\ b.stray \in BOOLEAN
  BY DEF BookType
<1>2. PICK G \in SUBSET Groups : b.options \in [G -> OptionsType]
  BY <1>1
<1> QED
  BY <1>1, <1>2

LEMMA OptionsAreTyped ==
    ASSUME NEW G \in SUBSET Groups, NEW f \in [G -> OptionsType]
    PROVE  f \in UNION {[H -> OptionsType] : H \in SUBSET Groups}
OBVIOUS

LEMMA NamesAreGroups ==
    ASSUME NEW b \in BookType
    PROVE  /\ NamedBy(b.subs) \subseteq Groups /\ NamedBy(b.profiles) \subseteq Groups
           /\ NamedIn(b) \subseteq Groups
           /\ All \notin Groups /\ None \notin Groups /\ General \in Groups
<1>1. All \notin Groups /\ None \notin Groups /\ General \in Groups
  BY DEF Groups, All, None, General
<1>2. NamedBy(b.subs) \subseteq Groups /\ NamedBy(b.profiles) \subseteq Groups
  BY BookParts DEF NamedBy
<1> QED
  BY <1>1, <1>2, BookParts DEF NamedIn

LEMMA OptionsForTyped ==
    ASSUME NEW b \in BookType, NEW g
    PROVE  OptionsFor(b, g) \in OptionsType
<1>1. Fresh \in OptionsType
  BY DEF Fresh, OptionsType
<1>2. b.options \in [DOMAIN b.options -> OptionsType]
  BY BookParts
<1> QED
  BY <1>1, <1>2 DEF OptionsFor

LEMMA ShownIsCounted ==
    ASSUME NEW b
    PROVE  Cardinality(Shown(b)) \in 0 .. Cardinality(Servers)
<1>1. Shown(b) \in SUBSET Servers
  BY DEF Shown
<1>2. IsFiniteSet(Shown(b)) /\ Cardinality(Shown(b)) <= Cardinality(Servers)
  BY <1>1, FS_Subset
<1>3. Cardinality(Shown(b)) \in Nat /\ Cardinality(Servers) \in Nat
  BY <1>2, FS_CardinalityType
<1> QED
  BY <1>2, <1>3

\* What is shown depends on the profiles, the enabled groups and the current one.
LEMMA ShownSame ==
    ASSUME NEW b, NEW c, c.profiles = b.profiles, c.current = b.current,
           \A g : OptionsFor(c, g).enabled = OptionsFor(b, g).enabled
    PROVE  Shown(c) = Shown(b)
BY DEF Shown

LEMMA RecomputeGives ==
    ASSUME NEW b \in BookType
    PROVE  LET r == Recompute(b)
           IN  /\ r \in BookType
               /\ r.subs = b.subs /\ r.profiles = b.profiles /\ r.options = b.options
               /\ r.listed = b.listed /\ r.current = b.current
               /\ r.stray = FALSE <=> (b.stray = FALSE \/ b.current \in b.listed)
               /\ Counted(r) /\ Known(r) = Known(b)
<1> DEFINE r == Recompute(b)
           n == Cardinality(Shown(b))
           s == b.stray /\ b.current \notin b.listed
<1>1. n \in 0 .. Cardinality(Servers) /\ s \in BOOLEAN
  BY ShownIsCounted
<1>2. r = [b EXCEPT !.filtered = n, !.stray = s]
  BY DEF Recompute, BookType
<1> HIDE DEF r, n, s
<1>3. /\ r.subs = b.subs /\ r.profiles = b.profiles /\ r.options = b.options
      /\ r.listed = b.listed /\ r.current = b.current /\ r.filtered = n /\ r.stray = s
      /\ r \in BookType
  BY <1>1, <1>2 DEF BookType
<1>4. Shown(r) = Shown(b)
  BY <1>3, ShownSame DEF OptionsFor
<1>5. Counted(r)
  BY <1>3, <1>4 DEF Counted, n
<1>6. r.stray = FALSE <=> (b.stray = FALSE \/ b.current \in b.listed)
  BY <1>3, BookParts DEF s
<1>7. Known(r) = Known(b)
  BY <1>3 DEF Known
<1> QED
  BY <1>3, <1>5, <1>6, <1>7 DEF r

LEMMA RefreshGives ==
    ASSUME NEW b \in BookType
    PROVE  LET r == Refresh(b)
           IN  /\ r \in BookType
               /\ r.subs = b.subs /\ r.profiles = b.profiles
               /\ r.filtered = b.filtered /\ r.stray = b.stray
               /\ r.listed = NamedIn(b) \cup {All}
               /\ DOMAIN r.options = NamedIn(b) \cup {General}
               /\ \A g : OptionsFor(r, g).enabled = OptionsFor(b, g).enabled
               /\ AtMostOne(r)
               /\ r.current \in r.listed
               /\ r.current # All => OptionsFor(b, r.current).enabled
               /\ \/ r.current = b.current
                  \/ r.current = All /\ (b.current \notin NamedIn(b)
                                            \/ ~OptionsFor(b, b.current).enabled)
<1> DEFINE r == Refresh(b)
           named == NamedIn(b)
           rows == [g \in named \cup {General} |-> OptionsFor(b, g)]
           wanting == {g \in DOMAIN rows : rows[g].exclusive /\ rows[g].enabled}
           kept == IF wanting = {} THEN None ELSE CHOOSE g \in wanting : TRUE
           listed == named \cup {All}
           options == [g \in DOMAIN rows |-> [rows[g] EXCEPT !.exclusive = (g = kept)]]
           current == IF b.current \in named /\ rows[b.current].enabled THEN b.current ELSE All
<1>1. named \subseteq Groups /\ General \in Groups /\ All \notin Groups /\ None \notin Groups
  BY NamesAreGroups
<1>2. r = [b EXCEPT !.listed = listed, !.options = options, !.current = current]
  BY DEF Refresh, NamedIn, BookType
<1>3. DOMAIN rows = named \cup {General} /\ \A g \in DOMAIN rows : rows[g] = OptionsFor(b, g)
  OBVIOUS
<1>4. \A g \in DOMAIN rows : rows[g] \in OptionsType
  BY <1>3, OptionsForTyped
<1>5. /\ DOMAIN options = named \cup {General}
      /\ \A g \in DOMAIN options : /\ options[g] \in OptionsType
                                   /\ options[g].enabled = OptionsFor(b, g).enabled
                                   /\ options[g].exclusive = (g = kept)
  <2> HIDE DEF rows, kept
  <2> QED
    BY <1>3, <1>4 DEF OptionsType
<1>6. kept = None \/ (kept \in DOMAIN rows /\ OptionsFor(b, kept).enabled)
  <2>1. wanting # {} => kept \in wanting
    OBVIOUS
  <2> QED
    BY <1>3, <2>1
<1>7. /\ current \in listed
      /\ current # All => OptionsFor(b, current).enabled
      /\ \/ current = b.current
         \/ current = All /\ (b.current \notin named \/ ~OptionsFor(b, b.current).enabled)
  BY <1>3
<1>8. options \in UNION {[G -> OptionsType] : G \in SUBSET Groups}
  <2> HIDE DEF options
  <2>1. PICK G \in SUBSET Groups : G = named \cup {General}
    BY <1>1
  <2>2. options \in [G -> OptionsType]
    <3>1. options = [g \in G |-> options[g]]
      BY <1>5, <2>1 DEF options
    <3> QED
      BY <1>5, <2>1, <3>1
  <2> QED
    BY <2>2, OptionsAreTyped
<1>9. listed \in SUBSET (Groups \cup {All}) /\ current \in Groups \cup {All}
  BY <1>1, <1>7
<1> HIDE DEF r, rows, wanting, kept, listed, options, current
<1>10. /\ r \in BookType
       /\ r.subs = b.subs /\ r.profiles = b.profiles
       /\ r.filtered = b.filtered /\ r.stray = b.stray
       /\ r.listed = listed /\ r.options = options /\ r.current = current
  BY <1>2, <1>8, <1>9 DEF BookType
<1>11. \A g : OptionsFor(r, g).enabled = OptionsFor(b, g).enabled
  <2> SUFFICES ASSUME NEW g PROVE OptionsFor(r, g).enabled = OptionsFor(b, g).enabled
    OBVIOUS
  <2>1. CASE g \in DOMAIN options
    BY <1>5, <1>10, <2>1 DEF OptionsFor
  <2>2. CASE g \notin DOMAIN options
    <3>1. g \notin DOMAIN b.options
      BY <1>5, <2>2 DEF NamedIn
    <3> QED
      BY <1>10, <2>2, <3>1 DEF OptionsFor
  <2> QED
    BY <2>1, <2>2
<1>12. AtMostOne(r)
  <2> SUFFICES ASSUME NEW g \in Groups, Exclusive(r, g)
               PROVE  /\ r.options[g].enabled = TRUE
                      /\ \A h \in Groups : Exclusive(r, h) => g = h
    BY DEF AtMostOne
  <2>1. \A h \in Groups : Exclusive(r, h) => h \in DOMAIN options /\ h = kept
    BY <1>5, <1>10 DEF Exclusive
  <2>2. g \in DOMAIN options /\ g = kept /\ OptionsFor(b, g).enabled
    BY <1>1, <1>6, <2>1
  <2>3. r.options[g].enabled \in BOOLEAN /\ r.options[g].enabled
    BY <1>5, <1>10, <2>2 DEF OptionsType
  <2> QED
    BY <2>1, <2>3
<1> QED
  BY <1>5, <1>7, <1>10, <1>11, <1>12 DEF r, listed

\* Refresh keeps a sound count when the book is anchored.
LEMMA RefreshSound ==
    ASSUME NEW b \in BookType, Anchored(b), Counted(b)
    PROVE  Sound(Refresh(b))
<1> DEFINE r == Refresh(b)
<1>1. /\ r \in BookType
      /\ r.subs = b.subs /\ r.profiles = b.profiles
      /\ r.filtered = b.filtered /\ r.stray = b.stray
      /\ r.listed = NamedIn(b) \cup {All}
      /\ DOMAIN r.options = NamedIn(b) \cup {General}
      /\ \A g : OptionsFor(r, g).enabled = OptionsFor(b, g).enabled
      /\ AtMostOne(r)
      /\ r.current \in r.listed
      /\ r.current # All => OptionsFor(b, r.current).enabled
      /\ \/ r.current = b.current
         \/ r.current = All /\ (b.current \notin NamedIn(b)
                                   \/ ~OptionsFor(b, b.current).enabled)
  BY RefreshGives
<1> HIDE DEF r
<1>2. Anchored(r)
  BY <1>1 DEF Anchored
<1>3. Complete(r)
  BY <1>1 DEF Complete, NamedIn
<1>4. Counted(r)
  <2>1. CASE r.current = b.current
    <3>1. Shown(r) = Shown(b)
      BY <1>1, <2>1, ShownSame
    <3> QED
      BY <1>1, <3>1 DEF Counted
  <2>2. CASE r.current # b.current
    <3>1. b.current # All /\ b.current \notin NamedIn(b)
      BY <1>1, <2>2 DEF Anchored
    <3>2. b.current \notin b.listed
      BY <3>1 DEF Anchored, NamedIn
    <3>3. b.stray = TRUE
      BY <3>2, BookParts DEF Anchored
    <3> QED
      BY <1>1, <3>3 DEF Counted
  <2> QED
    BY <2>1, <2>2
<1> QED
  BY <1>1, <1>2, <1>3, <1>4 DEF Sound, r

\* What the signals of the model do to an anchored book.
LEMMA ModelChangedSound ==
    ASSUME NEW b \in BookType, Anchored(b)
    PROVE  Sound(ModelChanged(b)) /\ Known(ModelChanged(b)) \subseteq NamedIn(b) \cup {All, General}
<1> DEFINE c == Recompute(b)
<1>1. /\ c \in BookType
      /\ c.subs = b.subs /\ c.profiles = b.profiles /\ c.options = b.options
      /\ c.listed = b.listed /\ c.current = b.current
      /\ c.stray = FALSE <=> (b.stray = FALSE \/ b.current \in b.listed)
      /\ Counted(c)
  BY RecomputeGives
<1> HIDE DEF c
<1>2. Anchored(c) /\ NamedIn(c) = NamedIn(b)
  BY <1>1 DEF Anchored, OptionsFor, NamedIn
<1>3. Sound(Refresh(c))
  BY <1>1, <1>2, RefreshSound
<1>4. Known(Refresh(c)) \subseteq NamedIn(c) \cup {All, General}
  BY <1>1, RefreshGives DEF Known
<1> QED
  BY <1>2, <1>3, <1>4 DEF ModelChanged, c

\* Whatever the book was, it is sound after both.
LEMMA RefreshedAndCounted ==
    ASSUME NEW b \in BookType
    PROVE  /\ Sound(Recompute(Refresh(b)))
           /\ Known(Recompute(Refresh(b))) = NamedIn(b) \cup {All, General}
<1> DEFINE c == Refresh(b)
           r == Recompute(c)
<1>1. /\ c \in BookType
      /\ c.subs = b.subs /\ c.profiles = b.profiles
      /\ c.listed = NamedIn(b) \cup {All}
      /\ DOMAIN c.options = NamedIn(b) \cup {General}
      /\ \A g : OptionsFor(c, g).enabled = OptionsFor(b, g).enabled
      /\ AtMostOne(c)
      /\ c.current \in c.listed
      /\ c.current # All => OptionsFor(b, c.current).enabled
  BY RefreshGives
<1> HIDE DEF c
<1>2. /\ r \in BookType
      /\ r.subs = c.subs /\ r.profiles = c.profiles /\ r.options = c.options
      /\ r.listed = c.listed /\ r.current = c.current
      /\ Counted(r) /\ Known(r) = Known(c)
  BY <1>1, RecomputeGives
<1> HIDE DEF r
<1>3. Anchored(r) /\ Complete(r) /\ AtMostOne(r)
  BY <1>1, <1>2 DEF Anchored, OptionsFor, Complete, NamedIn, AtMostOne, Exclusive
<1>4. Known(r) = NamedIn(b) \cup {All, General}
  BY <1>1, <1>2 DEF Known
<1> QED
  BY <1>1, <1>2, <1>3, <1>4 DEF Sound, r, c

\* A handler that only recomputes the figures starts from a book whose groups are in order.
LEMMA RecomputeSound ==
    ASSUME NEW b \in BookType, All \in b.listed, Anchored(b), Complete(b), AtMostOne(b)
    PROVE  Sound(Recompute(b)) /\ Known(Recompute(b)) = Known(b)
<1> DEFINE r == Recompute(b)
<1>1. /\ r \in BookType
      /\ r.subs = b.subs /\ r.profiles = b.profiles /\ r.options = b.options
      /\ r.listed = b.listed /\ r.current = b.current
      /\ r.stray = FALSE <=> (b.stray = FALSE \/ b.current \in b.listed)
      /\ Counted(r) /\ Known(r) = Known(b)
  BY RecomputeGives
<1> HIDE DEF r
<1>2. Anchored(r) /\ Complete(r) /\ AtMostOne(r)
  BY <1>1 DEF Anchored, OptionsFor, Complete, AtMostOne, Exclusive
<1> QED
  BY <1>1, <1>2 DEF Sound, r

\* A profile that is added, moved to another group, or removed: then the model signals.
LEMMA ProfileChangedSound ==
    ASSUME NEW b, Sound(b), NEW x \in Servers, NEW g \in Groups \cup {None}
    PROVE  LET r == ModelChanged([b EXCEPT !.profiles[x] = g])
           IN  Sound(r) /\ Known(r) \ {g} \subseteq Known(b) \cup {All, General}
<1> DEFINE p == [b.profiles EXCEPT ![x] = g]
           c == [b EXCEPT !.profiles[x] = g]
<1>1. b \in BookType /\ b.profiles \in [Servers -> Groups \cup {None}]
  BY BookParts DEF Sound
<1>2. p \in [Servers -> Groups \cup {None}] /\ NamedBy(p) \ {g} \subseteq NamedBy(b.profiles)
  BY <1>1 DEF NamedBy
<1>3. c = [b EXCEPT !.profiles = p]
  BY <1>1 DEF BookType
<1> HIDE DEF p, c
<1>4. /\ c \in BookType /\ c.profiles = p
      /\ c.subs = b.subs /\ c.options = b.options /\ c.listed = b.listed
      /\ c.current = b.current /\ c.filtered = b.filtered /\ c.stray = b.stray
  BY <1>1, <1>2, <1>3 DEF BookType
<1>5. Anchored(c)
  BY <1>4 DEF Sound, Anchored, OptionsFor
<1>6. NamedIn(c) \ {g} \subseteq Known(b)
  BY <1>2, <1>4 DEF NamedIn, Known, Sound, Complete
<1>7. Sound(ModelChanged(c)) /\ Known(ModelChanged(c)) \subseteq NamedIn(c) \cup {All, General}
  BY <1>4, <1>5, ModelChangedSound
<1> QED
  BY <1>6, <1>7 DEF c

-----------------------------------------------------------------------------
(* Importing links one after the other is a fold over a finite set.  The     *)
(* library's induction theorems take a predicate as a parameter; its theorem *)
(* about minimal elements is first order, and does instead.                  *)

LEMMA SmallestNumber ==
    ASSUME NEW B, B \subseteq Nat, B # {}
    PROVE  \E n \in B : \A k \in B : n <= k
<1>1. PICK n \in B : \A k \in B : ~ (<<k, n>> \in OpToRel(<, Nat))
  BY NatLessThanWellFounded, WFMin
<1>2. \A k \in B : <<k, n>> \in Nat \X Nat
  OBVIOUS
<1>3. \A k \in B : ~ (k < n)
  BY <1>1, <1>2 DEF OpToRel
<1> QED
  BY <1>3

First(s) == CHOOSE x \in s : TRUE

LEMMA SmallestSubset ==
    ASSUME NEW S, IsFiniteSet(S), NEW Bad \in SUBSET (SUBSET S), Bad # {}
    PROVE  \E s \in Bad : \A t \in Bad : Cardinality(s) <= Cardinality(t)
<1> DEFINE Sizes == {Cardinality(s) : s \in Bad}
<1>1. \A s \in Bad : Cardinality(s) \in Nat
  BY FS_Subset, FS_CardinalityType
<1>2. Sizes \subseteq Nat /\ Sizes # {}
  BY <1>1
<1>3. PICK n \in Sizes : \A k \in Sizes : n <= k
  <2> HIDE DEF Sizes
  <2> QED
    BY <1>2, SmallestNumber
<1>4. PICK s \in Bad : Cardinality(s) = n
  BY <1>3
<1> QED
  BY <1>3, <1>4

LEMMA FirstRemoved ==
    ASSUME NEW S, IsFiniteSet(S), NEW s \in SUBSET S, s # {}
    PROVE  /\ First(s) \in s /\ s \ {First(s)} \in SUBSET S
           /\ Cardinality(s) \in Nat /\ Cardinality(s \ {First(s)}) = Cardinality(s) - 1
<1>1. First(s) \in s
  BY DEF First
<1>2. IsFiniteSet(s)
  BY FS_Subset
<1> QED
  BY <1>1, <1>2, FS_RemoveElement, FS_CardinalityType

\* One step of the import, and a function that is the import of the subsets of S that have
\* n elements at most.
ImportStep(b, g, f, s) ==
    IF s = {} THEN b
    ELSE ModelChanged([f[s \ {First(s)}] EXCEPT !.profiles[First(s)] = g])

ImportsUpTo(b, g, S, f, n) ==
    \A s \in SUBSET S : Cardinality(s) <= n => f[s] = ImportStep(b, g, f, s)

LEMMA ImportsExist ==
    ASSUME NEW b, NEW g, NEW S, IsFiniteSet(S)
    PROVE  \A n \in Nat : \E f : ImportsUpTo(b, g, S, f, n)
<1> DEFINE B == {n \in Nat : ~ \E f : ImportsUpTo(b, g, S, f, n)}
<1> SUFFICES ASSUME B # {} PROVE FALSE
  OBVIOUS
<1>1. PICK n \in B : \A k \in B : n <= k
  BY SmallestNumber, B \subseteq Nat
<1>2. \A s \in SUBSET S : IsFiniteSet(s) /\ Cardinality(s) \in Nat
  BY FS_Subset, FS_CardinalityType
<1>3. CASE n = 0
  <2> DEFINE f == [s \in SUBSET S |-> b]
  <2>1. ASSUME NEW s \in SUBSET S, Cardinality(s) <= 0 PROVE f[s] = ImportStep(b, g, f, s)
    <3>1. Cardinality(s) = 0
      BY <1>2, <2>1
    <3>2. s = {}
      BY <1>2, <3>1, FS_EmptySet
    <3> QED
      BY <3>2 DEF ImportStep
  <2>2. ImportsUpTo(b, g, S, f, 0)
    BY <2>1 DEF ImportsUpTo
  <2> QED
    BY <1>1, <1>3, <2>2
<1>4. CASE n # 0
  <2>1. n - 1 \in Nat /\ n - 1 \notin B
    BY <1>1, <1>4
  <2>2. PICK h : ImportsUpTo(b, g, S, h, n - 1)
    BY <2>1
  <2> DEFINE f == [s \in SUBSET S |-> IF Cardinality(s) <= n - 1 THEN h[s]
                                                               ELSE ImportStep(b, g, h, s)]
  <2>3. ASSUME NEW s \in SUBSET S, Cardinality(s) <= n PROVE f[s] = ImportStep(b, g, f, s)
    <3>1. f[s] = ImportStep(b, g, h, s)
      BY <2>2 DEF ImportsUpTo
    <3>2. CASE s = {}
      BY <3>1, <3>2 DEF ImportStep
    <3>3. CASE s # {}
      <4>1. s \ {First(s)} \in SUBSET S /\ Cardinality(s \ {First(s)}) <= n - 1
        BY <1>1, <2>3, <3>3, FirstRemoved
      <4>2. f[s \ {First(s)}] = h[s \ {First(s)}]
        BY <4>1
      <4> HIDE DEF f
      <4> QED
        BY <3>1, <3>3, <4>2 DEF ImportStep
    <3> QED
      BY <3>2, <3>3
  <2>4. ImportsUpTo(b, g, S, f, n)
    BY <2>3 DEF ImportsUpTo
  <2> QED
    BY <1>1, <2>4
<1> QED
  BY <1>3, <1>4

\* A function that is the import of every subset of S.
IsImport(b, g, S, f) ==
    ImportLinks(b, S, g) = f[S] /\ \A s \in SUBSET S : f[s] = ImportStep(b, g, f, s)

LEMMA ImportUnfolds ==
    ASSUME NEW b, NEW g, NEW S, IsFiniteSet(S)
    PROVE  \E f : IsImport(b, g, S, f)
<1> DEFINE IsIter(f) ==
      f = [s \in SUBSET S |-> IF s = {} THEN b
             ELSE ModelChanged([f[s \ {CHOOSE x \in s : TRUE}]
                                   EXCEPT !.profiles[CHOOSE x \in s : TRUE] = g])]
<1>1. ImportLinks(b, S, g) = (CHOOSE f : IsIter(f))[S]
  BY Zenon DEF ImportLinks, FoldSet, MapThenFoldSet
<1>2. PICK h : ImportsUpTo(b, g, S, h, Cardinality(S))
  BY ImportsExist, FS_CardinalityType
<1> DEFINE f == [s \in SUBSET S |-> h[s]]
<1>3. ASSUME NEW s \in SUBSET S PROVE h[s] = ImportStep(b, g, h, s)
  BY <1>2, FS_Subset DEF ImportsUpTo
<1>4. ASSUME NEW s \in SUBSET S
      PROVE  f[s] = IF s = {} THEN b
                    ELSE ModelChanged([f[s \ {First(s)}] EXCEPT !.profiles[First(s)] = g])
  BY <1>3 DEF ImportStep
<1>5. IsIter(f)
  BY <1>4, Zenon DEF First
<1>6. IsIter(CHOOSE i : IsIter(i))
  BY <1>5
<1>7. PICK i : i = (CHOOSE j : IsIter(j)) /\ IsIter(i)
  BY <1>6
<1>8. \A s \in SUBSET S : i[s] = ImportStep(b, g, i, s)
  BY <1>7 DEF ImportStep, First
<1> QED
  BY <1>1, <1>7, <1>8 DEF IsImport

\* An import leaves the book sound, and makes no group known but its own.
LEMMA ImportSound ==
    ASSUME NEW b, Sound(b), NEW found \in SUBSET Servers, NEW g \in Groups
    PROVE  LET r == ImportLinks(b, found, g)
           IN  Sound(r) /\ Known(r) \ {g} \subseteq Known(b) \cup {All, General}
<1>1. IsFiniteSet(found)
  BY FS_Subset
<1>2. PICK f : IsImport(b, g, found, f)
  BY <1>1, ImportUnfolds
<1> DEFINE Fine(s) == Sound(f[s]) /\ Known(f[s]) \ {g} \subseteq Known(b) \cup {All, General}
           Bad == {s \in SUBSET found : ~Fine(s)}
<1>3. ASSUME Bad # {} PROVE FALSE
  <2>1. PICK s \in Bad : \A t \in Bad : Cardinality(s) <= Cardinality(t)
    <3>1. Bad \in SUBSET (SUBSET found)
      OBVIOUS
    <3> HIDE DEF Bad
    <3> QED
      BY <1>1, <1>3, <3>1, SmallestSubset
  <2>2. s \in SUBSET found /\ ~Fine(s)
    OBVIOUS
  <2>3. f[s] = ImportStep(b, g, f, s)
    BY <1>2, <2>2 DEF IsImport
  <2>4. CASE s = {}
    BY <2>2, <2>3, <2>4 DEF ImportStep
  <2>5. CASE s # {}
    <3> DEFINE x == First(s)
               t == s \ {x}
    <3>1. /\ x \in s /\ t \in SUBSET found
          /\ Cardinality(s) \in Nat /\ Cardinality(t) = Cardinality(s) - 1
      BY <1>1, <2>2, <2>5, FirstRemoved
    <3>2. Fine(t)
      <4> SUFFICES ASSUME t \in Bad PROVE FALSE
        BY <3>1
      <4> HIDE DEF t, Bad
      <4> QED
        BY <2>1, <3>1
    <3>3. f[s] = ModelChanged([f[t] EXCEPT !.profiles[x] = g])
      BY <2>3, <2>5 DEF ImportStep
    <3>4. x \in Servers
      BY <3>1
    <3> HIDE DEF x, t
    <3>5. Fine(s)
      BY <3>2, <3>3, <3>4, ProfileChangedSound
    <3> QED
      BY <2>2, <3>5
  <2> QED
    BY <2>4, <2>5
<1>4. Fine(found)
  BY <1>3
<1> QED
  BY <1>2, <1>4 DEF IsImport

-----------------------------------------------------------------------------
(* The invariant *)

QueueOK ==
    /\ busy \in BOOLEAN
    /\ fetch \in FetchType \cup {NoFetch}
    /\ queue \subseteq Entries /\ IsFiniteSet(queue)
    /\ tally \in [ok : Nat, failed : Nat]
    /\ asked \in 0 .. Cardinality(Urls)
    /\ tally.ok + tally.failed <= asked
    /\ RefreshIsCounted

\* A group that was removed is not known, and nothing under way will import into it.
GoneOK ==
    /\ gone \subseteq Custom
    /\ gone \cap Known(m) = {}
    /\ gone \cap Targets = {}

IInv == Sound(m) /\ QueueOK /\ GoneOK

\* What a handler of the groups or the profiles does: the groups known afterwards were
\* known, or are named by it.
BookStep(g) ==
    /\ Sound(m')
    /\ Known(m') \ {g} \subseteq Known(m) \cup {All, General}
    /\ gone' \subseteq gone \ {g}
    /\ Fetches

LEMMA BookStepKeeps ==
    ASSUME IInv, NEW g, BookStep(g)
    PROVE  IInv'
<1>1. Targets' = Targets /\ QueueOK'
  BY DEF BookStep, Fetches, Targets, IInv, QueueOK, RefreshIsCounted, BusyIsBacked,
         EntriesAreCounted
<1>2. All \notin Custom /\ General \notin Custom
  BY DEF All, General
<1>3. GoneOK'
  BY <1>1, <1>2 DEF BookStep, IInv, GoneOK
<1> QED
  BY <1>1, <1>3 DEF BookStep, IInv

LEMMA UpsertGives ==
    ASSUME NEW b \in BookType, NEW g \in Groups, NEW o \in OptionsType
    PROVE  LET r == Upsert(b, g, o)
           IN  /\ r \in BookType
               /\ r.subs = b.subs /\ r.profiles = b.profiles
               /\ r.listed = b.listed /\ r.current = b.current
               /\ r.filtered = b.filtered /\ r.stray = b.stray
               /\ DOMAIN r.options = DOMAIN b.options \cup {g}
               /\ r.options[g] = o
               /\ \A h \in DOMAIN b.options : h # g => r.options[h] = b.options[h]
               /\ OptionsFor(r, g) = o
               /\ \A h : h # g => OptionsFor(r, h) = OptionsFor(b, h)
<1> DEFINE G == DOMAIN b.options \cup {g}
           f == [x \in G |-> IF x = g THEN o ELSE b.options[x]]
           r == Upsert(b, g, o)
<1>1. r = [b EXCEPT !.options = f]
  BY DEF Upsert
<1>2. G \in SUBSET Groups /\ b.options \in [DOMAIN b.options -> OptionsType]
  BY BookParts
<1>3. f \in [G -> OptionsType]
  BY <1>2
<1>4. f \in UNION {[H -> OptionsType] : H \in SUBSET Groups}
  <2> HIDE DEF f, G
  <2> QED
    BY <1>2, <1>3, OptionsAreTyped
<1>5. DOMAIN f = G /\ f[g] = o /\ \A h \in DOMAIN b.options : h # g => f[h] = b.options[h]
  OBVIOUS
<1> HIDE DEF r, f
<1>6. /\ r \in BookType
      /\ r.subs = b.subs /\ r.profiles = b.profiles
      /\ r.listed = b.listed /\ r.current = b.current
      /\ r.filtered = b.filtered /\ r.stray = b.stray
      /\ r.options = f
  BY <1>1, <1>4 DEF BookType
<1> QED
  BY <1>5, <1>6 DEF OptionsFor, r

\* Only recomputed: the new book must be in order but for the figures.
LEMMA RecomputedStep ==
    ASSUME NEW b \in BookType, NEW g, IInv,
           All \in b.listed, Anchored(b), Complete(b), AtMostOne(b),
           Known(b) \ {g} \subseteq Known(m),
           m' = Recompute(b), Names(g), Fetches
    PROVE  IInv'
<1>1. Sound(m') /\ Known(m') = Known(b)
  BY RecomputeSound
<1>2. BookStep(g)
  BY <1>1 DEF BookStep, Names
<1> QED
  BY <1>2, BookStepKeeps

LEMMA SetEnabledKeeps ==
    ASSUME IInv, NEW g \in Groups, NEW on \in BOOLEAN, SetEnabled(g, on)
    PROVE  IInv'
<1> DEFINE o == OptionsFor(m, g)
           p == [enabled |-> on, exclusive |-> o.exclusive /\ on]
           b == Upsert(m, g, p)
           current == IF ~on /\ b.current = g THEN All ELSE b.current
           c == [b EXCEPT !.current = current]
<1>1. m \in BookType /\ Sound(m) /\ o \in OptionsType
  BY OptionsForTyped DEF IInv, Sound
<1>2. p \in OptionsType /\ p.enabled = on /\ p.exclusive = (o.exclusive /\ on)
  BY <1>1 DEF OptionsType
<1>3. m' = Recompute(c) /\ Names(g) /\ Fetches
  BY DEF SetEnabled
<1> HIDE DEF p
<1>4. /\ b \in BookType
      /\ b.subs = m.subs /\ b.profiles = m.profiles
      /\ b.listed = m.listed /\ b.current = m.current /\ b.stray = m.stray
      /\ DOMAIN b.options = DOMAIN m.options \cup {g}
      /\ b.options[g] = p
      /\ \A h \in DOMAIN m.options : h # g => b.options[h] = m.options[h]
      /\ OptionsFor(b, g) = p
      /\ \A h : h # g => OptionsFor(b, h) = OptionsFor(m, h)
  BY <1>1, <1>2, UpsertGives
<1> HIDE DEF b
<1>5. current \in Groups \cup {All} /\ (current = All \/ (current = m.current /\ (current = g => on)))
  BY <1>4, BookParts
<1> HIDE DEF current
<1>6. /\ c \in BookType /\ c.current = current
      /\ c.subs = b.subs /\ c.profiles = b.profiles /\ c.options = b.options
      /\ c.listed = b.listed /\ c.stray = b.stray
  BY <1>4, <1>5 DEF BookType
<1> HIDE DEF c
<1>7. All \in c.listed /\ Complete(c) /\ Known(c) \ {g} \subseteq Known(m)
  BY <1>1, <1>4, <1>6 DEF Sound, Complete, Known
<1>8. Anchored(c)
  <2>1. c.listed \ {All} \subseteq DOMAIN c.options
    BY <1>1, <1>4, <1>6 DEF Sound, Anchored
  <2>2. c.stray = FALSE => c.current \in c.listed
    BY <1>1, <1>4, <1>5, <1>6 DEF Sound, Anchored
  <2>3. c.current # All => OptionsFor(c, c.current).enabled
    <3> SUFFICES ASSUME c.current # All PROVE OptionsFor(b, c.current).enabled
      BY <1>6 DEF OptionsFor
    <3>1. c.current = m.current /\ OptionsFor(m, c.current).enabled
      BY <1>1, <1>5, <1>6 DEF Sound, Anchored
    <3> QED
      BY <1>2, <1>4, <1>5, <1>6, <3>1
  <2> QED
    BY <2>1, <2>2, <2>3 DEF Anchored
<1>9. AtMostOne(c)
  <2>1. \A h \in Groups : Exclusive(c, h) => Exclusive(m, h) /\ (h = g => on)
    <3> SUFFICES ASSUME NEW h \in Groups, Exclusive(c, h)
                 PROVE  Exclusive(m, h) /\ (h = g => on)
      OBVIOUS
    <3>1. CASE h = g
      <4>1. p.exclusive = TRUE
        BY <1>4, <1>6, <3>1 DEF Exclusive
      <4>2. on /\ o.exclusive
        BY <1>2, <4>1
      <4>3. o.exclusive = TRUE
        BY <1>1, <4>2 DEF OptionsType
      <4>4. g \in DOMAIN m.options
        BY <4>3 DEF OptionsFor, Fresh
      <4> QED
        BY <3>1, <4>2, <4>3, <4>4 DEF Exclusive, OptionsFor
    <3>2. CASE h # g
      BY <1>4, <1>6, <3>2 DEF Exclusive
    <3> QED
      BY <3>1, <3>2
  <2>2. \A h \in Groups : Exclusive(c, h) => c.options[h].enabled = TRUE
    <3> SUFFICES ASSUME NEW h \in Groups, Exclusive(c, h) PROVE c.options[h].enabled = TRUE
      OBVIOUS
    <3>1. CASE h = g
      BY <1>2, <1>4, <1>6, <2>1, <3>1
    <3>2. CASE h # g
      BY <1>1, <1>4, <1>6, <2>1, <3>2 DEF Sound, AtMostOne, Exclusive
    <3> QED
      BY <3>1, <3>2
  <2> QED
    BY <1>1, <2>1, <2>2 DEF Sound, AtMostOne
<1> QED
  BY <1>3, <1>6, <1>7, <1>8, <1>9, RecomputedStep

LEMMA SetExclusiveKeeps ==
    ASSUME IInv, NEW g \in Groups, NEW on \in BOOLEAN, SetExclusive(g, on)
    PROVE  IInv'
<1> DEFINE o == OptionsFor(m, g)
           p == [enabled |-> o.enabled \/ on, exclusive |-> on]
           others == [x \in DOMAIN m.options |->
                         [m.options[x] EXCEPT !.exclusive = m.options[x].exclusive /\ ~on]]
           a == [m EXCEPT !.options = others]
           c == Upsert(a, g, p)
<1>1. m \in BookType /\ Sound(m) /\ o \in OptionsType
  BY OptionsForTyped DEF IInv, Sound
<1>2. p \in OptionsType /\ p.enabled = (o.enabled \/ on) /\ p.exclusive = on
  BY <1>1 DEF OptionsType
<1>3. m' = Recompute(c) /\ Names(g) /\ Fetches
  BY DEF SetExclusive
<1>4. DOMAIN m.options \subseteq Groups /\ \A x \in DOMAIN m.options : m.options[x] \in OptionsType
  BY <1>1, BookParts
<1>5. /\ DOMAIN others = DOMAIN m.options
      /\ \A x \in DOMAIN m.options :
            /\ others[x] \in OptionsType
            /\ others[x].enabled = m.options[x].enabled
            /\ others[x].exclusive = (m.options[x].exclusive /\ ~on)
  BY <1>4 DEF OptionsType
<1>6. others \in UNION {[H -> OptionsType] : H \in SUBSET Groups}
  <2>1. PICK H \in SUBSET Groups : H = DOMAIN m.options
    BY <1>4
  <2>2. others \in [H -> OptionsType]
    BY <1>5, <2>1
  <2> HIDE DEF others
  <2> QED
    BY <2>2, OptionsAreTyped
<1> HIDE DEF p, others
<1>7. /\ a \in BookType /\ a.options = others
      /\ a.subs = m.subs /\ a.profiles = m.profiles
      /\ a.listed = m.listed /\ a.current = m.current /\ a.stray = m.stray
  BY <1>1, <1>6 DEF BookType
<1> HIDE DEF a
<1>8. \A h : OptionsFor(a, h).enabled = OptionsFor(m, h).enabled
  BY <1>5, <1>7 DEF OptionsFor
<1>9. /\ c \in BookType
      /\ c.subs = a.subs /\ c.profiles = a.profiles
      /\ c.listed = a.listed /\ c.current = a.current /\ c.stray = a.stray
      /\ DOMAIN c.options = DOMAIN a.options \cup {g}
      /\ c.options[g] = p
      /\ \A h \in DOMAIN a.options : h # g => c.options[h] = a.options[h]
      /\ OptionsFor(c, g) = p
      /\ \A h : h # g => OptionsFor(c, h) = OptionsFor(a, h)
  BY <1>2, <1>7, UpsertGives
<1> HIDE DEF c
<1>10. All \in c.listed /\ Complete(c) /\ Known(c) \ {g} \subseteq Known(m)
  BY <1>1, <1>5, <1>7, <1>9 DEF Sound, Complete, Known
<1>11. Anchored(c)
  <2>1. c.listed \ {All} \subseteq DOMAIN c.options /\ (c.stray = FALSE => c.current \in c.listed)
    BY <1>1, <1>5, <1>7, <1>9 DEF Sound, Anchored
  <2>2. ASSUME c.current # All PROVE OptionsFor(c, c.current).enabled
    <3>1. OptionsFor(m, c.current).enabled
      BY <1>1, <1>7, <1>9, <2>2 DEF Sound, Anchored
    <3> QED
      BY <1>2, <1>8, <1>9, <3>1
  <2> QED
    BY <2>1, <2>2 DEF Anchored
<1>12. AtMostOne(c)
  <2>1. \A h \in Groups : h # g /\ Exclusive(c, h) => ~on /\ Exclusive(m, h)
    <3> SUFFICES ASSUME NEW h \in Groups, h # g, Exclusive(c, h) PROVE ~on /\ Exclusive(m, h)
      OBVIOUS
    <3>1. h \in DOMAIN m.options /\ others[h].exclusive = TRUE
      BY <1>5, <1>7, <1>9 DEF Exclusive
    <3>2. m.options[h].exclusive /\ ~on
      BY <1>5, <3>1
    <3>3. m.options[h].exclusive = TRUE
      BY <1>4, <3>1, <3>2 DEF OptionsType
    <3> QED
      BY <3>1, <3>2, <3>3 DEF Exclusive
  <2>2. Exclusive(c, g) => on /\ c.options[g].enabled = TRUE
    <3> SUFFICES ASSUME Exclusive(c, g) PROVE on /\ c.options[g].enabled = TRUE
      OBVIOUS
    <3>1. on = TRUE
      BY <1>2, <1>9 DEF Exclusive
    <3> QED
      BY <1>2, <1>9, <3>1
  <2>3. \A h \in Groups : h # g /\ Exclusive(c, h) => c.options[h].enabled = TRUE
    <3> SUFFICES ASSUME NEW h \in Groups, h # g, Exclusive(c, h)
                 PROVE  c.options[h].enabled = TRUE
      OBVIOUS
    <3>1. m.options[h].enabled = TRUE /\ h \in DOMAIN m.options
      BY <1>1, <2>1 DEF Sound, AtMostOne, Exclusive
    <3> QED
      BY <1>5, <1>7, <1>9, <3>1
  <2> QED
    BY <1>1, <2>1, <2>2, <2>3 DEF Sound, AtMostOne
<1> QED
  BY <1>3, <1>9, <1>10, <1>11, <1>12, RecomputedStep

LEMMA EnsureGroupKeeps ==
    ASSUME IInv, NEW g \in Groups, EnsureGroup(g)
    PROVE  IInv'
<1> DEFINE o == OptionsFor(m, g)
           c == Upsert(m, g, o)
           r == Refresh(c)
<1>1. m \in BookType /\ Sound(m) /\ o \in OptionsType
  BY OptionsForTyped DEF IInv, Sound
<1>2. m' = r /\ Names(g) /\ Fetches
  BY DEF EnsureGroup
<1>3. /\ c \in BookType
      /\ c.subs = m.subs /\ c.profiles = m.profiles
      /\ c.listed = m.listed /\ c.current = m.current
      /\ c.filtered = m.filtered /\ c.stray = m.stray
      /\ DOMAIN c.options = DOMAIN m.options \cup {g}
      /\ OptionsFor(c, g) = o
      /\ \A h : h # g => OptionsFor(c, h) = OptionsFor(m, h)
  BY <1>1, UpsertGives
<1> HIDE DEF c
<1>4. \A h : OptionsFor(c, h) = OptionsFor(m, h)
  BY <1>3
<1>5. Anchored(c)
  BY <1>1, <1>3, <1>4 DEF Sound, Anchored
<1>6. Counted(c)
  <2>1. Shown(c) = Shown(m)
    BY <1>3, <1>4, ShownSame
  <2> QED
    BY <1>1, <1>3, <2>1 DEF Sound, Counted
<1>7. Sound(r)
  BY <1>3, <1>5, <1>6, RefreshSound
<1>8. Known(r) \subseteq NamedIn(c) \cup {All, General}
  BY <1>3, RefreshGives DEF Known
<1>9. NamedIn(c) \ {g} \subseteq Known(m)
  BY <1>1, <1>3 DEF NamedIn, Known, Sound, Complete
<1> HIDE DEF r
<1>10. BookStep(g)
  BY <1>2, <1>7, <1>8, <1>9 DEF BookStep, Names
<1> QED
  BY <1>10, BookStepKeeps

LEMMA SetCurrentKeeps ==
    ASSUME IInv, NEW g \in Groups \cup {All}, SetCurrent(g)
    PROVE  IInv'
<1> DEFINE next == IF g = All \/ ~OptionsFor(m, g).enabled THEN All ELSE g
           stray == next \notin m.listed
           c == [m EXCEPT !.current = next, !.stray = stray]
<1>1. m \in BookType /\ Sound(m)
  BY DEF IInv, Sound
<1>2. m' = Recompute(c) /\ Names(g) /\ Fetches
  BY DEF SetCurrent
<1>3. next \in Groups \cup {All} /\ (next # All => OptionsFor(m, next).enabled)
  OBVIOUS
<1>4. stray \in BOOLEAN /\ (stray = FALSE => next \in m.listed)
  BY Zenon
<1> HIDE DEF next, stray
<1>5. /\ c \in BookType /\ c.current = next /\ c.stray = stray
      /\ c.subs = m.subs /\ c.profiles = m.profiles /\ c.options = m.options
      /\ c.listed = m.listed
  BY <1>1, <1>3, <1>4 DEF BookType
<1> HIDE DEF c
<1>6. All \in c.listed /\ Complete(c) /\ AtMostOne(c) /\ Known(c) \ {g} \subseteq Known(m)
  BY <1>1, <1>5 DEF Sound, Complete, AtMostOne, Exclusive, Known
<1>7. Anchored(c)
  BY <1>1, <1>3, <1>4, <1>5 DEF Sound, Anchored, OptionsFor
<1> QED
  BY <1>2, <1>5, <1>6, <1>7, RecomputedStep

\* Moving a group's members to General.
LEMMA MovedToGeneral ==
    ASSUME NEW D, NEW f \in [D -> Groups \cup {None}], NEW moved \in SUBSET Custom
    PROVE  /\ ToGeneral(f, moved) \in [D -> Groups \cup {None}]
           /\ NamedBy(ToGeneral(f, moved)) \subseteq (NamedBy(f) \ moved) \cup {General}
<1>1. General \in Groups /\ None \notin moved
  BY DEF Groups
<1> QED
  BY <1>1 DEF ToGeneral, NamedBy

\* The removal of groups leaves a sound book in which the groups removed are not known.
LEMMA ClearedGives ==
    ASSUME NEW b, Sound(b), NEW moved \in SUBSET Custom,
           NEW kept \in SUBSET (DOMAIN b.options), kept \cap moved = {}
    PROVE  LET r == Cleared(b, moved, kept)
           IN  /\ Sound(r)
               /\ Known(r) \subseteq Known(b) \cup {All, General}
               /\ Known(r) \cap moved = {}
<1> DEFINE subs == ToGeneral(b.subs, moved)
           profiles == ToGeneral(b.profiles, moved)
           options == [g \in kept |-> b.options[g]]
           c == [b EXCEPT !.subs = subs, !.profiles = profiles, !.options = options]
           d == IF c.profiles # b.profiles THEN ModelChanged(c) ELSE c
           r == Recompute(Refresh(d))
           rest == ((NamedBy(b.subs) \cup NamedBy(b.profiles)) \ moved) \cup kept \cup {General}
<1>1. b \in BookType /\ All \notin moved /\ General \notin moved
  BY DEF Sound, All, General
<1>2. Cleared(b, moved, kept) = r
  BY DEF Cleared
<1>3. subs \in [Urls -> Groups \cup {None}] /\ profiles \in [Servers -> Groups \cup {None}]
  BY <1>1, BookParts, MovedToGeneral
<1>4. /\ NamedBy(subs) \subseteq (NamedBy(b.subs) \ moved) \cup {General}
      /\ NamedBy(profiles) \subseteq (NamedBy(b.profiles) \ moved) \cup {General}
  BY <1>1, BookParts, MovedToGeneral
<1>5. DOMAIN options = kept /\ options \in UNION {[H -> OptionsType] : H \in SUBSET Groups}
  <2>1. kept \in SUBSET Groups /\ \A g \in kept : b.options[g] \in OptionsType
    BY <1>1, BookParts
  <2>2. options \in [kept -> OptionsType]
    BY <2>1
  <2> QED
    BY <2>1, <2>2, OptionsAreTyped
<1> HIDE DEF subs, profiles, options
<1>6. c \in BookType /\ c.subs = subs /\ c.profiles = profiles /\ c.options = options
  BY <1>1, <1>3, <1>5 DEF BookType
<1> HIDE DEF c
<1>7. NamedIn(c) \subseteq rest
  BY <1>4, <1>5, <1>6 DEF NamedIn
<1>8. d \in BookType /\ NamedIn(d) \subseteq rest
  <2> DEFINE e == Recompute(c)
             f == Refresh(e)
  <2>1. /\ e \in BookType
        /\ e.subs = c.subs /\ e.profiles = c.profiles /\ e.options = c.options
    BY <1>6, RecomputeGives
  <2> HIDE DEF e
  <2>2. /\ f \in BookType
        /\ f.subs = e.subs /\ f.profiles = e.profiles
        /\ DOMAIN f.options = NamedIn(e) \cup {General}
    BY <2>1, RefreshGives
  <2> HIDE DEF f
  <2>3. NamedIn(e) = NamedIn(c)
    BY <2>1 DEF NamedIn
  <2>4. NamedIn(f) \subseteq rest
    BY <1>7, <2>1, <2>2, <2>3 DEF NamedIn
  <2>5. ModelChanged(c) = f
    BY DEF ModelChanged, e, f
  <2> QED
    BY <1>6, <1>7, <2>2, <2>4, <2>5
<1> HIDE DEF d
<1>9. Sound(r) /\ Known(r) = NamedIn(d) \cup {All, General}
  BY <1>8, RefreshedAndCounted
<1>10. rest \subseteq Known(b) \cup {General} /\ rest \cap moved = {}
  BY <1>1 DEF Known, Sound, Complete
<1> HIDE DEF r, rest
<1> QED
  BY <1>1, <1>2, <1>8, <1>9, <1>10

\* A step that makes the groups x unknown, and touches no fetch.
LEMMA RemovedStep ==
    ASSUME IInv, NEW x \in SUBSET Custom, Sound(m'), Fetches,
           Known(m') \subseteq Known(m) \cup {All, General},
           x \cap Known(m') = {}, x \cap Targets = {}, gone' = gone \cup x
    PROVE  IInv'
<1>1. Targets' = Targets /\ QueueOK'
  BY DEF Fetches, Targets, IInv, QueueOK, RefreshIsCounted, BusyIsBacked, EntriesAreCounted
<1>2. All \notin Custom /\ General \notin Custom
  BY DEF All, General
<1>3. GoneOK'
  BY <1>1, <1>2 DEF IInv, GoneOK
<1> QED
  BY <1>1, <1>3 DEF IInv

\* Between two fetches nothing is queued.
LEMMA IdleHasNoTargets ==
    ASSUME QueueOK, ~busy
    PROVE  fetch = NoFetch /\ queue = {} /\ Targets = {}
<1>1. fetch = NoFetch /\ queue = {}
  <2>1. fetch = NoFetch
    BY DEF QueueOK, RefreshIsCounted, BusyIsBacked
  <2>2. ~fetch.refresh
    BY <2>1 DEF NoFetch
  <2> QED
    BY <2>1, <2>2 DEF QueueOK, RefreshIsCounted, BusyIsBacked
<1> QED
  BY <1>1 DEF Targets

LEMMA RemoveGroupKeeps ==
    ASSUME IInv, NEW g \in Groups, RemoveGroup(g)
    PROVE  IInv'
<1> DEFINE kept == DOMAIN m.options \ {g}
<1>1. {g} \in SUBSET Custom
  BY DEF RemoveGroup, Groups
<1>2. /\ Sound(Cleared(m, {g}, kept))
      /\ Known(Cleared(m, {g}, kept)) \subseteq Known(m) \cup {All, General}
      /\ Known(Cleared(m, {g}, kept)) \cap {g} = {}
  <2>1. kept \in SUBSET (DOMAIN m.options) /\ kept \cap {g} = {}
    OBVIOUS
  <2> QED
    BY <1>1, <2>1, ClearedGives DEF IInv
<1>3. m' = Cleared(m, {g}, kept) /\ gone' = gone \cup ({g} \ Targets) /\ Fetches
  BY DEF RemoveGroup
<1>4. {g} \ Targets \in SUBSET Custom
  BY <1>1
<1> QED
  BY <1>2, <1>3, <1>4, RemovedStep

LEMMA RemoveAllGroupsKeeps ==
    ASSUME IInv, RemoveAllGroups
    PROVE  IInv'
<1> DEFINE x == m.listed \ {All, General}
<1>1. x \in SUBSET Custom
  <2>1. m.listed \subseteq Groups \cup {All}
    BY BookParts DEF IInv, Sound
  <2> QED
    BY <2>1 DEF Groups
<1>2. /\ Sound(Cleared(m, Custom, {}))
      /\ Known(Cleared(m, Custom, {})) \subseteq Known(m) \cup {All, General}
      /\ Known(Cleared(m, Custom, {})) \cap Custom = {}
  BY ClearedGives DEF IInv
<1>3. m' = Cleared(m, Custom, {}) /\ gone' = gone \cup x /\ Fetches /\ ~busy
  BY DEF RemoveAllGroups
<1>4. Targets = {}
  BY <1>3, IdleHasNoTargets DEF IInv
<1> HIDE DEF x
<1> QED
  BY <1>1, <1>2, <1>3, <1>4, RemovedStep

LEMMA EditProfileKeeps ==
    ASSUME IInv, NEW s \in Servers, NEW g \in Groups, EditProfile(s, g)
    PROVE  IInv'
<1> DEFINE b == ModelChanged([m EXCEPT !.profiles[s] = g])
           o == OptionsFor(b, g)
           c == Upsert(b, g, o)
           r == Recompute(Refresh(c))
<1>1. m' = r /\ Names(g) /\ Fetches
  BY DEF EditProfile
<1>2. Sound(b) /\ Known(b) \ {g} \subseteq Known(m) \cup {All, General}
  BY ProfileChangedSound DEF IInv
<1> HIDE DEF b
<1>3. b \in BookType /\ o \in OptionsType
  BY <1>2, OptionsForTyped DEF Sound
<1> HIDE DEF o
<1>4. /\ c \in BookType
      /\ c.subs = b.subs /\ c.profiles = b.profiles
      /\ DOMAIN c.options = DOMAIN b.options \cup {g}
  BY <1>3, UpsertGives
<1> HIDE DEF c
<1>5. Sound(r) /\ Known(r) = NamedIn(c) \cup {All, General}
  BY <1>4, RefreshedAndCounted
<1> HIDE DEF r
<1>6. NamedIn(c) \subseteq Known(b) \cup {g}
  BY <1>2, <1>4 DEF NamedIn, Known, Sound, Complete
<1>7. BookStep(g)
  BY <1>1, <1>2, <1>5, <1>6 DEF BookStep, Names
<1> QED
  BY <1>7, BookStepKeeps

LEMMA RemoveProfileKeeps ==
    ASSUME IInv, NEW s \in Servers, RemoveProfile(s)
    PROVE  IInv'
<1> DEFINE r == ModelChanged([m EXCEPT !.profiles[s] = None])
<1>1. Sound(r) /\ Known(r) \ {None} \subseteq Known(m) \cup {All, General}
  BY ProfileChangedSound DEF IInv
<1>2. m' = r /\ gone' = gone /\ Fetches
  BY DEF RemoveProfile
<1>3. None \notin gone
  BY DEF IInv, GoneOK
<1> HIDE DEF r
<1>4. BookStep(None)
  BY <1>1, <1>2, <1>3 DEF BookStep
<1> QED
  BY <1>4, BookStepKeeps

LEMMA ImportBatchKeeps ==
    ASSUME IInv, NEW found \in SUBSET Servers, ImportBatch(found)
    PROVE  IInv'
<1> DEFINE g == IF m.current = All THEN General ELSE m.current
<1>1. g \in Groups
  <2>1. m.current \in Groups \cup {All}
    BY BookParts DEF IInv, Sound
  <2> QED
    BY <2>1 DEF Groups
<1>2. m' = ImportLinks(m, found, g) /\ Names(g) /\ Fetches
  BY DEF ImportBatch
<1> HIDE DEF g
<1>3. Sound(m') /\ Known(m') \ {g} \subseteq Known(m) \cup {All, General}
  BY <1>1, <1>2, ImportSound DEF IInv
<1>4. BookStep(g)
  BY <1>2, <1>3 DEF BookStep, Names
<1> QED
  BY <1>4, BookStepKeeps

-----------------------------------------------------------------------------
(* Fetching *)

\* A reply that was started is not the absence of one.
LEMMA EntryIsFetched ==
    ASSUME NEW e \in Entries, NEW refresh \in BOOLEAN
    PROVE  LET f == [url |-> e.url, group |-> e.group, refresh |-> refresh]
           IN  f \in FetchType /\ f # NoFetch /\ f.group = e.group /\ f.refresh = refresh
<1> DEFINE f == [url |-> e.url, group |-> e.group, refresh |-> refresh]
<1>1. e.url \in Urls /\ e.group \in Groups /\ None \notin Groups
  BY DEF Entries, Groups, General, None
<1>2. f \in FetchType /\ f.group = e.group /\ f.refresh = refresh
  BY <1>1 DEF FetchType
<1>3. f # NoFetch
  BY <1>1, <1>2 DEF NoFetch
<1> QED
  BY <1>2, <1>3

LEMMA AddSubscriptionKeeps ==
    ASSUME IInv, NEW u \in Urls, NEW g \in Groups, AddSubscription(u, g)
    PROVE  IInv'
<1> DEFINE subs == [m.subs EXCEPT ![u] = g]
           c == [m EXCEPT !.subs[u] = g]
           e == [url |-> u, group |-> g]
<1>1. m \in BookType /\ Sound(m) /\ m.subs \in [Urls -> Groups \cup {None}]
  BY BookParts DEF IInv, Sound
<1>2. subs \in [Urls -> Groups \cup {None}] /\ NamedBy(subs) \ {g} \subseteq NamedBy(m.subs)
  BY <1>1 DEF NamedBy
<1>3. c = [m EXCEPT !.subs = subs]
  BY <1>1 DEF BookType
<1> HIDE DEF subs, c
<1>4. /\ c \in BookType /\ c.subs = subs
      /\ c.profiles = m.profiles /\ c.options = m.options /\ c.listed = m.listed
      /\ c.current = m.current /\ c.filtered = m.filtered /\ c.stray = m.stray
  BY <1>1, <1>2, <1>3 DEF BookType
<1>5. Anchored(c) /\ Counted(c)
  <2>1. Shown(c) = Shown(m)
    BY <1>4, ShownSame DEF OptionsFor
  <2> QED
    BY <1>1, <1>4, <2>1 DEF Sound, Anchored, Counted, OptionsFor
<1>6. Sound(Refresh(c)) /\ Known(Refresh(c)) \subseteq NamedIn(c) \cup {All, General}
  BY <1>4, <1>5, RefreshSound, RefreshGives DEF Known
<1>7. NamedIn(c) \ {g} \subseteq Known(m)
  BY <1>1, <1>2, <1>4 DEF NamedIn, Known, Sound, Complete
<1>8. /\ m' = Refresh(c) /\ gone' = gone \ {g} /\ ~busy
      /\ busy' = TRUE /\ fetch' = [url |-> e.url, group |-> e.group, refresh |-> FALSE]
      /\ queue' = queue /\ tally' = tally /\ asked' = asked
  BY DEF AddSubscription, Begin, Names, c
<1>9. e \in Entries /\ e.group = g
  BY DEF Entries
<1> HIDE DEF e
<1>10. fetch' \in FetchType /\ fetch' # NoFetch /\ fetch'.group = g /\ fetch'.refresh = FALSE
  BY <1>8, <1>9, EntryIsFetched
<1>11. queue = {}
  BY <1>8, IdleHasNoTargets DEF IInv
<1>12. QueueOK'
  BY <1>8, <1>10, <1>11
     DEF IInv, QueueOK, RefreshIsCounted, BusyIsBacked, EntriesAreCounted, NoFetch
<1>13. GoneOK'
  <2>1. Targets' = {g}
    BY <1>8, <1>10, <1>11 DEF Targets, NoFetch
  <2>2. All \notin Custom /\ General \notin Custom
    BY DEF All, General
  <2> QED
    BY <1>6, <1>7, <1>8, <2>1, <2>2 DEF IInv, GoneOK
<1> QED
  BY <1>6, <1>8, <1>12, <1>13 DEF IInv

\* The entries a refresh copies: as many as subscriptions at most.
LEMMA EntriesCopied ==
    ASSUME NEW b \in BookType, NEW of \in SUBSET Groups
    PROVE  LET entries == {[url |-> u, group |-> b.subs[u]] : u \in {v \in Urls : b.subs[v] \in of}}
           IN  /\ entries \subseteq Entries /\ IsFiniteSet(entries)
               /\ Cardinality(entries) \in 0 .. Cardinality(Urls)
               /\ \A e \in entries : e.group \in NamedBy(b.subs)
<1> DEFINE S == {v \in Urls : b.subs[v] \in of}
           entries == {[url |-> u, group |-> b.subs[u]] : u \in S}
           f == [u \in S |-> [url |-> u, group |-> b.subs[u]]]
<1>1. entries \subseteq Entries
  BY DEF Entries
<1>2. IsFiniteSet(S) /\ Cardinality(S) <= Cardinality(Urls)
  BY FS_Subset
<1>3. f \in Surjection(S, entries)
  <2>1. f \in [S -> entries]
    OBVIOUS
  <2>2. \A e \in entries : \E u \in S : f[u] = e
    OBVIOUS
  <2> HIDE DEF f, S, entries
  <2> QED
    BY <2>1, <2>2 DEF Surjection
<1> HIDE DEF f
<1>4. IsFiniteSet(entries) /\ Cardinality(entries) <= Cardinality(S)
  BY <1>2, <1>3, FS_Surjection
<1>5. /\ Cardinality(entries) \in Nat /\ Cardinality(S) \in Nat /\ Cardinality(Urls) \in Nat
  BY <1>2, <1>4, FS_CardinalityType
<1>6. \A e \in entries : e.group \in NamedBy(b.subs)
  <2>1. None \notin Groups
    BY DEF Groups, General, None
  <2>2. b.subs \in [Urls -> Groups \cup {None}]
    BY BookParts
  <2> QED
    BY <2>1, <2>2 DEF NamedBy
<1> QED
  BY <1>1, <1>2, <1>4, <1>5, <1>6

LEMMA StartRefreshKeeps ==
    ASSUME IInv, NEW of \in SUBSET Groups, StartRefresh(of)
    PROVE  IInv'
<1> DEFINE entries == {[url |-> u, group |-> m.subs[u]] : u \in {v \in Urls : m.subs[v] \in of}}
<1>1. m \in BookType /\ Sound(m)
  BY DEF IInv, Sound
<1>2. /\ entries \subseteq Entries /\ IsFiniteSet(entries)
      /\ Cardinality(entries) \in 0 .. Cardinality(Urls)
      /\ \A e \in entries : e.group \in NamedBy(m.subs)
  BY <1>1, EntriesCopied
<1>3. /\ ~busy /\ m' = m /\ gone' = gone
      /\ tally' = [ok |-> 0, failed |-> 0] /\ asked' = Cardinality(entries)
  BY DEF StartRefresh
<1>4. PICK e \in entries : Begin(e, TRUE) /\ queue' = entries \ {e}
  BY DEF StartRefresh
<1> HIDE DEF entries
<1>5. /\ busy' = TRUE /\ fetch' \in FetchType /\ fetch' # NoFetch
      /\ fetch'.group = e.group /\ fetch'.refresh = TRUE
  <2>1. e \in Entries /\ busy' = TRUE /\ fetch' = [url |-> e.url, group |-> e.group, refresh |-> TRUE]
    BY <1>2, <1>4 DEF Begin
  <2> QED
    BY <2>1, EntryIsFetched
<1>6. /\ IsFiniteSet(queue') /\ queue' \subseteq Entries
      /\ Cardinality(queue') = Cardinality(entries) - 1
  BY <1>2, <1>4, FS_RemoveElement
<1>7. Cardinality(entries) \in Nat
  BY <1>2, FS_CardinalityType
<1>8. tally' \in [ok : Nat, failed : Nat] /\ tally'.ok = 0 /\ tally'.failed = 0
  BY <1>3
<1>9. QueueOK'
  BY <1>2, <1>3, <1>5, <1>6, <1>7, <1>8
     DEF QueueOK, RefreshIsCounted, BusyIsBacked, EntriesAreCounted
<1>10. GoneOK'
  <2>1. Targets' \subseteq NamedBy(m.subs)
    BY <1>2, <1>4, <1>5 DEF Targets
  <2>2. NamedBy(m.subs) \cap gone = {}
    BY <1>1 DEF IInv, GoneOK, Sound, Complete, Known
  <2>3. Known(m)' = Known(m)
    BY <1>3
  <2> QED
    BY <1>3, <2>1, <2>2, <2>3 DEF IInv, GoneOK
<1> QED
  BY <1>1, <1>3, <1>9, <1>10 DEF IInv

\* The entry answered is counted, and the queue moves on or the refresh ends.
LEMMA NextOfQueueKeeps ==
    ASSUME QueueOK, fetch # NoFetch, fetch.refresh, NextOfQueue, asked' = asked,
           tally' = [tally EXCEPT !.ok = @ + 1] \/ tally' = [tally EXCEPT !.failed = @ + 1]
    PROVE  QueueOK' /\ Targets' \subseteq Targets
<1>1. /\ tally' \in [ok : Nat, failed : Nat]
      /\ tally'.ok + tally'.failed = tally.ok + tally.failed + 1
  BY DEF QueueOK
<1>2. tally.ok + tally.failed + Cardinality(queue) + 1 = asked
  BY DEF QueueOK, RefreshIsCounted, EntriesAreCounted
<1>3. busy = TRUE
  BY DEF QueueOK, RefreshIsCounted, BusyIsBacked
<1>4. Cardinality(queue) \in Nat /\ asked \in Nat /\ tally.ok \in Nat /\ tally.failed \in Nat
  <2>1. Cardinality(Urls) \in Nat
    BY FS_CardinalityType
  <2> QED
    BY <2>1, FS_CardinalityType DEF QueueOK
<1>5. CASE queue = {} /\ busy' = FALSE /\ fetch' = NoFetch /\ queue' = queue
  <2>1. Cardinality(queue) = 0
    BY <1>5, FS_EmptySet
  <2>2. fetch'.refresh = FALSE
    BY <1>5 DEF NoFetch
  <2>3. tally'.ok + tally'.failed <= asked
    BY <1>1, <1>2, <1>4, <2>1
  <2>4. RefreshIsCounted'
    BY <1>5, <2>2 DEF RefreshIsCounted, BusyIsBacked, EntriesAreCounted
  <2>5. QueueOK'
    BY <1>1, <1>5, <2>3, <2>4 DEF QueueOK
  <2> QED
    BY <1>5, <2>5 DEF Targets
<1>6. ASSUME NEW e \in queue, queue' = queue \ {e}, busy' = busy,
             fetch' = [url |-> e.url, group |-> e.group, refresh |-> TRUE]
      PROVE  QueueOK' /\ Targets' \subseteq Targets
  <2>1. e \in Entries
    BY <1>6 DEF QueueOK
  <2>2. fetch' \in FetchType /\ fetch' # NoFetch /\ fetch'.group = e.group /\ fetch'.refresh = TRUE
    BY <1>6, <2>1, EntryIsFetched
  <2>3. /\ IsFiniteSet(queue') /\ queue' \subseteq Entries
        /\ Cardinality(queue') = Cardinality(queue) - 1
    BY <1>6, FS_RemoveElement DEF QueueOK
  <2>4. tally'.ok + tally'.failed + Cardinality(queue') + 1 = asked
    BY <1>1, <1>2, <1>4, <2>3
  <2>5. tally'.ok + tally'.failed <= asked
    BY <1>1, <1>2, <1>4
  <2>6. QueueOK'
    BY <1>1, <1>3, <1>6, <2>2, <2>3, <2>4, <2>5
       DEF QueueOK, RefreshIsCounted, BusyIsBacked, EntriesAreCounted
  <2>7. Targets' \subseteq Targets
    BY <1>6, <2>2 DEF Targets
  <2> QED
    BY <2>6, <2>7
<1> QED
  BY <1>5, <1>6 DEF NextOfQueue

LEMMA FetchEndsKeeps ==
    ASSUME IInv, NEW found \in SUBSET Servers, FetchEnds(found)
    PROVE  IInv'
<1>1. fetch \in FetchType /\ fetch # NoFetch
  BY DEF FetchEnds, IInv, QueueOK
<1>2. fetch.group \in Groups /\ fetch.group \in Targets /\ fetch.refresh \in BOOLEAN
  BY <1>1 DEF FetchType, Targets
<1>3. m' = ImportLinks(m, found, fetch.group) /\ asked' = asked /\ gone' = gone
  BY DEF FetchEnds
<1>4. Sound(m') /\ Known(m') \ {fetch.group} \subseteq Known(m) \cup {All, General}
  BY <1>2, <1>3, ImportSound DEF IInv
<1>5. QueueOK' /\ Targets' \subseteq Targets
  <2>1. CASE fetch.refresh
    <3>1. NextOfQueue
      BY <2>1 DEF FetchEnds
    <3>2. tally' = [tally EXCEPT !.ok = @ + 1] \/ tally' = [tally EXCEPT !.failed = @ + 1]
      BY <2>1 DEF FetchEnds
    <3> QED
      BY <1>1, <1>3, <2>1, <3>1, <3>2, NextOfQueueKeeps DEF IInv
  <2>2. CASE ~fetch.refresh
    <3>1. busy' = FALSE /\ fetch' = NoFetch /\ queue' = queue /\ tally' = tally
      BY <2>2 DEF FetchEnds
    <3>2. queue = {} /\ fetch'.refresh = FALSE
      BY <2>2, <3>1 DEF IInv, QueueOK, RefreshIsCounted, BusyIsBacked, NoFetch
    <3> QED
      BY <1>3, <3>1, <3>2
         DEF IInv, QueueOK, RefreshIsCounted, BusyIsBacked, EntriesAreCounted, Targets
  <2> QED
    BY <2>1, <2>2
<1>6. GoneOK'
  <2>1. All \notin Custom /\ General \notin Custom
    BY DEF All, General
  <2> QED
    BY <1>2, <1>3, <1>4, <1>5, <2>1 DEF IInv, GoneOK
<1> QED
  BY <1>4, <1>5, <1>6 DEF IInv

-----------------------------------------------------------------------------
(* The theorems *)

LEMMA InitSound == Init => IInv
<1> SUFFICES ASSUME Init PROVE IInv
  OBVIOUS
<1>1. Empty \in BookType
  <2>1. [g \in {} |-> Fresh] \in [{} -> OptionsType] /\ {} \in SUBSET Groups
    OBVIOUS
  <2>2. [g \in {} |-> Fresh] \in UNION {[H -> OptionsType] : H \in SUBSET Groups}
    BY <2>1, OptionsAreTyped
  <2>3. 0 \in 0 .. Cardinality(Servers)
    BY FS_CardinalityType
  <2> QED
    BY <2>2, <2>3 DEF Empty, BookType
<1>2. Sound(m)
  BY <1>1, RefreshedAndCounted DEF Init
<1>3. QueueOK
  <2>1. 0 \in 0 .. Cardinality(Urls) /\ IsFiniteSet({})
    BY FS_CardinalityType, FS_EmptySet
  <2>2. RefreshIsCounted
    <3>1. fetch.refresh = FALSE
      BY DEF Init, NoFetch
    <3> QED
      BY <3>1 DEF Init, RefreshIsCounted, BusyIsBacked, EntriesAreCounted
  <2>3. tally \in [ok : Nat, failed : Nat] /\ tally.ok + tally.failed <= 0
    BY DEF Init
  <2> QED
    BY <2>1, <2>2, <2>3 DEF Init, QueueOK
<1>4. GoneOK
  BY DEF Init, GoneOK
<1> QED
  BY <1>2, <1>3, <1>4 DEF IInv

LEMMA NextKeeps == IInv /\ [Next]_vars => IInv'
<1> SUFFICES ASSUME IInv, [Next]_vars PROVE IInv'
  OBVIOUS
<1>1. ASSUME NEW g \in Groups, NEW on \in BOOLEAN, SetEnabled(g, on) \/ SetExclusive(g, on)
      PROVE  IInv'
  BY <1>1, SetEnabledKeeps, SetExclusiveKeeps
<1>2. ASSUME NEW g \in Groups,
             EnsureGroup(g) \/ RemoveGroup(g) \/ RefreshSubscriptionsByGroup(g)
      PROVE  IInv'
  <2>1. {g} \in SUBSET Groups
    OBVIOUS
  <2> QED
    BY <1>2, <2>1, EnsureGroupKeeps, RemoveGroupKeeps, StartRefreshKeeps
       DEF RefreshSubscriptionsByGroup
<1>3. ASSUME NEW g \in Groups \cup {All}, SetCurrent(g) PROVE IInv'
  BY <1>3, SetCurrentKeeps
<1>4. CASE RemoveAllGroups
  BY <1>4, RemoveAllGroupsKeeps
<1>5. ASSUME NEW s \in Servers, RemoveProfile(s) \/ \E g \in Groups : EditProfile(s, g)
      PROVE  IInv'
  BY <1>5, RemoveProfileKeeps, EditProfileKeeps
<1>6. ASSUME NEW found \in SUBSET Servers, ImportBatch(found) \/ FetchEnds(found)
      PROVE  IInv'
  BY <1>6, ImportBatchKeeps, FetchEndsKeeps
<1>7. ASSUME NEW u \in Urls, NEW g \in Groups, AddSubscription(u, g) PROVE IInv'
  BY <1>7, AddSubscriptionKeeps
<1>8. CASE RefreshSubscriptions
  BY <1>8, StartRefreshKeeps DEF RefreshSubscriptions
<1>9. CASE UNCHANGED vars
  BY <1>9 DEF vars, IInv, Sound, Anchored, Complete, AtMostOne, Exclusive, Counted, OptionsFor,
              Shown, NamedBy, QueueOK, RefreshIsCounted, BusyIsBacked, EntriesAreCounted,
              GoneOK, Known, Targets
<1> QED
  BY <1>1, <1>2, <1>3, <1>4, <1>5, <1>6, <1>7, <1>8, <1>9 DEF Next

LEMMA Invariance == Spec => []IInv
BY InitSound, NextKeeps, PTL DEF Spec

\* The fields keep their types: a refresh never counts more answers than there are
\* subscriptions, and no figure exceeds the number of profiles.
THEOREM TypeCorrect == Spec => []TypeOK
<1>1. IInv => TypeOK
  <2> SUFFICES ASSUME IInv PROVE TypeOK
    OBVIOUS
  <2>1. tally \in [ok : 0..Cardinality(Urls), failed : 0..Cardinality(Urls)]
    <3>1. /\ tally \in [ok : Nat, failed : Nat] /\ tally.ok + tally.failed <= asked
          /\ asked \in 0..Cardinality(Urls) /\ Cardinality(Urls) \in Nat
      BY FS_CardinalityType DEF IInv, QueueOK
    <3>2. tally.ok \in 0..Cardinality(Urls) /\ tally.failed \in 0..Cardinality(Urls)
      BY <3>1
    <3> QED
      BY <3>1, <3>2
  <2> QED
    BY <2>1 DEF TypeOK, IInv, Sound, QueueOK, GoneOK
<1> QED
  BY <1>1, Invariance, PTL

\* A refresh of any number of subscriptions counts each entry once, and is announced as
\* long as it runs.
THEOREM RefreshIsCountedAlways == Spec => []RefreshIsCounted
<1>1. IInv => RefreshIsCounted
  BY DEF IInv, QueueOK
<1> QED
  BY <1>1, Invariance, PTL

\* Groups, options, selection and figures hold together after every handler, whatever
\* reply was under way.
THEOREM GroupsAgreeAlways == Spec => []GroupsAgree
<1>1. IInv => GroupsAgree
  <2> SUFFICES ASSUME IInv PROVE GroupsAgree
    OBVIOUS
  <2>1. Sound(m) /\ m \in BookType
    BY DEF IInv, Sound
  <2>2. GroupsComplete /\ CurrentIsEnabled
    BY <2>1 DEF Sound, Complete, Anchored, GroupsComplete, CurrentIsEnabled
  <2>3. StatsAreCurrent
    BY <2>1 DEF Sound, Counted, StatsAreCurrent
  <2>4. RemovedStaysGone
    BY DEF IInv, GoneOK, Known, RemovedStaysGone
  <2>5. OneExclusive
    <3> DEFINE exclusive == {g \in DOMAIN m.options : m.options[g].exclusive}
    <3>1. \A g \in DOMAIN m.options : g \in Groups /\ m.options[g] \in OptionsType
      BY <2>1, BookParts
    <3>2. \A g \in exclusive : g \in Groups /\ Exclusive(m, g)
      BY <3>1 DEF Exclusive, OptionsType
    <3>3. \A g \in exclusive : m.options[g].enabled /\ exclusive \subseteq {g}
      BY <2>1, <3>2 DEF Sound, AtMostOne
    <3> HIDE DEF exclusive
    <3>4. Cardinality(exclusive) <= 1
      <4>1. CASE exclusive = {}
        BY <4>1, FS_EmptySet
      <4>2. CASE exclusive # {}
        <5>1. PICK g : exclusive = {g}
          BY <3>3, <4>2
        <5> QED
          BY <5>1, FS_Singleton
      <4> QED
        BY <4>1, <4>2
    <3> QED
      BY <3>3, <3>4 DEF OneExclusive, exclusive
  <2> QED
    BY <2>2, <2>3, <2>4, <2>5 DEF GroupsAgree
<1> QED
  BY <1>1, Invariance, PTL

\* An import moves exactly what it found: those servers end in the group of the import, all
\* others and the subscriptions stay where they were, whatever order importLinks takes the
\* links in, and although the groups are refreshed after each of them.
THEOREM ImportMovesTheFound ==
    ASSUME NEW b \in BookType, NEW found \in SUBSET Servers, NEW g \in Groups
    PROVE  /\ ImportLinks(b, found, g).subs = b.subs
           /\ ImportLinks(b, found, g).profiles =
                 [s \in Servers |-> IF s \in found THEN g ELSE b.profiles[s]]
<1>1. IsFiniteSet(found)
  BY FS_Subset
<1>2. PICK f : IsImport(b, g, found, f)
  BY <1>1, ImportUnfolds
<1> DEFINE After(s) == [x \in Servers |-> IF x \in s THEN g ELSE b.profiles[x]]
           Fine(s) == f[s] \in BookType /\ f[s].subs = b.subs /\ f[s].profiles = After(s)
           Bad == {s \in SUBSET found : ~Fine(s)}
<1>3. ASSUME Bad # {} PROVE FALSE
  <2>1. PICK s \in Bad : \A t \in Bad : Cardinality(s) <= Cardinality(t)
    <3>1. Bad \in SUBSET (SUBSET found)
      OBVIOUS
    <3> HIDE DEF Bad
    <3> QED
      BY <1>1, <1>3, <3>1, SmallestSubset
  <2>2. s \in SUBSET found /\ ~Fine(s)
    OBVIOUS
  <2>3. f[s] = ImportStep(b, g, f, s)
    BY <1>2, <2>2 DEF IsImport
  <2>4. CASE s = {}
    <3>1. b.profiles = After({})
      BY BookParts
    <3>2. f[s] = b
      BY <2>3, <2>4 DEF ImportStep
    <3> QED
      BY <2>2, <2>4, <3>1, <3>2
  <2>5. CASE s # {}
    <3> DEFINE x == First(s)
               t == s \ {x}
    <3>1. /\ x \in s /\ t \in SUBSET found
          /\ Cardinality(s) \in Nat /\ Cardinality(t) = Cardinality(s) - 1
      BY <1>1, <2>2, <2>5, FirstRemoved
    <3>2. Fine(t)
      <4> SUFFICES ASSUME t \in Bad PROVE FALSE
        BY <3>1
      <4> HIDE DEF t, Bad
      <4> QED
        BY <2>1, <3>1
    <3>3. f[s] = ModelChanged([f[t] EXCEPT !.profiles[x] = g])
      BY <2>3, <2>5 DEF ImportStep
    <3>4. x \in Servers /\ s = t \cup {x}
      BY <3>1
    <3> HIDE DEF x, t
    <3> DEFINE p == [f[t].profiles EXCEPT ![x] = g]
               c == [f[t] EXCEPT !.profiles[x] = g]
    <3>5. f[t].profiles \in [Servers -> Groups \cup {None}]
      BY <3>2, BookParts
    <3>6. p \in [Servers -> Groups \cup {None}] /\ c = [f[t] EXCEPT !.profiles = p]
      BY <3>2, <3>5 DEF BookType
    <3>7. p = After(s)
      BY <3>2, <3>4, <3>5
    <3> HIDE DEF p, c
    <3>8. c \in BookType /\ c.profiles = p /\ c.subs = f[t].subs
      BY <3>2, <3>6 DEF BookType
    <3>9. /\ ModelChanged(c) \in BookType
          /\ ModelChanged(c).subs = c.subs /\ ModelChanged(c).profiles = c.profiles
      <4> DEFINE e == Recompute(c)
      <4>1. e \in BookType /\ e.subs = c.subs /\ e.profiles = c.profiles
        BY <3>8, RecomputeGives
      <4> HIDE DEF e
      <4>2. /\ Refresh(e) \in BookType
            /\ Refresh(e).subs = e.subs /\ Refresh(e).profiles = e.profiles
        BY <4>1, RefreshGives
      <4> QED
        BY <4>1, <4>2 DEF ModelChanged, e
    <3>10. f[s] = ModelChanged(c)
      BY <3>3 DEF c
    <3>11. Fine(s)
      BY <3>2, <3>7, <3>8, <3>9, <3>10
    <3> QED
      BY <2>2, <3>11
  <2> QED
    BY <2>4, <2>5
<1>4. Fine(found)
  BY <1>3
<1> QED
  BY <1>2, <1>4 DEF IsImport
=============================================================================
