------------------------------- MODULE Queues -------------------------------
(***************************************************************************)
(* What the proofs need to know of queues: sequences that are appended to  *)
(* and taken from at the front, and where certain elements stand in them.  *)
(***************************************************************************)
EXTENDS Integers, Sequences, WellFoundedInduction, TLAPS

AtMostOne(S) == \A x, y \in S : x = y

(* Where elements of S stand in a queue.                                     *)
PlacesOf(S, s) == {i \in 1 .. Len(s) : s[i] \in S}

(* The elements of S are the same in both queues, in the same order: others  *)
(* were added at the end, or taken from the front.                           *)
SameOf(S, s, t) ==
  \E d \in {0, 1} :
    /\ \A i \in 1 .. Len(s) : s[i] \in S => i - d \in 1 .. Len(t) /\ t[i - d] = s[i]
    /\ \A i \in 1 .. Len(t) : t[i] \in S => i + d \in 1 .. Len(s) /\ s[i + d] = t[i]

(* The elements of S in t are those of s, moved d places to the front, and   *)
(* possibly one of X at the end.                                             *)
ComesFrom(S, s, t, d, X) ==
  \A i \in 1 .. Len(t) : t[i] \in S =>
    \/ i + d \in 1 .. Len(s) /\ t[i] = s[i + d]
    \/ i = Len(t) /\ t[i] \in X /\ Len(t) > Len(s) - d

(* An element of S is in a queue; those of S stand after those of T.         *)
InQueue(S, s) == \E i \in 1 .. Len(s) : s[i] \in S
After(S, T, s) == \A i, j \in 1 .. Len(s) : s[i] \in S /\ s[j] \in T => i > j

(* The elements of a queue, of what remains of it, and of a longer one.      *)
LEMMA SeqFacts ==
  ASSUME NEW S, NEW s \in Seq(S)
  PROVE  /\ Len(s) \in Nat /\ \A i \in 1 .. Len(s) : s[i] \in S
         /\ s # <<>> => /\ Len(s) > 0 /\ Head(s) = s[1] /\ Head(s) \in S
                        /\ Tail(s) \in Seq(S) /\ Len(Tail(s)) = Len(s) - 1
                        /\ \A i \in 1 .. Len(s) - 1 : Tail(s)[i] = s[i + 1]
         /\ \A x \in S : /\ Append(s, x) \in Seq(S) /\ Len(Append(s, x)) = Len(s) + 1
                         /\ \A i \in 1 .. Len(s) : Append(s, x)[i] = s[i]
                         /\ Append(s, x)[Len(s) + 1] = x
OBVIOUS

(* The element at the front is taken and others are added at the end.        *)
LEMMA TailConcat ==
  ASSUME NEW S, NEW s \in Seq(S), s # <<>>, NEW t \in Seq(S)
  PROVE  /\ Tail(s) \o t \in Seq(S) /\ Len(Tail(s) \o t) = Len(s) - 1 + Len(t)
         /\ \A i \in 1 .. Len(Tail(s) \o t) :
              (Tail(s) \o t)[i] = IF i <= Len(s) - 1 THEN s[i + 1] ELSE t[i - (Len(s) - 1)]
OBVIOUS

(* What is in a queue stays there when an element is added, or taken from    *)
(* the front unless it is that one.                                          *)
LEMMA StaysInQueue ==
  ASSUME NEW S, NEW s \in Seq(S), NEW i \in 1 .. Len(s), NEW t,
         \/ t = s
         \/ \E x \in S : t = Append(s, x)
         \/ t = Tail(s) /\ s[i] # Head(s)
  PROVE  \E j \in 1 .. Len(t) : t[j] = s[i]
<1>1. ASSUME NEW x \in S
      PROVE  i \in 1 .. Len(Append(s, x)) /\ Append(s, x)[i] = s[i]
  BY SeqFacts
<1>2. s[i] # Head(s) => i - 1 \in 1 .. Len(Tail(s)) /\ Tail(s)[i - 1] = s[i]
  BY SeqFacts
<1> QED BY <1>1, <1>2

LEMMA PlacesAppend ==
  ASSUME NEW T, NEW S, NEW s \in Seq(T), NEW x \in T
  PROVE  PlacesOf(S, Append(s, x)) = PlacesOf(S, s) \cup (IF x \in S THEN {Len(s) + 1} ELSE {})
<1> DEFINE t == Append(s, x)
<1>1. Len(s) \in Nat /\ Len(t) = Len(s) + 1 /\ t[Len(s) + 1] = x
      /\ \A i \in 1 .. Len(s) : t[i] = s[i]
  BY SeqFacts
<1> HIDE DEF t
<1> QED BY <1>1 DEF PlacesOf, t

LEMMA PlacesTail ==
  ASSUME NEW T, NEW S, NEW s \in Seq(T), s # <<>>, AtMostOne(PlacesOf(S, s))
  PROVE  /\ AtMostOne(PlacesOf(S, Tail(s)))
         /\ PlacesOf(S, s) = {} => PlacesOf(S, Tail(s)) = {}
         /\ Head(s) \in S => PlacesOf(S, s) # {} /\ PlacesOf(S, Tail(s)) = {}
<1> DEFINE t == Tail(s)
<1>1. Len(s) \in Nat /\ Len(s) > 0 /\ Head(s) = s[1] /\ Len(t) = Len(s) - 1
      /\ \A i \in 1 .. Len(s) - 1 : t[i] = s[i + 1]
  BY SeqFacts
<1> HIDE DEF t
<1>2. \A i \in PlacesOf(S, t) : i \in Nat \ {0} /\ i + 1 \in PlacesOf(S, s)
  BY <1>1 DEF PlacesOf
<1>3. Head(s) \in S => 1 \in PlacesOf(S, s)
  BY <1>1 DEF PlacesOf
<1>4. AtMostOne(PlacesOf(S, t))
  BY <1>2 DEF AtMostOne
<1>5. Head(s) \in S => PlacesOf(S, t) = {}
  BY <1>2, <1>3 DEF AtMostOne
<1> QED BY <1>2, <1>3, <1>4, <1>5 DEF t

LEMMA SameOfSelf ==
  ASSUME NEW T, NEW S, NEW s \in Seq(T)
  PROVE  SameOf(S, s, s)
<1>1. /\ \A i \in 1 .. Len(s) : s[i] \in S => i - 0 \in 1 .. Len(s) /\ s[i - 0] = s[i]
      /\ \A i \in 1 .. Len(s) : s[i] \in S => i + 0 \in 1 .. Len(s) /\ s[i + 0] = s[i]
  BY SeqFacts
<1> QED BY <1>1 DEF SameOf

LEMMA SameOfLonger ==
  ASSUME NEW T, NEW S, NEW s \in Seq(T), NEW u \in Seq(T), \A i \in 1 .. Len(u) : u[i] \notin S
  PROVE  SameOf(S, s, s \o u)
<1> DEFINE t == s \o u
<1>1. Len(s) \in Nat /\ Len(u) \in Nat /\ Len(t) = Len(s) + Len(u)
      /\ \A i \in 1 .. Len(t) : t[i] = IF i <= Len(s) THEN s[i] ELSE u[i - Len(s)]
  OBVIOUS
<1> HIDE DEF t
<1>2. \A i \in 1 .. Len(s) : s[i] \in S => i - 0 \in 1 .. Len(t) /\ t[i - 0] = s[i]
  BY <1>1
<1>3. \A i \in 1 .. Len(t) : t[i] \in S => i + 0 \in 1 .. Len(s) /\ s[i + 0] = t[i]
  BY <1>1
<1> QED BY <1>2, <1>3 DEF SameOf, t

LEMMA SameOfAppend ==
  ASSUME NEW T, NEW S, NEW s \in Seq(T), NEW x \in T, x \notin S
  PROVE  SameOf(S, s, Append(s, x))
<1>1. Append(s, x) = s \o <<x>> /\ <<x>> \in Seq(T)
  OBVIOUS
<1>2. \A i \in 1 .. Len(<<x>>) : <<x>>[i] \notin S
  OBVIOUS
<1> QED BY <1>1, <1>2, SameOfLonger

LEMMA SameOfTail ==
  ASSUME NEW T, NEW S, NEW s \in Seq(T), s # <<>>, Head(s) \notin S
  PROVE  SameOf(S, s, Tail(s))
<1> DEFINE t == Tail(s)
<1>1. Len(s) \in Nat /\ Len(s) > 0 /\ s[1] \notin S /\ Len(t) = Len(s) - 1
      /\ \A i \in 1 .. Len(s) - 1 : t[i] = s[i + 1]
  BY SeqFacts
<1> HIDE DEF t
<1>2. \A i \in 1 .. Len(s) : s[i] \in S => i - 1 \in 1 .. Len(t) /\ t[i - 1] = s[i]
  BY <1>1
<1>3. \A i \in 1 .. Len(t) : t[i] \in S => i + 1 \in 1 .. Len(s) /\ s[i + 1] = t[i]
  BY <1>1
<1> QED BY <1>2, <1>3 DEF SameOf, t

LEMMA SameOfTailLonger ==
  ASSUME NEW T, NEW S, NEW s \in Seq(T), s # <<>>, Head(s) \notin S,
         NEW u \in Seq(T), \A i \in 1 .. Len(u) : u[i] \notin S
  PROVE  SameOf(S, s, Tail(s) \o u)
<1> DEFINE t == Tail(s) \o u
<1>1. Len(s) \in Nat /\ Len(s) > 0 /\ s[1] \notin S /\ Len(u) \in Nat
      /\ Len(t) = Len(s) - 1 + Len(u)
      /\ \A i \in 1 .. Len(t) : t[i] = IF i <= Len(s) - 1 THEN s[i + 1] ELSE u[i - (Len(s) - 1)]
  BY SeqFacts, TailConcat
<1> HIDE DEF t
<1>2. \A i \in 1 .. Len(s) : s[i] \in S => i - 1 \in 1 .. Len(t) /\ t[i - 1] = s[i]
  BY <1>1
<1>3. ASSUME NEW i \in 1 .. Len(t), t[i] \in S PROVE i + 1 \in 1 .. Len(s) /\ s[i + 1] = t[i]
  <2>1. CASE i <= Len(s) - 1
    BY <1>1, <2>1
  <2>2. CASE i > Len(s) - 1
    <3>1. i - (Len(s) - 1) \in 1 .. Len(u) /\ t[i] = u[i - (Len(s) - 1)]
      BY <1>1, <2>2
    <3> QED BY <1>3, <3>1
  <2> QED BY <1>1, <2>1, <2>2
<1> QED BY <1>2, <1>3 DEF SameOf, t

LEMMA ComesFromSame ==
  ASSUME NEW T, NEW S, NEW s \in Seq(T), NEW t, SameOf(S, s, t)
  PROVE  \E d \in {0, 1} : ComesFrom(S, s, t, d, {})
BY DEF SameOf, ComesFrom

LEMMA ComesFromAppend ==
  ASSUME NEW T, NEW S, NEW s \in Seq(T), NEW x \in T
  PROVE  ComesFrom(S, s, Append(s, x), 0, {x})
<1> DEFINE t == Append(s, x)
<1>1. Len(s) \in Nat /\ Len(t) = Len(s) + 1 /\ t[Len(s) + 1] = x
      /\ \A i \in 1 .. Len(s) : t[i] = s[i]
  BY SeqFacts
<1> HIDE DEF t
<1> QED BY <1>1 DEF ComesFrom, t

LEMMA ComesFromLonger ==
  ASSUME NEW T, NEW S, NEW s \in Seq(T), NEW u \in Seq(T), \A i \in 1 .. Len(u) : u[i] \notin S
  PROVE  ComesFrom(S, s, s \o u, 0, {})
<1> DEFINE t == s \o u
<1>1. /\ Len(s) \in Nat /\ Len(u) \in Nat /\ Len(t) = Len(s) + Len(u)
      /\ \A i \in 1 .. Len(t) : t[i] = IF i <= Len(s) THEN s[i] ELSE u[i - Len(s)]
  OBVIOUS
<1> HIDE DEF t
<1>2. ASSUME NEW i \in 1 .. Len(t), t[i] \in S PROVE i <= Len(s)
  <2> SUFFICES ASSUME i > Len(s) PROVE FALSE
    BY <1>1
  <2>1. i - Len(s) \in 1 .. Len(u) /\ t[i] = u[i - Len(s)]
    BY <1>1
  <2> QED BY <1>2, <2>1
<1> QED BY <1>1, <1>2 DEF ComesFrom, t

LEMMA ComesFromTail ==
  ASSUME NEW T, NEW S, NEW s \in Seq(T), s # <<>>
  PROVE  ComesFrom(S, s, Tail(s), 1, {})
<1> DEFINE t == Tail(s)
<1>1. Len(s) \in Nat /\ Len(s) > 0 /\ Len(t) = Len(s) - 1
      /\ \A i \in 1 .. Len(s) - 1 : t[i] = s[i + 1]
  BY SeqFacts
<1> HIDE DEF t
<1> QED BY <1>1 DEF ComesFrom, t

LEMMA ComesFromTailAppend ==
  ASSUME NEW T, NEW S, NEW s \in Seq(T), s # <<>>, NEW u \in Seq(T),
         Len(u) > 0, \A i \in 1 .. Len(u) - 1 : u[i] \notin S
  PROVE  ComesFrom(S, s, Tail(s) \o u, 1, {u[Len(u)]})
<1> DEFINE t == Tail(s) \o u
<1>1. Len(s) \in Nat /\ Len(s) > 0 /\ Len(u) \in Nat /\ Len(t) = Len(s) - 1 + Len(u)
      /\ \A i \in 1 .. Len(t) : t[i] = IF i <= Len(s) - 1 THEN s[i + 1] ELSE u[i - (Len(s) - 1)]
  BY SeqFacts, TailConcat
<1> HIDE DEF t
<1>2. ASSUME NEW i \in 1 .. Len(t), t[i] \in S
      PROVE  \/ i + 1 \in 1 .. Len(s) /\ t[i] = s[i + 1]
             \/ i = Len(t) /\ t[i] \in {u[Len(u)]} /\ Len(t) > Len(s) - 1
  <2>1. CASE i <= Len(s) - 1
    BY <1>1, <2>1
  <2>2. CASE i > Len(s) - 1
    <3>1. i - (Len(s) - 1) \in 1 .. Len(u) /\ t[i] = u[i - (Len(s) - 1)]
      BY <1>1, <2>2
    <3>2. i - (Len(s) - 1) = Len(u)
      BY <1>1, <1>2, <3>1
    <3> QED BY <1>1, <3>1, <3>2
  <2> QED BY <1>1, <2>1, <2>2
<1> QED BY <1>2 DEF ComesFrom, t

(* What a queue that comes from another one may hold, and in which order.    *)
LEMMA InFrom ==
  ASSUME NEW W, NEW S, S \subseteq W, NEW s, NEW t, NEW d, NEW X, ComesFrom(W, s, t, d, X),
         InQueue(S, t)
  PROVE  InQueue(S, s) \/ \E x \in X : x \in S
BY DEF ComesFrom, InQueue

LEMMA AfterFrom ==
  ASSUME NEW W, NEW R, NEW S, R \subseteq W, S \subseteq W, NEW T, NEW s \in Seq(T),
         NEW t \in Seq(T), NEW d \in {0, 1}, NEW X, ComesFrom(W, s, t, d, X),
         After(R, S, s), \A x \in S : x \notin R,
         (\A x \in X : x \notin S) \/ ~InQueue(R, s)
  PROVE  After(R, S, t)
<1> SUFFICES ASSUME NEW i \in 1 .. Len(t), NEW j \in 1 .. Len(t), t[i] \in R, t[j] \in S
             PROVE  i > j
  BY DEF After
<1>1. Len(s) \in Nat /\ Len(t) \in Nat
  OBVIOUS
<1>2. CASE j + d \in 1 .. Len(s) /\ t[j] = s[j + d]
  <2>1. CASE i + d \in 1 .. Len(s) /\ t[i] = s[i + d]
    BY <1>1, <1>2, <2>1 DEF After
  <2>2. CASE i = Len(t)
    BY <1>1, <2>2
  <2> QED BY <2>1, <2>2 DEF ComesFrom
<1>3. CASE j = Len(t) /\ t[j] \in X
  <2>1. ~InQueue(R, s)
    BY <1>3
  <2>2. i = Len(t)
    BY <2>1 DEF ComesFrom, InQueue
  <2> QED BY <1>3, <2>2
<1> QED BY <1>2, <1>3 DEF ComesFrom

LEMMA OneFrom ==
  ASSUME NEW W, NEW S, S \subseteq W, NEW T, NEW s \in Seq(T),
         NEW t \in Seq(T), NEW d \in {0, 1}, NEW X, ComesFrom(W, s, t, d, X),
         AtMostOne(PlacesOf(S, s)), (\A x \in X : x \notin S) \/ ~InQueue(S, s)
  PROVE  AtMostOne(PlacesOf(S, t))
<1> SUFFICES ASSUME NEW i \in 1 .. Len(t), NEW j \in 1 .. Len(t), t[i] \in S, t[j] \in S
             PROVE  i = j
  BY DEF AtMostOne, PlacesOf
<1>1. Len(s) \in Nat /\ Len(t) \in Nat
  OBVIOUS
<1>2. CASE InQueue(S, s)
  <2>1. i + d \in PlacesOf(S, s) /\ j + d \in PlacesOf(S, s)
    BY <1>2 DEF ComesFrom, PlacesOf
  <2>2. i + d = j + d
    BY <2>1 DEF AtMostOne
  <2> QED BY <1>1, <2>2
<1>3. CASE ~InQueue(S, s)
  BY <1>3 DEF ComesFrom, InQueue
<1> QED BY <1>2, <1>3

(* What is said of the order of a queue, when the first element is known.    *)
LEMMA AtHead ==
  ASSUME NEW T, NEW s \in Seq(T), s # <<>>
  PROVE  /\ \A S : Head(s) \in S => InQueue(S, s)
         /\ \A R, S : Head(s) \in R /\ After(R, S, s) => ~InQueue(S, s)
<1>1. Len(s) \in Nat /\ 1 \in 1 .. Len(s) /\ Head(s) = s[1]
  BY SeqFacts
<1> QED BY <1>1 DEF InQueue, After

LEMMA HeadWasOnlyOne ==
  ASSUME NEW W, NEW S, S \subseteq W, NEW T, NEW s \in Seq(T), s # <<>>, Head(s) \in S,
         NEW t \in Seq(T), NEW X, ComesFrom(W, s, t, 1, X),
         AtMostOne(PlacesOf(S, s)), \A x \in X : x \notin S
  PROVE  ~InQueue(S, t)
<1>1. 1 \in PlacesOf(S, s) /\ Len(t) \in Nat
  BY SeqFacts DEF PlacesOf
<1> SUFFICES ASSUME NEW i \in 1 .. Len(t), t[i] \in S PROVE FALSE
  BY DEF InQueue
<1>2. i + 1 \in PlacesOf(S, s)
  BY DEF ComesFrom, PlacesOf
<1>3. i + 1 = 1
  BY <1>1, <1>2 DEF AtMostOne
<1> QED BY <1>1, <1>3

(* The only element of S in a queue, and the only two, next to each other.   *)
Alone(S, s, x) == \E i \in 1 .. Len(s) : s[i] = x /\ \A j \in 1 .. Len(s) : s[j] \in S => j = i

Pair(S, s, x, y) ==
  \E i \in 1 .. Len(s) : /\ i + 1 \in 1 .. Len(s) /\ s[i] = x /\ s[i + 1] = y
                         /\ \A j \in 1 .. Len(s) : s[j] \in S => j = i \/ j = i + 1

LEMMA AloneAppend ==
  ASSUME NEW T, NEW S, NEW s \in Seq(T), NEW x \in T, ~InQueue(S, s)
  PROVE  Alone(S, Append(s, x), x)
<1> DEFINE t == Append(s, x)
<1>1. /\ Len(s) \in Nat /\ Len(t) = Len(s) + 1 /\ t[Len(s) + 1] = x
      /\ \A i \in 1 .. Len(s) : t[i] = s[i]
  BY SeqFacts
<1> HIDE DEF t
<1> QED BY <1>1 DEF Alone, InQueue, t

LEMMA PairAppend ==
  ASSUME NEW T, NEW S, NEW s \in Seq(T), NEW x \in T, NEW y \in T, ~InQueue(S, s)
  PROVE  Pair(S, s \o <<x, y>>, x, y)
<1> DEFINE t == s \o <<x, y>>
<1>1. /\ Len(s) \in Nat /\ Len(t) = Len(s) + 2
      /\ t[Len(s) + 1] = x /\ t[Len(s) + 1 + 1] = y
      /\ \A i \in 1 .. Len(s) : t[i] = s[i]
  OBVIOUS
<1> HIDE DEF t
<1>2. Len(s) + 1 \in 1 .. Len(t) /\ Len(s) + 1 + 1 \in 1 .. Len(t)
  BY <1>1
<1>3. \A j \in 1 .. Len(t) : t[j] \in S => j = Len(s) + 1 \/ j = Len(s) + 1 + 1
  BY <1>1 DEF InQueue
<1> QED BY <1>1, <1>2, <1>3 DEF Pair, t

LEMMA TakenAlone ==
  ASSUME NEW T, NEW S, NEW s \in Seq(T), s # <<>>, NEW x, Alone(S, s, x), Head(s) \in S
  PROVE  Head(s) = x /\ ~InQueue(S, Tail(s))
<1> DEFINE t == Tail(s)
<1>1. /\ Len(s) \in Nat /\ Len(s) > 0 /\ Head(s) = s[1] /\ Len(t) = Len(s) - 1
      /\ \A i \in 1 .. Len(s) - 1 : t[i] = s[i + 1]
  BY SeqFacts
<1> HIDE DEF t
<1>2. PICK i \in 1 .. Len(s) : s[i] = x /\ \A j \in 1 .. Len(s) : s[j] \in S => j = i
  BY DEF Alone
<1>3. i = 1
  BY <1>1, <1>2
<1>4. ASSUME NEW j \in 1 .. Len(t), t[j] \in S PROVE FALSE
  <2>1. j + 1 \in 1 .. Len(s) /\ s[j + 1] \in S
    BY <1>1, <1>4
  <2> QED BY <1>2, <1>3, <2>1
<1> QED BY <1>1, <1>2, <1>3, <1>4 DEF InQueue, t

LEMMA TakenFirst ==
  ASSUME NEW T, NEW S, NEW s \in Seq(T), s # <<>>, NEW x, NEW y, Pair(S, s, x, y), Head(s) \in S
  PROVE  Head(s) = x /\ Alone(S, Tail(s), y)
<1> DEFINE t == Tail(s)
<1>1. /\ Len(s) \in Nat /\ Len(s) > 0 /\ Head(s) = s[1] /\ Len(t) = Len(s) - 1
      /\ \A i \in 1 .. Len(s) - 1 : t[i] = s[i + 1]
  BY SeqFacts
<1> HIDE DEF t
<1>2. PICK i \in 1 .. Len(s) : /\ i + 1 \in 1 .. Len(s) /\ s[i] = x /\ s[i + 1] = y
                               /\ \A j \in 1 .. Len(s) : s[j] \in S => j = i \/ j = i + 1
  BY DEF Pair
<1>3. i = 1
  BY <1>1, <1>2
<1>4. 1 \in 1 .. Len(t) /\ t[1] = y
  BY <1>1, <1>2, <1>3
<1>5. ASSUME NEW j \in 1 .. Len(t), t[j] \in S PROVE j = 1
  <2>1. j + 1 \in 1 .. Len(s) /\ s[j + 1] \in S
    BY <1>1, <1>5
  <2> QED BY <1>2, <1>3, <2>1
<1> QED BY <1>1, <1>2, <1>3, <1>4, <1>5 DEF Alone, t

LEMMA SameKept ==
  ASSUME NEW T, NEW S, NEW s \in Seq(T), NEW t \in Seq(T), SameOf(S, s, t)
  PROVE  /\ ~InQueue(S, s) => ~InQueue(S, t)
         /\ \A x \in S : Alone(S, s, x) => Alone(S, t, x)
         /\ \A x, y \in S : Pair(S, s, x, y) => Pair(S, t, x, y)
<1>1. PICK d \in {0, 1} :
        /\ \A i \in 1 .. Len(s) : s[i] \in S => i - d \in 1 .. Len(t) /\ t[i - d] = s[i]
        /\ \A i \in 1 .. Len(t) : t[i] \in S => i + d \in 1 .. Len(s) /\ s[i + d] = t[i]
  BY DEF SameOf
<1>2. ~InQueue(S, s) => ~InQueue(S, t)
  BY <1>1 DEF InQueue
<1>3. ASSUME NEW x \in S, Alone(S, s, x) PROVE Alone(S, t, x)
  <2>1. PICK i \in 1 .. Len(s) : s[i] = x /\ \A j \in 1 .. Len(s) : s[j] \in S => j = i
    BY <1>3 DEF Alone
  <2>2. i - d \in 1 .. Len(t) /\ t[i - d] = x
    BY <1>1, <2>1
  <2>3. \A j \in 1 .. Len(t) : t[j] \in S => j = i - d
    BY <1>1, <2>1
  <2> QED BY <2>2, <2>3 DEF Alone
<1>4. ASSUME NEW x \in S, NEW y \in S, Pair(S, s, x, y) PROVE Pair(S, t, x, y)
  <2>1. PICK i \in 1 .. Len(s) : /\ i + 1 \in 1 .. Len(s) /\ s[i] = x /\ s[i + 1] = y
                                 /\ \A j \in 1 .. Len(s) : s[j] \in S => j = i \/ j = i + 1
    BY <1>4 DEF Pair
  <2>2. i - d \in 1 .. Len(t) /\ t[i - d] = x
    BY <1>1, <2>1
  <2>3. (i - d) + 1 \in 1 .. Len(t) /\ t[(i - d) + 1] = y
    <3>1. (i + 1) - d \in 1 .. Len(t) /\ t[(i + 1) - d] = y
      BY <1>1, <2>1
    <3>2. (i + 1) - d = (i - d) + 1
      OBVIOUS
    <3> QED BY <3>1, <3>2
  <2>4. \A j \in 1 .. Len(t) : t[j] \in S => j = i - d \/ j = (i - d) + 1
    BY <1>1, <2>1
  <2> QED BY <2>2, <2>3, <2>4 DEF Pair
<1> QED BY <1>2, <1>3, <1>4

-----------------------------------------------------------------------------
(* Induction, from the fact that the numbers are well-founded.               *)

(* Every set of numbers that is not empty has a least one; what holds of 0,  *)
(* and of n + 1 when it holds of n, holds of every number.                   *)
LEMMA LeastNumber ==
  ASSUME NEW T, T \subseteq Nat, T # {}
  PROVE  \E n \in T : \A m \in T : n <= m
<1> DEFINE R == OpToRel(<, Nat)
<1>1. IsWellFoundedOn(R, Nat)
  BY NatLessThanWellFounded
<1> HIDE DEF R
<1>2. PICK n \in T : \A m \in T : <<m, n>> \notin R
  BY <1>1, WFMin
<1>3. ASSUME NEW m \in T PROVE n <= m
  <2>1. ~(m < n)
    BY <1>2 DEF R, OpToRel
  <2> QED BY <2>1, n \in Nat, m \in Nat
<1> QED BY <1>3

LEMMA Induction ==
  ASSUME NEW S, 0 \in S, \A n \in Nat : n \in S => n + 1 \in S
  PROVE  Nat \subseteq S
<1> DEFINE T == {n \in Nat : n \notin S}
<1> SUFFICES ASSUME T # {} PROVE FALSE
  OBVIOUS
<1>1. PICK n \in T : \A m \in T : n <= m
  <2>1. T \subseteq Nat
    OBVIOUS
  <2> HIDE DEF T
  <2> QED BY <2>1, LeastNumber
<1>2. n - 1 \in Nat /\ n - 1 < n /\ n - 1 + 1 = n
  OBVIOUS
<1> QED BY <1>1, <1>2

(* What holds of the empty queue, and of a longer one when it holds of the   *)
(* queue without its last element, holds of every queue.                     *)
LEMMA QueueInduction ==
  ASSUME NEW T, NEW H, <<>> \in H,
         \A s \in Seq(T) : \A x \in T : s \in H => Append(s, x) \in H
  PROVE  Seq(T) \subseteq H
<1> DEFINE S == {n \in Nat : \A s \in Seq(T) : Len(s) = n => s \in H}
<1>1. 0 \in S
  <2>1. \A s \in Seq(T) : Len(s) = 0 => s = <<>>
    OBVIOUS
  <2> QED BY <2>1
<1>2. ASSUME NEW n \in Nat, n \in S PROVE n + 1 \in S
  <2> SUFFICES ASSUME NEW s \in Seq(T), Len(s) = n + 1 PROVE s \in H
    OBVIOUS
  <2> DEFINE u == [i \in 1 .. n |-> s[i]]
  <2>1. u \in Seq(T) /\ Len(u) = n /\ s[n + 1] \in T
    OBVIOUS
  <2>2. s = Append(u, s[n + 1])
    OBVIOUS
  <2>3. u \in H
    BY <1>2, <2>1
  <2> HIDE DEF u
  <2> QED BY <2>1, <2>2, <2>3
<1> HIDE DEF S
<1>3. Nat \subseteq S
  BY <1>1, <1>2, Induction
<1> QED BY <1>3 DEF S
=============================================================================
