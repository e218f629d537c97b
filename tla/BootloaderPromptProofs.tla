----------------------- MODULE BootloaderPromptProofs -----------------------
(***************************************************************************)
(* BootloaderPrompt for any number of calls of setMode(), of writes that   *)
(* fail and of ready characters, and any amount of text on its way.        *)
(***************************************************************************)
EXTENDS BootloaderPrompt, Queues, FiniteSetTheorems

-----------------------------------------------------------------------------
(* Pieces of text.                                                           *)

LEMMA FromFacts ==
  ASSUME NEW T, NEW s \in Seq(T), NEW i \in 1 .. Len(s) + 1
  PROVE  /\ From(s, i) \in Seq(T) /\ Len(From(s, i)) = Len(s) - i + 1
         /\ \A j \in 1 .. Len(s) - i + 1 : From(s, i)[j] = s[i + j - 1]
BY DEF From

LEMMA ConcatFacts ==
  ASSUME NEW T, NEW s \in Seq(T), NEW t \in Seq(T)
  PROVE  /\ s \o t \in Seq(T) /\ Len(s \o t) = Len(s) + Len(t)
         /\ \A j \in 1 .. Len(s) : (s \o t)[j] = s[j]
         /\ \A j \in Len(s) + 1 .. Len(s) + Len(t) : (s \o t)[j] = t[j - Len(s)]
OBVIOUS

LEMMA Narrower ==
  ASSUME NEW S, NEW T, NEW s \in Seq(S), \A i \in 1 .. Len(s) : s[i] \in T
  PROVE  s \in Seq(T)
OBVIOUS

LEMMA SeqEqual ==
  ASSUME NEW S, NEW T, NEW s \in Seq(S), NEW t \in Seq(T), Len(s) = Len(t),
         \A i \in 1 .. Len(s) : s[i] = t[i]
  PROVE  s = t
OBVIOUS

LEMMA PrefixFacts ==
  ASSUME NEW T, NEW s \in Seq(T), NEW i \in 1 .. Len(s) + 1
  PROVE  /\ SubSeq(s, 1, i - 1) \in Seq(T) /\ Len(SubSeq(s, 1, i - 1)) = i - 1
         /\ \A j \in 1 .. i - 1 : SubSeq(s, 1, i - 1)[j] = s[j]
OBVIOUS

LEMMA Pieces ==
  ASSUME NEW T, NEW s \in Seq(T), NEW i \in 1 .. Len(s) + 1
  PROVE  SubSeq(s, 1, i - 1) \in Seq(T) /\ s = SubSeq(s, 1, i - 1) \o From(s, i)
<1> DEFINE u == SubSeq(s, 1, i - 1)
<1>1. /\ u \in Seq(T) /\ Len(u) = i - 1
      /\ \A j \in 1 .. i - 1 : u[j] = s[j]
  BY PrefixFacts
<1> HIDE DEF u
<1>2. /\ From(s, i) \in Seq(T) /\ Len(From(s, i)) = Len(s) - i + 1
      /\ \A j \in 1 .. Len(s) - i + 1 : From(s, i)[j] = s[i + j - 1]
  BY FromFacts
<1>3. PICK v : v = From(s, i)
  OBVIOUS
<1>4. u \o v \in Seq(T) /\ Len(u \o v) = Len(s)
  BY <1>1, <1>2, <1>3
<1>5. ASSUME NEW j \in 1 .. Len(s) PROVE (u \o v)[j] = s[j]
  <2>1. CASE j < i
    BY <1>1, <2>1
  <2>2. CASE j >= i
    <3>1. PICK k : k = j - Len(u)
      OBVIOUS
    <3>2. /\ k \in 1 .. Len(s) - i + 1 /\ i + k - 1 = j
          /\ j \in Len(u) + 1 .. Len(u) + Len(v)
      BY <1>1, <1>2, <1>3, <2>2, <3>1
    <3>3. (u \o v)[j] = v[j - Len(u)]
      BY <1>1, <1>2, <1>3, <3>2, ConcatFacts
    <3>4. v[j - Len(u)] = s[i + k - 1]
      BY <1>2, <1>3, <3>1, <3>2
    <3>5. s[i + k - 1] = s[j]
      BY <3>2
    <3> QED BY <3>3, <3>4, <3>5
  <2>3. j < i \/ j >= i
    <3>1. Len(s) \in Nat
      OBVIOUS
    <3>2. i \in Int /\ j \in Int
      BY <3>1
    <3> QED BY <3>2
  <2> QED BY <2>1, <2>2, <2>3
<1>6. s = u \o v
  BY <1>4, <1>5, SeqEqual
<1> QED BY <1>1, <1>3, <1>6 DEF u

LEMMA FromOfConcat ==
  ASSUME NEW T, NEW s \in Seq(T), NEW t \in Seq(T)
  PROVE  /\ \A i \in 1 .. Len(s) + 1 : From(s \o t, i) = From(s, i) \o t
         /\ \A i \in 1 .. Len(t) + 1 : From(s \o t, Len(s) + i) = From(t, i)
<1>1. s \o t \in Seq(T) /\ Len(s \o t) = Len(s) + Len(t)
  OBVIOUS
<1>2. ASSUME NEW i \in 1 .. Len(s) + 1 PROVE From(s \o t, i) = From(s, i) \o t
  BY <1>1 DEF From
<1>3. ASSUME NEW i \in 1 .. Len(t) + 1 PROVE From(s \o t, Len(s) + i) = From(t, i)
  BY <1>1 DEF From
<1> QED BY <1>2, <1>3

LEMMA FromOfFrom ==
  ASSUME NEW T, NEW s \in Seq(T), NEW i \in 1 .. Len(s) + 1, NEW j \in 1 .. Len(s) - i + 2
  PROVE  From(From(s, i), j) = From(s, i + j - 1)
BY DEF From

LEMMA LeastOf ==
  ASSUME NEW S, S \subseteq Nat, S # {}
  PROVE  Min(S) \in S /\ \A m \in S : Min(S) <= m
<1>1. \E n \in S : \A m \in S : n <= m
  BY LeastNumber
<1> QED BY <1>1 DEF Min

LEMMA GreatestOf ==
  ASSUME NEW n \in Nat, NEW S, S \subseteq 0 .. n, S # {}
  PROVE  Max(S) \in S /\ \A m \in S : m <= Max(S)
<1> DEFINE U == {u \in 0 .. n : n - u \in S}
<1>1. U \subseteq Nat /\ U # {}
  <2>1. PICK m \in S : TRUE
    OBVIOUS
  <2>2. n - m \in 0 .. n /\ n - (n - m) = m
    BY <2>1
  <2> QED BY <2>2
<1>2. PICK u \in U : \A v \in U : u <= v
  BY <1>1, LeastNumber
<1>3. n - u \in S /\ \A m \in S : n - m \in U
  <2>1. ASSUME NEW m \in S PROVE n - m \in 0 .. n /\ n - (n - m) = m
    OBVIOUS
  <2> QED BY <2>1
<1>4. ASSUME NEW m \in S PROVE n - u >= m
  <2>1. n - m \in U /\ n \in Nat /\ m \in Nat /\ u \in Nat
    BY <1>3
  <2>2. u <= n - m
    BY <1>2, <2>1
  <2> QED BY <2>1, <2>2
<1>5. \E x \in S : \A y \in S : x >= y
  BY <1>3, <1>4
<1>6. Max(S) \in S /\ \A y \in S : Max(S) >= y
  BY <1>5 DEF Max
<1> QED BY <1>6

-----------------------------------------------------------------------------
(* The prompts in a text.                                                    *)
Count(s) == Cardinality(PlacesOf({"BL"}, s))

LEMMA CountIs ==
  ASSUME NEW T, NEW s \in Seq(T)
  PROVE  Count(s) \in Nat /\ IsFiniteSet(PlacesOf({"BL"}, s))
<1>1. Len(s) \in Nat /\ IsFiniteSet(1 .. Len(s))
  BY FS_Interval
<1>2. IsFiniteSet(PlacesOf({"BL"}, s))
  BY <1>1, FS_Subset DEF PlacesOf
<1> QED BY <1>2, FS_CardinalityType DEF Count

LEMMA CountNone == Count(<<>>) = 0
<1>1. PlacesOf({"BL"}, <<>>) = {}
  BY DEF PlacesOf
<1> QED BY <1>1, FS_EmptySet DEF Count

LEMMA CountAppend ==
  ASSUME NEW T, NEW s \in Seq(T), NEW x \in T
  PROVE  Count(Append(s, x)) = Count(s) + (IF x = "BL" THEN 1 ELSE 0)
<1> DEFINE P == PlacesOf({"BL"}, s)
<1>1. Count(s) \in Nat /\ IsFiniteSet(P)
  BY CountIs
<1>2. PlacesOf({"BL"}, Append(s, x)) = P \cup (IF x \in {"BL"} THEN {Len(s) + 1} ELSE {})
  BY PlacesAppend
<1>3. Len(s) + 1 \notin P
  <2>1. Len(s) \in Nat
    OBVIOUS
  <2> QED BY <2>1 DEF PlacesOf
<1> HIDE DEF P
<1>4. CASE x = "BL"
  <2>1. Cardinality(P \cup {Len(s) + 1}) = Cardinality(P) + 1
    BY <1>1, <1>3, FS_AddElement
  <2> QED BY <1>2, <1>4, <2>1 DEF Count, P
<1>5. CASE x # "BL"
  <2>1. PlacesOf({"BL"}, Append(s, x)) = P
    BY <1>2, <1>5
  <2>2. Count(Append(s, x)) = Count(s)
    BY <2>1 DEF Count, P
  <2> QED BY <1>1, <1>5, <2>2
<1> QED BY <1>4, <1>5

LEMMA CountConcat ==
  ASSUME NEW T, NEW s \in Seq(T), NEW t \in Seq(T)
  PROVE  Count(s \o t) = Count(s) + Count(t)
<1> DEFINE H == {u \in Seq(T) : Count(s \o u) = Count(s) + Count(u)}
<1>1. <<>> \in H
  <2>1. s \o <<>> = s /\ <<>> \in Seq(T)
    OBVIOUS
  <2>2. Count(s) + 0 = Count(s)
    BY CountIs
  <2> QED BY <2>1, <2>2, CountNone
<1>2. ASSUME NEW u \in Seq(T), NEW x \in T, u \in H PROVE Append(u, x) \in H
  <2>1. Append(u, x) \in Seq(T) /\ s \o u \in Seq(T)
    BY SeqFacts, ConcatFacts
  <2>2. s \o Append(u, x) = Append(s \o u, x)
    OBVIOUS
  <2>3. Count(Append(s \o u, x)) = Count(s \o u) + (IF x = "BL" THEN 1 ELSE 0)
    BY <2>1, CountAppend
  <2>4. Count(Append(u, x)) = Count(u) + (IF x = "BL" THEN 1 ELSE 0)
    BY CountAppend
  <2>5. Count(s) \in Nat /\ Count(u) \in Nat /\ Count(s \o u) = Count(s) + Count(u)
    BY <1>2, CountIs
  <2>6. Count(s \o Append(u, x)) = Count(s) + Count(Append(u, x))
    <3>1. CASE x = "BL"
      BY <2>2, <2>3, <2>4, <2>5, <3>1
    <3>2. CASE x # "BL"
      BY <2>2, <2>3, <2>4, <2>5, <3>2
    <3> QED BY <3>1, <3>2
  <2> QED BY <2>1, <2>6
<1> HIDE DEF H
<1>3. t \in H
  BY <1>1, <1>2, QueueInduction
<1> QED BY <1>3 DEF H

LEMMA CountFrom ==
  ASSUME NEW T, NEW s \in Seq(T), NEW i \in 1 .. Len(s) + 1
  PROVE  /\ Count(s) = Count(SubSeq(s, 1, i - 1)) + Count(From(s, i))
         /\ Count(From(s, i)) <= Count(s)
<1> DEFINE u == SubSeq(s, 1, i - 1)
<1>1. u \in Seq(T) /\ s = u \o From(s, i) /\ From(s, i) \in Seq(T)
  BY Pieces, FromFacts
<1> HIDE DEF u
<1>2. Count(s) = Count(u) + Count(From(s, i))
  BY <1>1, CountConcat
<1>3. Count(u) \in Nat /\ Count(From(s, i)) \in Nat
  BY <1>1, CountIs
<1> QED BY <1>2, <1>3 DEF u

-----------------------------------------------------------------------------
(* The text after the first header, and the prompts that may still be        *)
(* answered: those after a header, unless one was found already.             *)
AfterHeader(s) ==
  IF Found(s, HEADER) = {} THEN <<>> ELSE From(s, Min(Found(s, HEADER)) + Len(HEADER))

InMenu(st) == st \in {"TOPLEVEL_MENU_HEADER", "TOPLEVEL_MENU_CONTENT"}
Due(st, s) == IF InMenu(st) THEN Count(s) ELSE Count(AfterHeader(s))

LEMMA FoundHeader ==
  ASSUME NEW T, NEW s \in Seq(T)
  PROVE  \A i : i \in Found(s, HEADER) <=>
                  i \in 1 .. Len(s) - 1 /\ s[i] = "Gecko" /\ s[i + 1] = "Bootloader"
<1>1. Len(HEADER) = 2 /\ HEADER[1] = "Gecko" /\ HEADER[2] = "Bootloader"
      /\ HEADER \in Seq({"Gecko", "Bootloader"})
  BY DEF HEADER
<1>2. ASSUME NEW i \in 1 .. Len(s) - 1
      PROVE  SubSeq(s, i, i + 1) = HEADER <=> s[i] = "Gecko" /\ s[i + 1] = "Bootloader"
  <2> DEFINE u == SubSeq(s, i, i + 1)
  <2>1. u \in Seq(T) /\ Len(u) = 2 /\ \A k \in 1 .. 2 : u[k] = s[i + k - 1]
    OBVIOUS
  <2> HIDE DEF u
  <2>2. u[1] = HEADER[1] /\ u[2] = HEADER[2] => u = HEADER
    BY <1>1, <2>1, SeqEqual
  <2>3. u[1] = s[i] /\ u[2] = s[i + 1]
    BY <2>1
  <2> QED BY <1>1, <2>1, <2>2, <2>3 DEF u
<1>3. Found(s, HEADER) = {i \in 1 .. Len(s) - 1 : SubSeq(s, i, i + 1) = HEADER}
  BY <1>1 DEF Found
<1> QED BY <1>2, <1>3

LEMMA FoundOne ==
  ASSUME NEW T, NEW s \in Seq(T), NEW c
  PROVE  \A i : i \in Found(s, <<c>>) <=> i \in 1 .. Len(s) /\ s[i] = c
<1>1. ASSUME NEW i \in 1 .. Len(s) PROVE SubSeq(s, i, i) = <<c>> <=> s[i] = c
  <2> DEFINE u == SubSeq(s, i, i)
  <2>1. u \in Seq(T) /\ Len(u) = 1 /\ u[1] = s[i]
    OBVIOUS
  <2> HIDE DEF u
  <2>2. <<c>> \in Seq({c}) /\ Len(<<c>>) = 1 /\ <<c>>[1] = c
    OBVIOUS
  <2>3. u[1] = c => u = <<c>>
    BY <2>1, <2>2, SeqEqual
  <2> QED BY <2>1, <2>2, <2>3 DEF u
<1>2. Found(s, <<c>>) = {i \in 1 .. Len(s) : SubSeq(s, i, i) = <<c>>}
  BY DEF Found
<1> QED BY <1>1, <1>2

LEMMA FirstFound ==
  ASSUME NEW T, NEW s \in Seq(T), NEW text, Found(s, text) # {}, Len(text) \in Nat
  PROVE  /\ Min(Found(s, text)) \in Found(s, text)
         /\ \A i \in Found(s, text) : Min(Found(s, text)) <= i
<1>1. Found(s, text) \subseteq Nat
  BY DEF Found
<1> QED BY <1>1, LeastOf

(* Where the first header of a text ends.                                    *)
LEMMA HeaderEnds ==
  ASSUME NEW T, NEW s \in Seq(T), Found(s, HEADER) # {}
  PROVE  \E m \in 1 .. Len(s) - 1 :
           /\ m = Min(Found(s, HEADER)) /\ AfterHeader(s) = From(s, m + 2)
           /\ m \in Found(s, HEADER) /\ \A i \in Found(s, HEADER) : m <= i
<1>1. Len(HEADER) = 2
  BY DEF HEADER
<1>2. PICK m : m = Min(Found(s, HEADER))
  OBVIOUS
<1>3. m \in Found(s, HEADER) /\ \A i \in Found(s, HEADER) : m <= i
  BY <1>1, <1>2, FirstFound
<1>4. m \in 1 .. Len(s) - 1
  BY <1>3, FoundHeader
<1>5. AfterHeader(s) = From(s, m + 2)
  BY <1>1, <1>2 DEF AfterHeader
<1> QED BY <1>2, <1>3, <1>4, <1>5

LEMMA AfterIsText ==
  ASSUME NEW T, NEW s \in Seq(T)
  PROVE  /\ AfterHeader(s) \in Seq(T) /\ Count(AfterHeader(s)) \in Nat
         /\ Count(AfterHeader(s)) <= Count(s)
<1>1. CASE Found(s, HEADER) = {}
  <2>1. AfterHeader(s) = <<>> /\ <<>> \in Seq(T)
    BY <1>1 DEF AfterHeader
  <2> QED BY <2>1, CountNone, CountIs
<1>2. CASE Found(s, HEADER) # {}
  <2>1. PICK m \in 1 .. Len(s) - 1 : AfterHeader(s) = From(s, m + 2)
    BY <1>2, HeaderEnds
  <2>2. m + 2 \in 1 .. Len(s) + 1
    OBVIOUS
  <2>3. From(s, m + 2) \in Seq(T) /\ Count(From(s, m + 2)) <= Count(s)
    BY <2>2, FromFacts, CountFrom
  <2> QED BY <2>1, <2>3, CountIs
<1> QED BY <1>1, <1>2

(* More text: a header that was there is still the first one.                *)
LEMMA AfterLonger ==
  ASSUME NEW T, NEW s \in Seq(T), NEW t \in Seq(T)
  PROVE  /\ Found(s, HEADER) # {} =>
              Found(s \o t, HEADER) # {} /\ AfterHeader(s \o t) = AfterHeader(s) \o t
         /\ Count(AfterHeader(s)) <= Count(AfterHeader(s \o t))
         /\ Count(AfterHeader(s \o t)) <= Count(AfterHeader(s)) + Count(t)
<1> DEFINE w == s \o t
<1>1. /\ w \in Seq(T) /\ Len(w) = Len(s) + Len(t)
      /\ \A j \in 1 .. Len(s) : w[j] = s[j]
  BY ConcatFacts
<1>2. /\ \A i \in 1 .. Len(s) + 1 : From(w, i) = From(s, i) \o t
      /\ \A i \in 1 .. Len(t) + 1 : From(w, Len(s) + i) = From(t, i)
  BY FromOfConcat
<1> HIDE DEF w
<1>3. \A i \in 1 .. Len(s) - 1 : i \in Found(w, HEADER) <=> i \in Found(s, HEADER)
  <2> SUFFICES ASSUME NEW i \in 1 .. Len(s) - 1
               PROVE  i \in Found(w, HEADER) <=> i \in Found(s, HEADER)
    OBVIOUS
  <2>1. i \in 1 .. Len(w) - 1 /\ w[i] = s[i] /\ w[i + 1] = s[i + 1]
    BY <1>1
  <2> QED BY <1>1, <2>1, FoundHeader
<1>4. Count(AfterHeader(s)) \in Nat /\ Count(t) \in Nat /\ AfterHeader(s) \in Seq(T)
      /\ Count(AfterHeader(w)) \in Nat
  BY <1>1, AfterIsText, CountIs
<1>5. CASE Found(s, HEADER) # {}
  <2>1. PICK m \in 1 .. Len(s) - 1 :
           /\ AfterHeader(s) = From(s, m + 2)
           /\ m \in Found(s, HEADER) /\ \A i \in Found(s, HEADER) : m <= i
    BY <1>5, HeaderEnds
  <2>2. m \in Found(w, HEADER)
    BY <1>3, <2>1
  <2>3. PICK n \in 1 .. Len(w) - 1 :
           /\ AfterHeader(w) = From(w, n + 2)
           /\ n \in Found(w, HEADER) /\ \A i \in Found(w, HEADER) : n <= i
    BY <1>1, <2>2, HeaderEnds
  <2>4. n <= m
    BY <2>2, <2>3
  <2>5. n \in Found(s, HEADER)
    <3>1. n \in 1 .. Len(s) - 1
      BY <2>4
    <3> QED BY <1>3, <2>3, <3>1
  <2>6. n = m
    BY <2>1, <2>4, <2>5
  <2>7. m + 2 \in 1 .. Len(s) + 1
    OBVIOUS
  <2>8. AfterHeader(w) = AfterHeader(s) \o t
    BY <1>2, <2>1, <2>3, <2>6, <2>7
  <2>9. Count(AfterHeader(w)) = Count(AfterHeader(s)) + Count(t)
    BY <1>4, <2>8, CountConcat
  <2> QED BY <1>4, <2>2, <2>8, <2>9 DEF w
<1>6. CASE Found(s, HEADER) = {}
  <2>1. Count(AfterHeader(s)) = 0
    BY <1>6, CountNone DEF AfterHeader
  <2>2. CASE Found(w, HEADER) = {}
    <3>1. Count(AfterHeader(w)) = 0
      BY <2>2, CountNone DEF AfterHeader
    <3> QED BY <1>4, <1>6, <2>1, <3>1 DEF w
  <2>3. CASE Found(w, HEADER) # {}
    <3>1. PICK n \in 1 .. Len(w) - 1 :
             AfterHeader(w) = From(w, n + 2) /\ n \in Found(w, HEADER)
      BY <1>1, <2>3, HeaderEnds
    <3>2. n \notin 1 .. Len(s) - 1
      BY <1>3, <1>6, <3>1
    <3>3. PICK k : k = n + 2 - Len(s)
      OBVIOUS
    <3>4. k \in 1 .. Len(t) + 1 /\ n + 2 = Len(s) + k
      BY <1>1, <3>2, <3>3
    <3>5. AfterHeader(w) = From(t, k)
      BY <1>2, <3>1, <3>4
    <3>6. Count(From(t, k)) <= Count(t)
      BY <3>4, CountFrom
    <3> QED BY <1>4, <1>6, <2>1, <3>5, <3>6 DEF w
  <2> QED BY <2>2, <2>3
<1> QED BY <1>5, <1>6

(* Less text in front.                                                       *)
LEMMA AfterLess ==
  ASSUME NEW T, NEW s \in Seq(T), NEW i \in 1 .. Len(s) + 1
  PROVE  Count(AfterHeader(From(s, i))) <= Count(AfterHeader(s))
<1> DEFINE u == From(s, i)
<1>1. u \in Seq(T) /\ Len(u) = Len(s) - i + 1 /\ \A j \in 1 .. Len(u) : u[j] = s[i + j - 1]
  BY FromFacts
<1>2. \A j \in 1 .. Len(s) - i + 2 : From(u, j) = From(s, i + j - 1)
  BY FromOfFrom
<1> HIDE DEF u
<1>3. Count(AfterHeader(s)) \in Nat
  BY AfterIsText
<1>4. CASE Found(u, HEADER) = {}
  BY <1>3, <1>4, CountNone DEF AfterHeader, u
<1>5. CASE Found(u, HEADER) # {}
  <2>1. PICK m \in 1 .. Len(u) - 1 : AfterHeader(u) = From(u, m + 2) /\ m \in Found(u, HEADER)
    BY <1>1, <1>5, HeaderEnds
  <2>2. PICK k : k = i + m - 1
    OBVIOUS
  <2>3. k \in 1 .. Len(s) - 1 /\ k + 1 = i + (m + 1) - 1
    BY <1>1, <2>2
  <2>4. u[m] = s[k] /\ u[m + 1] = s[k + 1]
    <3>1. m \in 1 .. Len(u) /\ m + 1 \in 1 .. Len(u)
      BY <1>1
    <3>2. u[m] = s[i + m - 1] /\ u[m + 1] = s[i + (m + 1) - 1]
      BY <1>1, <3>1
    <3> QED BY <2>2, <2>3, <3>2
  <2>5. k \in Found(s, HEADER)
    BY <1>1, <2>1, <2>3, <2>4, FoundHeader
  <2>6. PICK n \in 1 .. Len(s) - 1 : AfterHeader(s) = From(s, n + 2) /\ n <= k
    BY <2>5, HeaderEnds
  <2>7. AfterHeader(u) = From(s, k + 2)
    <3>1. m + 2 \in 1 .. Len(s) - i + 2 /\ i + (m + 2) - 1 = k + 2
      BY <1>1, <2>2
    <3> QED BY <1>2, <2>1, <3>1
  <2>8. PICK j : j = k - n + 1
    OBVIOUS
  <2>9. /\ n + 2 \in 1 .. Len(s) + 1 /\ j \in 1 .. Len(s) - (n + 2) + 2
        /\ (n + 2) + j - 1 = k + 2
    BY <2>3, <2>6, <2>8
  <2>10. From(From(s, n + 2), j) = From(s, k + 2)
    BY <2>9, FromOfFrom
  <2>11. From(s, n + 2) \in Seq(T) /\ j \in 1 .. Len(From(s, n + 2)) + 1
    BY <2>9, FromFacts
  <2>12. Count(From(From(s, n + 2), j)) <= Count(From(s, n + 2))
    BY <2>11, CountFrom
  <2> QED BY <2>6, <2>7, <2>10, <2>12 DEF u
<1> QED BY <1>4, <1>5

-----------------------------------------------------------------------------
(* What the parser makes of the text it has and of a chunk.                  *)
Text == Seq(Characters)
Plain == Seq(Characters \ {"nul"})

LEMMA CharacterSet == Characters = {"Gecko", "Bootloader", "eol", "BL", "nul", "C"}
<1>1. /\ Menu \in Seq({"Gecko", "Bootloader", "eol", "BL"}) /\ Len(Menu) = 4
      /\ Menu[1] = "Gecko" /\ Menu[2] = "Bootloader" /\ Menu[3] = "eol" /\ Menu[4] = "BL"
  BY DEF Menu, HEADER, PROMPT
<1>2. ToSet(Menu) = {Menu[i] : i \in 1 .. 4}
  BY <1>1 DEF ToSet
<1> HIDE DEF Menu
<1>3. 1 .. 4 = {1, 2, 3, 4}
  OBVIOUS
<1>4. ToSet(Menu) = {"Gecko", "Bootloader", "eol", "BL"}
  BY <1>1, <1>2, <1>3
<1> QED BY <1>4 DEF Characters

LEMMA PlainIsText == ASSUME NEW s \in Plain PROVE s \in Text
BY DEF Text, Plain

LEMMA NoPromptAtEnd ==
  ASSUME NEW s \in Text, s # <<>>, s[Len(s)] = "nul"
  PROVE  /\ Count(Front(s)) = Count(s)
         /\ Count(AfterHeader(Front(s))) <= Count(AfterHeader(s))
<1> DEFINE u == Front(s)
<1>1. u \in Text /\ Len(u) = Len(s) - 1 /\ \A i \in 1 .. Len(s) - 1 : u[i] = s[i]
  <2>1. s \in Seq(Characters) /\ Len(s) \in Nat /\ Len(s) > 0
    BY DEF Text
  <2>2. u = SubSeq(s, 1, Len(s) - 1)
    BY DEF Front
  <2>3. Len(s) \in 1 .. Len(s) + 1
    BY <2>1
  <2> QED BY <2>1, <2>2, <2>3, PrefixFacts DEF Text
<1> HIDE DEF u
<1>2. /\ Append(u, "nul") \in Text /\ Len(Append(u, "nul")) = Len(s)
      /\ \A i \in 1 .. Len(s) : Append(u, "nul")[i] = s[i]
  BY <1>1, CharacterSet DEF Text
<1>3. s = Append(u, "nul")
  BY <1>2, SeqEqual DEF Text
<1>4. Append(u, "nul") = u \o <<"nul">> /\ <<"nul">> \in Text
  BY <1>1, CharacterSet DEF Text
<1>5. Count(Append(u, "nul")) = Count(u)
  <2>1. Count(u) \in Nat /\ "nul" \in Characters
    BY <1>1, CountIs, CharacterSet DEF Text
  <2>2. Count(Append(u, "nul")) = Count(u) + 0
    BY <1>1, <2>1, CountAppend DEF Text
  <2> QED BY <2>1, <2>2
<1>6. Count(AfterHeader(u)) <= Count(AfterHeader(u \o <<"nul">>))
  BY <1>1, <1>4, AfterLonger DEF Text
<1> QED BY <1>3, <1>4, <1>5, <1>6 DEF u

(* Only text that was there, or came, is kept, and no NUL.                   *)
LEMMA Accumulated ==
  ASSUME NEW bytes \in Plain, NEW chunk \in Text, chunk # <<>>
  PROVE  LET read == Accumulate(bytes, chunk)
         IN  /\ read.bytes \in Plain
             /\ Count(read.bytes) <= Count(bytes) + Count(chunk)
             /\ Count(AfterHeader(read.bytes)) <= Count(AfterHeader(bytes)) + Count(chunk)
<1> DEFINE all == bytes \o chunk
           nul == Last(all) = "nul"
           cuts == {i \in 1 .. Len(all) - 1 : all[i] = "nul"}
           start == Max(cuts \cup {0}) + 1
           kept == From(all, start)
           got == IF nul THEN Front(kept) ELSE kept
<1>1. /\ bytes \in Text /\ all \in Text /\ Len(all) = Len(bytes) + Len(chunk) /\ Len(all) > 0
  BY PlainIsText DEF Text
<1>2. Count(all) = Count(bytes) + Count(chunk)
      /\ Count(AfterHeader(all)) <= Count(AfterHeader(bytes)) + Count(chunk)
  BY <1>1, CountConcat, AfterLonger DEF Text
<1>3. Accumulate(bytes, chunk).bytes = got
  BY DEF Accumulate
<1>4. start \in 1 .. Len(all) /\ \A i \in start .. Len(all) - 1 : all[i] # "nul"
  <2>1. cuts \cup {0} \subseteq 0 .. Len(all) - 1 /\ Len(all) - 1 \in Nat
    BY <1>1 DEF Text
  <2>2. PICK m : m = Max(cuts \cup {0})
    OBVIOUS
  <2>3. m \in 0 .. Len(all) - 1 /\ \A i \in cuts \cup {0} : i <= m
    BY <2>1, <2>2, GreatestOf
  <2>4. start = m + 1
    BY <2>2
  <2> HIDE DEF start, all
  <2> QED BY <2>3, <2>4
<1> HIDE DEF all, start
<1>5. start \in 1 .. Len(all) + 1
  BY <1>1, <1>4 DEF Text
<1>6. /\ kept \in Text /\ Len(kept) = Len(all) - start + 1
      /\ \A j \in 1 .. Len(kept) : kept[j] = all[start + j - 1]
  BY <1>1, <1>5, FromFacts DEF Text
<1>7. Count(kept) <= Count(all) /\ Count(AfterHeader(kept)) <= Count(AfterHeader(all))
  BY <1>1, <1>5, CountFrom, AfterLess DEF Text
<1> HIDE DEF kept
<1>8. Len(kept) > 0 /\ kept # <<>> /\ (nul <=> kept[Len(kept)] = "nul")
  <2>1. Len(kept) \in 1 .. Len(kept) /\ start + Len(kept) - 1 = Len(all)
    BY <1>1, <1>4, <1>6 DEF Text
  <2>2. kept[Len(kept)] = all[Len(all)]
    BY <1>6, <2>1
  <2> QED BY <2>1, <2>2 DEF Last
<1>9. \A j \in 1 .. Len(kept) - 1 : kept[j] # "nul"
  <2> SUFFICES ASSUME NEW j \in 1 .. Len(kept) - 1 PROVE kept[j] # "nul"
    OBVIOUS
  <2>1. PICK k : k = start + j - 1
    OBVIOUS
  <2>2. k \in start .. Len(all) - 1 /\ kept[j] = all[k]
    BY <1>1, <1>4, <1>6, <2>1 DEF Text
  <2> QED BY <1>4, <2>2
<1>10. got \in Plain
  <2>1. CASE nul
    <3>1. Front(kept) \in Text /\ Len(Front(kept)) = Len(kept) - 1
          /\ \A j \in 1 .. Len(kept) - 1 : Front(kept)[j] = kept[j]
      BY <1>6, <1>8 DEF Front, Text
    <3>2. \A j \in 1 .. Len(Front(kept)) : Front(kept)[j] \in Characters \ {"nul"}
      BY <1>6, <1>9, <3>1 DEF Text
    <3>3. Front(kept) \in Plain
      BY <3>1, <3>2, Narrower DEF Plain, Text
    <3> QED BY <2>1, <3>3
  <2>2. CASE ~nul
    <3>1. \A j \in 1 .. Len(kept) : kept[j] \in Characters \ {"nul"}
      BY <1>6, <1>8, <1>9, <2>2 DEF Text
    <3>2. kept \in Plain
      BY <1>6, <3>1, Narrower DEF Plain, Text
    <3> QED BY <2>2, <3>2
  <2> QED BY <2>1, <2>2
<1>11. Count(got) <= Count(kept) /\ Count(AfterHeader(got)) <= Count(AfterHeader(kept))
  <2>1. Count(kept) \in Nat /\ Count(AfterHeader(kept)) \in Nat
    BY <1>6, CountIs, AfterIsText DEF Text
  <2>2. nul => Count(Front(kept)) = Count(kept)
               /\ Count(AfterHeader(Front(kept))) <= Count(AfterHeader(kept))
    BY <1>6, <1>8, NoPromptAtEnd
  <2> QED BY <2>1, <2>2
<1>12. /\ {Count(got), Count(kept), Count(all), Count(AfterHeader(got)), Count(bytes), Count(chunk),
           Count(AfterHeader(kept)), Count(AfterHeader(all)), Count(AfterHeader(bytes))} \subseteq Nat
  BY <1>1, <1>6, <1>10, CountIs, AfterIsText DEF Text, Plain
<1> HIDE DEF got, nul
<1> QED BY <1>2, <1>3, <1>7, <1>10, <1>11, <1>12

(* Each stage of the parser leaves no more prompts to answer than it found,  *)
(* and an answer takes one away.                                             *)
LEMMA HeaderParsed ==
  ASSUME NEW st \in Stage, NEW b \in Plain
  PROVE  \E nst \in Stage, nb \in Plain :
           /\ ParseHeader([state |-> st, bytes |-> b]) = [state |-> nst, bytes |-> nb]
           /\ Due(nst, nb) <= Due(st, b)
<1>1. Count(AfterHeader(b)) <= Count(b) /\ Count(b) \in Nat /\ Count(AfterHeader(b)) \in Nat
      /\ AfterHeader(b) \in Plain
  BY AfterIsText, CountIs DEF Plain
<1>2. CASE Found(b, HEADER) = {}
  <2>1. ParseHeader([state |-> st, bytes |-> b]) = [state |-> st, bytes |-> b]
    BY <1>2 DEF ParseHeader
  <2>2. Due(st, b) <= Due(st, b)
    BY <1>1 DEF Due
  <2> QED BY <2>1, <2>2
<1>3. CASE Found(b, HEADER) # {}
  <2>1. ParseHeader([state |-> st, bytes |-> b])
          = [state |-> "TOPLEVEL_MENU_HEADER", bytes |-> AfterHeader(b)]
    BY <1>3 DEF ParseHeader, AfterHeader
  <2>2. Due("TOPLEVEL_MENU_HEADER", AfterHeader(b)) <= Due(st, b)
    BY <1>1 DEF Due, InMenu
  <2>3. "TOPLEVEL_MENU_HEADER" \in Stage
    BY DEF Stage
  <2> QED BY <1>1, <2>1, <2>2, <2>3
<1> QED BY <1>2, <1>3

LEMMA VersionParsed ==
  ASSUME NEW st \in Stage, NEW b \in Plain
  PROVE  \E nst \in Stage, nb \in Plain :
           /\ ParseVersion([state |-> st, bytes |-> b]) = [state |-> nst, bytes |-> nb]
           /\ Due(nst, nb) <= Due(st, b)
<1>1. Count(b) \in Nat /\ Count(AfterHeader(b)) \in Nat
  BY AfterIsText, CountIs DEF Plain
<1>2. CASE st # "TOPLEVEL_MENU_HEADER" \/ Found(b, <<"eol">>) = {}
  <2>1. ParseVersion([state |-> st, bytes |-> b]) = [state |-> st, bytes |-> b]
    BY <1>2 DEF ParseVersion
  <2>2. Due(st, b) <= Due(st, b)
    BY <1>1 DEF Due
  <2> QED BY <2>1, <2>2
<1>3. CASE st = "TOPLEVEL_MENU_HEADER" /\ Found(b, <<"eol">>) # {}
  <2>1. PICK m : m = Min(Found(b, <<"eol">>))
    OBVIOUS
  <2>2. m \in 1 .. Len(b)
    <3>1. Len(<<"eol">>) \in Nat
      OBVIOUS
    <3>2. m \in Found(b, <<"eol">>)
      BY <1>3, <2>1, <3>1, FirstFound DEF Plain
    <3> QED BY <3>2, FoundOne DEF Plain
  <2>3. m \in 1 .. Len(b) + 1
    BY <2>2 DEF Plain
  <2>4. From(b, m) \in Plain /\ Count(From(b, m)) <= Count(b)
    BY <2>3, FromFacts, CountFrom DEF Plain
  <2>5. ParseVersion([state |-> st, bytes |-> b])
          = [state |-> "TOPLEVEL_MENU_CONTENT", bytes |-> From(b, m)]
    BY <1>3, <2>1 DEF ParseVersion
  <2>6. Due("TOPLEVEL_MENU_CONTENT", From(b, m)) <= Due(st, b)
    BY <1>3, <2>4 DEF Due, InMenu
  <2>7. "TOPLEVEL_MENU_CONTENT" \in Stage
    BY DEF Stage
  <2> QED BY <2>4, <2>5, <2>6, <2>7
<1> QED BY <1>2, <1>3

LEMMA PromptParsed ==
  ASSUME NEW st \in Stage, NEW b \in Plain
  PROVE  \/ ParsePrompt([state |-> st, bytes |-> b]) = [state |-> st, bytes |-> b]
         \/ \E nb \in Plain :
              /\ ParsePrompt([state |-> st, bytes |-> b])
                   = [state |-> "TOPLEVEL_MENU_PROMPT", bytes |-> nb]
              /\ InMenu(st) /\ Count(AfterHeader(nb)) + 1 <= Count(b)
<1>1. CASE ~InMenu(st) \/ Found(b, PROMPT) = {}
  BY <1>1 DEF ParsePrompt, InMenu
<1>2. CASE InMenu(st) /\ Found(b, PROMPT) # {}
  <2>1. PICK m : m = Min(Found(b, PROMPT))
    OBVIOUS
  <2>2. m \in 1 .. Len(b) /\ b[m] = "BL"
    <3>1. Len(PROMPT) \in Nat /\ PROMPT = <<"BL">>
      BY DEF PROMPT
    <3>2. m \in Found(b, <<"BL">>)
      BY <1>2, <2>1, <3>1, FirstFound DEF Plain
    <3> QED BY <3>2, FoundOne DEF Plain
  <2>3. m \in 1 .. Len(b) + 1
    BY <2>2 DEF Plain
  <2>4. PICK u : u = From(b, m)
    OBVIOUS
  <2>5. u \in Plain /\ Len(u) = Len(b) - m + 1 /\ Len(u) > 0 /\ Count(u) <= Count(b)
        /\ u[1] = "BL"
    <3>1. /\ From(b, m) \in Plain /\ Len(From(b, m)) = Len(b) - m + 1
          /\ \A j \in 1 .. Len(b) - m + 1 : From(b, m)[j] = b[m + j - 1]
      BY <2>3, FromFacts DEF Plain
    <3>2. Count(u) <= Count(b)
      BY <2>3, <2>4, CountFrom DEF Plain
    <3>3. 1 \in 1 .. Len(b) - m + 1 /\ m + 1 - 1 = m
      BY <2>2 DEF Plain
    <3> QED BY <2>2, <2>4, <3>1, <3>2, <3>3
  <2>6. Count(From(u, 2)) + 1 = Count(u)
    <3>1. 2 \in 1 .. Len(u) + 1 /\ 2 - 1 = 1
      BY <2>5 DEF Plain
    <3>2. Count(u) = Count(SubSeq(u, 1, 1)) + Count(From(u, 2))
      BY <2>5, <3>1, CountFrom DEF Plain
    <3>3. SubSeq(u, 1, 1) = Append(<<>>, "BL")
      <4>1. PICK v : v = SubSeq(u, 1, 1)
        OBVIOUS
      <4>2. v \in Plain /\ Len(v) = 1 /\ \A j \in 1 .. 1 : v[j] = u[j]
        BY <2>5, <3>1, <4>1, PrefixFacts DEF Plain
      <4>3. v[1] = "BL"
        BY <2>5, <4>2
      <4>4. Append(<<>>, "BL") \in Seq({"BL"}) /\ Len(Append(<<>>, "BL")) = 1
            /\ Append(<<>>, "BL")[1] = "BL"
        OBVIOUS
      <4>5. v = Append(<<>>, "BL")
        BY <4>2, <4>3, <4>4, SeqEqual DEF Plain
      <4> QED BY <4>1, <4>5
    <3>4. Count(Append(<<>>, "BL")) = 1
      <4>1. <<>> \in Seq({"BL"}) /\ "BL" \in {"BL"}
        OBVIOUS
      <4>2. Count(Append(<<>>, "BL")) = Count(<<>>) + 1
        BY <4>1, CountAppend
      <4> QED BY <4>2, CountNone
    <3>5. From(u, 2) \in Plain
      BY <2>5, <3>1, FromFacts DEF Plain
    <3>6. Count(From(u, 2)) \in Nat
      BY <3>5, CountIs DEF Plain
    <3>7. Count(SubSeq(u, 1, 1)) = 1
      BY <3>3, <3>4, Zenon
    <3> QED BY <3>2, <3>6, <3>7
  <2>7. Count(AfterHeader(u)) <= Count(From(u, 2))
    <3>1. 2 \in 1 .. Len(u) + 1
      BY <2>5 DEF Plain
    <3>2. From(u, 2) \in Plain /\ Len(From(u, 2)) = Len(u) - 1
      BY <2>5, <3>1, FromFacts DEF Plain
    <3>3. CASE Found(u, HEADER) = {}
      <4>1. Count(AfterHeader(u)) = 0
        BY <3>3, CountNone DEF AfterHeader
      <4> QED BY <3>2, <4>1, CountIs DEF Plain
    <3>4. CASE Found(u, HEADER) # {}
      <4>1. PICK n \in 1 .. Len(u) - 1 : AfterHeader(u) = From(u, n + 2)
        BY <2>5, <3>4, HeaderEnds DEF Plain
      <4>2. n + 1 \in 1 .. Len(u) - 2 + 2 /\ 2 + (n + 1) - 1 = n + 2
            /\ n + 1 \in 1 .. Len(From(u, 2)) + 1
        BY <2>5, <3>2 DEF Plain
      <4>3. From(From(u, 2), n + 1) = From(u, n + 2)
        <5>1. From(From(u, 2), n + 1) = From(u, 2 + (n + 1) - 1)
          BY <2>5, <3>1, <4>2, FromOfFrom DEF Plain
        <5> QED BY <4>2, <5>1
      <4>4. Count(From(From(u, 2), n + 1)) <= Count(From(u, 2))
        BY <3>2, <4>2, CountFrom DEF Plain
      <4> QED BY <4>1, <4>3, <4>4
    <3> QED BY <3>3, <3>4
  <2>8. Count(AfterHeader(u)) + 1 <= Count(b)
    <3>1. Count(AfterHeader(u)) \in Nat /\ Count(u) \in Nat /\ Count(b) \in Nat
          /\ Count(From(u, 2)) \in Int
      <4>1. From(u, 2) \in Plain
        <5>1. 2 \in 1 .. Len(u) + 1
          BY <2>5 DEF Plain
        <5> QED BY <2>5, <5>1, FromFacts DEF Plain
      <4> QED BY <2>5, <4>1, AfterIsText, CountIs DEF Plain
    <3> QED BY <2>5, <2>6, <2>7, <3>1
  <2>9. ParsePrompt([state |-> st, bytes |-> b]) = [state |-> "TOPLEVEL_MENU_PROMPT", bytes |-> u]
    BY <1>2, <2>1, <2>4 DEF ParsePrompt, InMenu
  <2> QED BY <1>2, <2>5, <2>8, <2>9
<1> QED BY <1>1, <1>2

-----------------------------------------------------------------------------
(* A prompt was shown for each that may still be answered, and an upload     *)
(* asked for as long as there is one to announce.                            *)
PromptInv ==
  /\ TypeOK
  /\ prompts >= Due(state, accumulatedBytes) + Count(toHost)
  /\ choices >= IF firmwareTransferStartFunc THEN 1 ELSE 0

LEMMA DueFacts ==
  ASSUME TypeOK
  PROVE  /\ Due(state, accumulatedBytes) \in Nat /\ Count(toHost) \in Nat
         /\ \A st : ~InMenu(st) => Due(st, accumulatedBytes) <= Due(state, accumulatedBytes)
         /\ \A st : Due(st, <<>>) = 0
<1>1. accumulatedBytes \in Plain /\ toHost \in Text
  BY DEF TypeOK, Plain, Text
<1>2. /\ Count(accumulatedBytes) \in Nat /\ Count(AfterHeader(accumulatedBytes)) \in Nat
      /\ Count(AfterHeader(accumulatedBytes)) <= Count(accumulatedBytes) /\ Count(toHost) \in Nat
  BY <1>1, AfterIsText, CountIs DEF Plain, Text
<1>3. AfterHeader(<<>>) = <<>>
  <2>1. <<>> \in Text /\ 1 .. Len(<<>>) - 1 = {}
    BY DEF Text
  <2>2. \A i : i \notin Found(<<>>, HEADER)
    BY <2>1, FoundHeader DEF Text
  <2> QED BY <2>2 DEF AfterHeader
<1> QED BY <1>2, <1>3, CountNone DEF Due

LEMMA PromptStarts == Init => PromptInv
<1> SUFFICES ASSUME Init PROVE PromptInv
  OBVIOUS
<1>1. TypeOK
  <2>1. 0 \in 0 .. MaxReadyChars /\ 0 \in 0 .. MaxSetModes /\ 0 \in 0 .. MaxWriteFails
    BY PromptAssumption
  <2>2. \A T : <<>> \in Seq(T)
    OBVIOUS
  <2>3. "RX_FLUSH" \in Stage
    BY DEF Stage
  <2>4. bootloader \in {"menu", "upload", "rebooting", "application"}
        /\ lastKnownMode \in {"UNKNOWN", "EZSP_NCP"}
    BY DEF Init
  <2>5. prompts \in Int /\ choices \in Int
    BY DEF Init
  <2>6. accumulatedBytes \in Seq(Characters \ {"nul"}) /\ toHost \in Seq(Characters)
        /\ toBootloader \in Seq({"LF", "1", "2"})
    BY <2>2 DEF Init
  <2>7. readyChars \in 0 .. MaxReadyChars /\ setModes \in 0 .. MaxSetModes
        /\ writeFails \in 0 .. MaxWriteFails
    BY <2>1 DEF Init
  <2> QED BY <2>3, <2>4, <2>5, <2>6, <2>7 DEF Init, TypeOK
<1>2. prompts = 0 /\ choices = 0 /\ accumulatedBytes = <<>> /\ toHost = <<>>
      /\ firmwareTransferStartFunc = FALSE
  BY DEF Init
<1>3. Due(state, accumulatedBytes) = 0 /\ Count(toHost) = 0
  BY <1>1, <1>2, DueFacts, CountNone
<1> QED BY <1>1, <1>2, <1>3 DEF PromptInv

LEMMA WriteKeeps ==
  ASSUME toBootloader \in Seq({"LF", "1", "2"}), writeFails \in 0 .. MaxWriteFails,
         NEW c \in {"LF", "1", "2"}, NEW r, Write(c, r)
  PROVE  toBootloader' \in Seq({"LF", "1", "2"}) /\ writeFails' \in 0 .. MaxWriteFails
<1>1. Append(toBootloader, c) \in Seq({"LF", "1", "2"})
  OBVIOUS
<1>2. CASE toBootloader' = Append(toBootloader, c) /\ UNCHANGED writeFails
  BY <1>1, <1>2
<1>3. CASE UNCHANGED toBootloader /\ writeFails < MaxWriteFails /\ writeFails' = writeFails + 1
  <2>1. writeFails' \in 0 .. MaxWriteFails
    BY <1>3, PromptAssumption
  <2> QED BY <1>3, <2>1
<1> QED BY <1>2, <1>3 DEF Write

(* What the parser does with a chunk, while others are left to come.         *)
LEMMA ChunkParsed ==
  ASSUME TypeOK, NEW chunk \in Text, chunk # <<>>, AppendIncoming(chunk), toHost' \in Text,
         choices >= IF firmwareTransferStartFunc THEN 1 ELSE 0,
         NEW left \in Nat, prompts >= Due(state, accumulatedBytes) + Count(chunk) + left
  PROVE  /\ state' \in Stage /\ accumulatedBytes' \in Plain
         /\ firmwareTransferStartFunc' \in BOOLEAN
         /\ prompts' \in Int /\ choices' \in Int
         /\ prompts' >= Due(state', accumulatedBytes') + left
         /\ choices' >= IF firmwareTransferStartFunc' THEN 1 ELSE 0
         /\ lastKnownMode' \in {"UNKNOWN", "EZSP_NCP", "BOOTLOADER_EXIT_TO_EZSP_NCP",
                                "BOOTLOADER_FIRMWARE_UPGRADE"}
         /\ enabled' \in BOOLEAN /\ UNCHANGED <<promptDetectCallback, reader>>
         /\ toBootloader' \in Seq({"LF", "1", "2"}) /\ writeFails' \in 0 .. MaxWriteFails
<1> DEFINE before == [state |-> state, func |-> firmwareTransferStartFunc, starts |-> 0]
           ready == ReadyChar(before, chunk)
           read == Accumulate(accumulatedBytes, chunk)
<1>1. accumulatedBytes \in Plain /\ state \in Stage
  BY DEF TypeOK, Plain
<1>2. /\ read.bytes \in Plain
      /\ Count(read.bytes) <= Count(accumulatedBytes) + Count(chunk)
      /\ Count(AfterHeader(read.bytes)) <= Count(AfterHeader(accumulatedBytes)) + Count(chunk)
  BY <1>1, Accumulated
<1>3. /\ ready.state \in Stage /\ ready.func \in BOOLEAN /\ ready.starts \in {0, 1}
      /\ InMenu(ready.state) <=> InMenu(state)
      /\ choices - ready.starts \in Int
      /\ choices - ready.starts >= IF ready.func THEN 1 ELSE 0
  <2>1. CASE state = "XMODEM_READY_CHAR_WAIT" /\ Last(chunk) = "C" /\ firmwareTransferStartFunc
    <3>1. ready = [state |-> "XMODEM_XFR", func |-> FALSE, starts |-> 1]
      BY <2>1 DEF ReadyChar
    <3>2. ready.state = "XMODEM_XFR" /\ ready.func = FALSE /\ ready.starts = 1
      BY <3>1
    <3>3. "XMODEM_XFR" \in Stage /\ ~InMenu("XMODEM_XFR") /\ ~InMenu(state)
      BY <2>1 DEF Stage, InMenu
    <3>4. choices \in Int /\ choices >= 1
      BY <2>1 DEF TypeOK
    <3> HIDE DEF ready
    <3>5. choices - ready.starts \in Int /\ choices - ready.starts >= 0 /\ ready.starts \in {0, 1}
      BY <3>2, <3>4
    <3>6. choices - ready.starts >= IF ready.func THEN 1 ELSE 0
      BY <3>2, <3>5
    <3>7. ready.func \in BOOLEAN /\ ready.state \in Stage /\ (InMenu(ready.state) <=> InMenu(state))
      BY <3>2, <3>3
    <3> QED BY <3>5, <3>6, <3>7, Zenon
  <2>2. CASE ~(state = "XMODEM_READY_CHAR_WAIT" /\ Last(chunk) = "C" /\ firmwareTransferStartFunc)
    <3>1. ready = before
      BY <2>2 DEF ReadyChar
    <3>2. ready.state = state /\ ready.func = firmwareTransferStartFunc /\ ready.starts = 0
      BY <3>1
    <3>3. choices \in Int /\ firmwareTransferStartFunc \in BOOLEAN
      BY DEF TypeOK
    <3> HIDE DEF ready
    <3>4. choices - ready.starts = choices /\ ready.starts \in {0, 1}
      BY <3>2, <3>3
    <3>5. ready.func \in BOOLEAN /\ ready.state \in Stage /\ (InMenu(ready.state) <=> InMenu(state))
      BY <1>1, <3>2, <3>3, Zenon
    <3>6. choices >= IF ready.func THEN 1 ELSE 0
      BY <3>2, Zenon
    <3> QED BY <3>3, <3>4, <3>5, <3>6, Zenon
  <2> QED BY <2>1, <2>2
<1> HIDE DEF ready, read
<1>4. PICK rest \in Stage, hb \in Plain :
        /\ ParseHeader([state |-> ready.state, bytes |-> read.bytes]) = [state |-> rest, bytes |-> hb]
        /\ Due(rest, hb) <= Due(ready.state, read.bytes)
  BY <1>2, <1>3, HeaderParsed
<1>5. PICK vst \in Stage, vb \in Plain :
        /\ ParseVersion([state |-> rest, bytes |-> hb]) = [state |-> vst, bytes |-> vb]
        /\ Due(vst, vb) <= Due(rest, hb)
  BY VersionParsed
<1>6. PICK s : s = ParsePrompt([state |-> vst, bytes |-> vb])
  OBVIOUS
<1>7. Due(vst, vb) + left <= prompts /\ Due(vst, vb) \in Nat
  <2>1. /\ {Count(read.bytes), Count(AfterHeader(read.bytes)), Count(accumulatedBytes),
            Count(AfterHeader(accumulatedBytes)), Count(chunk), Due(state, accumulatedBytes),
            Due(ready.state, read.bytes), Due(rest, hb), Due(vst, vb)} \subseteq Nat
    BY <1>1, <1>2, AfterIsText, CountIs DEF Plain, Text, Due
  <2>2. Due(ready.state, read.bytes) <= Due(state, accumulatedBytes) + Count(chunk)
    BY <1>2, <1>3 DEF Due
  <2>3. Due(vst, vb) <= Due(state, accumulatedBytes) + Count(chunk)
    BY <1>4, <1>5, <2>1, <2>2
  <2>4. prompts \in Int
    BY DEF TypeOK
  <2> QED BY <2>1, <2>3, <2>4
<1>8. LET prompted == s.state = "TOPLEVEL_MENU_PROMPT" /\ ready.state # s.state
      IN /\ accumulatedBytes' = IF read.nul THEN <<>> ELSE s.bytes
         /\ choices' = choices - ready.starts
                        + (IF prompted /\ promptDetectCallback = "upgrade" THEN 1 ELSE 0)
         /\ IF prompted THEN AnswerPrompt(ready.func)
            ELSE /\ state' = s.state /\ firmwareTransferStartFunc' = ready.func
                 /\ UNCHANGED <<dongleVars, toBootloader, writeFails, prompts>>
         /\ UNCHANGED reader
  BY <1>4, <1>5, <1>6 DEF AppendIncoming, ready, read
<1>9. /\ choices - ready.starts \in Int /\ prompts \in Int
      /\ ready.func \in BOOLEAN /\ ready.state \in Stage
  BY <1>3 DEF TypeOK
<1>10. /\ toBootloader \in Seq({"LF", "1", "2"}) /\ writeFails \in 0 .. MaxWriteFails
       /\ lastKnownMode \in {"UNKNOWN", "EZSP_NCP", "BOOTLOADER_EXIT_TO_EZSP_NCP",
                             "BOOTLOADER_FIRMWARE_UPGRADE"}
       /\ enabled \in BOOLEAN
  BY DEF TypeOK
<1>11. ASSUME s = [state |-> vst, bytes |-> vb], vst # "TOPLEVEL_MENU_PROMPT" \/ ready.state = vst
       PROVE  /\ state' = vst /\ accumulatedBytes' \in {<<>>, vb}
              /\ firmwareTransferStartFunc' = ready.func /\ choices' = choices - ready.starts
              /\ UNCHANGED <<dongleVars, toBootloader, writeFails, prompts, reader>>
  <2>1. s.state = vst /\ s.bytes = vb
    BY <1>11
  <2>2. ~(s.state = "TOPLEVEL_MENU_PROMPT" /\ ready.state # s.state)
    BY <1>11, <2>1
  <2>3. choices' = choices - ready.starts + 0
    BY <1>8, <2>2
  <2> QED BY <1>8, <1>9, <2>1, <2>2, <2>3
<1>12. ASSUME s.state = "TOPLEVEL_MENU_PROMPT", ready.state # "TOPLEVEL_MENU_PROMPT",
              s.bytes \in Plain, Count(AfterHeader(s.bytes)) + 1 + left <= prompts
       PROVE  /\ state' \in Stage /\ accumulatedBytes' \in Plain
              /\ firmwareTransferStartFunc' \in BOOLEAN
              /\ prompts' \in Int /\ choices' \in Int
              /\ prompts' >= Due(state', accumulatedBytes') + left
              /\ choices' >= IF firmwareTransferStartFunc' THEN 1 ELSE 0
              /\ lastKnownMode' \in {"UNKNOWN", "EZSP_NCP", "BOOTLOADER_EXIT_TO_EZSP_NCP",
                                     "BOOTLOADER_FIRMWARE_UPGRADE"}
              /\ enabled' \in BOOLEAN /\ UNCHANGED <<promptDetectCallback, reader>>
              /\ toBootloader' \in Seq({"LF", "1", "2"}) /\ writeFails' \in 0 .. MaxWriteFails
  <2>1. /\ accumulatedBytes' \in {<<>>, s.bytes}
        /\ AnswerPrompt(ready.func) /\ UNCHANGED reader
        /\ choices' = choices - ready.starts
                        + (IF promptDetectCallback = "upgrade" THEN 1 ELSE 0)
    BY <1>8, <1>12
  <2>2. accumulatedBytes' \in Plain /\ Due(state', accumulatedBytes') \in Nat
        /\ (~InMenu(state') =>
              Due(state', accumulatedBytes') <= Count(AfterHeader(s.bytes)))
    <3>1. <<>> \in Plain /\ Due(state', <<>>) = 0
      BY DueFacts DEF Plain
    <3>2. Count(AfterHeader(s.bytes)) \in Nat /\ Count(s.bytes) \in Nat
      BY <1>12, AfterIsText, CountIs DEF Plain
    <3> QED BY <1>12, <2>1, <3>1, <3>2 DEF Due
  <2>3. \A c \in {"LF", "1", "2"}, r \in BOOLEAN : Write(c, r) =>
          toBootloader' \in Seq({"LF", "1", "2"}) /\ writeFails' \in 0 .. MaxWriteFails
    BY <1>10, WriteKeeps
  <2>4. prompts' = prompts - 1 /\ UNCHANGED promptDetectCallback
    BY <2>1 DEF AnswerPrompt
  <2>5. ~InMenu(state') /\ state' \in Stage
    BY <2>1 DEF AnswerPrompt, InMenu, Stage
  <2>6. toBootloader' \in Seq({"LF", "1", "2"}) /\ writeFails' \in 0 .. MaxWriteFails
    BY <2>1, <2>3 DEF AnswerPrompt
  <2>7. /\ lastKnownMode' \in {"UNKNOWN", "EZSP_NCP", "BOOTLOADER_EXIT_TO_EZSP_NCP",
                               "BOOTLOADER_FIRMWARE_UPGRADE"}
        /\ enabled' \in BOOLEAN
    BY <1>10, <2>1 DEF AnswerPrompt
  <2>8. prompts' \in Int /\ prompts' >= Due(state', accumulatedBytes') + left
    <3>1. Count(AfterHeader(s.bytes)) \in Nat
      BY <1>12, AfterIsText DEF Plain
    <3> QED BY <1>9, <1>12, <2>2, <2>4, <2>5, <3>1
  <2>9. /\ firmwareTransferStartFunc' \in BOOLEAN /\ choices' \in Int
        /\ choices' >= IF firmwareTransferStartFunc' THEN 1 ELSE 0
    <3>1. CASE promptDetectCallback = "upgrade"
      <4>1. choices' = choices - ready.starts + 1
        BY <2>1, <3>1
      <4>2. firmwareTransferStartFunc' \in BOOLEAN
        BY <1>9, <2>1, <3>1 DEF AnswerPrompt
      <4>3. choices - ready.starts >= 0
        BY <1>3
      <4>4. choices' \in Int /\ choices' >= 1
        BY <1>9, <4>1, <4>3
      <4> QED BY <4>2, <4>4
    <3>2. CASE promptDetectCallback # "upgrade"
      <4>1. choices' = choices - ready.starts + 0
        BY <2>1, <3>2
      <4>2. firmwareTransferStartFunc' = ready.func
        BY <2>1, <3>2 DEF AnswerPrompt
      <4>3. choices' = choices - ready.starts
        BY <1>9, <4>1
      <4> QED BY <1>3, <1>9, <4>2, <4>3
    <3> QED BY <3>1, <3>2
  <2> QED BY <2>1, <2>2, <2>4, <2>5, <2>6, <2>7, <2>8, <2>9
<1>13. ASSUME s = [state |-> vst, bytes |-> vb], vst = "TOPLEVEL_MENU_PROMPT", ready.state # vst
       PROVE  FALSE
  <2>1. rest = vst /\ (rest # "TOPLEVEL_MENU_HEADER" => rest = ready.state)
    BY <1>4, <1>5, <1>13 DEF ParseHeader, ParseVersion
  <2> QED BY <1>13, <2>1
<1>14. CASE s = [state |-> vst, bytes |-> vb]
  <2>1. vst # "TOPLEVEL_MENU_PROMPT" \/ ready.state = vst
    BY <1>13, <1>14
  <2>2. /\ state' = vst /\ accumulatedBytes' \in {<<>>, vb}
        /\ firmwareTransferStartFunc' = ready.func /\ choices' = choices - ready.starts
        /\ UNCHANGED <<dongleVars, toBootloader, writeFails, prompts, reader>>
    BY <1>11, <1>14, <2>1
  <2>3. /\ <<>> \in Plain /\ Due(vst, <<>>) = 0
    BY DueFacts DEF Plain
  <2>4. Due(state', accumulatedBytes') + left <= prompts /\ accumulatedBytes' \in Plain
    <3>1. CASE accumulatedBytes' = vb
      BY <1>7, <2>2, <3>1
    <3>2. CASE accumulatedBytes' = <<>>
      <4>1. left <= prompts
        BY <1>7, <1>9
      <4>2. Due(state', accumulatedBytes') = 0
        BY <2>2, <2>3, <3>2
      <4> QED BY <2>3, <3>2, <4>1, <4>2
    <3> QED BY <2>2, <3>1, <3>2
  <2> QED BY <1>3, <1>9, <1>10, <2>2, <2>4 DEF dongleVars
<1>15. CASE \E nb \in Plain :
              /\ s = [state |-> "TOPLEVEL_MENU_PROMPT", bytes |-> nb]
              /\ InMenu(vst) /\ Count(AfterHeader(nb)) + 1 <= Count(vb)
  <2>1. PICK nb \in Plain :
              /\ s = [state |-> "TOPLEVEL_MENU_PROMPT", bytes |-> nb]
              /\ InMenu(vst) /\ Count(AfterHeader(nb)) + 1 <= Count(vb)
    BY <1>15
  <2>2. s.state = "TOPLEVEL_MENU_PROMPT" /\ s.bytes = nb
    BY <2>1
  <2>3. Count(AfterHeader(nb)) + 1 + left <= prompts
    <3>1. Due(vst, vb) = Count(vb)
      BY <2>1 DEF Due
    <3>2. Count(AfterHeader(nb)) \in Nat
      BY AfterIsText DEF Plain
    <3> QED BY <1>7, <1>9, <2>1, <3>1, <3>2
  <2>4. CASE ready.state # "TOPLEVEL_MENU_PROMPT"
    BY <1>12, <2>2, <2>3, <2>4
  <2>5. CASE ready.state = "TOPLEVEL_MENU_PROMPT"
    <3>1. /\ state' = "TOPLEVEL_MENU_PROMPT" /\ accumulatedBytes' \in {<<>>, nb}
          /\ firmwareTransferStartFunc' = ready.func
          /\ UNCHANGED <<dongleVars, toBootloader, writeFails, prompts, reader>>
          /\ choices' = choices - ready.starts + 0
      BY <1>8, <2>2, <2>5
    <3>2. choices' = choices - ready.starts
      BY <1>9, <3>1
    <3>3. <<>> \in Plain /\ Due(state', <<>>) = 0 /\ ~InMenu(state')
      BY <3>1, DueFacts DEF Plain, InMenu
    <3>4. Count(AfterHeader(nb)) \in Nat
      BY AfterIsText DEF Plain
    <3>5. Due(state', accumulatedBytes') + left <= prompts /\ accumulatedBytes' \in Plain
      <4>1. Due(state', nb) = Count(AfterHeader(nb))
        BY <3>3 DEF Due
      <4>2. CASE accumulatedBytes' = nb
        BY <1>9, <2>3, <3>4, <4>1, <4>2
      <4>3. CASE accumulatedBytes' = <<>>
        BY <1>9, <2>3, <3>3, <3>4, <4>3
      <4> QED BY <3>1, <4>2, <4>3
    <3>6. state' \in Stage
      BY <3>1 DEF Stage
    <3> QED BY <1>3, <1>9, <1>10, <3>1, <3>2, <3>5, <3>6 DEF dongleVars
  <2> QED BY <2>4, <2>5
<1> QED BY <1>6, <1>14, <1>15, PromptParsed

-----------------------------------------------------------------------------
(* Every step keeps the invariant.                                           *)

LEMMA ModeSet ==
  ASSUME PromptInv, NEW c \in {"run", "upgrade"},
         NEW mode \in {"BOOTLOADER_EXIT_TO_EZSP_NCP", "BOOTLOADER_FIRMWARE_UPGRADE"},
         SetMode(c, mode)
  PROVE  PromptInv'
<1>1. TypeOK'
  <2>1. TypeOK
    BY DEF PromptInv
  <2>2. lastKnownMode' = mode /\ promptDetectCallback' = c /\ enabled' = TRUE
        /\ firmwareTransferStartFunc' = FALSE /\ timer' = TRUE
        /\ UNCHANGED <<reader, readyChars, toBootloader, toHost, writeFails, prompts, choices>>
    BY DEF SetMode
  <2>3. state' \in Stage /\ accumulatedBytes' \in Seq(Characters \ {"nul"})
    BY DEF SetMode, Stage
  <2>4. setModes' \in 0 .. MaxSetModes
    BY <2>1, PromptAssumption DEF SetMode, TypeOK
  <2>5. bootloader' \in {"menu", "upload", "rebooting", "application"}
    BY <2>1 DEF SetMode, TypeOK
  <2> QED BY <2>1, <2>2, <2>3, <2>4, <2>5 DEF TypeOK
<1>2. Due(state', accumulatedBytes') = 0
  BY DueFacts DEF PromptInv, SetMode
<1>3. prompts' >= Due(state', accumulatedBytes') + Count(toHost')
  <2>1. toHost' = toHost /\ prompts' = prompts /\ prompts \in Int
    BY DEF SetMode, PromptInv, TypeOK
  <2>2. Due(state, accumulatedBytes) \in Nat /\ Count(toHost) \in Nat
    BY DueFacts DEF PromptInv
  <2> QED BY <1>2, <2>1, <2>2 DEF PromptInv
<1>4. choices' >= IF firmwareTransferStartFunc' THEN 1 ELSE 0
  <2>1. firmwareTransferStartFunc' = FALSE /\ choices' = choices /\ choices \in Int /\ choices >= 0
    BY DEF SetMode, PromptInv, TypeOK
  <2> QED BY <2>1
<1> QED BY <1>1, <1>3, <1>4 DEF PromptInv

(* A step that leaves the parser's text alone, and takes away or adds text   *)
(* on the line.                                                              *)
LEMMA LineMoves ==
  ASSUME PromptInv, TypeOK', UNCHANGED <<firmwareTransferStartFunc, choices, accumulatedBytes>>,
         state' = state \/ ~InMenu(state'), prompts' - Count(toHost') >= prompts - Count(toHost)
  PROVE  PromptInv'
<1>1. /\ Due(state, accumulatedBytes) \in Nat /\ Count(toHost) \in Nat
      /\ Due(state', accumulatedBytes) <= Due(state, accumulatedBytes)
  BY DueFacts DEF PromptInv
<1>2. Count(toHost') \in Nat /\ Due(state', accumulatedBytes) \in Nat
  <2>1. toHost' \in Seq(Characters) /\ accumulatedBytes \in Seq(Characters \ {"nul"})
    BY DEF PromptInv, TypeOK
  <2> QED BY <2>1, CountIs, AfterIsText DEF Due
<1>3. prompts \in Int /\ prompts' \in Int
  BY DEF PromptInv, TypeOK
<1>4. prompts' >= Due(state', accumulatedBytes') + Count(toHost')
  <2>1. prompts >= Due(state, accumulatedBytes) + Count(toHost)
    BY DEF PromptInv
  <2> QED BY <1>1, <1>2, <1>3, <2>1
<1> QED BY <1>4 DEF PromptInv

LEMMA Triggered == ASSUME PromptInv, Trigger PROVE PromptInv'
<1>1. toBootloader' \in Seq({"LF", "1", "2"}) /\ writeFails' \in 0 .. MaxWriteFails
  <2>1. toBootloader \in Seq({"LF", "1", "2"}) /\ writeFails \in 0 .. MaxWriteFails
    BY DEF PromptInv, TypeOK
  <2>2. Write("LF", TRUE) \/ UNCHANGED <<toBootloader, writeFails>>
    BY DEF Trigger
  <2> QED BY <2>1, <2>2, WriteKeeps
<1>2. state' \in Stage /\ (state' = state \/ ~InMenu(state'))
  BY DEF Trigger, PromptInv, TypeOK, Stage, InMenu
<1>3. TypeOK'
  BY <1>1, <1>2 DEF Trigger, PromptInv, TypeOK, dongleVars, bootVars
<1>4. UNCHANGED <<firmwareTransferStartFunc, choices, accumulatedBytes, prompts, toHost>>
  BY DEF Trigger
<1>5. prompts' - Count(toHost') >= prompts - Count(toHost)
  <2>1. prompts \in Int /\ Count(toHost) \in Nat
    BY DueFacts DEF PromptInv, TypeOK
  <2> QED BY <1>4, <2>1
<1> QED BY <1>2, <1>3, <1>4, <1>5, LineMoves

LEMMA TimerRestarted == ASSUME PromptInv, RestartTimer PROVE PromptInv'
<1>1. TypeOK'
  BY DEF RestartTimer, PromptInv, TypeOK, dongleVars, parserVars, bootVars
<1>2. UNCHANGED <<firmwareTransferStartFunc, choices, accumulatedBytes, prompts, toHost, state>>
  BY DEF RestartTimer, parserVars
<1>3. prompts' - Count(toHost') >= prompts - Count(toHost)
  <2>1. prompts \in Int /\ Count(toHost) \in Nat
    BY DueFacts DEF PromptInv, TypeOK
  <2> QED BY <1>2, <2>1
<1> QED BY <1>1, <1>2, <1>3, LineMoves

LEMMA ChunkRead == ASSUME PromptInv, NEW n \in 1 .. Len(toHost), HandleInputData(n) PROVE PromptInv'
<1> DEFINE chunk == SubSeq(toHost, 1, n)
<1>1. TypeOK /\ toHost \in Text /\ n + 1 \in 1 .. Len(toHost) + 1 /\ n + 1 - 1 = n
  BY DEF PromptInv, TypeOK, Text
<1>2. /\ chunk \in Text /\ Len(chunk) = n /\ chunk # <<>>
      /\ toHost' = From(toHost, n + 1) /\ toHost' \in Text
      /\ Count(toHost) = Count(chunk) + Count(toHost')
  <2>1. SubSeq(toHost, 1, n + 1 - 1) \in Text /\ Len(SubSeq(toHost, 1, n + 1 - 1)) = n + 1 - 1
    BY <1>1, PrefixFacts DEF Text
  <2>2. toHost' = From(toHost, n + 1)
    BY DEF HandleInputData
  <2>3. From(toHost, n + 1) \in Text
    BY <1>1, FromFacts DEF Text
  <2>4. Count(toHost) = Count(SubSeq(toHost, 1, n + 1 - 1)) + Count(From(toHost, n + 1))
    BY <1>1, CountFrom DEF Text
  <2> QED BY <1>1, <2>1, <2>2, <2>3, <2>4
<1> HIDE DEF chunk
<1>3. Count(chunk) \in Nat /\ Count(toHost') \in Nat /\ Due(state, accumulatedBytes) \in Nat
      /\ prompts \in Int
  BY <1>1, <1>2, CountIs, DueFacts DEF Text, TypeOK
<1>4. UNCHANGED <<timer, bootVars, setModes>>
  BY DEF HandleInputData
<1>5. CASE ~enabled \/ state = "RX_FLUSH"
  <2>1. reader' \in {"idle", "flush"}
        /\ UNCHANGED <<dongleVars, parserVars, toBootloader, writeFails, prompts, choices>>
    BY <1>1, <1>5 DEF HandleInputData, Ignored, Flush, TypeOK
  <2>2. TypeOK'
    BY <1>1, <1>2, <1>4, <2>1 DEF TypeOK, dongleVars, parserVars, bootVars, Text
  <2>3. prompts' - Count(toHost') >= prompts - Count(toHost)
    BY <1>2, <1>3, <2>1
  <2> QED BY <2>1, <2>2, <2>3, LineMoves DEF parserVars
<1>6. CASE enabled /\ state # "RX_FLUSH"
  <2>1. AppendIncoming(chunk)
    BY <1>6 DEF HandleInputData, chunk
  <2>2. prompts >= Due(state, accumulatedBytes) + Count(chunk) + Count(toHost')
    <3>1. prompts >= Due(state, accumulatedBytes) + Count(toHost)
      BY DEF PromptInv
    <3> QED BY <1>2, <1>3, <3>1
  <2>3. choices >= IF firmwareTransferStartFunc THEN 1 ELSE 0
    BY DEF PromptInv
  <2>4. PICK left \in Nat : left = Count(toHost')
    BY <1>3
  <2>5. /\ state' \in Stage /\ accumulatedBytes' \in Plain
        /\ firmwareTransferStartFunc' \in BOOLEAN
        /\ prompts' \in Int /\ choices' \in Int
        /\ prompts' >= Due(state', accumulatedBytes') + left
        /\ choices' >= IF firmwareTransferStartFunc' THEN 1 ELSE 0
        /\ lastKnownMode' \in {"UNKNOWN", "EZSP_NCP", "BOOTLOADER_EXIT_TO_EZSP_NCP",
                               "BOOTLOADER_FIRMWARE_UPGRADE"}
        /\ enabled' \in BOOLEAN /\ UNCHANGED <<promptDetectCallback, reader>>
        /\ toBootloader' \in Seq({"LF", "1", "2"}) /\ writeFails' \in 0 .. MaxWriteFails
    BY <1>1, <1>2, <2>1, <2>2, <2>3, <2>4, ChunkParsed
  <2>6. TypeOK'
    BY <1>1, <1>2, <1>4, <2>5 DEF TypeOK, bootVars, Text, Plain
  <2> QED BY <2>4, <2>5, <2>6 DEF PromptInv
<1> QED BY <1>5, <1>6

-----------------------------------------------------------------------------
(* The bootloader.                                                           *)

LEMMA MenuFacts == \A menu \in Menus : menu \in Text /\ Count(menu) = 1
<1>1. /\ Menu \in Text /\ Len(Menu) = 4
      /\ Menu[1] = "Gecko" /\ Menu[2] = "Bootloader" /\ Menu[3] = "eol" /\ Menu[4] = "BL"
  BY CharacterSet DEF Menu, HEADER, PROMPT, Text
<1> HIDE DEF Menu
<1>2. PlacesOf({"BL"}, Menu) = {4}
  <2>1. 1 .. 4 = {1, 2, 3, 4}
    OBVIOUS
  <2> QED BY <1>1, <2>1 DEF PlacesOf
<1>3. Count(Menu) = 1
  BY <1>2, FS_Singleton DEF Count
<1>4. "nul" \in Characters
  BY CharacterSet
<1>5. Append(Menu, "nul") \in Text
  BY <1>1, <1>4 DEF Text
<1>6. Count(Append(Menu, "nul")) = Count(Menu)
  <2>1. Count(Append(Menu, "nul")) = Count(Menu) + 0
    BY <1>1, <1>4, CountAppend DEF Text
  <2> QED BY <1>3, <2>1
<1> QED BY <1>1, <1>3, <1>5, <1>6 DEF Menus

LEMMA LinePrints ==
  ASSUME PromptInv, NEW text \in Text, Prints(text)
  PROVE  toHost' \in Text /\ Count(toHost') = Count(toHost) + Count(text)
<1>1. toHost \in Text
  BY DEF PromptInv, TypeOK, Text
<1> QED BY <1>1, ConcatFacts, CountConcat DEF Prints, Text

(* A menu, or a character that is no prompt, or nothing is printed.          *)
LEMMA Prompted ==
  ASSUME PromptInv, Bootloader
  PROVE  /\ prompts' - Count(toHost') >= prompts - Count(toHost)
         /\ toHost' \in Text /\ prompts' \in Int
         /\ bootloader' \in {"menu", "upload", "rebooting", "application"}
         /\ readyChars' \in 0 .. MaxReadyChars
         /\ toBootloader' \in Seq({"LF", "1", "2"})
<1>1. /\ TypeOK /\ toHost \in Text /\ prompts \in Int /\ Count(toHost) \in Nat
  BY DueFacts DEF PromptInv, TypeOK, Text
<1>2. CASE ShowMenu /\ toBootloader' \in {toBootloader, Tail(toBootloader)}
           /\ (toBootloader' # toBootloader => toBootloader # <<>>)
  <2>1. PICK menu \in Menus : Prints(menu)
    BY <1>2 DEF ShowMenu
  <2>2. toHost' \in Text /\ Count(toHost') = Count(toHost) + 1
    BY <2>1, MenuFacts, LinePrints
  <2>3. prompts' = prompts + 1 /\ bootloader' = "menu" /\ readyChars' = 0
    BY <1>2 DEF ShowMenu
  <2>4. toBootloader' \in Seq({"LF", "1", "2"})
    <3>1. toBootloader \in Seq({"LF", "1", "2"})
      BY <1>1 DEF TypeOK
    <3>2. CASE toBootloader' = toBootloader
      BY <3>1, <3>2
    <3>3. CASE toBootloader # <<>> /\ toBootloader' = Tail(toBootloader)
      BY <3>1, <3>3, SeqFacts
    <3> QED BY <1>2, <3>2, <3>3
  <2>5. 0 \in 0 .. MaxReadyChars
    BY PromptAssumption
  <2>6. prompts' \in Int /\ prompts' - Count(toHost') >= prompts - Count(toHost)
    BY <1>1, <2>2, <2>3
  <2> QED BY <2>2, <2>3, <2>4, <2>5, <2>6
<1>3. CASE Boots
  BY <1>2, <1>3 DEF Boots
<1>4. CASE GivesUp
  BY <1>2, <1>4 DEF GivesUp
<1>5. CASE SendsReadyChar
  <2>1. <<"C">> \in Text /\ Count(<<"C">>) = 0
    <3>1. PlacesOf({"BL"}, <<"C">>) = {}
      BY DEF PlacesOf
    <3>2. Count(<<"C">>) = 0
      BY <3>1, FS_EmptySet DEF Count
    <3> QED BY <3>2, CharacterSet DEF Text
  <2>2. toHost' \in Text /\ Count(toHost') = Count(toHost) + 0
    BY <1>5, <2>1, LinePrints DEF SendsReadyChar
  <2>3. UNCHANGED <<bootloader, toBootloader, prompts>>
    BY <1>5 DEF SendsReadyChar
  <2>4. readyChars' \in 0 .. MaxReadyChars
    BY <1>1, <1>5, PromptAssumption DEF SendsReadyChar, TypeOK
  <2>5. prompts' - Count(toHost') >= prompts - Count(toHost)
    BY <1>1, <2>2, <2>3
  <2> QED BY <1>1, <2>2, <2>3, <2>4, <2>5 DEF TypeOK
<1>6. CASE ReadsChar
  <2>1. toBootloader # <<>> /\ toBootloader' = Tail(toBootloader)
    BY <1>6 DEF ReadsChar
  <2>2. CASE ShowMenu
    BY <1>2, <2>1, <2>2
  <2>3. CASE ~ShowMenu
    <3>1. UNCHANGED <<readyChars, toHost, prompts>>
          /\ bootloader' \in {bootloader, "upload", "application"}
      BY <1>6, <2>3 DEF ReadsChar, bootVars
    <3>2. toBootloader' \in Seq({"LF", "1", "2"})
      BY <1>1, <2>1, SeqFacts DEF TypeOK
    <3>3. prompts' - Count(toHost') >= prompts - Count(toHost)
      BY <1>1, <3>1
    <3> QED BY <1>1, <3>1, <3>2, <3>3 DEF TypeOK
  <2> QED BY <2>2, <2>3
<1> QED BY <1>3, <1>4, <1>5, <1>6 DEF Bootloader

LEMMA BootloaderKeeps == ASSUME PromptInv, Bootloader PROVE PromptInv'
<1>1. BootVarsOnly
  BY DEF Bootloader, Boots, SendsReadyChar, GivesUp, ReadsChar
<1>2. TypeOK'
  BY <1>1, Prompted
  DEF BootVarsOnly, PromptInv, TypeOK, dongleVars, parserVars, Text
<1> QED BY <1>1, <1>2, Prompted, LineMoves DEF BootVarsOnly, parserVars

LEMMA PromptHolds == Spec => []PromptInv
<1>1. PromptInv /\ [Next]_vars => PromptInv'
  <2> SUFFICES ASSUME PromptInv, [Next]_vars PROVE PromptInv'
    OBVIOUS
  <2>1. CASE ExitBootloader \/ FirmwareUpgrade
    BY <2>1, ModeSet DEF ExitBootloader, FirmwareUpgrade
  <2>2. CASE Trigger
    BY <2>2, Triggered
  <2>3. CASE Read
    BY <2>3, ChunkRead DEF Read
  <2>4. CASE RestartTimer
    BY <2>4, TimerRestarted
  <2>5. CASE Bootloader
    BY <2>5, BootloaderKeeps
  <2>6. CASE UNCHANGED vars
    BY <2>6 DEF vars, dongleVars, parserVars, bootVars, PromptInv, TypeOK, Due, Count
  <2> QED BY <2>1, <2>2, <2>3, <2>4, <2>5, <2>6 DEF Next
<1> QED BY <1>1, PromptStarts, PTL DEF Spec

-----------------------------------------------------------------------------
(* The driver, the line and the bootloader keep their types: in particular   *)
(* no NUL is ever left in the text that is searched (appendIncoming()).      *)
THEOREM PromptTypeCorrect == Spec => []TypeOK
<1>1. PromptInv => TypeOK
  BY DEF PromptInv
<1> QED BY <1>1, PromptHolds, PTL

(* However the text is cut into chunks, flushed in part or repeated, the     *)
(* prompt is not answered more often than it was shown, and no transfer is   *)
(* announced that was not asked for (appendIncoming(), setMode()).           *)
THEOREM PromptsAnsweredOnce == Spec => []AnswersOnce
<1>1. PromptInv => AnswersOnce
  <2> SUFFICES ASSUME PromptInv PROVE AnswersOnce
    OBVIOUS
  <2>1. /\ Due(state, accumulatedBytes) \in Nat /\ Count(toHost) \in Nat
        /\ prompts \in Int /\ choices \in Int
    BY DueFacts DEF PromptInv, TypeOK
  <2>2. prompts >= 0
    BY <2>1 DEF PromptInv
  <2>3. choices >= 0
    BY <2>1 DEF PromptInv
  <2> QED BY <2>2, <2>3 DEF AnswersOnce
<1> QED BY <1>1, PromptHolds, PTL
=============================================================================
