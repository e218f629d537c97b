--------------------------- MODULE ExampleProofs ---------------------------
(***************************************************************************)
(* Theorems about Example: the library and the sink keep their             *)
(* specifications when they share their state, their commands and a user.  *)
(***************************************************************************)
EXTENDS Example, Queues

-----------------------------------------------------------------------------
(* The part of a queue.                                                      *)

(* What Part builds: the part of every prefix.                               *)
Next1(C, s, f, n) ==
  IF n = 0 THEN <<>> ELSE IF s[n].cmd \in C THEN Append(f[n - 1], s[n]) ELSE f[n - 1]
Collects(C, s, f) == f = [n \in 0 .. Len(s) |-> Next1(C, s, f, n)]

LEMMA Collected ==
  ASSUME NEW C, NEW s, NEW l \in Nat
  PROVE  \E f : f = [n \in 0 .. l |-> Next1(C, s, f, n)]
<1> DEFINE N == {m \in Nat : \E f : f = [n \in 0 .. m |-> Next1(C, s, f, n)]}
<1>1. 0 \in N
  <2> DEFINE f == [n \in 0 .. 0 |-> <<>>]
  <2>1. f = [n \in 0 .. 0 |-> Next1(C, s, f, n)]
    BY DEF Next1
  <2> HIDE DEF f
  <2> QED BY <2>1
<1>2. ASSUME NEW m \in Nat, m \in N PROVE m + 1 \in N
  <2>1. PICK f : f = [n \in 0 .. m |-> Next1(C, s, f, n)]
    BY <1>2
  <2> DEFINE g == [n \in 0 .. m + 1 |-> IF n = m + 1 THEN Next1(C, s, f, m + 1) ELSE f[n]]
  <2>2. \A n \in 0 .. m + 1 : g[n] = Next1(C, s, g, n)
    <3>1. CASE 0 \in 0 .. m
      <4>1. \A n \in 0 .. m : g[n] = f[n] /\ f[n] = Next1(C, s, f, n)
        BY <2>1
      <4>2. \A n \in 0 .. m + 1 : n = 0 \/ g[n - 1] = f[n - 1]
        BY <4>1
      <4>3. \A n \in 0 .. m + 1 : Next1(C, s, g, n) = Next1(C, s, f, n)
        BY <4>2 DEF Next1
      <4>4. g[m + 1] = Next1(C, s, f, m + 1)
        OBVIOUS
      <4> HIDE DEF g
      <4> QED BY <4>1, <4>3, <4>4
    <3> QED BY <3>1
  <2>3. g = [n \in 0 .. m + 1 |-> Next1(C, s, g, n)]
    <3>1. g = [n \in 0 .. m + 1 |-> g[n]]
      OBVIOUS
    <3> HIDE DEF g
    <3> QED BY <2>2, <3>1
  <2> HIDE DEF g
  <2> QED BY <2>3
<1> HIDE DEF N
<1>3. l \in N
  BY <1>1, <1>2, Induction
<1> QED BY <1>3 DEF N

LEMMA PartIs ==
  ASSUME NEW C, NEW T, NEW s \in Seq(T)
  PROVE  \E f : Collects(C, s, f) /\ Part(C, s) = f[Len(s)]
<1>1. \E f : Collects(C, s, f)
  <2>1. Len(s) \in Nat
    OBVIOUS
  <2> QED BY <2>1, Collected DEF Collects
<1>2. Part(C, s) = (CHOOSE f : Collects(C, s, f))[Len(s)]
  BY DEF Part, Collects, Next1
<1> QED BY <1>1, <1>2

LEMMA SamePrefix ==
  ASSUME NEW C, NEW T, NEW s \in Seq(T), NEW x \in T, NEW f, Collects(C, s, f),
         NEW g, Collects(C, Append(s, x), g)
  PROVE  \A n \in 0 .. Len(s) : g[n] = f[n]
<1> DEFINE N == {n \in Nat : n <= Len(s) => g[n] = f[n]}
           t == Append(s, x)
<1>1. Len(s) \in Nat /\ Len(t) = Len(s) + 1 /\ \A n \in 1 .. Len(s) : t[n] = s[n]
  BY SeqFacts
<1>2. /\ \A n \in 0 .. Len(s) : f[n] = Next1(C, s, f, n)
      /\ \A n \in 0 .. Len(t) : g[n] = Next1(C, t, g, n)
  BY DEF Collects
<1> HIDE DEF t
<1>3. 0 \in N
  BY <1>1, <1>2 DEF Next1
<1>4. ASSUME NEW n \in Nat, n \in N PROVE n + 1 \in N
  <2> SUFFICES ASSUME n + 1 <= Len(s) PROVE g[n + 1] = f[n + 1]
    OBVIOUS
  <2>1. g[n] = f[n] /\ t[n + 1] = s[n + 1] /\ n + 1 \in 0 .. Len(s) /\ n + 1 \in 0 .. Len(t)
    BY <1>1, <1>4
  <2>2. f[n + 1] = Next1(C, s, f, n + 1) /\ g[n + 1] = Next1(C, t, g, n + 1)
    BY <1>2, <2>1
  <2>3. n + 1 - 1 = n /\ n + 1 # 0
    OBVIOUS
  <2> QED BY <2>1, <2>2, <2>3 DEF Next1
<1> HIDE DEF N
<1>5. Nat \subseteq N
  BY <1>3, <1>4, Induction
<1> QED BY <1>1, <1>5 DEF N

LEMMA PartEmpty == ASSUME NEW C PROVE Part(C, <<>>) = <<>>
<1>1. PICK f : Collects(C, <<>>, f) /\ Part(C, <<>>) = f[Len(<<>>)]
  <2>1. <<>> \in Seq({})
    OBVIOUS
  <2> QED BY <2>1, PartIs
<1>2. f = [n \in 0 .. 0 |-> Next1(C, <<>>, f, n)]
  BY <1>1 DEF Collects
<1> QED BY <1>1, <1>2 DEF Next1

LEMMA PartAppend ==
  ASSUME NEW C, NEW T, NEW s \in Seq(T), NEW x \in T
  PROVE  Part(C, Append(s, x)) = IF x.cmd \in C THEN Append(Part(C, s), x) ELSE Part(C, s)
<1> DEFINE t == Append(s, x)
<1>1. Len(s) \in Nat /\ Len(t) = Len(s) + 1 /\ t[Len(s) + 1] = x /\ t \in Seq(T)
  BY SeqFacts
<1>2. PICK f : Collects(C, s, f) /\ Part(C, s) = f[Len(s)]
  BY PartIs
<1>3. PICK g : Collects(C, t, g) /\ Part(C, t) = g[Len(t)]
  BY <1>1, PartIs
<1>4. g[Len(s)] = f[Len(s)]
  BY <1>1, <1>2, <1>3, SamePrefix
<1>5. g[Len(t)] = Next1(C, t, g, Len(t))
  BY <1>1, <1>3 DEF Collects
<1>6. Len(t) # 0 /\ Len(t) - 1 = Len(s)
  BY <1>1
<1> HIDE DEF t
<1>7. Part(C, t) = IF x.cmd \in C THEN Append(Part(C, s), x) ELSE Part(C, s)
  BY <1>1, <1>2, <1>3, <1>4, <1>5, <1>6 DEF Next1
<1> QED BY <1>7 DEF t

LEMMA PartType ==
  ASSUME NEW C, NEW T, NEW s \in Seq(T)
  PROVE  /\ Part(C, s) \in Seq({x \in T : x.cmd \in C})
         /\ Part(C, s) \in Seq(T)
<1> DEFINE U == {x \in T : x.cmd \in C}
           H == {t \in Seq(T) : Part(C, t) \in Seq(U)}
<1>1. <<>> \in H
  <2>1. <<>> \in Seq(U) /\ <<>> \in Seq(T)
    OBVIOUS
  <2>2. Part(C, <<>>) \in Seq(U)
    BY <2>1, PartEmpty
  <2> QED BY <2>1, <2>2
<1>2. ASSUME NEW t \in Seq(T), NEW x \in T, t \in H PROVE Append(t, x) \in H
  <2>1. Append(t, x) \in Seq(T)
    BY SeqFacts
  <2>2. Part(C, Append(t, x)) \in Seq(U)
    <3>1. x.cmd \in C => x \in U
      OBVIOUS
    <3>2. Part(C, t) \in Seq(U)
      BY <1>2
    <3> HIDE DEF U, H
    <3>3. Part(C, Append(t, x)) =
            IF x.cmd \in C THEN Append(Part(C, t), x) ELSE Part(C, t)
      BY PartAppend
    <3>4. x.cmd \in C => Append(Part(C, t), x) \in Seq(U)
      BY <3>1, <3>2
    <3> QED BY <3>2, <3>3, <3>4
  <2> QED BY <2>1, <2>2
<1>3. s \in H
  <2> HIDE DEF H
  <2> QED BY <1>1, <1>2, QueueInduction
<1>4. Part(C, s) \in Seq(U)
  BY <1>3
<1>5. \A q \in Seq(U) : q \in Seq(T)
  OBVIOUS
<1> QED BY <1>4, <1>5

LEMMA PartConcat ==
  ASSUME NEW C, NEW T, NEW s \in Seq(T), NEW t \in Seq(T)
  PROVE  Part(C, s \o t) = Part(C, s) \o Part(C, t)
<1> DEFINE H == {u \in Seq(T) : Part(C, s \o u) = Part(C, s) \o Part(C, u)}
<1>0. Part(C, s) \in Seq(T)
  BY PartType
<1>1. <<>> \in H
  <2>1. s \o <<>> = s /\ Part(C, s) \o <<>> = Part(C, s) /\ <<>> \in Seq(T)
    BY <1>0
  <2>2. Part(C, s \o <<>>) = Part(C, s) \o Part(C, <<>>)
    BY <2>1, PartEmpty
  <2> QED BY <2>1, <2>2
<1>2. ASSUME NEW u \in Seq(T), NEW x \in T, u \in H PROVE Append(u, x) \in H
  <2>1. Append(u, x) \in Seq(T) /\ s \o u \in Seq(T) /\ s \o Append(u, x) = Append(s \o u, x)
    OBVIOUS
  <2>2. \A p, q \in Seq(T) : p \o Append(q, x) = Append(p \o q, x)
    OBVIOUS
  <2>3. Part(C, u) \in Seq(T) /\ Part(C, s \o u) = Part(C, s) \o Part(C, u)
    BY <1>2, PartType
  <2>4. Part(C, Append(s \o u, x)) = Part(C, s) \o Part(C, Append(u, x))
    <3>1. PICK v \in Seq(T) : v = s \o u
      BY <2>1
    <3>2. /\ Part(C, Append(v, x)) = IF x.cmd \in C THEN Append(Part(C, v), x) ELSE Part(C, v)
          /\ Part(C, Append(u, x)) = IF x.cmd \in C THEN Append(Part(C, u), x) ELSE Part(C, u)
      BY PartAppend
    <3>3. Part(C, s) \o Append(Part(C, u), x) = Append(Part(C, s) \o Part(C, u), x)
      BY <1>0, <2>2, <2>3
    <3> QED BY <2>3, <3>1, <3>2, <3>3
  <2> QED BY <2>1, <2>4
<1> HIDE DEF H
<1>3. t \in H
  BY <1>1, <1>2, QueueInduction
<1> QED BY <1>3 DEF H

LEMMA PartWhole ==
  ASSUME NEW C, NEW T, NEW s \in Seq(T)
  PROVE  /\ (\A i \in 1 .. Len(s) : s[i].cmd \in C) => Part(C, s) = s
         /\ (\A i \in 1 .. Len(s) : s[i].cmd \notin C) => Part(C, s) = <<>>
<1> DEFINE H == {u \in Seq(T) :
                   /\ (\A i \in 1 .. Len(u) : u[i].cmd \in C) => Part(C, u) = u
                   /\ (\A i \in 1 .. Len(u) : u[i].cmd \notin C) => Part(C, u) = <<>>}
<1>1. <<>> \in H
  BY PartEmpty
<1>2. ASSUME NEW u \in Seq(T), NEW x \in T, u \in H PROVE Append(u, x) \in H
  <2>1. /\ Append(u, x) \in Seq(T) /\ Len(u) \in Nat /\ Len(Append(u, x)) = Len(u) + 1
        /\ Append(u, x)[Len(u) + 1] = x
        /\ \A i \in 1 .. Len(u) : Append(u, x)[i] = u[i]
    BY SeqFacts
  <2>2. ASSUME \A i \in 1 .. Len(Append(u, x)) : Append(u, x)[i].cmd \in C
        PROVE  Part(C, Append(u, x)) = Append(u, x)
    <3>1. x.cmd \in C /\ \A i \in 1 .. Len(u) : u[i].cmd \in C
      BY <2>1, <2>2
    <3> QED BY <1>2, <3>1, PartAppend
  <2>3. ASSUME \A i \in 1 .. Len(Append(u, x)) : Append(u, x)[i].cmd \notin C
        PROVE  Part(C, Append(u, x)) = <<>>
    <3>1. x.cmd \notin C /\ \A i \in 1 .. Len(u) : u[i].cmd \notin C
      BY <2>1, <2>3
    <3> QED BY <1>2, <3>1, PartAppend
  <2> QED BY <2>1, <2>2, <2>3
<1>3. s \in H
  <2> HIDE DEF H
  <2> QED BY <1>1, <1>2, QueueInduction
<1> QED BY <1>3

LEMMA PartElements ==
  ASSUME NEW C, NEW T, NEW s \in Seq(T)
  PROVE  /\ \A i \in 1 .. Len(Part(C, s)) : \E j \in 1 .. Len(s) : Part(C, s)[i] = s[j] /\ s[j].cmd \in C
         /\ \A j \in 1 .. Len(s) : s[j].cmd \in C =>
              \E i \in 1 .. Len(Part(C, s)) : Part(C, s)[i] = s[j]
<1> DEFINE Elements(u) == {u[i] : i \in 1 .. Len(u)}
           Same(u) == Elements(Part(C, u)) = {x \in Elements(u) : x.cmd \in C}
           H == {u \in Seq(T) : Same(u)}
<1>1. <<>> \in H
  BY PartEmpty
<1>2. ASSUME NEW u \in Seq(T), NEW x \in T, u \in H PROVE Append(u, x) \in H
  <2>1. \A q \in Seq(T) : Elements(Append(q, x)) = Elements(q) \cup {x}
    <3> TAKE q \in Seq(T)
    <3>1. /\ Len(q) \in Nat /\ Len(Append(q, x)) = Len(q) + 1
          /\ Append(q, x)[Len(q) + 1] = x
          /\ \A i \in 1 .. Len(q) : Append(q, x)[i] = q[i]
      BY SeqFacts
    <3> QED BY <3>1
  <2>2. Append(u, x) \in Seq(T) /\ Part(C, u) \in Seq(T)
    BY SeqFacts, PartType
  <2>3. Same(u)
    BY <1>2
  <2>4. Part(C, Append(u, x)) = IF x.cmd \in C THEN Append(Part(C, u), x) ELSE Part(C, u)
    BY PartAppend
  <2> HIDE DEF Elements
  <2>5. Same(Append(u, x))
    BY <2>1, <2>2, <2>3, <2>4
  <2> QED BY <2>2, <2>5
<1>3. Same(s)
  <2> HIDE DEF H
  <2>1. s \in H
    BY <1>1, <1>2, QueueInduction
  <2> QED BY <2>1 DEF H
<1> QED BY <1>3

LEMMA PartHead ==
  ASSUME NEW C, NEW T, NEW s \in Seq(T), s # <<>>
  PROVE  /\ Head(s).cmd \in C =>
              Part(C, s) # <<>> /\ Head(Part(C, s)) = Head(s) /\ Tail(Part(C, s)) = Part(C, Tail(s))
         /\ Head(s).cmd \notin C => Part(C, s) = Part(C, Tail(s))
<1>1. Head(s) \in T /\ Tail(s) \in Seq(T) /\ s = <<Head(s)>> \o Tail(s) /\ <<Head(s)>> \in Seq(T)
  OBVIOUS
<1>2. Part(C, s) = Part(C, <<Head(s)>>) \o Part(C, Tail(s))
  BY <1>1, PartConcat
<1>3. Part(C, <<Head(s)>>) = IF Head(s).cmd \in C THEN <<Head(s)>> ELSE <<>>
  <2>0. <<>> \in Seq(T)
    OBVIOUS
  <2>1. PICK e \in Seq(T) : e = <<>>
    BY <2>0, Zenon
  <2>2. PICK x \in T : x = Head(s)
    BY <1>1
  <2>3. Part(C, Append(e, x)) = IF x.cmd \in C THEN Append(Part(C, e), x) ELSE Part(C, e)
    BY PartAppend
  <2>4. <<x>> = Append(e, x) /\ Part(C, e) = <<>> /\ Append(<<>>, x) = <<x>>
    BY <2>1, PartEmpty
  <2> QED BY <2>2, <2>3, <2>4
<1>4. Part(C, Tail(s)) \in Seq(T)
  BY <1>1, PartType
<1>5. ASSUME NEW q \in Seq(T)
      PROVE  /\ <<>> \o q = q /\ <<Head(s)>> \o q # <<>>
             /\ Head(<<Head(s)>> \o q) = Head(s) /\ Tail(<<Head(s)>> \o q) = q
  BY <1>1
<1>6. CASE Head(s).cmd \in C
  <2>1. Part(C, s) = <<Head(s)>> \o Part(C, Tail(s))
    BY <1>2, <1>3, <1>6
  <2> QED BY <1>4, <1>5, <1>6, <2>1
<1>7. CASE Head(s).cmd \notin C
  <2>1. Part(C, s) = <<>> \o Part(C, Tail(s))
    BY <1>2, <1>3, <1>7
  <2> QED BY <1>4, <1>5, <1>7, <2>1
<1> QED BY <1>6, <1>7

(* A queue of whatever commands.                                             *)
Queue(s) == \E T : s \in Seq(T)
AllIn(C, s) == \A i \in 1 .. Len(s) : s[i].cmd \in C
NoneIn(C, s) == \A i \in 1 .. Len(s) : s[i].cmd \notin C

LEMMA QueueConcat ==
  ASSUME NEW s, NEW t, Queue(s), Queue(t)
  PROVE  \E T : s \in Seq(T) /\ t \in Seq(T) /\ s \o t \in Seq(T)
<1>1. PICK T, U : s \in Seq(T) /\ t \in Seq(U)
  BY DEF Queue
<1>2. s \in Seq(T \cup U) /\ t \in Seq(T \cup U)
  BY <1>1
<1> QED BY <1>2

LEMMA QueueFacts ==
  /\ Queue(<<>>)
  /\ \A x : Queue(<<x>>)
  /\ \A x, y : Queue(<<x, y>>)
  /\ \A s, t : Queue(s) /\ Queue(t) => Queue(s \o t)
  /\ \A s, x : Queue(s) => Append(s, x) = s \o <<x>> /\ Queue(Append(s, x))
  /\ \A s : Queue(s) /\ s # <<>> => Queue(Tail(s))
<1>1. Queue(<<>>)
  <2>1. <<>> \in Seq({})
    OBVIOUS
  <2> QED BY <2>1 DEF Queue
<1>2. ASSUME NEW x PROVE Queue(<<x>>)
  <2>1. <<x>> \in Seq({x})
    OBVIOUS
  <2> QED BY <2>1 DEF Queue
<1>3. ASSUME NEW x, NEW y PROVE Queue(<<x, y>>)
  <2>1. <<x, y>> \in Seq({x, y})
    OBVIOUS
  <2> QED BY <2>1 DEF Queue
<1>4. ASSUME NEW s, NEW t, Queue(s), Queue(t) PROVE Queue(s \o t)
  BY <1>4, QueueConcat DEF Queue
<1>5. ASSUME NEW s, NEW x, Queue(s) PROVE Append(s, x) = s \o <<x>> /\ Queue(Append(s, x))
  <2>1. PICK T : s \in Seq(T)
    BY <1>5 DEF Queue
  <2>2. Append(s, x) = s \o <<x>>
    BY <2>1
  <2> QED BY <1>2, <1>4, <1>5, <2>2
<1>6. ASSUME NEW s, Queue(s), s # <<>> PROVE Queue(Tail(s))
  <2>1. PICK T : s \in Seq(T)
    BY <1>6 DEF Queue
  <2>2. Tail(s) \in Seq(T)
    BY <1>6, <2>1
  <2> QED BY <2>2 DEF Queue
<1> QED BY <1>1, <1>2, <1>3, <1>4, <1>5, <1>6

(* Commands are added to a queue, all of them in C or none.                  *)
LEMMA PartAdded ==
  ASSUME NEW C, NEW s, NEW t, Queue(s), Queue(t)
  PROVE  /\ AllIn(C, t) => Part(C, s \o t) = Part(C, s) \o t
         /\ NoneIn(C, t) => Part(C, s \o t) = Part(C, s)
<1>1. PICK T : s \in Seq(T) /\ t \in Seq(T)
  BY QueueConcat
<1>2. Part(C, s \o t) = Part(C, s) \o Part(C, t)
  BY <1>1, PartConcat
<1>3. Part(C, s) \in Seq(T)
  BY <1>1, PartType
<1>4. Part(C, s) \o <<>> = Part(C, s)
  BY <1>3
<1> QED BY <1>1, <1>2, <1>4, PartWhole DEF AllIn, NoneIn

(* The command at the head of a queue is taken.                              *)
LEMMA PartTaken ==
  ASSUME NEW C, NEW s, Queue(s), s # <<>>
  PROVE  /\ Head(s).cmd \in C =>
              /\ Part(C, s) # <<>> /\ Head(Part(C, s)) = Head(s)
              /\ Part(C, Tail(s)) = Tail(Part(C, s))
         /\ Head(s).cmd \notin C => Part(C, Tail(s)) = Part(C, s)
BY PartHead DEF Queue

(* The same, and others are added.                                           *)
LEMMA PartSends ==
  ASSUME NEW C, NEW s, Queue(s), s # <<>>, NEW t, Queue(t)
  PROVE  /\ Head(s).cmd \in C /\ AllIn(C, t) => Part(C, Tail(s) \o t) = Tail(Part(C, s)) \o t
         /\ Head(s).cmd \in C /\ NoneIn(C, t) => Part(C, Tail(s) \o t) = Tail(Part(C, s))
         /\ Head(s).cmd \notin C /\ AllIn(C, t) => Part(C, Tail(s) \o t) = Part(C, s) \o t
         /\ Head(s).cmd \notin C /\ NoneIn(C, t) => Part(C, Tail(s) \o t) = Part(C, s)
<1>1. PICK u : u = Tail(s)
  OBVIOUS
<1>2. Queue(u)
  BY <1>1, QueueFacts
<1>3. /\ AllIn(C, t) => Part(C, u \o t) = Part(C, u) \o t
      /\ NoneIn(C, t) => Part(C, u \o t) = Part(C, u)
  BY <1>2, PartAdded
<1>4. /\ Head(s).cmd \in C => Part(C, u) = Tail(Part(C, s))
      /\ Head(s).cmd \notin C => Part(C, u) = Part(C, s)
  BY <1>1, PartTaken
<1> QED BY <1>1, <1>3, <1>4

LEMMA PartOfQueue == ASSUME NEW C, NEW s, Queue(s) PROVE Queue(Part(C, s))
BY PartType DEF Queue

-----------------------------------------------------------------------------
(* The library, beside the sink: what Example does is what LibEzspMain       *)
(* allows, on the commands of its own, and turns of the sink.                *)

LibCmds == L!PlainCmds \cup {"VERSION", "ADD_ENDPOINT", "FORM_NETWORK", "START_SCAN"}
LibPart(queue) == Part(LibCmds, queue)
Lib == INSTANCE LibEzspMainProofs WITH
  Env <- LibEnv, mishaps <- libMishaps, ops <- libOps, commands <- LibPart(commands)

LEMMA WhoseCmds ==
  /\ BothCmds \subseteq LibCmds
  /\ \A c \in SinkCmds : c \notin LibCmds
BY DEF BothCmds, SinkCmds, LibCmds, L!PlainCmds, S!DeviceCmds, S!IndexCmds

(* A response of the library is handled, in the whole queue and in its part. *)
LEMMA LibAnswered ==
  ASSUME Queue(commands), commands # <<>>, Head(commands).cmd \in LibCmds
  PROVE  /\ LibPart(commands) # <<>> /\ Head(LibPart(commands)) = Head(commands)
         /\ \A t : /\ Queue(t) /\ AllIn(LibCmds, t)
                   /\ L!Sends(t)
                   => Lib!Sends(t) /\ Queue(commands')
         /\ \A t : /\ Queue(t) /\ NoneIn(LibCmds, t)
                   /\ L!Sends(t)
                   => Lib!Sends(<<>>) /\ Queue(commands')
<1>1. LibPart(commands) # <<>> /\ Head(LibPart(commands)) = Head(commands)
  BY PartTaken DEF LibPart
<1>2. Queue(Tail(commands)) /\ Queue(LibPart(commands))
  BY QueueFacts, PartOfQueue DEF LibPart
<1>3. ASSUME NEW t, Queue(t), L!Sends(t)
      PROVE  /\ Queue(commands')
             /\ AllIn(LibCmds, t) => LibPart(commands)' = Tail(LibPart(commands)) \o t
             /\ NoneIn(LibCmds, t) => LibPart(commands)' = Tail(LibPart(commands))
  <2>1. commands' = Tail(commands) \o t
    BY <1>3 DEF L!Sends
  <2>2. Queue(Tail(commands) \o t)
    BY <1>2, <1>3, QueueFacts
  <2> QED BY <1>3, <2>1, <2>2, PartSends DEF LibPart
<1>4. Tail(LibPart(commands)) \o <<>> = Tail(LibPart(commands))
  BY <1>1, <1>2 DEF Queue
<1> QED BY <1>1, <1>3, <1>4 DEF Lib!Sends

(* The commands that the library sends are its own.                          *)
LEMMA LibSendsOwn ==
  /\ Queue(<<>>) /\ AllIn(LibCmds, <<>>)
  /\ \A c \in L!PlainCmds : Queue(<<L!Cmd(c)>>) /\ AllIn(LibCmds, <<L!Cmd(c)>>)
  /\ \A v : LET s == <<[cmd |-> "VERSION", version |-> v]>> IN Queue(s) /\ AllIn(LibCmds, s)
  /\ \A c : LET s == <<[cmd |-> "FORM_NETWORK", channel |-> c]>> IN Queue(s) /\ AllIn(LibCmds, s)
  /\ \A k, i : LET s == <<[cmd |-> "START_SCAN", kind |-> k, scan |-> i]>>
               IN Queue(s) /\ AllIn(LibCmds, s)
  /\ LET s == <<L!Cmd("SET_CONFIGURATION_VALUE"), L!AddEndpoint(1), L!AddEndpoint(242)>>
     IN Queue(s) /\ AllIn(LibCmds, s)
  /\ LET s == <<L!Cmd("SET_POLICY"), L!Cmd("SET_INITIAL_SECURITY_STATE")>>
     IN Queue(s) /\ AllIn(LibCmds, s)
  /\ LET s == <<L!Cmd("GP_SINK_TABLE_INIT"), L!Cmd("GET_NETWORK_PARAMETERS")>>
     IN Queue(s) /\ AllIn(LibCmds, s)
<1> USE DEF AllIn, LibCmds
<1>1. ASSUME NEW x, x.cmd \in LibCmds PROVE Queue(<<x>>) /\ AllIn(LibCmds, <<x>>)
  BY <1>1, QueueFacts
<1>2. ASSUME NEW x, NEW y, x.cmd \in LibCmds, y.cmd \in LibCmds
      PROVE  Queue(<<x, y>>) /\ AllIn(LibCmds, <<x, y>>)
  BY <1>2, QueueFacts
<1>3. ASSUME NEW x, NEW y, NEW z, x.cmd \in LibCmds, y.cmd \in LibCmds, z.cmd \in LibCmds
      PROVE  Queue(<<x, y, z>>) /\ AllIn(LibCmds, <<x, y, z>>)
  <2>1. <<x, y, z>> \in Seq({x, y, z})
    OBVIOUS
  <2>2. Len(<<x, y, z>>) = 3
    OBVIOUS
  <2>3. \A i \in 1 .. 3 : <<x, y, z>>[i] \in {x, y, z}
    OBVIOUS
  <2> QED BY <1>3, <2>1, <2>2, <2>3 DEF Queue
<1> HIDE DEF AllIn
<1>4. Queue(<<>>) /\ AllIn(LibCmds, <<>>)
  BY QueueFacts DEF AllIn
<1>5. \A c \in L!PlainCmds : L!Cmd(c).cmd \in LibCmds
  BY DEF L!Cmd
<1>6. L!AddEndpoint(1).cmd \in LibCmds /\ L!AddEndpoint(242).cmd \in LibCmds
  BY DEF L!AddEndpoint
<1>7. {"SET_CONFIGURATION_VALUE", "SET_POLICY", "SET_INITIAL_SECURITY_STATE",
       "GP_SINK_TABLE_INIT", "GET_NETWORK_PARAMETERS"} \subseteq L!PlainCmds
  BY DEF L!PlainCmds
<1> QED BY <1>1, <1>2, <1>3, <1>4, <1>5, <1>6, <1>7

LEMMA SameDefinitions ==
  /\ Lib!PlainCmds = L!PlainCmds /\ Lib!Kinds = L!Kinds /\ Lib!Requests = L!Requests
  /\ \A c : Lib!Cmd(c) = L!Cmd(c)
  /\ \A c : Lib!AddEndpoint(c) = L!AddEndpoint(c)
  /\ \A c : Lib!Status(c) = L!Status(c)
  /\ \A c : Lib!NextCommand(c) = L!NextCommand(c)
BY DEF Lib!PlainCmds, L!PlainCmds, Lib!Kinds, L!Kinds, Lib!Requests, L!Requests, Lib!Cmd, L!Cmd,
       Lib!AddEndpoint, L!AddEndpoint, Lib!Status, L!Status, Lib!NextCommand, L!NextCommand

LEMMA LibVersionAnswered ==
  ASSUME Queue(commands), L!VersionAnswered
  PROVE  Lib!VersionAnswered /\ Queue(commands')
<1>1. commands # <<>> /\ Head(commands).cmd = "VERSION"
  BY DEF L!VersionAnswered, L!Answered
<1>2. PICK h : h = LibPart(commands)
  OBVIOUS
<1>3. Head(commands).cmd \in LibCmds
  BY <1>1 DEF LibCmds
<1>4. Lib!Answered({"VERSION"})
  BY <1>1, <1>3, LibAnswered DEF L!VersionAnswered, L!Answered, Lib!Answered
<1>5. Queue(Tail(commands)) /\ Queue(LibPart(commands)) /\ LibPart(commands) # <<>>
  BY <1>1, <1>3, LibAnswered, QueueFacts, PartOfQueue DEF LibPart
<1>6. ASSUME L!DongleInit(adapter.version, Tail(commands))
      PROVE  Lib!DongleInit(adapter.version, Tail(LibPart(commands))) /\ Queue(commands')
  <2>1. PICK s : s = <<[cmd |-> "VERSION", version |-> adapter.version]>>
    OBVIOUS
  <2>2. Queue(s) /\ AllIn(LibCmds, s)
    BY <2>1, LibSendsOwn
  <2>3. commands' = Tail(commands) \o s
    BY <1>5, <1>6, <2>1, QueueFacts DEF L!DongleInit
  <2>4. Queue(Tail(LibPart(commands)))
    BY <1>5, QueueFacts
  <2>5. Append(Tail(LibPart(commands)), s[1]) = Tail(LibPart(commands)) \o s
    BY <2>1, <2>4, QueueFacts
  <2>6. Lib!Sends(s) /\ Queue(commands')
    BY <1>1, <1>3, <2>2, <2>3, LibAnswered DEF L!Sends
  <2> QED BY <1>6, <2>1, <2>5, <2>6 DEF L!DongleInit, Lib!DongleInit, Lib!Sends
<1>7. ASSUME L!Sends(<<L!Cmd("GET_XNCP_INFO")>>)
      PROVE  Lib!Sends(<<Lib!Cmd("GET_XNCP_INFO")>>) /\ Queue(commands')
  BY <1>1, <1>3, <1>7, LibAnswered, LibSendsOwn, SameDefinitions DEF L!PlainCmds
<1>8. ASSUME L!Sends(<<>>)
      PROVE  Lib!Sends(<<>>) /\ Queue(commands')
  BY <1>1, <1>3, <1>8, LibAnswered, LibSendsOwn
<1>9. Lib!MaxVersion = L!MaxVersion
  BY DEF Lib!MaxVersion, L!MaxVersion
<1> HIDE DEF L!Sends, Lib!Sends
<1> QED BY <1>4, <1>6, <1>7, <1>8, <1>9 DEF L!VersionAnswered, Lib!VersionAnswered, L!scanVars, Lib!scanVars

LEMMA LibNetworkStateAnswered ==
  ASSUME Queue(commands), L!NetworkStateAnswered
  PROVE  Lib!NetworkStateAnswered /\ Queue(commands')
<1>1. commands # <<>> /\ Head(commands).cmd = "NETWORK_STATE"
  BY DEF L!NetworkStateAnswered, L!Answered
<1>2. Head(commands).cmd \in LibCmds
  BY <1>1 DEF LibCmds, L!PlainCmds
<1>3. Lib!Answered({"NETWORK_STATE"})
  BY <1>1, <1>2, LibAnswered DEF L!NetworkStateAnswered, L!Answered, Lib!Answered
<1>4. L!Sends(<<>>) => Lib!Sends(<<>>) /\ Queue(commands')
  BY <1>1, <1>2, LibAnswered, LibSendsOwn
<1>5. L!Sends(<<L!Cmd("LEAVE_NETWORK")>>)
        => Lib!Sends(<<Lib!Cmd("LEAVE_NETWORK")>>) /\ Queue(commands')
  BY <1>1, <1>2, LibAnswered, LibSendsOwn, SameDefinitions DEF L!PlainCmds
<1>6. L!Sends(<<L!Cmd("SET_POLICY"), L!Cmd("SET_INITIAL_SECURITY_STATE")>>)
        => Lib!Sends(<<Lib!Cmd("SET_POLICY"), Lib!Cmd("SET_INITIAL_SECURITY_STATE")>>)
           /\ Queue(commands')
  BY <1>1, <1>2, LibAnswered, LibSendsOwn, SameDefinitions
<1> QED BY <1>3, <1>4, <1>5, <1>6
       DEF L!NetworkStateAnswered, Lib!NetworkStateAnswered, L!scanVars, Lib!scanVars,
           L!StopsWithoutNetwork, Lib!StopsWithoutNetwork, L!LeavesUnwanted, Lib!LeavesUnwanted,
           L!OnlyLeave, Lib!OnlyLeave, L!KeepNetwork, Lib!KeepNetwork

LEMMA LibPlainAnswered ==
  ASSUME Queue(commands), L!PlainAnswered
  PROVE  Lib!PlainAnswered /\ Queue(commands')
<1> DEFINE C == {"SET_CONFIGURATION_VALUE", "ADD_ENDPOINT", "NETWORK_INIT", "SET_POLICY",
                 "JOIN_NETWORK", "GET_NETWORK_PARAMETERS", "SET_RADIO_CHANNEL",
                 "GP_SINK_TABLE_INIT"}
<1>1. commands # <<>> /\ Head(commands).cmd \in C
  BY DEF L!PlainAnswered, L!Answered
<1>2. Head(commands).cmd \in LibCmds
  BY <1>1 DEF LibCmds, L!PlainCmds
<1>3. Lib!Answered(C) /\ Head(LibPart(commands)) = Head(commands)
  BY <1>1, <1>2, LibAnswered DEF L!PlainAnswered, L!Answered, Lib!Answered
<1>4. PICK c : c = Head(commands).cmd
  OBVIOUS
<1>5. L!NextCommand(c) \in {<<>>, <<L!Cmd("NETWORK_INIT")>>, <<L!Cmd("NETWORK_STATE")>>}
  BY DEF L!NextCommand
<1>6. Queue(L!NextCommand(c)) /\ AllIn(LibCmds, L!NextCommand(c))
  BY <1>5, LibSendsOwn DEF L!PlainCmds
<1>7. Lib!Sends(Lib!NextCommand(c)) /\ Queue(commands')
  BY <1>1, <1>2, <1>4, <1>6, LibAnswered, SameDefinitions DEF L!PlainAnswered
<1> QED BY <1>3, <1>4, <1>7, SameDefinitions
       DEF L!PlainAnswered, Lib!PlainAnswered, L!scanVars, Lib!scanVars, L!initVars, Lib!initVars,
           L!Restores, Lib!Restores

LEMMA LibSecurityStateAnswered ==
  ASSUME Queue(commands), L!SecurityStateAnswered
  PROVE  Lib!SecurityStateAnswered /\ Queue(commands')
<1>1. commands # <<>> /\ Head(commands).cmd = "SET_INITIAL_SECURITY_STATE"
  BY DEF L!SecurityStateAnswered, L!Answered
<1>2. Head(commands).cmd \in LibCmds
  BY <1>1 DEF LibCmds, L!PlainCmds
<1>3. Lib!Answered({"SET_INITIAL_SECURITY_STATE"})
  BY <1>1, <1>2, LibAnswered DEF L!SecurityStateAnswered, L!Answered, Lib!Answered
<1>4. L!Sends(<<>>) => Lib!Sends(<<>>) /\ Queue(commands')
  BY <1>1, <1>2, LibAnswered, LibSendsOwn
<1>5. L!Sends(<<[cmd |-> "FORM_NETWORK", channel |-> form_channel]>>)
        => /\ Lib!Sends(<<[cmd |-> "FORM_NETWORK", channel |-> form_channel]>>)
           /\ Queue(commands')
  <2>1. PICK s : s = <<[cmd |-> "FORM_NETWORK", channel |-> form_channel]>>
    OBVIOUS
  <2>2. Queue(s) /\ AllIn(LibCmds, s)
    BY <2>1, LibSendsOwn
  <2>3. L!Sends(s) => Lib!Sends(s) /\ Queue(commands')
    BY <1>1, <1>2, <2>2, LibAnswered
  <2> QED BY <2>1, <2>3
<1>6. L!Happens({"formRefused"}) => Lib!Happens({"formRefused"})
  BY DEF L!Happens, Lib!Happens
<1> QED BY <1>3, <1>4, <1>5, <1>6
       DEF L!SecurityStateAnswered, Lib!SecurityStateAnswered, L!scanVars, Lib!scanVars,
           L!initVars, Lib!initVars

LEMMA LibFormNetworkAnswered ==
  ASSUME Queue(commands), L!FormNetworkAnswered
  PROVE  Lib!FormNetworkAnswered /\ Queue(commands')
<1>1. commands # <<>> /\ Head(commands).cmd = "FORM_NETWORK"
  BY DEF L!FormNetworkAnswered, L!Answered
<1>2. Head(commands).cmd \in LibCmds
  BY <1>1 DEF LibCmds
<1>3. Lib!Answered({"FORM_NETWORK"}) /\ Head(LibPart(commands)) = Head(commands)
  BY <1>1, <1>2, LibAnswered DEF L!FormNetworkAnswered, L!Answered, Lib!Answered
<1>4. Lib!Sends(<<>>) /\ Queue(commands')
  BY <1>1, <1>2, LibAnswered, LibSendsOwn DEF L!FormNetworkAnswered
<1> QED BY <1>3, <1>4, SameDefinitions
       DEF L!FormNetworkAnswered, Lib!FormNetworkAnswered, L!scanVars, Lib!scanVars,
           L!initVars, Lib!initVars, L!Happens, Lib!Happens

LEMMA LibLeaveNetworkAnswered ==
  ASSUME Queue(commands), L!LeaveNetworkAnswered
  PROVE  Lib!LeaveNetworkAnswered /\ Queue(commands')
<1>1. commands # <<>> /\ Head(commands).cmd = "LEAVE_NETWORK"
  BY DEF L!LeaveNetworkAnswered, L!Answered
<1>2. Head(commands).cmd \in LibCmds
  BY <1>1 DEF LibCmds, L!PlainCmds
<1>3. Lib!Answered({"LEAVE_NETWORK"})
  BY <1>1, <1>2, LibAnswered DEF L!LeaveNetworkAnswered, L!Answered, Lib!Answered
<1>4. Lib!Sends(<<>>) /\ Queue(commands')
  BY <1>1, <1>2, LibAnswered, LibSendsOwn DEF L!LeaveNetworkAnswered
<1> QED BY <1>3, <1>4
       DEF L!LeaveNetworkAnswered, Lib!LeaveNetworkAnswered, L!scanVars, Lib!scanVars,
           L!initVars, Lib!initVars, L!Happens, Lib!Happens

LEMMA LibXncpInfoAnswered ==
  ASSUME Queue(commands), L!XncpInfoAnswered
  PROVE  Lib!XncpInfoAnswered /\ Queue(commands')
<1>1. commands # <<>> /\ Head(commands).cmd = "GET_XNCP_INFO"
  BY DEF L!XncpInfoAnswered, L!Answered
<1>2. Head(commands).cmd \in LibCmds
  BY <1>1 DEF LibCmds, L!PlainCmds
<1>3. Lib!Answered({"GET_XNCP_INFO"})
  BY <1>1, <1>2, LibAnswered DEF L!XncpInfoAnswered, L!Answered, Lib!Answered
<1>4. /\ Lib!Sends(<<Lib!Cmd("SET_CONFIGURATION_VALUE"), Lib!AddEndpoint(1), Lib!AddEndpoint(242)>>)
      /\ Queue(commands')
  BY <1>1, <1>2, LibAnswered, LibSendsOwn, SameDefinitions DEF L!XncpInfoAnswered
<1> QED BY <1>3, <1>4
       DEF L!XncpInfoAnswered, Lib!XncpInfoAnswered, L!scanVars, Lib!scanVars,
           L!initVars, Lib!initVars

LEMMA LibSinkWorkAnswered ==
  ASSUME Queue(commands), L!SinkWorkAnswered
  PROVE  Lib!SinkWorkAnswered /\ Queue(commands')
<1>1. commands # <<>> /\ Head(commands).cmd = "SINK_WORK"
  BY DEF L!SinkWorkAnswered, L!Answered
<1>2. Head(commands).cmd \in LibCmds
  BY <1>1 DEF LibCmds, L!PlainCmds
<1>3. Lib!Answered({"SINK_WORK"})
  BY <1>1, <1>2, LibAnswered DEF L!SinkWorkAnswered, L!Answered, Lib!Answered
<1>4. Lib!Sends(<<>>) /\ Queue(commands')
  BY <1>1, <1>2, LibAnswered, LibSendsOwn DEF L!SinkWorkAnswered
<1> QED BY <1>3, <1>4
       DEF L!SinkWorkAnswered, Lib!SinkWorkAnswered, L!scanVars, Lib!scanVars,
           L!initVars, Lib!initVars

LEMMA LibLaunchAnswered ==
  ASSUME Queue(commands), L!LaunchAnswered
  PROVE  Lib!LaunchAnswered /\ Queue(commands')
<1>1. commands # <<>> /\ Head(commands).cmd = "LAUNCH_STANDALONE_BOOTLOADER"
  BY DEF L!LaunchAnswered, L!Answered
<1>2. Head(commands).cmd \in LibCmds
  BY <1>1 DEF LibCmds, L!PlainCmds
<1>3. Lib!Answered({"LAUNCH_STANDALONE_BOOTLOADER"})
  BY <1>1, <1>2, LibAnswered DEF L!LaunchAnswered, L!Answered, Lib!Answered
<1>4. Lib!Sends(<<>>) /\ Queue(commands')
  BY <1>1, <1>2, LibAnswered, LibSendsOwn DEF L!LaunchAnswered
<1> QED BY <1>3, <1>4
       DEF L!LaunchAnswered, Lib!LaunchAnswered, L!scanVars, Lib!scanVars,
           L!initVars, Lib!initVars

LEMMA LibStartScanAnswered ==
  ASSUME Queue(commands), L!StartScanAnswered
  PROVE  Lib!StartScanAnswered /\ Queue(commands')
<1>1. commands # <<>> /\ Head(commands).cmd = "START_SCAN"
  BY DEF L!StartScanAnswered, L!Answered
<1>2. Head(commands).cmd \in LibCmds
  BY <1>1 DEF LibCmds
<1>3. Lib!Answered({"START_SCAN"}) /\ Head(LibPart(commands)) = Head(commands)
  BY <1>1, <1>2, LibAnswered DEF L!StartScanAnswered, L!Answered, Lib!Answered
<1>4. Lib!Sends(<<>>) /\ Queue(commands')
  BY <1>1, <1>2, LibAnswered, LibSendsOwn DEF L!StartScanAnswered
<1> QED BY <1>3, <1>4
       DEF L!StartScanAnswered, Lib!StartScanAnswered, L!initVars, Lib!initVars,
           L!Happens, Lib!Happens, L!Started, Lib!Started, L!NoRequest, Lib!NoRequest

LEMMA LibGetKeyAnswered ==
  ASSUME Queue(commands), L!GetKeyAnswered
  PROVE  Lib!GetKeyAnswered /\ Queue(commands')
<1>1. commands # <<>> /\ Head(commands).cmd = "GET_KEY"
  BY DEF L!GetKeyAnswered
<1>2. Head(commands).cmd \in LibCmds
  BY <1>1 DEF LibCmds, L!PlainCmds
<1>3. LibPart(commands) # <<>> /\ Head(LibPart(commands)) = Head(commands)
  BY <1>1, <1>2, LibAnswered
<1>4. Lib!Sends(<<>>) /\ Queue(commands')
  BY <1>1, <1>2, LibAnswered, LibSendsOwn DEF L!GetKeyAnswered
<1> QED BY <1>3, <1>4
       DEF L!GetKeyAnswered, Lib!GetKeyAnswered, L!scanVars, Lib!scanVars,
           L!initVars, Lib!initVars, L!NoRequest, Lib!NoRequest

LEMMA LibResponseHandled ==
  ASSUME Queue(commands), L!ResponseHandled
  PROVE  Lib!ResponseHandled /\ Queue(commands')
BY LibVersionAnswered, LibXncpInfoAnswered, LibPlainAnswered, LibNetworkStateAnswered,
   LibSecurityStateAnswered, LibFormNetworkAnswered, LibLeaveNetworkAnswered, LibSinkWorkAnswered,
   LibLaunchAnswered, LibStartScanAnswered, LibGetKeyAnswered
DEF L!ResponseHandled, Lib!ResponseHandled

(* Commands are added to the queue.                                          *)
LEMMA LibAdded ==
  ASSUME Queue(commands)
  PROVE  /\ \A t : /\ Queue(t) /\ AllIn(LibCmds, t) /\ commands' = commands \o t
                   => LibPart(commands)' = LibPart(commands) \o t /\ Queue(commands')
         /\ \A t : /\ Queue(t) /\ NoneIn(LibCmds, t) /\ commands' = commands \o t
                   => LibPart(commands)' = LibPart(commands) /\ Queue(commands')
         /\ \A x : /\ x.cmd \in LibCmds /\ commands' = Append(commands, x)
                   => LibPart(commands)' = Append(LibPart(commands), x) /\ Queue(commands')
<1>1. ASSUME NEW t, Queue(t), commands' = commands \o t
      PROVE  /\ Queue(commands')
             /\ AllIn(LibCmds, t) => LibPart(commands)' = LibPart(commands) \o t
             /\ NoneIn(LibCmds, t) => LibPart(commands)' = LibPart(commands)
  <2>1. Queue(commands \o t)
    BY <1>1, QueueFacts
  <2> QED BY <1>1, <2>1, PartAdded DEF LibPart
<1>2. ASSUME NEW x, x.cmd \in LibCmds, commands' = Append(commands, x)
      PROVE  LibPart(commands)' = Append(LibPart(commands), x) /\ Queue(commands')
  <2>1. PICK t : t = <<x>>
    OBVIOUS
  <2>2. Queue(t) /\ AllIn(LibCmds, t)
    BY <1>2, <2>1, QueueFacts DEF AllIn
  <2>3. commands' = commands \o t
    BY <1>2, <2>1, QueueFacts
  <2>4. Append(LibPart(commands), x) = LibPart(commands) \o t
    BY <2>1, PartOfQueue, QueueFacts DEF LibPart
  <2> QED BY <1>1, <2>2, <2>3, <2>4
<1> QED BY <1>1, <1>2

LEMMA LibUnderWay ==
  ASSUME Queue(commands), NEW i
  PROVE  L!UnderWay(i) <=> Lib!UnderWay(i)
<1>1. PICK T : commands \in Seq(T)
  BY DEF Queue
<1>2. PICK p : p = LibPart(commands)
  OBVIOUS
<1>3. /\ \A j \in 1 .. Len(p) : \E k \in 1 .. Len(commands) : p[j] = commands[k]
      /\ \A k \in 1 .. Len(commands) : commands[k].cmd \in LibCmds =>
           \E j \in 1 .. Len(p) : p[j] = commands[k]
  <2>1. p = Part(LibCmds, commands)
    BY <1>2 DEF LibPart
  <2> QED BY <1>1, <2>1, PartElements
<1>4. "START_SCAN" \in LibCmds
  BY DEF LibCmds
<1> QED BY <1>2, <1>3, <1>4 DEF L!UnderWay, Lib!UnderWay

LEMMA LibHandleDongleReady ==
  ASSUME Queue(commands), L!HandleDongleReady
  PROVE  Lib!HandleDongleReady /\ Queue(commands')
<1>1. L!DongleInit(exp_ezsp_min_version, commands)
        => Lib!DongleInit(exp_ezsp_min_version, LibPart(commands)) /\ Queue(commands')
  <2>1. PICK x : x = [cmd |-> "VERSION", version |-> exp_ezsp_min_version]
    OBVIOUS
  <2>2. x.cmd \in LibCmds
    BY <2>1 DEF LibCmds
  <2> QED BY <2>1, <2>2, LibAdded DEF L!DongleInit, Lib!DongleInit
<1>2. UNCHANGED commands => UNCHANGED LibPart(commands) /\ Queue(commands')
  BY DEF LibPart
<1> QED BY <1>1, <1>2
       DEF L!HandleDongleReady, Lib!HandleDongleReady, L!scanVars, Lib!scanVars,
           L!historyVars, Lib!historyVars, L!Happens, Lib!Happens

LEMMA LibHandleStackStatus ==
  ASSUME Queue(commands), L!HandleStackStatus
  PROVE  Lib!HandleStackStatus /\ Queue(commands')
<1>1. Lib!Handling("STACK_STATUS_HANDLER")
  BY DEF L!HandleStackStatus, L!Handling, Lib!Handling
<1>2. commands' = commands \o <<L!Cmd("GP_SINK_TABLE_INIT"), L!Cmd("GET_NETWORK_PARAMETERS")>>
        => /\ LibPart(commands)'
                = LibPart(commands) \o <<Lib!Cmd("GP_SINK_TABLE_INIT"),
                                         Lib!Cmd("GET_NETWORK_PARAMETERS")>>
           /\ Queue(commands')
  BY LibAdded, LibSendsOwn, SameDefinitions
<1>3. \A c \in L!PlainCmds :
        commands' = Append(commands, L!Cmd(c))
          => LibPart(commands)' = Append(LibPart(commands), Lib!Cmd(c)) /\ Queue(commands')
  BY LibAdded, SameDefinitions DEF L!Cmd, LibCmds
<1>4. UNCHANGED commands => UNCHANGED LibPart(commands) /\ Queue(commands')
  BY DEF LibPart
<1>5. "GET_NETWORK_PARAMETERS" \in L!PlainCmds /\ "NETWORK_STATE" \in L!PlainCmds
  BY DEF L!PlainCmds
<1> QED BY <1>1, <1>2, <1>3, <1>4, <1>5
       DEF L!HandleStackStatus, Lib!HandleStackStatus, L!scanVars, Lib!scanVars,
           L!initVars, Lib!initVars, L!Happens, Lib!Happens, L!KeepNetwork, Lib!KeepNetwork

(* Steps that leave the queue alone.                                         *)
LEMMA LibAside ==
  ASSUME Queue(commands)
  PROVE  /\ L!Start => Lib!Start /\ UNCHANGED commands
         /\ L!HandleScanResult => Lib!HandleScanResult /\ UNCHANGED commands
         /\ L!HandleScanComplete => Lib!HandleScanComplete /\ UNCHANGED commands
         /\ L!HandleXmodemReady => Lib!HandleXmodemReady /\ UNCHANGED commands
         /\ L!AdapterScans => Lib!AdapterScans /\ UNCHANGED commands
         /\ L!StartScan("energy") => Lib!StartScan("energy") /\ UNCHANGED commands
<1> USE DEF L!scanVars, Lib!scanVars, L!initVars, Lib!initVars, L!historyVars, Lib!historyVars
<1>0. UNCHANGED commands => UNCHANGED LibPart(commands)
  BY DEF LibPart
<1>1. L!Start => Lib!Start /\ UNCHANGED commands
  BY <1>0 DEF L!Start, Lib!Start
<1>2. L!HandleScanResult => Lib!HandleScanResult /\ UNCHANGED commands
  BY <1>0 DEF L!HandleScanResult, Lib!HandleScanResult, L!Handling, Lib!Handling
<1>3. L!HandleScanComplete => Lib!HandleScanComplete /\ UNCHANGED commands
  BY <1>0 DEF L!HandleScanComplete, Lib!HandleScanComplete, L!Handling, Lib!Handling,
              L!AwaitsScan, Lib!AwaitsScan
<1>4. L!HandleXmodemReady => Lib!HandleXmodemReady /\ UNCHANGED commands
  BY <1>0 DEF L!HandleXmodemReady, Lib!HandleXmodemReady
<1>5. L!AdapterScans => Lib!AdapterScans /\ UNCHANGED commands
  BY <1>0 DEF L!AdapterScans, Lib!AdapterScans, L!NoRequest, Lib!NoRequest, L!ScanEvent,
              Lib!ScanEvent
<1>6. L!StartScan("energy") => Lib!StartScan("energy") /\ UNCHANGED commands
  BY <1>0 DEF L!StartScan, Lib!StartScan, L!Request, Lib!Request, L!ScanBusy, Lib!ScanBusy,
              L!Happens, Lib!Happens, L!Note, Lib!Note, L!ToldReady, Lib!ToldReady,
              L!InCallback, Lib!InCallback
<1> QED BY <1>1, <1>2, <1>3, <1>4, <1>5, <1>6

LEMMA LibAdapterLeaves ==
  ASSUME Queue(commands), L!AdapterLeaves
  PROVE  Lib!AdapterLeaves /\ UNCHANGED commands
<1>1. commands # <<>> /\ Head(commands).cmd = "LEAVE_NETWORK"
  BY DEF L!AdapterLeaves
<1>2. LibPart(commands) # <<>> /\ Head(LibPart(commands)) = Head(commands)
  BY <1>1, LibAnswered DEF LibCmds, L!PlainCmds
<1> QED BY <1>1, <1>2 DEF L!AdapterLeaves, Lib!AdapterLeaves, LibPart, L!Status, Lib!Status,
  L!scanVars, Lib!scanVars, L!initVars, Lib!initVars, L!historyVars, Lib!historyVars

LEMMA LibReturn ==
  ASSUME Queue(commands), L!Return
  PROVE  Lib!Return /\ Queue(commands')
<1>1. UNCHANGED commands => UNCHANGED LibPart(commands) /\ Queue(commands')
  BY DEF LibPart
<1>2. \A k, i : commands' = Append(commands, [cmd |-> "START_SCAN", kind |-> k, scan |-> i])
        => /\ LibPart(commands)'
                = Append(LibPart(commands), [cmd |-> "START_SCAN", kind |-> k, scan |-> i])
           /\ Queue(commands')
  <2> TAKE k, i
  <2>1. PICK x : x = [cmd |-> "START_SCAN", kind |-> k, scan |-> i]
    OBVIOUS
  <2>2. x.cmd \in LibCmds
    BY <2>1 DEF LibCmds
  <2> QED BY <2>1, <2>2, LibAdded
<1>3. \A k, c, f : L!CallsBack(k, c, f) => Lib!CallsBack(k, c, f)
  <2> TAKE k, c, f
  <2>1. L!UnderWay(c[k]) <=> Lib!UnderWay(c[k])
    BY LibUnderWay
  <2> QED BY <2>1 DEF L!CallsBack, Lib!CallsBack, L!NoRequest, Lib!NoRequest
<1>4. /\ \A c : Lib!FirstToCall(c) = L!FirstToCall(c)
      /\ \A k : Lib!Forgotten(k) = L!Forgotten(k)
      /\ \A r : Lib!ReturnsFrom(r) = L!ReturnsFrom(r)
      /\ L!CalledKey => Lib!CalledKey
      /\ Lib!Kinds = L!Kinds /\ Lib!NoRequest = L!NoRequest
  BY DEF Lib!FirstToCall, L!FirstToCall, Lib!Forgotten, L!Forgotten, Lib!ReturnsFrom,
         L!ReturnsFrom, Lib!CalledKey, L!CalledKey, Lib!Kinds, L!Kinds, Lib!NoRequest, L!NoRequest
<1> QED BY <1>1, <1>2, <1>3, <1>4 DEF L!Return, Lib!Return, L!initVars, Lib!initVars

LEMMA LibAsked ==
  ASSUME Queue(commands)
  PROVE  /\ L!GetNetworkKey => Lib!GetNetworkKey /\ Queue(commands')
         /\ L!SetFirmwareUpgradeMode => Lib!SetFirmwareUpgradeMode /\ Queue(commands')
<1> USE DEF L!Request, Lib!Request, L!Happens, Lib!Happens, L!Note, Lib!Note, L!initVars,
  Lib!initVars, L!historyVars, Lib!historyVars
<1>1. \A c \in L!PlainCmds :
        commands' = Append(commands, L!Cmd(c))
          => LibPart(commands)' = Append(LibPart(commands), Lib!Cmd(c)) /\ Queue(commands')
  BY LibAdded, SameDefinitions DEF L!Cmd, LibCmds
<1>2. L!GetNetworkKey => Lib!GetNetworkKey /\ Queue(commands')
  BY <1>1 DEF L!GetNetworkKey, Lib!GetNetworkKey, L!NoRequest, Lib!NoRequest, L!PlainCmds
<1>3. L!SetFirmwareUpgradeMode => Lib!SetFirmwareUpgradeMode /\ Queue(commands')
  BY <1>1 DEF L!SetFirmwareUpgradeMode, Lib!SetFirmwareUpgradeMode, L!Initialised,
              Lib!Initialised, L!ToldReady, Lib!ToldReady, L!PlainCmds
<1> QED BY <1>2, <1>3

(* A turn of the sink: its commands are not the library's, and it makes the  *)
(* library READY only when it was busy.                                      *)
LEMMA SinkSendsOwn ==
  /\ \A c \in SinkCmds : \A d : LET s == <<S!DeviceCmd(c, d)>> IN Queue(s) /\ AllIn(SinkCmds, s)
  /\ \A c \in SinkCmds : \A i : LET s == <<S!IndexCmd(c, i)>> IN Queue(s) /\ AllIn(SinkCmds, s)
  /\ \A c \in SinkCmds : LET s == <<S!Cmd(c)>> IN Queue(s) /\ AllIn(SinkCmds, s)
  /\ \A i, d : LET s == <<S!SetEntry(i, d)>> IN Queue(s) /\ AllIn(SinkCmds, s)
  /\ \A s, t : Queue(s) /\ AllIn(SinkCmds, s) /\ Queue(t) /\ AllIn(SinkCmds, t)
                 => Queue(s \o t) /\ AllIn(SinkCmds, s \o t)
  /\ Queue(<<>>) /\ AllIn(SinkCmds, <<>>)
<1>1. ASSUME NEW x, x.cmd \in SinkCmds PROVE Queue(<<x>>) /\ AllIn(SinkCmds, <<x>>)
  BY <1>1, QueueFacts DEF AllIn
<1>2. ASSUME NEW s, NEW t, Queue(s), AllIn(SinkCmds, s), Queue(t), AllIn(SinkCmds, t)
      PROVE  Queue(s \o t) /\ AllIn(SinkCmds, s \o t)
  <2>1. PICK T : s \in Seq(T) /\ t \in Seq(T) /\ s \o t \in Seq(T)
    BY <1>2, QueueConcat
  <2>2. Len(s \o t) = Len(s) + Len(t) /\ Len(s) \in Nat /\ Len(t) \in Nat
    BY <2>1
  <2>3. \A i \in 1 .. Len(s \o t) : (s \o t)[i] = IF i <= Len(s) THEN s[i] ELSE t[i - Len(s)]
    BY <2>1
  <2>4. AllIn(SinkCmds, s \o t)
    BY <1>2, <2>2, <2>3 DEF AllIn
  <2> QED BY <2>1, <2>4 DEF Queue
<1>3. /\ \A c, d : S!DeviceCmd(c, d).cmd = c
      /\ \A c, i : S!IndexCmd(c, i).cmd = c
      /\ \A c : S!Cmd(c).cmd = c
      /\ \A i, d : S!SetEntry(i, d).cmd = "SINK_SET_ENTRY"
  BY DEF S!DeviceCmd, S!IndexCmd, S!Cmd, S!SetEntry
<1>4. "SINK_SET_ENTRY" \in SinkCmds
  BY DEF SinkCmds
<1>5. Queue(<<>>) /\ AllIn(SinkCmds, <<>>)
  BY QueueFacts DEF AllIn
<1> QED BY <1>1, <1>2, <1>3, <1>4, <1>5

Sinks == /\ \E t : Queue(t) /\ AllIn(SinkCmds, t) /\ S!Sends(t)
         /\ lib_state' = lib_state \/ (lib_state = "SINK_BUSY" /\ lib_state' = "READY")

LEMMA SinkSendsOnly ==
  ASSUME S!HandleEzspRxMessage
  PROVE  Sinks
<1>1. ASSUME NEW t, S!GoesOn(t) \/ S!Ends(t), Queue(t), AllIn(SinkCmds, t)
      PROVE  Sinks
  BY <1>1 DEF S!GoesOn, S!Ends, S!SetSinkState, Sinks
<1>2. {"FIND_OR_ALLOCATE_ENTRY", "SINK_LOOKUP", "PROXY_LOOKUP", "ADD_PAIRING", "REMOVE_PAIRING",
       "SINK_GET_ENTRY", "SINK_REMOVE_ENTRY", "PROXY_GET_ENTRY", "SEND_UNICAST"} \subseteq SinkCmds
  BY DEF SinkCmds, S!DeviceCmds, S!IndexCmds
<1>3. CASE S!FindOrAllocateAnswered
  BY <1>1, <1>2, <1>3, SinkSendsOwn DEF S!FindOrAllocateAnswered
<1>4. CASE S!GetEntryAnswered
  BY <1>1, <1>4, SinkSendsOwn DEF S!GetEntryAnswered
<1>5. CASE S!SetEntryAnswered
  BY <1>1, <1>2, <1>5, SinkSendsOwn DEF S!SetEntryAnswered
<1>6. CASE S!SinkLookupAnswered
  BY <1>1, <1>2, <1>6, SinkSendsOwn DEF S!SinkLookupAnswered
<1>7. CASE S!ProxyLookupAnswered
  <2>1. \A s, x : Queue(s) /\ AllIn(SinkCmds, s) /\ x.cmd \in SinkCmds =>
          Queue(Append(s, x)) /\ AllIn(SinkCmds, Append(s, x))
    <3> TAKE s, x
    <3>1. Queue(s) => Append(s, x) = s \o <<x>>
      BY QueueFacts
    <3>2. x.cmd \in SinkCmds => Queue(<<x>>) /\ AllIn(SinkCmds, <<x>>)
      BY QueueFacts DEF AllIn
    <3> QED BY <3>1, <3>2, SinkSendsOwn
  <2>2. \A d : S!DeviceCmd("SINK_LOOKUP", d).cmd \in SinkCmds
    BY <1>2 DEF S!DeviceCmd
  <2> QED BY <1>1, <1>2, <1>7, <2>1, <2>2, SinkSendsOwn DEF S!ProxyLookupAnswered
<1>8. CASE S!ProxyGetEntryAnswered
  BY <1>1, <1>2, <1>8, SinkSendsOwn DEF S!ProxyGetEntryAnswered
<1>9. CASE S!PairingAnswered
  BY <1>1, <1>2, <1>9, SinkSendsOwn DEF S!PairingAnswered, S!RegistersNext
<1>10. CASE S!OtherAnswered
  BY <1>1, <1>10, SinkSendsOwn DEF S!OtherAnswered
<1> QED BY <1>3, <1>4, <1>5, <1>6, <1>7, <1>8, <1>9, <1>10 DEF S!HandleEzspRxMessage

LibStep == [Lib!Next \/ Lib!SinkTurn]_(Lib!vars)

LEMMA LibSteps ==
  \/ Lib!Start \/ Lib!HandleDongleReady \/ Lib!ResponseHandled \/ Lib!HandleStackStatus
  \/ Lib!HandleScanResult \/ Lib!HandleScanComplete \/ Lib!HandleXmodemReady \/ Lib!Return
  \/ Lib!AdapterLeaves \/ Lib!AdapterScans \/ Lib!StartScan("energy") \/ Lib!GetNetworkKey
  \/ Lib!SetFirmwareUpgradeMode \/ Lib!SinkTurn
  => LibStep
BY DEF LibStep, Lib!Next, Lib!Goes, Lib!HandleEzspRxMessage, Lib!UserRequests, Lib!Kinds

LEMMA LibIdles ==
  ASSUME UNCHANGED <<lib_state, libVars>>, UNCHANGED LibPart(commands)
  PROVE  LibStep
BY DEF LibStep, libVars, Lib!vars, Lib!initVars, Lib!scanVars, Lib!historyVars

(* Commands of the sink are added, or one is executed.                       *)
LEMMA LibPartStays ==
  ASSUME Queue(commands), NEW t, Queue(t), AllIn(SinkCmds, t),
         \/ commands' = commands \o t
         \/ commands # <<>> /\ Head(commands).cmd \in SinkCmds /\ commands' = Tail(commands) \o t
  PROVE  UNCHANGED LibPart(commands) /\ Queue(commands')
<1>1. NoneIn(LibCmds, t)
  BY WhoseCmds DEF AllIn, NoneIn
<1>2. CASE commands' = commands \o t
  BY <1>1, <1>2, LibAdded
<1>3. CASE commands # <<>> /\ Head(commands).cmd \in SinkCmds /\ commands' = Tail(commands) \o t
  <2>1. Queue(Tail(commands))
    BY <1>3, QueueFacts
  <2>2. Queue(Tail(commands) \o t)
    BY <2>1, QueueFacts
  <2>3. Part(LibCmds, Tail(commands) \o t) = Part(LibCmds, commands)
    BY <1>1, <1>3, PartSends, WhoseCmds
  <2> QED BY <1>3, <2>2, <2>3 DEF LibPart
<1> QED BY <1>2, <1>3

LEMMA SinkRequestStep ==
  ASSUME Queue(commands), L!SinkRequested, NEW t, Queue(t), AllIn(SinkCmds, t),
         commands' = commands \o t, Lib!LibInvariant
  PROVE  LibStep /\ Queue(commands')
<1>1. UNCHANGED LibPart(commands) /\ Queue(commands')
  BY LibPartStays
<1>2. libOps' \in 0 .. MaxOps
  BY ExampleAssumption DEF L!SinkRequested, L!Request, Lib!LibInvariant, Lib!TypeOK,
                           L!LibAssumption
<1>3. Lib!SinkTurn
  BY <1>1, <1>2 DEF L!SinkRequested, L!Request, Lib!SinkTurn, L!initVars, Lib!initVars,
                    L!historyVars, Lib!historyVars, Lib!scanVars
<1> QED BY <1>1, <1>3, LibSteps

(* What the sink is asked for.                                               *)
LEMMA SinkRequestSends ==
  ASSUME \/ S!ClearAllGPDevices
         \/ \E list : S!RemoveGPDevices(list) \/ S!AddGPDevices(list)
         \/ S!OpenCommissioningSession /\ Queue(commands)
         \/ \E d : S!CommissioningFrame(d) /\ Queue(commands)
  PROVE  \E t : Queue(t) /\ AllIn(SinkCmds, t) /\ commands' = commands \o t
<1>1. {"SINK_CLEAR_ALL", "PROXY_GET_ENTRY", "FIND_OR_ALLOCATE_ENTRY", "SINK_LOOKUP", "SEND_UNICAST"}
        \subseteq SinkCmds
  BY DEF SinkCmds, S!DeviceCmds, S!IndexCmds
<1>2. ASSUME S!ClearAllGPDevices
      PROVE  \E t : Queue(t) /\ AllIn(SinkCmds, t) /\ commands' = commands \o t
  <2>1. PICK x, y : x = S!Cmd("SINK_CLEAR_ALL") /\ y = S!IndexCmd("PROXY_GET_ENTRY", 0)
    OBVIOUS
  <2>2. Queue(<<x, y>>) /\ AllIn(SinkCmds, <<x, y>>)
    BY <1>1, <2>1, QueueFacts DEF AllIn, S!Cmd, S!IndexCmd
  <2> QED BY <1>2, <2>1, <2>2 DEF S!ClearAllGPDevices, S!RequestAccepted
<1>3. ASSUME NEW list, S!RemoveGPDevices(list) \/ S!AddGPDevices(list)
      PROVE  \E t : Queue(t) /\ AllIn(SinkCmds, t) /\ commands' = commands \o t
  <2>1. PICK t : /\ commands' = commands \o t
                 /\ \/ t = <<S!DeviceCmd("SINK_LOOKUP", Head(list))>>
                    \/ t = <<S!DeviceCmd("FIND_OR_ALLOCATE_ENTRY", Head(list))>>
    BY <1>3 DEF S!RemoveGPDevices, S!AddGPDevices, S!RequestAccepted
  <2>2. Queue(t) /\ AllIn(SinkCmds, t)
    BY <1>1, <2>1, SinkSendsOwn
  <2> QED BY <2>1, <2>2
<1>4. ASSUME NEW x, x.cmd \in SinkCmds, Queue(commands), commands' = Append(commands, x)
      PROVE  \E t : Queue(t) /\ AllIn(SinkCmds, t) /\ commands' = commands \o t
  <2>1. PICK t : t = <<x>>
    OBVIOUS
  <2>2. Queue(t) /\ AllIn(SinkCmds, t)
    BY <1>4, <2>1, QueueFacts DEF AllIn
  <2>3. commands' = commands \o t
    BY <1>4, <2>1, QueueFacts
  <2> QED BY <2>2, <2>3
<1>5. ASSUME S!OpenCommissioningSession, Queue(commands)
      PROVE  \E t : Queue(t) /\ AllIn(SinkCmds, t) /\ commands' = commands \o t
  BY <1>1, <1>4, <1>5 DEF S!OpenCommissioningSession, S!Cmd
<1>6. ASSUME NEW d, S!CommissioningFrame(d), Queue(commands)
      PROVE  \E t : Queue(t) /\ AllIn(SinkCmds, t) /\ commands' = commands \o t
  BY <1>1, <1>4, <1>6 DEF S!CommissioningFrame, S!DeviceCmd
<1> QED BY <1>2, <1>3, <1>5, <1>6

LEMMA TheLibraryKeeps ==
  ASSUME Queue(commands), Lib!LibInvariant, ExampleNext
  PROVE  LibStep /\ Queue(commands')
<1>1. CASE AnswerLib
  BY <1>1, LibResponseHandled, LibSteps DEF AnswerLib, LibHandles
<1>2. CASE AnswerSink
  <2>1. PICK t : Queue(t) /\ AllIn(SinkCmds, t) /\ S!Sends(t)
    BY <1>2, SinkSendsOnly DEF AnswerSink, Sinks
  <2>2. UNCHANGED LibPart(commands) /\ Queue(commands')
    BY <1>2, <2>1, LibPartStays DEF AnswerSink, S!Sends
  <2>3. CASE lib_state' = lib_state
    BY <1>2, <2>2, <2>3, LibIdles DEF AnswerSink
  <2>4. CASE lib_state = "SINK_BUSY" /\ lib_state' = "READY"
    <3>1. Lib!TypeOK
      BY DEF Lib!LibInvariant
    <3>2. UNCHANGED libVars
      BY <1>2 DEF AnswerSink
    <3>3. Lib!SinkTurn
      BY <2>2, <2>4, <3>1, <3>2 DEF Lib!SinkTurn, Lib!TypeOK, libVars, Lib!initVars, Lib!scanVars,
                                    Lib!historyVars
    <3> QED BY <2>2, <3>3, LibSteps
  <2> QED BY <1>2, <2>3, <2>4, <2>2, SinkSendsOnly DEF AnswerSink, Sinks
<1>3. CASE AnswerBoth
  <2>1. L!PlainAnswered
    BY <1>3 DEF AnswerBoth
  <2> QED BY <2>1, LibPlainAnswered, LibSteps DEF Lib!ResponseHandled
<1>4. CASE EventHandled
  BY <1>4, LibHandleStackStatus, LibHandleDongleReady, LibAside, LibSteps
  DEF EventHandled, StatusHandled, LibHandles
<1>5. CASE Resumes
  BY <1>5, LibReturn, LibSteps DEF Resumes, LibHandles
<1>6. CASE Upgrades
  BY <1>6, LibAsked, LibSteps DEF Upgrades
<1>7. CASE RemovesAll \/ Removes \/ Adds
  <2>1. /\ L!SinkRequested
        /\ S!ClearAllGPDevices \/ \E list : S!RemoveGPDevices(list) \/ S!AddGPDevices(list)
    BY <1>7 DEF RemovesAll, Removes, Adds, Requests
  <2> QED BY <2>1, SinkRequestSends, SinkRequestStep
<1>8. CASE OpensWindows
  <2>1. UNCHANGED libVars
    BY <1>8 DEF OpensWindows
  <2>2. CASE S!OpenCommissioningSession
    <3>1. PICK t : Queue(t) /\ AllIn(SinkCmds, t) /\ commands' = commands \o t
      BY <2>2, SinkRequestSends
    <3>2. UNCHANGED lib_state
      BY <2>2 DEF S!OpenCommissioningSession, S!SetSinkState
    <3> QED BY <2>1, <3>1, <3>2, LibPartStays, LibIdles
  <2>3. CASE UNCHANGED <<lib_state, commands>>
    BY <2>1, <2>3, LibIdles DEF LibPart
  <2> QED BY <1>8, <2>2, <2>3 DEF OpensWindows
<1>9. CASE ScansChannels
  BY <1>9, LibAside, LibSteps DEF ScansChannels
<1>10. CASE Ignores \/ EzspRun \/ WindowCloses \/ MainWaits \/ Interrupted
  <2>1. UNCHANGED <<lib_state, libVars>> /\ UNCHANGED commands
    BY <1>10 DEF Ignores, EzspRun, WindowCloses, MainWaits, Interrupted
  <2> QED BY <2>1, LibIdles DEF LibPart
<1>11. CASE EzspInitDone
  <2>1. CASE L!GetNetworkKey
    BY <2>1, LibAsked, LibSteps
  <2>2. CASE UNCHANGED <<lib_state, commands, libVars>>
    BY <2>2, LibIdles DEF LibPart
  <2> QED BY <1>11, <2>1, <2>2 DEF EzspInitDone
<1>12. CASE Reported
  <2>1. CASE L!AdapterLeaves \/ L!AdapterScans
    BY <2>1, LibAdapterLeaves, LibAside, LibSteps
  <2>2. ASSUME NEW d, S!CommissioningFrame(d), UNCHANGED libVars
        PROVE  LibStep /\ Queue(commands')
    <3>1. PICK t : Queue(t) /\ AllIn(SinkCmds, t) /\ commands' = commands \o t
      BY <2>2, SinkRequestSends
    <3>2. UNCHANGED lib_state
      BY <2>2 DEF S!CommissioningFrame, S!SetSinkState
    <3> QED BY <2>2, <3>1, <3>2, LibPartStays, LibIdles
  <2> QED BY <1>12, <2>1, <2>2 DEF Reported
<1>13. CASE MainStarts
  BY <1>13, LibAside, LibReturn, LibSteps DEF MainStarts
<1> QED BY <1>1, <1>2, <1>3, <1>4, <1>5, <1>6, <1>7, <1>8, <1>9, <1>10, <1>11, <1>12, <1>13
       DEF ExampleNext, Goes, CallbackRuns

(* Where the program is, and what the library and the sink may do there.     *)
BeforeScan == {"INIT_PENDING", "REMOVE_ALL_GPD", "REMOVE_SPECIFIC_GPD", "ADD_GPD", "FW_UPGRADE"}
Waiting == {"REMOVE_ALL_GPD", "REMOVE_SPECIFIC_GPD", "ADD_GPD"}
Starting == {<<>>, <<[rest |-> "start"]>>}

SameChannel(s) ==
  \A i \in 1 .. Len(s) :
    s[i].event = "STACK_STATUS_HANDLER" => s[i].status # "CHANNEL_CHANGED"

ScanEvents == {"SCAN_RESULT_HANDLER", "SCAN_COMPLETE_HANDLER"}
NoScan(s) == \A i \in 1 .. Len(s) : s[i].event \notin ScanEvents

(* The library was never taken out of its states, nor asked for what only    *)
(* other users ask.                                                          *)
Asked ==
  /\ {"drops", "earlyScan"} \cap libMishaps = {}
  /\ NoneIn({"SINK_WORK", "SET_RADIO_CHANNEL"}, commands)
  /\ SameChannel(events)

(* The program is called back where it expects it.                           *)
Called ==
  /\ mainThread = "starts" =>
       /\ lib_state = "UNINITIALIZED" /\ currentState = "INIT_PENDING"
       /\ callback = "none" /\ running \in Starting
  /\ callback \in {"ready", "scan"} => lib_state \in {"READY", "SCANNING"}
  /\ callback = "scan" => currentState = "SCAN_CHANNELS"
  /\ currentState \in BeforeScan =>
       /\ running \in Starting /\ callback \in {"none", "ready"}
       /\ lib_state # "SCANNING" /\ networkKeyCallback = L!NoRequest
  /\ lib_state = "SINK_BUSY" => currentState \in Waiting
  /\ lib_state = "SWITCHING_TO_BOOTLOADER_MODE" \/ upgrading => currentState = "FW_UPGRADE"

SinkFirst ==
  lib_state \in {"READY", "SINK_BUSY", "SCANNING"} => sink_state # "SINK_NOT_INIT"

Lists ==
  /\ options \in Options
  /\ gpdRemoveList \in {<<>>, options.remove} /\ gpdAddList \in {<<>>, options.add}

Control == Asked /\ Called /\ SinkFirst /\ Lists

LEMMA NoneInMore ==
  ASSUME NEW C, NEW s, NEW t, Queue(s), Queue(t), NoneIn(C, s), NoneIn(C, t)
  PROVE  NoneIn(C, s \o t) /\ (s # <<>> => NoneIn(C, Tail(s) \o t))
<1>1. PICK T : s \in Seq(T) /\ t \in Seq(T)
  BY QueueConcat
<1>2. /\ Len(s) \in Nat /\ Len(t) \in Nat /\ Len(s \o t) = Len(s) + Len(t)
      /\ \A i \in 1 .. Len(s \o t) : (s \o t)[i] = IF i <= Len(s) THEN s[i] ELSE t[i - Len(s)]
  BY <1>1
<1>3. NoneIn(C, s \o t)
  BY <1>2 DEF NoneIn
<1>4. ASSUME s # <<>> PROVE NoneIn(C, Tail(s) \o t)
  BY <1>1, <1>2, <1>4, TailConcat DEF NoneIn
<1> QED BY <1>3, <1>4

LEMMA SameChannelMore ==
  ASSUME NEW T, NEW s \in Seq(T), NEW t \in Seq(T), SameChannel(s), SameChannel(t)
  PROVE  SameChannel(s \o t) /\ (s # <<>> => SameChannel(Tail(s)))
<1>1. /\ Len(s) \in Nat /\ Len(t) \in Nat /\ Len(s \o t) = Len(s) + Len(t)
      /\ \A i \in 1 .. Len(s \o t) : (s \o t)[i] = IF i <= Len(s) THEN s[i] ELSE t[i - Len(s)]
  OBVIOUS
<1>2. SameChannel(s \o t)
  BY <1>1 DEF SameChannel
<1>3. s # <<>> => SameChannel(Tail(s))
  BY SeqFacts DEF SameChannel
<1> QED BY <1>2, <1>3

(* What the library sends when a response is handled: nothing of the sink.   *)
OthersCmds == SinkCmds \cup BothCmds \cup {"SINK_WORK", "SET_RADIO_CHANNEL"}

NotSent == OthersCmds \cup {"START_SCAN"}

LEMMA LibResponseSends ==
  ASSUME L!ResponseHandled, Queue(commands)
  PROVE  \E t : Queue(t) /\ NoneIn(NotSent, t) /\ L!Sends(t)
<1> USE DEF NoneIn
<1>1. /\ {"GET_XNCP_INFO", "SET_CONFIGURATION_VALUE", "NETWORK_INIT", "NETWORK_STATE",
          "LEAVE_NETWORK", "SET_POLICY", "SET_INITIAL_SECURITY_STATE", "VERSION", "ADD_ENDPOINT",
          "FORM_NETWORK"} \cap NotSent = {}
  BY DEF NotSent, OthersCmds, SinkCmds, BothCmds, S!DeviceCmds, S!IndexCmds
<1>2. ASSUME NEW x, x.cmd \notin NotSent PROVE Queue(<<x>>) /\ NoneIn(NotSent, <<x>>)
  BY <1>2, QueueFacts
<1>3. ASSUME NEW x, NEW y, x.cmd \notin NotSent, y.cmd \notin NotSent
      PROVE  Queue(<<x, y>>) /\ NoneIn(NotSent, <<x, y>>)
  BY <1>3, QueueFacts
<1>4. ASSUME NEW x, NEW y, NEW z, x.cmd \notin NotSent, y.cmd \notin NotSent,
             z.cmd \notin NotSent
      PROVE  Queue(<<x, y, z>>) /\ NoneIn(NotSent, <<x, y, z>>)
  <2>1. <<x, y, z>> \in Seq({x, y, z}) /\ Len(<<x, y, z>>) = 3
    OBVIOUS
  <2>2. \A i \in 1 .. 3 : <<x, y, z>>[i] \in {x, y, z}
    OBVIOUS
  <2> QED BY <1>4, <2>1, <2>2 DEF Queue
<1>5. Queue(<<>>) /\ NoneIn(NotSent, <<>>)
  BY QueueFacts
<1> HIDE DEF NoneIn
<1>6. \A c : L!Cmd(c).cmd = c /\ L!AddEndpoint(c).cmd = "ADD_ENDPOINT"
  BY DEF L!Cmd, L!AddEndpoint
<1>7. CASE L!VersionAnswered
  <2>1. CASE L!DongleInit(adapter.version, Tail(commands))
    <3>1. PICK x : x = [cmd |-> "VERSION", version |-> adapter.version]
      OBVIOUS
    <3>2. Queue(Tail(commands))
      BY <1>7, QueueFacts DEF L!VersionAnswered, L!Answered
    <3>3. commands' = Tail(commands) \o <<x>>
      BY <2>1, <3>1, <3>2, QueueFacts DEF L!DongleInit
    <3>4. x.cmd = "VERSION"
      BY <3>1
    <3> QED BY <1>1, <1>2, <3>3, <3>4 DEF L!Sends
  <2> QED BY <1>1, <1>2, <1>5, <1>6, <1>7, <2>1 DEF L!VersionAnswered
<1>8. CASE L!PlainAnswered
  BY <1>1, <1>2, <1>5, <1>6, <1>8 DEF L!PlainAnswered, L!NextCommand
<1>9. CASE L!NetworkStateAnswered
  BY <1>1, <1>2, <1>3, <1>5, <1>6, <1>9 DEF L!NetworkStateAnswered
<1>10. CASE L!SecurityStateAnswered
  <2>1. PICK x : x = [cmd |-> "FORM_NETWORK", channel |-> form_channel]
    OBVIOUS
  <2>2. x.cmd = "FORM_NETWORK"
    BY <2>1
  <2> QED BY <1>1, <1>2, <1>5, <1>10, <2>1, <2>2 DEF L!SecurityStateAnswered
<1>11. CASE L!XncpInfoAnswered
  BY <1>1, <1>4, <1>6, <1>11 DEF L!XncpInfoAnswered
<1>12. CASE L!FormNetworkAnswered \/ L!LeaveNetworkAnswered \/ L!SinkWorkAnswered
            \/ L!LaunchAnswered \/ L!StartScanAnswered \/ L!GetKeyAnswered
  BY <1>5, <1>12 DEF L!FormNetworkAnswered, L!LeaveNetworkAnswered, L!SinkWorkAnswered,
     L!LaunchAnswered, L!StartScanAnswered, L!GetKeyAnswered
<1> QED BY <1>7, <1>8, <1>9, <1>10, <1>11, <1>12 DEF L!ResponseHandled

(* What else a response changes, that the program may notice.                *)
LEMMA LibResponseMoves ==
  ASSUME L!ResponseHandled, NoneIn({"SINK_WORK", "SET_RADIO_CHANNEL"}, commands), Queue(commands),
         Lib!TypeOK
  PROVE  /\ lib_state' # lib_state =>
              lib_state' \notin {"READY", "SINK_BUSY", "SCANNING", "SWITCHING_TO_BOOTLOADER_MODE"}
         /\ running' = running \/ networkKeyCallback # L!NoRequest
         /\ upgrading' => upgrading \/ lib_state = "SWITCHING_TO_BOOTLOADER_MODE"
         /\ UNCHANGED networkKeyCallback
         /\ {"drops", "earlyScan"} \cap libMishaps' \subseteq libMishaps
         /\ \E u \in Seq(Lib!Events) : SameChannel(u) /\ NoScan(u) /\ events' = events \o u
         /\ adapter'.scan = adapter.scan \/ L!StartScanAnswered
<1>1. commands # <<>> /\ Head(commands).cmd \notin {"SINK_WORK", "SET_RADIO_CHANNEL"}
  <2>1. commands # <<>>
    BY DEF L!ResponseHandled, L!VersionAnswered, L!XncpInfoAnswered, L!PlainAnswered,
       L!NetworkStateAnswered, L!SecurityStateAnswered, L!FormNetworkAnswered,
       L!LeaveNetworkAnswered, L!SinkWorkAnswered, L!LaunchAnswered, L!StartScanAnswered,
       L!GetKeyAnswered, L!Answered
  <2>2. 1 \in 1 .. Len(commands) /\ Head(commands) = commands[1]
    BY <2>1, SeqFacts DEF Queue
  <2> QED BY <2>1, <2>2 DEF NoneIn
<1>2. ASSUME UNCHANGED events
      PROVE  \E u \in Seq(Lib!Events) : SameChannel(u) /\ NoScan(u) /\ events' = events \o u
  <2>1. events \in Seq(Lib!Events)
    BY DEF Lib!TypeOK
  <2>2. events \o <<>> = events /\ <<>> \in Seq(Lib!Events) /\ SameChannel(<<>>) /\ NoScan(<<>>)
    BY <2>1 DEF SameChannel, NoScan
  <2> QED BY <1>2, <2>2
<1>3. ASSUME events' = events \o <<L!Status("NETWORK_UP")>>
      PROVE  \E u \in Seq(Lib!Events) : SameChannel(u) /\ NoScan(u) /\ events' = events \o u
  <2>1. PICK e : e = L!Status("NETWORK_UP")
    OBVIOUS
  <2>2. e \in Lib!Events /\ e.event = "STACK_STATUS_HANDLER" /\ e.status # "CHANNEL_CHANGED"
    BY <2>1 DEF L!Status, Lib!Events
  <2>3. <<e>> \in Seq(Lib!Events) /\ SameChannel(<<e>>) /\ NoScan(<<e>>)
    BY <2>2 DEF SameChannel, NoScan, ScanEvents
  <2> QED BY <1>3, <2>1, <2>3
<1>4. events' = Append(events, L!Status("NETWORK_UP")) => events' = events \o <<L!Status("NETWORK_UP")>>
  BY QueueFacts DEF Lib!TypeOK, Queue
<1>5. events \o <<>> = events
  BY DEF Lib!TypeOK
<1>17. /\ [adapter EXCEPT !.up = TRUE].scan = adapter.scan
       /\ [adapter EXCEPT !.app = FALSE].scan = adapter.scan
       /\ \A c : [adapter EXCEPT !.network = "formed", !.up = TRUE, !.channel = c].scan = adapter.scan
  BY DEF Lib!TypeOK, Lib!Adapters
<1> USE <1>17 DEF L!Answered, L!Happens, L!initVars, L!scanVars
<1>6. CASE L!VersionAnswered
  BY <1>2, <1>6 DEF L!VersionAnswered, L!DongleInit
<1>7. CASE L!XncpInfoAnswered
  BY <1>2, <1>7 DEF L!XncpInfoAnswered
<1>8. CASE L!PlainAnswered
  BY <1>1, <1>2, <1>3, <1>5, <1>8 DEF L!PlainAnswered
<1>9. CASE L!NetworkStateAnswered
  BY <1>2, <1>9 DEF L!NetworkStateAnswered
<1>10. CASE L!SecurityStateAnswered
  BY <1>2, <1>10 DEF L!SecurityStateAnswered
<1>11. CASE L!FormNetworkAnswered
  BY <1>2, <1>3, <1>4, <1>11 DEF L!FormNetworkAnswered
<1>12. CASE L!LeaveNetworkAnswered
  BY <1>2, <1>12 DEF L!LeaveNetworkAnswered
<1>13. CASE L!SinkWorkAnswered
  BY <1>1, <1>13 DEF L!SinkWorkAnswered
<1>14. CASE L!LaunchAnswered
  BY <1>2, <1>14 DEF L!LaunchAnswered
<1>15. CASE L!StartScanAnswered
  BY <1>2, <1>15 DEF L!StartScanAnswered
<1>16. CASE L!GetKeyAnswered
  BY <1>2, <1>16 DEF L!GetKeyAnswered
<1> QED BY <1>6, <1>7, <1>8, <1>9, <1>10, <1>11, <1>12, <1>13, <1>14, <1>15, <1>16
       DEF L!ResponseHandled

LEMMA LibStarts ==
  ASSUME ExampleInit(Options)
  PROVE  Lib!Init /\ Lib!LibAssumption
<1>1. L!Init /\ commands = <<>>
  BY DEF ExampleInit, L!Init
<1>2. LibPart(commands) = <<>>
  BY <1>1, PartEmpty DEF LibPart
<1>3. Lib!Init
  BY <1>1, <1>2 DEF L!Init, Lib!Init, L!KeepNetwork, Lib!KeepNetwork, L!OnlyLeave, Lib!OnlyLeave,
                    L!MinVersion, Lib!MinVersion, L!DefaultChannel, Lib!DefaultChannel,
                    L!NoRequest, Lib!NoRequest, L!Kinds, Lib!Kinds
<1>4. Lib!LibAssumption
  BY ExampleAssumption DEF L!LibAssumption, Lib!LibAssumption, L!Mishaps, Lib!Mishaps
<1> QED BY <1>3, <1>4

LEMMA ControlInit ==
  ASSUME ExampleInit(Options)
  PROVE  Queue(commands) /\ Lib!LibInvariant /\ Control
<1>1. L!Init /\ S!SinkInit
  BY DEF ExampleInit
<1>2. commands = <<>> /\ events = <<>> /\ libMishaps \subseteq {"wrongType"}
  BY <1>1 DEF L!Init
<1>3. Queue(commands)
  BY <1>2, QueueFacts
<1>4. Lib!LibInvariant
  BY LibStarts, Lib!LibInvariantInit
<1>5. Control
  BY <1>1, <1>2 DEF ExampleInit, L!Init, S!SinkInit, Control, Asked, Called, SinkFirst, Lists,
     NoneIn, SameChannel, Starting, BeforeScan, L!NoRequest
<1> QED BY <1>3, <1>4, <1>5

LEMMA LibInvariantHolds ==
  ASSUME Queue(commands), Lib!LibInvariant, [ExampleNext]_exampleVars
  PROVE  Queue(commands') /\ Lib!LibInvariant'
<1>1. Lib!LibAssumption
  BY ExampleAssumption DEF L!LibAssumption, Lib!LibAssumption, L!Mishaps, Lib!Mishaps
<1>2. LibStep /\ Queue(commands')
  <2>1. CASE UNCHANGED exampleVars
    BY <2>1, LibIdles DEF exampleVars, LibPart
  <2> QED BY <2>1, TheLibraryKeeps
<1> QED BY <1>1, <1>2, Lib!LibInvariantStep DEF LibStep

(* What a step of the library adds to the queue and to the reports.          *)
Adds1(C) ==
  \E t : /\ Queue(t) /\ NoneIn(C, t)
         /\ commands' = commands \o t \/ (commands # <<>> /\ commands' = Tail(commands) \o t)

LEMMA Adding ==
  ASSUME Queue(commands)
  PROVE  /\ \A C : UNCHANGED commands => Adds1(C)
         /\ \A C, x : commands' = Append(commands, x) /\ x.cmd \notin C => Adds1(C)
         /\ \A C, D : NoneIn(D, commands) /\ Adds1(C) /\ D \subseteq C => NoneIn(D, commands')
<1>1. ASSUME NEW C, UNCHANGED commands PROVE Adds1(C)
  <2>1. Queue(<<>>) /\ NoneIn(C, <<>>) /\ commands \o <<>> = commands
    BY QueueFacts DEF NoneIn, Queue
  <2> QED BY <1>1, <2>1 DEF Adds1
<1>2. ASSUME NEW C, NEW x, commands' = Append(commands, x), x.cmd \notin C PROVE Adds1(C)
  <2>1. PICK t : t = <<x>>
    OBVIOUS
  <2>2. Queue(t) /\ NoneIn(C, t)
    BY <1>2, <2>1, QueueFacts DEF NoneIn
  <2>3. commands' = commands \o t
    BY <1>2, <2>1, QueueFacts
  <2> QED BY <2>2, <2>3 DEF Adds1
<1>3. ASSUME NEW C, NEW D, NoneIn(D, commands), Adds1(C), D \subseteq C PROVE NoneIn(D, commands')
  <2>1. PICK t : /\ Queue(t) /\ NoneIn(C, t)
                 /\ \/ commands' = commands \o t
                    \/ (commands # <<>> /\ commands' = Tail(commands) \o t)
    BY <1>3 DEF Adds1
  <2>2. NoneIn(D, t)
    BY <1>3, <2>1 DEF NoneIn
  <2> QED BY <1>3, <2>1, <2>2, NoneInMore
<1> QED BY <1>1, <1>2, <1>3

(* Steps of the library that the sink has no part in.                        *)
NetworkComesUp ==
  /\ lib_state # "LEAVE_NWK_IN_PROGRESS" /\ resetDot154ChannelAtInit = L!KeepNetwork
  /\ Head(events).status = "NETWORK_UP"

LibraryActs ==
  \/ AnswerLib \/ Resumes \/ Upgrades \/ ScansChannels \/ EzspInitDone \/ MainStarts
  \/ StatusHandled /\ ~NetworkComesUp
  \/ LibHandles(L!HandleDongleReady \/ L!HandleScanResult \/ L!HandleScanComplete
                \/ L!HandleXmodemReady)
  \/ /\ L!AdapterLeaves \/ L!AdapterScans
     /\ UNCHANGED <<sinkVars, options, fsmVars, callback, mainVars>>

(* What they do to the queue.                                                *)
AddsOwn ==
  \E t : /\ Queue(t) /\ NoneIn(OthersCmds, t)
         /\ \/ commands' = commands \o t
            \/ /\ commands # <<>> /\ Head(commands).cmd \notin SinkCmds \cup BothCmds
               /\ commands' = Tail(commands) \o t

LEMMA AddingOwn ==
  ASSUME Queue(commands)
  PROVE  /\ UNCHANGED commands => AddsOwn
         /\ \A x : commands' = Append(commands, x) /\ x.cmd \notin OthersCmds => AddsOwn
         /\ AddsOwn => Adds1(OthersCmds)
<1>1. ASSUME UNCHANGED commands PROVE AddsOwn
  <2>1. Queue(<<>>) /\ NoneIn(OthersCmds, <<>>) /\ commands \o <<>> = commands
    BY QueueFacts DEF NoneIn, Queue
  <2> QED BY <1>1, <2>1 DEF AddsOwn
<1>2. ASSUME NEW x, commands' = Append(commands, x), x.cmd \notin OthersCmds PROVE AddsOwn
  <2>1. PICK t : t = <<x>>
    OBVIOUS
  <2>2. Queue(t) /\ NoneIn(OthersCmds, t)
    BY <1>2, <2>1, QueueFacts DEF NoneIn
  <2>3. commands' = commands \o t
    BY <1>2, <2>1, QueueFacts
  <2> QED BY <2>2, <2>3 DEF AddsOwn
<1>3. AddsOwn => Adds1(OthersCmds)
  BY DEF AddsOwn, Adds1
<1> QED BY <1>1, <1>2, <1>3

LEMMA LibraryAddsOwn ==
  ASSUME Queue(commands), Asked, Lib!TypeOK, LibraryActs
  PROVE  AddsOwn
<1>0. {"NETWORK_STATE", "VERSION", "START_SCAN", "GET_KEY", "LAUNCH_STANDALONE_BOOTLOADER"}
        \cap OthersCmds = {}
  BY DEF OthersCmds, SinkCmds, BothCmds, S!DeviceCmds, S!IndexCmds
<1>1. CASE AnswerLib
  <2>1. PICK t : Queue(t) /\ NoneIn(NotSent, t) /\ L!Sends(t)
    BY <1>1, LibResponseSends DEF AnswerLib, LibHandles
  <2>2. NoneIn(OthersCmds, t)
    BY <2>1 DEF NoneIn, NotSent
  <2> QED BY <1>1, <2>1, <2>2 DEF AnswerLib, AddsOwn, L!Sends
<1>2. CASE StatusHandled /\ ~NetworkComesUp
  <2>1. Head(events).status # "CHANNEL_CHANGED"
    <3>1. events # <<>> /\ Head(events).event = "STACK_STATUS_HANDLER"
      BY <1>2 DEF StatusHandled, L!HandleStackStatus, L!Handling
    <3>2. 1 \in 1 .. Len(events) /\ Head(events) = events[1]
      BY <3>1, SeqFacts DEF Lib!TypeOK
    <3> QED BY <3>1, <3>2 DEF Asked, SameChannel
  <2>2. \/ UNCHANGED commands
        \/ commands' = Append(commands, L!Cmd("NETWORK_STATE"))
    BY <1>2, <2>1 DEF StatusHandled, NetworkComesUp, L!HandleStackStatus
  <2>3. L!Cmd("NETWORK_STATE").cmd = "NETWORK_STATE"
    BY DEF L!Cmd
  <2> QED BY <1>0, <2>2, <2>3, AddingOwn
<1>3. CASE LibHandles(L!HandleDongleReady \/ L!HandleScanResult \/ L!HandleScanComplete
                      \/ L!HandleXmodemReady)
  <2>1. \/ UNCHANGED commands
        \/ commands' = Append(commands, [cmd |-> "VERSION", version |-> exp_ezsp_min_version])
    BY <1>3 DEF LibHandles, L!HandleDongleReady, L!DongleInit, L!HandleScanResult,
       L!HandleScanComplete, L!HandleXmodemReady
  <2>2. PICK x : x = [cmd |-> "VERSION", version |-> exp_ezsp_min_version]
    OBVIOUS
  <2>3. x.cmd = "VERSION"
    BY <2>2
  <2> QED BY <1>0, <2>1, <2>2, <2>3, AddingOwn
<1>4. CASE L!Return
  <2>1. ASSUME NEW r, commands' = Append(commands, [cmd |-> "START_SCAN", kind |-> r.kind,
                                                    scan |-> r.scan])
        PROVE  AddsOwn
    <3>1. PICK x : x = [cmd |-> "START_SCAN", kind |-> r.kind, scan |-> r.scan]
      OBVIOUS
    <3>2. x.cmd = "START_SCAN"
      BY <3>1
    <3> QED BY <1>0, <2>1, <3>1, <3>2, AddingOwn
  <2> QED BY <1>4, <2>1, AddingOwn DEF L!Return
<1>5. CASE Upgrades \/ EzspInitDone
  <2>1. \/ UNCHANGED commands
        \/ \E c \in {"GET_KEY", "LAUNCH_STANDALONE_BOOTLOADER"} :
             commands' = Append(commands, L!Cmd(c))
    BY <1>5 DEF Upgrades, EzspInitDone, L!GetNetworkKey, L!SetFirmwareUpgradeMode
  <2>2. \A c : L!Cmd(c).cmd = c
    BY DEF L!Cmd
  <2> QED BY <1>0, <2>1, <2>2, AddingOwn
<1>6. CASE ScansChannels \/ L!Start \/ L!AdapterLeaves \/ L!AdapterScans
  BY <1>6, AddingOwn DEF ScansChannels, L!StartScan, L!Start, L!AdapterLeaves, L!AdapterScans
<1> QED BY <1>1, <1>2, <1>3, <1>4, <1>5, <1>6 DEF LibraryActs, Resumes, LibHandles, MainStarts

(* The reports, and what may not happen.                                     *)
LEMMA LibraryReports ==
  ASSUME Queue(commands), Asked, Lib!TypeOK, Called, LibraryActs
  PROVE  SameChannel(events') /\ {"drops", "earlyScan"} \cap libMishaps' = {}
<1>1. events \in Seq(Lib!Events) /\ SameChannel(events)
  BY DEF Lib!TypeOK, Asked
<1>2. events # <<>> => SameChannel(Tail(events))
  <2>1. <<>> \in Seq(Lib!Events) /\ SameChannel(<<>>)
    BY DEF SameChannel
  <2> QED BY <1>1, <2>1, SameChannelMore
<1>3. CASE AnswerLib
  <2>1. L!ResponseHandled
    BY <1>3 DEF AnswerLib, LibHandles
  <2>2. PICK u \in Seq(Lib!Events) : SameChannel(u) /\ events' = events \o u
    BY <2>1, LibResponseMoves DEF Asked
  <2> QED BY <1>1, <2>1, <2>2, LibResponseMoves, SameChannelMore DEF Asked
<1>4. CASE StatusHandled \/ L!HandleDongleReady \/ L!HandleScanResult \/ L!HandleScanComplete
  BY <1>2, <1>4 DEF StatusHandled, L!HandleStackStatus, L!Handling, L!HandleDongleReady,
     L!HandleScanResult, L!HandleScanComplete, L!Happens, Asked
<1>5. CASE L!HandleXmodemReady \/ L!Return \/ Upgrades \/ EzspInitDone
  BY <1>1, <1>5 DEF L!HandleXmodemReady, L!Return, Upgrades, EzspInitDone, libVars,
     L!GetNetworkKey, L!SetFirmwareUpgradeMode, L!Request, L!Happens, L!Note, Asked, L!historyVars
<1>6. CASE ScansChannels
  BY <1>1, <1>6 DEF ScansChannels, L!StartScan, L!Request, L!Happens, L!Note, Asked, Called,
     L!ToldReady
<1>7. CASE L!Start
  BY <1>7 DEF L!Start, SameChannel, Asked
<1>8. CASE L!AdapterLeaves
  <2>1. PICK e : e = L!Status("NETWORK_DOWN")
    OBVIOUS
  <2>2. e \in Lib!Events /\ e.status = "NETWORK_DOWN"
    BY <2>1 DEF L!Status, Lib!Events
  <2>3. <<e>> \in Seq(Lib!Events) /\ SameChannel(<<e>>) /\ Append(events, e) = events \o <<e>>
    BY <1>1, <2>2 DEF SameChannel
  <2>4. events' = events \o <<e>>
    BY <1>8, <2>1, <2>3 DEF L!AdapterLeaves
  <2> QED BY <1>1, <1>8, <2>3, <2>4, SameChannelMore DEF L!AdapterLeaves, Asked
<1>9. CASE L!AdapterScans
  <2>1. PICK e, f : /\ e = L!ScanEvent("SCAN_RESULT_HANDLER", adapter.kind, adapter.scan)
                    /\ f = L!ScanEvent("SCAN_COMPLETE_HANDLER", adapter.kind, adapter.scan)
    OBVIOUS
  <2>2. /\ e \in Lib!Events /\ e.event = "SCAN_RESULT_HANDLER"
        /\ f \in Lib!Events /\ f.event = "SCAN_COMPLETE_HANDLER"
    <3>1. adapter \in Lib!Adapters /\ adapter.scan # 0
      BY <1>9 DEF L!AdapterScans, Lib!TypeOK, L!NoRequest
    <3>2. adapter.kind \in Lib!Kinds /\ adapter.scan \in Lib!Requests
      BY <3>1, ExampleAssumption DEF Lib!Adapters, Lib!Requests, L!LibAssumption
    <3> QED BY <2>1, <3>2 DEF L!ScanEvent, Lib!Events
  <2>3. <<e, f>> \in Seq(Lib!Events) /\ SameChannel(<<e, f>>)
    BY <2>2 DEF SameChannel
  <2>4. events' = events \o <<e, f>>
    BY <1>9, <2>1 DEF L!AdapterScans
  <2> QED BY <1>1, <1>9, <2>3, <2>4, SameChannelMore DEF L!AdapterScans, Asked
<1> QED BY <1>3, <1>4, <1>5, <1>6, <1>7, <1>8, <1>9 DEF LibraryActs, Resumes, LibHandles, MainStarts

(* What the sink does to the queue.                                          *)
LEMMA SinkAdds ==
  ASSUME Queue(commands), NEW t, Queue(t), AllIn(SinkCmds, t),
         \/ commands' = commands \o t
         \/ commands # <<>> /\ commands' = Tail(commands) \o t,
         NoneIn({"SINK_WORK", "SET_RADIO_CHANNEL"}, commands)
  PROVE  NoneIn({"SINK_WORK", "SET_RADIO_CHANNEL"}, commands')
<1>1. {"SINK_WORK", "SET_RADIO_CHANNEL"} \cap SinkCmds = {}
  BY DEF SinkCmds, S!DeviceCmds, S!IndexCmds
<1>2. NoneIn({"SINK_WORK", "SET_RADIO_CHANNEL"}, t)
  BY <1>1 DEF AllIn, NoneIn
<1> QED BY <1>2, NoneInMore

LEMMA AskedStays ==
  ASSUME Queue(commands), Lib!TypeOK, Control, ExampleNext
  PROVE  Asked'
<1> DEFINE None == {"SINK_WORK", "SET_RADIO_CHANNEL"}
<1>0. Asked /\ Called /\ events \in Seq(Lib!Events) /\ SameChannel(events)
      /\ {"drops", "earlyScan"} \cap libMishaps = {} /\ NoneIn(None, commands)
  BY DEF Control, Lib!TypeOK, Asked
<1>1. CASE LibraryActs
  <2>1. NoneIn(None, commands')
    <3>1. Adds1(OthersCmds)
      BY <1>0, <1>1, LibraryAddsOwn, AddingOwn
    <3> QED BY <1>0, <3>1, Adding DEF OthersCmds
  <2> QED BY <1>0, <1>1, <2>1, LibraryReports DEF Asked
<1>2. CASE StatusHandled /\ NetworkComesUp
  <2>1. PICK x, y : /\ x = L!Cmd("GP_SINK_TABLE_INIT") /\ y = L!Cmd("GET_NETWORK_PARAMETERS")
    OBVIOUS
  <2>2. Queue(<<x, y>>) /\ NoneIn(None, <<x, y>>)
    BY <2>1, QueueFacts DEF NoneIn, L!Cmd
  <2>3. commands' = commands \o <<x, y>> /\ UNCHANGED libMishaps /\ events # <<>> /\ events' = Tail(events)
    BY <1>2, <2>1 DEF StatusHandled, NetworkComesUp, L!HandleStackStatus, L!Handling
  <2>4. NoneIn(None, commands')
    BY <1>0, <2>2, <2>3, NoneInMore
  <2>5. SameChannel(events')
    BY <1>0, <2>3, SameChannelMore
  <2> QED BY <1>0, <2>3, <2>4, <2>5 DEF Asked
<1>3. CASE AnswerSink
  <2>1. PICK t : Queue(t) /\ AllIn(SinkCmds, t) /\ S!Sends(t)
    BY <1>3, SinkSendsOnly DEF AnswerSink, Sinks
  <2>2. NoneIn(None, commands')
    BY <1>0, <1>3, <2>1, SinkAdds DEF S!Sends, AnswerSink
  <2> QED BY <1>0, <1>3, <2>2 DEF Asked, AnswerSink, libVars
<1>4. CASE AnswerBoth
  <2>1. L!ResponseHandled /\ commands # <<>>
    BY <1>4 DEF AnswerBoth, L!ResponseHandled
  <2>2. NoneIn(None, commands')
    <3>1. Adds1(OthersCmds)
      <4>1. PICK t : Queue(t) /\ NoneIn(NotSent, t) /\ L!Sends(t)
        BY <2>1, LibResponseSends
      <4>2. NoneIn(OthersCmds, t)
        BY <4>1 DEF NoneIn, NotSent
      <4> QED BY <2>1, <4>1, <4>2 DEF Adds1, L!Sends
    <3> QED BY <1>0, <3>1, Adding DEF OthersCmds
  <2>3. PICK u \in Seq(Lib!Events) : SameChannel(u) /\ events' = events \o u
    BY <1>0, <2>1, LibResponseMoves
  <2>4. SameChannel(events')
    BY <1>0, <2>3, SameChannelMore
  <2>5. UNCHANGED libMishaps
    BY <1>4 DEF AnswerBoth, L!PlainAnswered
  <2> QED BY <1>0, <2>2, <2>4, <2>5 DEF Asked
<1>5. ASSUME \/ S!ClearAllGPDevices
             \/ \E list : S!RemoveGPDevices(list) \/ S!AddGPDevices(list)
             \/ S!OpenCommissioningSession
             \/ \E d : S!CommissioningFrame(d)
      PROVE  NoneIn(None, commands')
  <2>1. PICK t : Queue(t) /\ AllIn(SinkCmds, t) /\ commands' = commands \o t
    BY <1>5, SinkRequestSends
  <2> QED BY <1>0, <2>1, SinkAdds
<1>6. CASE RemovesAll \/ Removes \/ Adds
  BY <1>0, <1>5, <1>6 DEF RemovesAll, Removes, Adds, Requests, L!SinkRequested, L!Request, Asked
<1>7. CASE OpensWindows
  BY <1>0, <1>5, <1>7 DEF OpensWindows, Asked, libVars
<1>8. CASE \E d \in Devices : S!CommissioningFrame(d) /\ UNCHANGED libVars
  BY <1>0, <1>5, <1>8 DEF Asked, libVars
<1>9. CASE Ignores \/ EzspRun \/ WindowCloses \/ MainWaits \/ Interrupted
  BY <1>0, <1>9 DEF Ignores, EzspRun, WindowCloses, MainWaits, Interrupted, Asked, libVars
<1> QED BY <1>1, <1>2, <1>3, <1>4, <1>6, <1>7, <1>8, <1>9
       DEF ExampleNext, Goes, CallbackRuns, LibraryActs, EventHandled, Reported

LEMMA SinkSteps ==
  ASSUME S!HandleEzspRxMessage
  PROVE  /\ sink_state' # sink_state => sink_state' = "SINK_READY" /\ sink_state # "SINK_NOT_INIT"
         /\ lib_state' = IF sink_state' # sink_state /\ lib_state = "SINK_BUSY"
                         THEN "READY" ELSE lib_state
<1> USE DEF S!GoesOn, S!Ends, S!SetSinkState, S!Registering
<1>1. CASE S!FindOrAllocateAnswered
  BY <1>1 DEF S!FindOrAllocateAnswered
<1>2. CASE S!GetEntryAnswered
  BY <1>2 DEF S!GetEntryAnswered
<1>3. CASE S!SetEntryAnswered
  BY <1>3 DEF S!SetEntryAnswered
<1>4. CASE S!SinkLookupAnswered
  BY <1>4 DEF S!SinkLookupAnswered
<1>5. CASE S!ProxyLookupAnswered
  BY <1>5 DEF S!ProxyLookupAnswered
<1>6. CASE S!ProxyGetEntryAnswered
  BY <1>6 DEF S!ProxyGetEntryAnswered
<1>7. CASE S!PairingAnswered
  BY <1>7 DEF S!PairingAnswered, S!RegistersNext
<1>8. CASE S!OtherAnswered
  BY <1>8 DEF S!OtherAnswered
<1> QED BY <1>1, <1>2, <1>3, <1>4, <1>5, <1>6, <1>7, <1>8 DEF S!HandleEzspRxMessage

(* A handler of the library, or what follows a callback.                     *)
Handler ==
  \/ L!ResponseHandled \/ L!HandleDongleReady \/ L!HandleScanResult \/ L!HandleScanComplete
  \/ L!HandleXmodemReady
  \/ running # <<>> /\ Head(running).rest # "start" /\ L!Return

LEMMA HandlerMoves ==
  ASSUME Queue(commands), Lib!LibInvariant, Control, Handler
  PROVE  /\ lib_state' # lib_state =>
              /\ lib_state # "UNINITIALIZED"
              /\ lib_state' \notin {"SINK_BUSY", "SCANNING", "SWITCHING_TO_BOOTLOADER_MODE"}
              /\ lib_state' = "READY" => lib_state = "SCANNING"
         /\ running' # running => networkKeyCallback # L!NoRequest \/ lib_state = "SCANNING"
                                  \/ running \notin Starting
         /\ upgrading' => upgrading \/ lib_state = "SWITCHING_TO_BOOTLOADER_MODE"
         /\ networkKeyCallback' \in {networkKeyCallback, L!NoRequest}
<1>1. Lib!TypeOK /\ Lib!Beginning
  BY DEF Lib!LibInvariant
<1>2. ASSUME lib_state = "UNINITIALIZED"
      PROVE  /\ LibPart(commands) = <<>> /\ running \in Starting /\ ~upgrading
             /\ events = <<>> \/ events = <<[event |-> "DONGLE_READY"]>>
  BY <1>1, <1>2 DEF Lib!Beginning, Lib!Early, Lib!StartFrame, Starting, Lib!ReadyOrNothing
<1>3. ASSUME lib_state = "UNINITIALIZED"
      PROVE  \A e : ~(events # <<>> /\ Head(events).event = e) \/ e = "DONGLE_READY"
  BY <1>2, <1>3
<1>4. CASE L!ResponseHandled
  <2>1. Lib!ResponseHandled
    BY <1>4, LibResponseHandled
  <2>2. LibPart(commands) # <<>>
    BY <2>1 DEF Lib!ResponseHandled, Lib!VersionAnswered, Lib!XncpInfoAnswered, Lib!PlainAnswered,
       Lib!NetworkStateAnswered, Lib!SecurityStateAnswered, Lib!FormNetworkAnswered,
       Lib!LeaveNetworkAnswered, Lib!SinkWorkAnswered, Lib!LaunchAnswered, Lib!StartScanAnswered,
       Lib!GetKeyAnswered, Lib!Answered
  <2>3. lib_state # "UNINITIALIZED"
    BY <1>2, <2>2
  <2> QED BY <1>1, <1>4, <2>3, LibResponseMoves DEF Control, Asked
<1>5. CASE L!HandleDongleReady
  BY <1>5 DEF L!HandleDongleReady, L!DongleInit
<1>6. CASE L!HandleScanResult
  BY <1>6 DEF L!HandleScanResult
<1>7. CASE L!HandleScanComplete
  BY <1>7 DEF L!HandleScanComplete, L!AwaitsScan
<1>8. CASE L!HandleXmodemReady
  BY <1>2, <1>8 DEF L!HandleXmodemReady
<1>9. CASE running # <<>> /\ Head(running).rest # "start" /\ L!Return
  <2>1. running \notin Starting
    BY <1>9 DEF Starting
  <2>2. UNCHANGED lib_state
    BY <1>9 DEF L!Return, L!ReturnsFrom
  <2>3. networkKeyCallback' \in {networkKeyCallback, L!NoRequest} /\ UNCHANGED upgrading
    BY <1>9 DEF L!Return, L!CalledKey
  <2> QED BY <2>1, <2>2, <2>3
<1> QED BY <1>4, <1>5, <1>6, <1>7, <1>8, <1>9 DEF Handler

LEMMA HandlerCalls ==
  ASSUME Control, Queue(commands), Lib!LibInvariant, LibHandles(Handler)
  PROVE  Called'
<1>1. Handler /\ callback = "none" /\ CallsBack /\ StopsIfOver /\ UNCHANGED <<sinkVars, fsmVars>>
  BY DEF LibHandles, Free
<1>2. UNCHANGED currentState
  BY <1>1 DEF fsmVars
<1>3. mainThread' = "starts" => mainThread = "starts"
  BY <1>1 DEF StopsIfOver, Stops, mainVars
<1>4. callback' \in {"ready", "scan"} => lib_state' = "READY"
  BY <1>1 DEF CallsBack, ToldReady
<1>5. callback' # "scan"
  BY <1>1 DEF CallsBack
<1>6. running' = running => callback' \in {"none", "ready"}
  BY <1>1 DEF CallsBack, Enters
<1>7. Called
  BY DEF Control
<1>8. currentState \in BeforeScan => running' = running
  BY <1>1, <1>7, HandlerMoves DEF Called
<1>9. currentState \in BeforeScan =>
        /\ running' \in Starting /\ callback' \in {"none", "ready"}
        /\ lib_state' # "SCANNING" /\ networkKeyCallback' = L!NoRequest
  BY <1>1, <1>6, <1>7, <1>8, HandlerMoves DEF Called
<1>10. mainThread = "starts" =>
         /\ currentState = "INIT_PENDING" /\ lib_state' = "UNINITIALIZED"
         /\ callback' = "none" /\ running' \in Starting
  <2>1. mainThread = "starts" => lib_state' = lib_state /\ currentState \in BeforeScan
    BY <1>1, <1>7, HandlerMoves DEF Called, BeforeScan
  <2> QED BY <1>4, <1>7, <1>9, <2>1 DEF Called
<1> QED BY <1>1, <1>2, <1>3, <1>4, <1>5, <1>7, <1>9, <1>10, HandlerMoves DEF Called

LEMMA CalledStays ==
  ASSUME Queue(commands), Lib!LibInvariant, Control, ExampleNext
  PROVE  Called'
<1>0. Called
  BY DEF Control
<1>1. CASE AnswerLib \/ Resumes \/ LibHandles(L!HandleDongleReady \/ L!HandleScanResult
                                               \/ L!HandleScanComplete \/ L!HandleXmodemReady)
  <2>1. LibHandles(Handler)
    BY <1>1 DEF AnswerLib, Resumes, LibHandles, Handler
  <2> QED BY <2>1, HandlerCalls
<1>2. CASE StatusHandled
  <2>1. mainThread # "starts"
    <3>1. events # <<>> /\ Head(events).event = "STACK_STATUS_HANDLER"
      BY <1>2 DEF StatusHandled, L!HandleStackStatus, L!Handling
    <3>2. lib_state = "UNINITIALIZED" => events = <<>> \/ events = <<[event |-> "DONGLE_READY"]>>
      BY DEF Lib!LibInvariant, Lib!Beginning, Lib!Early, Lib!ReadyOrNothing
    <3> QED BY <1>0, <3>1, <3>2 DEF Called
  <2>2. /\ UNCHANGED <<running, upgrading, networkKeyCallback, currentState, mainThread>>
        /\ \/ UNCHANGED <<lib_state, callback>>
           \/ lib_state' = "READY" /\ callback' = "ready"
    BY <1>2 DEF StatusHandled, L!HandleStackStatus, fsmVars, mainVars
  <2> QED BY <1>0, <2>1, <2>2 DEF Called
<1>3. CASE AnswerSink
  <2>1. /\ UNCHANGED <<running, upgrading, networkKeyCallback, currentState, mainThread>>
        /\ callback' = IF ToldReady THEN "ready" ELSE "none"
    BY <1>3 DEF AnswerSink, libVars, fsmVars, mainVars
  <2>2. lib_state' = lib_state \/ (lib_state = "SINK_BUSY" /\ lib_state' = "READY")
    BY <1>3, SinkSteps DEF AnswerSink
  <2> QED BY <1>0, <2>1, <2>2 DEF Called, ToldReady
<1>4. CASE AnswerBoth \/ Reported
  <2>1. UNCHANGED <<lib_state, running, upgrading, networkKeyCallback, currentState, mainThread,
                    callback>>
    BY <1>4 DEF AnswerBoth, Reported, libVars, fsmVars, mainVars, L!PlainAnswered,
       S!CommissioningFrame, S!SetSinkState, L!AdapterLeaves, L!AdapterScans
  <2> QED BY <1>0, <2>1 DEF Called
<1>5. CASE Upgrades
  <2>1. /\ callback = "ready" /\ callback' = "none" /\ currentState = "INIT_PENDING"
        /\ currentState' = "FW_UPGRADE" /\ lib_state' = "SWITCHING_TO_BOOTLOADER_MODE"
        /\ UNCHANGED <<running, networkKeyCallback, mainThread>>
    BY <1>5 DEF Upgrades, Ready, mainVars, L!SetFirmwareUpgradeMode
  <2> QED BY <1>0, <2>1 DEF Called, BeforeScan
<1>6. CASE RemovesAll \/ Removes \/ Adds
  <2>1. /\ callback = "ready" /\ callback' = "none"
        /\ currentState \in {"INIT_PENDING"} \cup Waiting /\ currentState' \in Waiting
        /\ lib_state' = "SINK_BUSY"
        /\ UNCHANGED <<running, networkKeyCallback, mainThread, upgrading>>
    BY <1>6 DEF RemovesAll, Removes, Adds, Removed, Ready, Requests, mainVars, L!SinkRequested,
       L!Request, Waiting
  <2> QED BY <1>0, <2>1 DEF Called, BeforeScan, Waiting
<1>7. CASE OpensWindows
  <2>1. /\ callback = "ready" /\ callback' = "scan"
        /\ currentState \in {"INIT_PENDING"} \cup Waiting /\ currentState' = "SCAN_CHANNELS"
        /\ UNCHANGED <<lib_state, running, networkKeyCallback, mainThread, upgrading>>
    BY <1>7 DEF OpensWindows, Added, Removed, Ready, mainVars, libVars, Waiting,
       S!OpenCommissioningSession, S!SetSinkState
  <2> QED BY <1>0, <2>1 DEF Called, BeforeScan, Waiting
<1>8. CASE ScansChannels
  <2>1. /\ callback = "scan" /\ callback' = "ready" /\ lib_state' = "SCANNING"
        /\ UNCHANGED <<currentState, mainThread, upgrading>>
    BY <1>8 DEF ScansChannels, L!StartScan, L!Request, fsmVars, mainVars
  <2> QED BY <1>0, <2>1 DEF Called, BeforeScan, Waiting
<1>9. CASE Ignores
  <2>1. /\ callback = "ready" /\ callback' = "none"
        /\ UNCHANGED <<lib_state, currentState, running, networkKeyCallback, mainThread, upgrading>>
    BY <1>9 DEF Ignores, Ready, fsmVars, mainVars, libVars
  <2> QED BY <1>0, <2>1 DEF Called
<1>10. CASE EzspInitDone \/ EzspRun
  <2>1. /\ callback \in {"scanned", "key"} /\ callback' = "none"
        /\ currentState' \in {"GET_NW_KEY", "RUN"}
        /\ UNCHANGED <<lib_state, running, mainThread, upgrading>>
    BY <1>10 DEF EzspInitDone, EzspRun, mainVars, libVars, L!GetNetworkKey, L!Request
  <2> QED BY <1>0, <2>1 DEF Called, BeforeScan, Waiting
<1>11. CASE MainStarts
  <2>0. UNCHANGED <<callback, currentState>>
    BY <1>11 DEF MainStarts, fsmVars
  <2>1. CASE L!Start /\ UNCHANGED mainThread
    <3>1. /\ UNCHANGED <<lib_state, networkKeyCallback, upgrading>>
          /\ running' \in Starting
      BY <2>1 DEF L!Start, Starting
    <3> QED BY <1>0, <2>0, <2>1, <3>1 DEF Called
  <2>2. CASE running # <<>> /\ L!Return /\ mainThread' = "checks"
    <3>1. running = <<[rest |-> "start"]>> /\ callback = "none" /\ currentState = "INIT_PENDING"
      BY <1>0, <1>11, <2>2 DEF MainStarts, Called, Starting
    <3>2. /\ lib_state' = "WAIT_DONGLE_READY" /\ running' = <<>>
          /\ UNCHANGED <<networkKeyCallback, upgrading>>
      BY <2>2, <3>1 DEF L!Return, L!ReturnsFrom
    <3> QED BY <1>0, <2>0, <2>2, <3>1, <3>2 DEF Called, Starting, BeforeScan
  <2> QED BY <1>11, <2>1, <2>2 DEF MainStarts
<1>12. CASE WindowCloses \/ MainWaits \/ Interrupted
  <2>1. /\ UNCHANGED <<lib_state, running, upgrading, networkKeyCallback, currentState, callback>>
        /\ mainThread' = "starts" => mainThread = "starts"
    BY <1>12 DEF WindowCloses, MainWaits, Interrupted, Stops, libVars, fsmVars, mainVars
  <2> QED BY <1>0, <2>1 DEF Called
<1> QED BY <1>1, <1>2, <1>3, <1>4, <1>5, <1>6, <1>7, <1>8, <1>9, <1>10, <1>11, <1>12
       DEF ExampleNext, Goes, CallbackRuns, EventHandled

LEMMA SinkFirstStays ==
  ASSUME Queue(commands), Lib!LibInvariant, Control, ExampleNext
  PROVE  SinkFirst'
<1> DEFINE On == {"READY", "SINK_BUSY", "SCANNING"}
<1>0. SinkFirst /\ Called
  BY DEF Control
<1>1. ASSUME UNCHANGED sink_state, lib_state' \in On => lib_state \in On
      PROVE  SinkFirst'
  BY <1>0, <1>1 DEF SinkFirst
<1>2. CASE AnswerLib \/ Resumes \/ LibHandles(L!HandleDongleReady \/ L!HandleScanResult
                                               \/ L!HandleScanComplete \/ L!HandleXmodemReady)
  <2>1. Handler /\ UNCHANGED sink_state
    BY <1>2 DEF AnswerLib, Resumes, LibHandles, Handler, sinkVars
  <2> QED BY <1>1, <2>1, HandlerMoves
<1>3. CASE StatusHandled
  <2>1. \/ UNCHANGED <<lib_state, sink_state>>
        \/ sink_state' = "SINK_READY"
    BY <1>3 DEF StatusHandled, L!HandleStackStatus, sinkVars, InitsSink, S!NetworkUp,
       S!SetSinkState
  <2> QED BY <1>1, <2>1 DEF SinkFirst
<1>4. CASE AnswerSink
  <2>1. /\ sink_state' = sink_state \/ sink_state' = "SINK_READY"
        /\ lib_state' = lib_state \/ (lib_state = "SINK_BUSY" /\ lib_state' = "READY")
    BY <1>4, SinkSteps DEF AnswerSink
  <2> QED BY <1>0, <2>1 DEF SinkFirst
<1>5. CASE AnswerBoth
  <2>1. UNCHANGED <<lib_state, sink_state>>
    BY <1>5 DEF AnswerBoth, S!OtherAnswered, S!GoesOn
  <2> QED BY <1>1, <2>1
<1>6. CASE RemovesAll \/ Removes \/ Adds
  <2>1. sink_state' \in {"SINK_CLEAR_ALL", "SINK_REMOVE_IN_PROGRESS",
                         "SINK_COM_OFFLINE_IN_PROGRESS"}
    BY <1>6 DEF RemovesAll, Removes, Adds, Requests, S!ClearAllGPDevices, S!RemoveGPDevices,
       S!AddGPDevices, S!RequestAccepted, S!SetSinkState
  <2> QED BY <2>1 DEF SinkFirst
<1>7. CASE OpensWindows
  <2>1. UNCHANGED <<lib_state, sink_state>> \/ sink_state' = "SINK_COM_OPEN"
    BY <1>7 DEF OpensWindows, sinkVars, S!OpenCommissioningSession, S!SetSinkState
  <2> QED BY <1>1, <2>1 DEF SinkFirst
<1>8. CASE Reported
  <2>1. /\ UNCHANGED lib_state
        /\ UNCHANGED sink_state \/ sink_state' = "SINK_COM_IN_PROGRESS"
    BY <1>8 DEF Reported, sinkVars, S!CommissioningFrame, S!SetSinkState, L!AdapterLeaves,
       L!AdapterScans
  <2> QED BY <1>1, <2>1 DEF SinkFirst
<1>9. CASE Upgrades \/ Ignores \/ EzspInitDone \/ EzspRun \/ WindowCloses \/ MainWaits
           \/ Interrupted
  <2>1. UNCHANGED sink_state /\ (lib_state' \in On => lib_state' = lib_state)
    BY <1>9 DEF Upgrades, Ignores, EzspInitDone, EzspRun, WindowCloses, MainWaits, Interrupted,
       sinkVars, L!SetFirmwareUpgradeMode, L!GetNetworkKey
  <2> QED BY <1>1, <2>1
<1>10. CASE ScansChannels
  <2>1. callback = "scan" /\ UNCHANGED sink_state
    BY <1>10 DEF ScansChannels, sinkVars
  <2>2. lib_state \in On
    BY <1>0, <2>1 DEF Called
  <2> QED BY <1>1, <2>1, <2>2
<1>11. CASE MainStarts
  <2>1. UNCHANGED sink_state
    BY <1>11 DEF MainStarts, sinkVars
  <2>2. lib_state' = lib_state \/ lib_state' = "WAIT_DONGLE_READY"
    BY <1>11 DEF MainStarts, L!Start, L!Return
  <2> QED BY <1>1, <2>1, <2>2
<1> QED BY <1>2, <1>3, <1>4, <1>5, <1>6, <1>7, <1>8, <1>9, <1>10, <1>11
       DEF ExampleNext, Goes, CallbackRuns, EventHandled

LEMMA OptionsStay ==
  ASSUME ExampleNext
  PROVE  UNCHANGED options
BY DEF ExampleNext, Goes, CallbackRuns, EventHandled, AnswerLib, Resumes, LibHandles,
   StatusHandled, AnswerSink, AnswerBoth, Ready, Upgrades, RemovesAll, Removes, Adds, OpensWindows,
   ScansChannels, Ignores, EzspInitDone, EzspRun, Reported, WindowCloses, MainStarts, MainWaits,
   Interrupted

LEMMA ListsStay ==
  ASSUME Lists, ExampleNext
  PROVE  Lists'
<1>1. UNCHANGED options
  BY OptionsStay
<1>2. gpdRemoveList' \in {<<>>, gpdRemoveList} /\ gpdAddList' \in {<<>>, gpdAddList}
  BY DEF ExampleNext, Goes, CallbackRuns, EventHandled, AnswerLib, Resumes, LibHandles, fsmVars,
     StatusHandled, AnswerSink, AnswerBoth, Upgrades, RemovesAll, Removes, Adds, OpensWindows,
     ScansChannels, Ignores, EzspInitDone, EzspRun, Reported, WindowCloses, MainStarts, MainWaits,
     Interrupted
<1> QED BY <1>1, <1>2 DEF Lists

(* While the sink is busy nothing else moves the library.                    *)
LEMMA BusyStays ==
  ASSUME Queue(commands), Lib!LibInvariant, Control, Handler, lib_state = "SINK_BUSY"
  PROVE  UNCHANGED lib_state
<1>1. Lib!LibAssumption
  BY ExampleAssumption DEF L!LibAssumption, Lib!LibAssumption, L!Mishaps, Lib!Mishaps
<1>2. /\ adapter.network # "none"
      /\ LibPart(commands) # <<>> =>
           Head(LibPart(commands)).cmd \notin {"VERSION", "GET_XNCP_INFO", "LEAVE_NETWORK"}
  <2>1. libMishaps \cap {"drops", "earlyScan"} = {}
    BY DEF Control, Asked
  <2> QED BY <1>1, <2>1, Lib!BusyIsSettled
<1>3. currentState \in Waiting /\ ~upgrading
  BY DEF Control, Called, Waiting
<1>4. CASE L!ResponseHandled
  <2>1. ASSUME Lib!Answered({"VERSION"}) \/ Lib!Answered({"GET_XNCP_INFO"})
               \/ Lib!Answered({"LEAVE_NETWORK"})
        PROVE  FALSE
    BY <1>2, <2>1 DEF Lib!Answered
  <2>2. ~L!VersionAnswered /\ ~L!XncpInfoAnswered /\ ~L!LeaveNetworkAnswered
    BY <2>1, LibVersionAnswered, LibXncpInfoAnswered, LibLeaveNetworkAnswered
    DEF Lib!VersionAnswered, Lib!XncpInfoAnswered, Lib!LeaveNetworkAnswered
  <2>3. ~L!SinkWorkAnswered
    <3>1. commands # <<>> => 1 \in 1 .. Len(commands) /\ Head(commands) = commands[1]
      BY SeqFacts DEF Queue
    <3> QED BY <3>1 DEF L!SinkWorkAnswered, L!Answered, Control, Asked, NoneIn
  <2>4. L!NetworkStateAnswered => UNCHANGED lib_state
    BY <1>2 DEF L!NetworkStateAnswered
  <2> QED BY <1>4, <2>2, <2>3, <2>4 DEF L!ResponseHandled, L!PlainAnswered,
     L!SecurityStateAnswered, L!FormNetworkAnswered, L!LaunchAnswered, L!StartScanAnswered,
     L!GetKeyAnswered
<1>5. CASE L!Return /\ Head(running).rest # "start"
  BY <1>5 DEF L!Return, L!ReturnsFrom
<1> QED BY <1>3, <1>4, <1>5 DEF Handler, L!HandleDongleReady, L!HandleScanResult,
   L!HandleScanComplete, L!AwaitsScan, L!HandleXmodemReady

-----------------------------------------------------------------------------
(* The sink, beside the library: every step of Example is one that GpSink    *)
(* allows, on the commands the sink knows, or none.                          *)
KnownCmds == SinkCmds \cup BothCmds
SinkLib == IF sink_state = "SINK_NOT_INIT" THEN "STACK_INIT"
           ELSE IF lib_state = "SINK_BUSY" THEN "SINK_BUSY" ELSE "READY"

LEMMA SinkPartStays ==
  ASSUME Queue(commands), AddsOwn
  PROVE  UNCHANGED SinkPart(commands)
<1>1. PICK t : /\ Queue(t) /\ NoneIn(OthersCmds, t)
               /\ \/ commands' = commands \o t
                  \/ /\ commands # <<>> /\ Head(commands).cmd \notin KnownCmds
                     /\ commands' = Tail(commands) \o t
  BY DEF AddsOwn, KnownCmds
<1>2. NoneIn(KnownCmds, t)
  BY <1>1 DEF NoneIn, OthersCmds, KnownCmds
<1>3. Part(KnownCmds, commands') = Part(KnownCmds, commands)
  <2>1. CASE commands' = commands \o t
    BY <1>1, <1>2, <2>1, PartAdded
  <2>2. CASE /\ commands # <<>> /\ Head(commands).cmd \notin KnownCmds
             /\ commands' = Tail(commands) \o t
    BY <1>1, <1>2, <2>2, PartSends
  <2> QED BY <1>1, <2>1, <2>2
<1> QED BY <1>3 DEF SinkPart, KnownCmds

(* A step of the library alone.                                              *)
LEMMA SinkIdles ==
  ASSUME Queue(commands), AddsOwn, UNCHANGED sinkVars,
         sink_state # "SINK_NOT_INIT" => (lib_state' = "SINK_BUSY" <=> lib_state = "SINK_BUSY")
  PROVE  UNCHANGED Sink!vars
<1>1. UNCHANGED SinkPart(commands)
  BY SinkPartStays
<1>2. UNCHANGED SinkLib
  BY DEF SinkLib, sinkVars
<1> QED BY <1>1, <1>2 DEF Sink!vars, sinkVars, SinkLib, Sink!listVars, Sink!entryVars,
  Sink!tableVars, Sink!historyVars

LEMMA LibraryLeavesSink ==
  ASSUME Queue(commands), Lib!LibInvariant, Control, LibraryActs
  PROVE  UNCHANGED Sink!vars
<1>1. AddsOwn
  BY LibraryAddsOwn DEF Control, Lib!LibInvariant
<1>2. UNCHANGED sinkVars
  BY DEF LibraryActs, AnswerLib, Resumes, LibHandles, Upgrades, ScansChannels, EzspInitDone,
     MainStarts, StatusHandled, NetworkComesUp
<1>3. sink_state # "SINK_NOT_INIT" => (lib_state' = "SINK_BUSY" <=> lib_state = "SINK_BUSY")
  <2>1. CASE Handler
    BY <2>1, BusyStays, HandlerMoves
  <2>2. CASE StatusHandled /\ ~NetworkComesUp
    BY <2>2 DEF StatusHandled, NetworkComesUp, L!HandleStackStatus
  <2>3. CASE Upgrades \/ ScansChannels
    <3>1. lib_state # "SINK_BUSY"
      BY <2>3 DEF Upgrades, Ready, ScansChannels, Control, Called
    <3> QED BY <2>3, <3>1 DEF Upgrades, ScansChannels, L!SetFirmwareUpgradeMode, L!StartScan
  <2>4. CASE EzspInitDone \/ L!AdapterLeaves \/ L!AdapterScans \/ L!Start
    BY <2>4 DEF EzspInitDone, L!GetNetworkKey, L!AdapterLeaves, L!AdapterScans, L!Start
  <2>5. CASE L!Return /\ mainThread = "starts"
    <3>1. lib_state = "UNINITIALIZED"
      BY <2>5 DEF Control, Called
    <3> QED BY <2>5, <3>1 DEF L!Return
  <2> QED BY <2>1, <2>2, <2>3, <2>4, <2>5 DEF LibraryActs, AnswerLib, Resumes, LibHandles, Handler,
     MainStarts
<1> QED BY <1>1, <1>2, <1>3, SinkIdles

LEMMA SinkAnswered ==
  ASSUME Queue(commands), commands # <<>>, Head(commands).cmd \in KnownCmds
  PROVE  /\ SinkPart(commands) # <<>> /\ Head(SinkPart(commands)) = Head(commands)
         /\ \A t : Queue(t) /\ AllIn(SinkCmds, t) /\ S!Sends(t) => Sink!Sends(t)
<1>1. SinkPart(commands) # <<>> /\ Head(SinkPart(commands)) = Head(commands)
  BY PartTaken DEF SinkPart, KnownCmds
<1>2. ASSUME NEW t, Queue(t), AllIn(SinkCmds, t), S!Sends(t)
      PROVE  SinkPart(commands)' = Tail(SinkPart(commands)) \o t
  <2>1. commands' = Tail(commands) \o t
    BY <1>2 DEF S!Sends
  <2>2. AllIn(KnownCmds, t)
    BY <1>2 DEF AllIn, KnownCmds
  <2>3. Part(KnownCmds, Tail(commands) \o t) = Tail(Part(KnownCmds, commands)) \o t
    BY <1>2, <2>2, PartSends
  <2> QED BY <2>1, <2>3 DEF SinkPart, KnownCmds
<1> QED BY <1>1, <1>2 DEF Sink!Sends

LEMMA SinkAddedTo ==
  ASSUME Queue(commands), NEW t, Queue(t), AllIn(KnownCmds, t)
  PROVE  commands' = commands \o t => SinkPart(commands)' = SinkPart(commands) \o t
<1>1. Part(KnownCmds, commands \o t) = Part(KnownCmds, commands) \o t
  BY PartAdded
<1> QED BY <1>1 DEF SinkPart, KnownCmds

LEMMA SinkHasCmd ==
  ASSUME Queue(commands), NEW D, D \subseteq KnownCmds
  PROVE  S!HasCmd(commands, D) <=> Sink!HasCmd(SinkPart(commands), D)
<1>1. PICK T : commands \in Seq(T)
  BY DEF Queue
<1>2. PICK p : p = SinkPart(commands)
  OBVIOUS
<1>3. /\ \A j \in 1 .. Len(p) : \E k \in 1 .. Len(commands) : p[j] = commands[k]
      /\ \A k \in 1 .. Len(commands) : commands[k].cmd \in KnownCmds =>
           \E j \in 1 .. Len(p) : p[j] = commands[k]
  <2>1. p = Part(KnownCmds, commands)
    BY <1>2 DEF SinkPart, KnownCmds
  <2>2. /\ \A j \in 1 .. Len(Part(KnownCmds, commands)) :
             \E k \in 1 .. Len(commands) : Part(KnownCmds, commands)[j] = commands[k]
        /\ \A k \in 1 .. Len(commands) : commands[k].cmd \in KnownCmds =>
             \E j \in 1 .. Len(Part(KnownCmds, commands)) :
               Part(KnownCmds, commands)[j] = commands[k]
    BY <1>1, PartElements
  <2> QED BY <2>1, <2>2
<1> QED BY <1>2, <1>3 DEF S!HasCmd, Sink!HasCmd

LEMMA SinkSame ==
  /\ \A t, d : Sink!Find(t, d) = S!Find(t, d)
  /\ \A t : Sink!Contents(t) = S!Contents(t)
  /\ \A n : Sink!Unused(n) = S!Unused(n)
  /\ \A d : Sink!FindOrAllocate(d) = S!FindOrAllocate(d)
  /\ \A d : Sink!Paired(d) = S!Paired(d)
  /\ \A d : Sink!Unpaired(d) = S!Unpaired(d)
  /\ \A c : Sink!Cmd(c) = S!Cmd(c)
  /\ \A c, d : Sink!DeviceCmd(c, d) = S!DeviceCmd(c, d)
  /\ \A c, i : Sink!IndexCmd(c, i) = S!IndexCmd(c, i)
  /\ \A i, d : Sink!SetEntry(i, d) = S!SetEntry(i, d)
  /\ Sink!NoIndex = S!NoIndex /\ Sink!Registering = S!Registering
  /\ Sink!OtherCmds = S!OtherCmds /\ Sink!Pairings = S!Pairings
<1>1. \A t, d : Sink!Find(t, d) = S!Find(t, d)
  BY DEF Sink!Find, S!Find, Sink!NoIndex, S!NoIndex
<1>2. \A t : Sink!Contents(t) = S!Contents(t)
  BY DEF Sink!Contents, S!Contents
<1>3. \A n : Sink!Unused(n) = S!Unused(n)
  BY DEF Sink!Unused, S!Unused
<1>4. Sink!NoIndex = S!NoIndex
  BY DEF Sink!NoIndex, S!NoIndex
<1>5. \A d : Sink!FindOrAllocate(d) = S!FindOrAllocate(d)
  BY <1>1, <1>4 DEF Sink!FindOrAllocate, S!FindOrAllocate
<1>6. \A d : Sink!Paired(d) = S!Paired(d)
  BY <1>1, <1>2, <1>4 DEF Sink!Paired, S!Paired
<1>7. \A d : Sink!Unpaired(d) = S!Unpaired(d)
  BY DEF Sink!Unpaired, S!Unpaired
<1>8. /\ \A c : Sink!Cmd(c) = S!Cmd(c)
      /\ \A c, d : Sink!DeviceCmd(c, d) = S!DeviceCmd(c, d)
      /\ \A c, i : Sink!IndexCmd(c, i) = S!IndexCmd(c, i)
      /\ \A i, d : Sink!SetEntry(i, d) = S!SetEntry(i, d)
  BY DEF Sink!Cmd, S!Cmd, Sink!DeviceCmd, S!DeviceCmd, Sink!IndexCmd, S!IndexCmd, Sink!SetEntry,
     S!SetEntry
<1>9. /\ Sink!Registering = S!Registering /\ Sink!OtherCmds = S!OtherCmds
      /\ Sink!Pairings = S!Pairings
  BY DEF Sink!Registering, S!Registering, Sink!OtherCmds, S!OtherCmds, Sink!Pairings, S!Pairings
<1> QED BY <1>1, <1>2, <1>3, <1>4, <1>5, <1>6, <1>7, <1>8, <1>9

LEMMA SinkGoes ==
  ASSUME Queue(commands), commands # <<>>, Head(commands).cmd \in KnownCmds,
         NEW t, Queue(t), AllIn(SinkCmds, t)
  PROVE  /\ S!GoesOn(t) => Sink!GoesOn(t)
         /\ S!Ends(t) /\ sink_state # "SINK_NOT_INIT" => Sink!Ends(t)
<1>1. S!Sends(t) => Sink!Sends(t)
  BY SinkAnswered
<1>2. S!GoesOn(t) => Sink!GoesOn(t)
  BY <1>1 DEF S!GoesOn, Sink!GoesOn
<1>3. S!Ends(t) /\ sink_state # "SINK_NOT_INIT" => Sink!Ends(t)
  BY <1>1 DEF S!Ends, Sink!Ends, S!SetSinkState, Sink!SetSinkState
<1> QED BY <1>2, <1>3

LEMMA SinkResponses ==
  ASSUME Queue(commands), commands # <<>>, Head(commands).cmd \in KnownCmds,
         S!HandleEzspRxMessage
  PROVE  Sink!HandleEzspRxMessage
<1>1. Head(SinkPart(commands)) = Head(commands) /\ SinkPart(commands) # <<>>
  BY SinkAnswered
<1>2. ASSUME NEW C, S!Answered(C) PROVE Sink!Answered(C)
  BY <1>1, <1>2 DEF S!Answered, Sink!Answered
<1>3. ASSUME NEW M, S!Happens(M) PROVE Sink!Happens(M)
  BY <1>3 DEF S!Happens, Sink!Happens
<1>4. ASSUME NEW t, Queue(t), AllIn(SinkCmds, t)
      PROVE  /\ S!GoesOn(t) => Sink!GoesOn(t)
             /\ S!Ends(t) /\ sink_state # "SINK_NOT_INIT" => Sink!Ends(t)
  BY <1>4, SinkGoes
<1>5. {"FIND_OR_ALLOCATE_ENTRY", "SINK_LOOKUP", "PROXY_LOOKUP", "ADD_PAIRING", "REMOVE_PAIRING",
       "SINK_GET_ENTRY", "SINK_REMOVE_ENTRY", "PROXY_GET_ENTRY", "SEND_UNICAST"} \subseteq SinkCmds
  BY DEF SinkCmds, S!DeviceCmds, S!IndexCmds
<1> USE SinkSame DEF S!listVars, Sink!listVars, S!entryVars, Sink!entryVars, S!tableVars,
  Sink!tableVars
<1>6. CASE S!FindOrAllocateAnswered
  BY <1>1, <1>2, <1>3, <1>4, <1>5, <1>6, SinkSendsOwn
  DEF S!FindOrAllocateAnswered, Sink!FindOrAllocateAnswered, Sink!HandleEzspRxMessage, S!Registering
<1>7. CASE S!GetEntryAnswered
  BY <1>1, <1>2, <1>4, <1>5, <1>7, SinkSendsOwn
  DEF S!GetEntryAnswered, Sink!GetEntryAnswered, Sink!HandleEzspRxMessage
<1>8. CASE S!SetEntryAnswered
  BY <1>1, <1>2, <1>3, <1>4, <1>5, <1>8, SinkSendsOwn
  DEF S!SetEntryAnswered, Sink!SetEntryAnswered, Sink!HandleEzspRxMessage, S!Registering
<1>9. CASE S!SinkLookupAnswered
  BY <1>1, <1>2, <1>4, <1>5, <1>9, SinkSendsOwn
  DEF S!SinkLookupAnswered, Sink!SinkLookupAnswered, Sink!HandleEzspRxMessage
<1>10. CASE S!ProxyLookupAnswered
  <2>1. \A s, x : Queue(s) /\ AllIn(SinkCmds, s) /\ x.cmd \in SinkCmds =>
          Queue(Append(s, x)) /\ AllIn(SinkCmds, Append(s, x))
    <3> TAKE s, x
    <3>1. Queue(s) => Append(s, x) = s \o <<x>>
      BY QueueFacts
    <3>2. x.cmd \in SinkCmds => Queue(<<x>>) /\ AllIn(SinkCmds, <<x>>)
      BY QueueFacts DEF AllIn
    <3> QED BY <3>1, <3>2, SinkSendsOwn
  <2>2. \A d : S!DeviceCmd("SINK_LOOKUP", d).cmd \in SinkCmds
    BY <1>5 DEF S!DeviceCmd
  <2> QED BY <1>1, <1>2, <1>4, <1>5, <1>10, <2>1, <2>2, SinkSendsOwn
      DEF S!ProxyLookupAnswered, Sink!ProxyLookupAnswered, Sink!HandleEzspRxMessage
<1>11. CASE S!ProxyGetEntryAnswered
  BY <1>1, <1>2, <1>4, <1>5, <1>11, SinkSendsOwn
  DEF S!ProxyGetEntryAnswered, Sink!ProxyGetEntryAnswered, Sink!HandleEzspRxMessage
<1>12. CASE S!PairingAnswered
  <2>1. Sink!PairingExecuted
    BY <1>1, <1>3, <1>12 DEF S!PairingAnswered, S!PairingExecuted, Sink!PairingExecuted
  <2> QED BY <1>1, <1>2, <1>4, <1>5, <1>12, <2>1, SinkSendsOwn
      DEF S!PairingAnswered, Sink!PairingAnswered, Sink!HandleEzspRxMessage, S!RegistersNext,
          Sink!RegistersNext
<1>13. CASE S!OtherAnswered
  BY <1>1, <1>2, <1>4, <1>5, <1>13, SinkSendsOwn
  DEF S!OtherAnswered, Sink!OtherAnswered, Sink!HandleEzspRxMessage
<1> QED BY <1>6, <1>7, <1>8, <1>9, <1>10, <1>11, <1>12, <1>13 DEF S!HandleEzspRxMessage

LEMMA SinkLeftover ==
  ASSUME Queue(commands)
  PROVE  S!Leftover <=> Sink!Leftover
<1>1. S!DeviceCmds \cup S!IndexCmds \cup {"SINK_CLEAR_ALL", "SINK_SET_ENTRY"} \subseteq KnownCmds
  BY DEF KnownCmds, SinkCmds
<1>2. Sink!DeviceCmds = S!DeviceCmds /\ Sink!IndexCmds = S!IndexCmds
  BY DEF Sink!DeviceCmds, S!DeviceCmds, Sink!IndexCmds, S!IndexCmds
<1>3. PICK C : C = S!DeviceCmds \cup S!IndexCmds \cup {"SINK_CLEAR_ALL", "SINK_SET_ENTRY"}
  OBVIOUS
<1>4. S!HasCmd(commands, C) <=> Sink!HasCmd(SinkPart(commands), C)
  BY <1>1, <1>3, SinkHasCmd
<1> QED BY <1>2, <1>3, <1>4 DEF S!Leftover, Sink!Leftover

LEMMA SinkBegins ==
  ASSUME Queue(commands), NEW o, NEW D, NEW M, S!Begins(o, D, M)
  PROVE  Sink!Begins(o, D, M)
BY SinkLeftover DEF S!Begins, Sink!Begins, S!Overlap, Sink!Overlap, S!Happens, Sink!Happens

(* A request is sent to the sink, or the sink sends by itself.               *)
LEMMA SinkRequests ==
  ASSUME Queue(commands)
  PROVE  /\ S!ClearAllGPDevices => Sink!ClearAllGPDevices
         /\ \A list : S!RemoveGPDevices(list) => Sink!RemoveGPDevices(list)
         /\ \A list : S!AddGPDevices(list) => Sink!AddGPDevices(list)
<1> USE SinkSame DEF S!listVars, Sink!listVars, S!entryVars, Sink!entryVars, S!tableVars,
  Sink!tableVars
<1>1. ASSUME NEW s \in {"SINK_CLEAR_ALL", "SINK_REMOVE_IN_PROGRESS",
                        "SINK_COM_OFFLINE_IN_PROGRESS"},
             NEW t, Queue(t), AllIn(SinkCmds, t), S!RequestAccepted(s, t)
      PROVE  Sink!RequestAccepted(s, t)
  <2>1. AllIn(KnownCmds, t)
    BY <1>1 DEF AllIn, KnownCmds
  <2>2. SinkPart(commands)' = SinkPart(commands) \o t
    BY <1>1, <2>1, SinkAddedTo DEF S!RequestAccepted
  <2> QED BY <1>1, <2>2 DEF S!RequestAccepted, Sink!RequestAccepted, S!SetSinkState,
      Sink!SetSinkState
<1>2. {"SINK_CLEAR_ALL", "PROXY_GET_ENTRY", "FIND_OR_ALLOCATE_ENTRY", "SINK_LOOKUP"}
        \subseteq SinkCmds
  BY DEF SinkCmds, S!DeviceCmds, S!IndexCmds
<1>3. S!ClearAllGPDevices => Sink!ClearAllGPDevices
  <2>1. PICK x, y : x = S!Cmd("SINK_CLEAR_ALL") /\ y = S!IndexCmd("PROXY_GET_ENTRY", 0)
    OBVIOUS
  <2>2. Queue(<<x, y>>) /\ AllIn(SinkCmds, <<x, y>>)
    BY <1>2, <2>1, QueueFacts DEF AllIn, S!Cmd, S!IndexCmd
  <2> QED BY <1>1, <2>1, <2>2, SinkBegins DEF S!ClearAllGPDevices, Sink!ClearAllGPDevices
<1>4. ASSUME NEW list, S!RemoveGPDevices(list) PROVE Sink!RemoveGPDevices(list)
  <2>1. PICK t : t = <<S!DeviceCmd("SINK_LOOKUP", Head(list))>>
    OBVIOUS
  <2>2. Queue(t) /\ AllIn(SinkCmds, t)
    BY <1>2, <2>1, SinkSendsOwn
  <2> QED BY <1>1, <1>4, <2>1, <2>2, SinkBegins DEF S!RemoveGPDevices, Sink!RemoveGPDevices
<1>5. ASSUME NEW list, S!AddGPDevices(list) PROVE Sink!AddGPDevices(list)
  <2>1. PICK t : t = <<S!DeviceCmd("FIND_OR_ALLOCATE_ENTRY", Head(list))>>
    OBVIOUS
  <2>2. Queue(t) /\ AllIn(SinkCmds, t)
    BY <1>2, <2>1, SinkSendsOwn
  <2> QED BY <1>1, <1>5, <2>1, <2>2, SinkBegins DEF S!AddGPDevices, Sink!AddGPDevices
<1> QED BY <1>3, <1>4, <1>5

LEMMA SinkStarts ==
  ASSUME Queue(commands)
  PROVE  /\ S!NetworkUp => Sink!NetworkUp
         /\ S!OpenCommissioningSession /\ sink_state # "SINK_NOT_INIT"
              => Sink!OpenCommissioningSession
         /\ \A d : S!CommissioningFrame(d) => Sink!CommissioningFrame(d)
<1> USE SinkSame DEF S!listVars, Sink!listVars, S!entryVars, Sink!entryVars, S!tableVars,
  Sink!tableVars, S!SetSinkState, Sink!SetSinkState
<1>1. ASSUME NEW x, x.cmd \in KnownCmds, commands' = Append(commands, x)
      PROVE  SinkPart(commands)' = Append(SinkPart(commands), x)
  <2>1. PICK t : t = <<x>>
    OBVIOUS
  <2>2. Queue(t) /\ AllIn(KnownCmds, t)
    BY <1>1, <2>1, QueueFacts DEF AllIn
  <2>3. commands' = commands \o t
    BY <1>1, <2>1, QueueFacts
  <2>4. Append(SinkPart(commands), x) = SinkPart(commands) \o t
    BY <2>1, PartOfQueue, QueueFacts DEF SinkPart
  <2> QED BY <2>2, <2>3, <2>4, SinkAddedTo
<1>2. {"FIND_OR_ALLOCATE_ENTRY", "SEND_UNICAST", "GP_SINK_TABLE_INIT", "GET_NETWORK_PARAMETERS"}
        \subseteq KnownCmds
  BY DEF KnownCmds, SinkCmds, BothCmds, S!DeviceCmds
<1>3. S!NetworkUp => Sink!NetworkUp
  <2>1. PICK x, y : x = S!Cmd("GP_SINK_TABLE_INIT") /\ y = S!Cmd("GET_NETWORK_PARAMETERS")
    OBVIOUS
  <2>2. PICK t : t = <<x, y>>
    OBVIOUS
  <2>3. Queue(t) /\ AllIn(KnownCmds, t)
    BY <1>2, <2>1, <2>2, QueueFacts DEF AllIn, S!Cmd
  <2>4. S!NetworkUp => SinkPart(commands)' = SinkPart(commands) \o t
    BY <2>1, <2>2, <2>3, SinkAddedTo DEF S!NetworkUp
  <2> QED BY <2>1, <2>2, <2>4, SinkBegins DEF S!NetworkUp, Sink!NetworkUp
<1>4. S!OpenCommissioningSession /\ sink_state # "SINK_NOT_INIT" => Sink!OpenCommissioningSession
  <2>1. S!Cmd("SEND_UNICAST").cmd \in KnownCmds
    BY <1>2 DEF S!Cmd
  <2> QED BY <1>1, <2>1, SinkBegins
      DEF S!OpenCommissioningSession, Sink!OpenCommissioningSession
<1>5. ASSUME NEW d, S!CommissioningFrame(d) PROVE Sink!CommissioningFrame(d)
  <2>1. S!DeviceCmd("FIND_OR_ALLOCATE_ENTRY", d).cmd \in KnownCmds
    BY <1>2 DEF S!DeviceCmd
  <2> QED BY <1>1, <1>5, <2>1, SinkBegins DEF S!CommissioningFrame, Sink!CommissioningFrame
<1> QED BY <1>3, <1>4, <1>5

LEMMA SinkStep ==
  ASSUME Queue(commands), Lib!LibInvariant, Control, ExampleNext
  PROVE  [Sink!Next]_(Sink!vars)
<1>1. CASE LibraryActs
  BY <1>1, LibraryLeavesSink
<1>2. CASE StatusHandled /\ NetworkComesUp
  BY <1>2, SinkStarts DEF StatusHandled, NetworkComesUp, InitsSink, Sink!Next
<1>3. CASE AnswerSink \/ AnswerBoth
  <2>1. S!HandleEzspRxMessage /\ commands # <<>> /\ Head(commands).cmd \in KnownCmds
    BY <1>3 DEF AnswerSink, AnswerBoth, S!HandleEzspRxMessage, KnownCmds
  <2> QED BY <2>1, SinkResponses DEF Sink!Next
<1>4. CASE RemovesAll \/ Removes \/ Adds
  <2>1. /\ gpdRemoveList \in S!Lists(MaxList) /\ gpdAddList \in S!Lists(MaxList)
    <3>1. options.remove \in S!Lists(MaxList) /\ options.add \in S!Lists(MaxList)
      BY DEF Control, Lists, Options
    <3>2. <<>> \in S!Lists(MaxList)
      <4>1. MaxList \in Nat
        BY ExampleAssumption DEF S!SinkAssumption
      <4>2. <<>> \in [1 .. 0 -> Devices]
        OBVIOUS
      <4>3. 0 \in 0 .. MaxList
        BY <4>1
      <4> QED BY <4>2, <4>3 DEF S!Lists
    <3> QED BY <3>1, <3>2 DEF Control, Lists
  <2>2. Sink!Lists(MaxList) = S!Lists(MaxList)
    BY DEF Sink!Lists, S!Lists
  <2>3. \/ S!ClearAllGPDevices
        \/ S!RemoveGPDevices(gpdRemoveList) \/ S!AddGPDevices(gpdAddList)
    BY <1>4 DEF RemovesAll, Removes, Adds, Requests
  <2> QED BY <2>1, <2>2, <2>3, SinkRequests DEF Sink!Next, Sink!UserRequests
<1>5. CASE OpensWindows
  <2>1. CASE S!OpenCommissioningSession
    <3>1. lib_state \in {"READY", "SCANNING"} /\ sink_state # "SINK_NOT_INIT"
      BY <1>5 DEF OpensWindows, Ready, Control, Called, SinkFirst
    <3> QED BY <2>1, <3>1, SinkStarts DEF Sink!Next, Sink!UserRequests
  <2>2. CASE UNCHANGED <<lib_state, commands, sinkVars>>
    BY <2>2, SinkIdles, AddingOwn
  <2> QED BY <1>5, <2>1, <2>2 DEF OpensWindows
<1>6. CASE \E d \in Devices : S!CommissioningFrame(d)
  BY <1>6, SinkStarts DEF Sink!Next
<1>7. CASE Ignores \/ EzspRun \/ WindowCloses \/ MainWaits \/ Interrupted
  <2>1. UNCHANGED <<lib_state, commands, sinkVars>>
    BY <1>7 DEF Ignores, EzspRun, WindowCloses, MainWaits, Interrupted
  <2> QED BY <2>1, SinkIdles, AddingOwn
<1> QED BY <1>1, <1>2, <1>3, <1>4, <1>5, <1>6, <1>7
       DEF ExampleNext, Goes, CallbackRuns, LibraryActs, EventHandled, Reported

(* What holds of the program, the library and the queue they share.          *)
ExampleInv == Queue(commands) /\ Lib!LibInvariant /\ Control

LEMMA ControlStays ==
  ASSUME ExampleInv, [ExampleNext]_exampleVars
  PROVE  ExampleInv'
<1>1. Queue(commands') /\ Lib!LibInvariant'
  BY LibInvariantHolds DEF ExampleInv
<1>2. Lib!TypeOK
  BY DEF ExampleInv, Lib!LibInvariant
<1>3. CASE ExampleNext
  <2>1. Asked' /\ Called' /\ SinkFirst' /\ Lists'
    BY <1>2, <1>3, AskedStays, CalledStays, SinkFirstStays, ListsStay DEF ExampleInv, Control
  <2> QED BY <1>1, <2>1 DEF ExampleInv, Control
<1>4. CASE UNCHANGED exampleVars
  <2>1. UNCHANGED <<lib_state, commands, sink_state, options, currentState, gpdRemoveList,
                    gpdAddList, callback, mainThread, running, networkKeyCallback, upgrading,
                    libMishaps, events>>
    BY <1>4 DEF exampleVars, libVars, sinkVars, fsmVars, mainVars
  <2>2. Asked'
    BY <2>1 DEF ExampleInv, Control, Asked, NoneIn, SameChannel
  <2>3. Called' /\ SinkFirst' /\ Lists'
    BY <2>1 DEF ExampleInv, Control, Called, SinkFirst, Lists
  <2> QED BY <1>1, <2>2, <2>3 DEF ExampleInv, Control
<1> QED BY <1>3, <1>4

(* The program, the library and the sink keep what each relies on: the       *)
(* program is called back only where it expects to be, and the library takes *)
(* up a request only when the sink is initialised and idle.                  *)
THEOREM ExampleInvariant == ExampleSpec => []ExampleInv
<1>1. ExampleInit(Options) => ExampleInv
  BY ControlInit DEF ExampleInv
<1>2. ExampleInv /\ [ExampleNext]_exampleVars => ExampleInv'
  BY ControlStays
<1> QED BY <1>1, <1>2, PTL DEF ExampleSpec

LEMMA SinkStarts0 ==
  ASSUME ExampleInit(Options)
  PROVE  Sink!Init
<1>1. S!SinkInit /\ L!Init
  BY DEF ExampleInit
<1>2. SinkPart(commands) = <<>>
  BY <1>1, PartEmpty DEF L!Init, SinkPart
<1>3. Sink!SinkInit
  BY <1>1 DEF S!SinkInit, Sink!SinkInit, S!Lists, Sink!Lists, S!Filled, Sink!Filled,
     S!NoIndex, Sink!NoIndex
<1> QED BY <1>1, <1>2, <1>3 DEF Sink!Init, S!SinkInit

LEMMA SinkStutters ==
  ASSUME UNCHANGED exampleVars
  PROVE  UNCHANGED (Sink!vars)
<1>1. UNCHANGED <<lib_state, commands, sinkVars>>
  BY DEF exampleVars
<1>2. UNCHANGED SinkPart(commands)
  BY <1>1
<1>3. UNCHANGED SinkLib
  BY <1>1 DEF SinkLib, sinkVars
<1> QED BY <1>1, <1>2, <1>3 DEF Sink!vars, sinkVars, SinkLib, Sink!listVars, Sink!entryVars,
  Sink!tableVars, Sink!historyVars

(* Composed with the library and the program, the sink takes only the steps  *)
(* of GpSink: CLibEzspMain makes its requests only where GpSink says it may, *)
(* and the commands of the others in the queue of CEzspDongle do not change  *)
(* what the sink sees.                                                       *)
THEOREM SinkImplemented == ExampleSpec => SinkAsSpecified
<1>1. ExampleInit(Options) => Sink!Init
  BY SinkStarts0
<1>2. ExampleInv /\ [ExampleNext]_exampleVars => [Sink!Next]_(Sink!vars)
  BY SinkStep, SinkStutters DEF ExampleInv
<1>3. ExampleSpec => Sink!Init
  BY <1>1 DEF ExampleSpec
<1>4. ExampleSpec => [][Sink!Next]_(Sink!vars)
  BY <1>2, ExampleInvariant, PTL DEF ExampleSpec
<1> QED BY <1>3, <1>4 DEF SinkAsSpecified, Sink!Spec

-----------------------------------------------------------------------------
(* What is proved of GpSink holds of the sink in its company.                *)
Own == INSTANCE GpSinkProofs WITH
  Env <- SinkEnv, mishaps <- sinkMishaps, ops <- sinkOps,
  commands <- SinkPart(commands), lib_state <- SinkLib

LEMMA OwnSame ==
  /\ \A C : Sink!Answered(C) => Own!Answered(C)
  /\ \A t : Sink!GoesOn(t) => Own!GoesOn(t)
  /\ \A t : Sink!Ends(t) => Own!Ends(t)
  /\ \A M : Sink!Happens(M) => Own!Happens(M)
  /\ \A t, d : Sink!Find(t, d) = Own!Find(t, d)
  /\ \A t : Sink!Contents(t) = Own!Contents(t)
  /\ \A n : Sink!Unused(n) = Own!Unused(n)
  /\ \A c : Sink!Cmd(c) = Own!Cmd(c)
  /\ \A c, d : Sink!DeviceCmd(c, d) = Own!DeviceCmd(c, d)
  /\ \A c, i : Sink!IndexCmd(c, i) = Own!IndexCmd(c, i)
  /\ \A i, d : Sink!SetEntry(i, d) = Own!SetEntry(i, d)
  /\ Sink!NoIndex = Own!NoIndex /\ Sink!Registering = Own!Registering
  /\ Sink!OtherCmds = Own!OtherCmds /\ Sink!Pairings = Own!Pairings
BY DEF SinkLib, Sink!Answered, Own!Answered,
   Sink!GoesOn, Own!GoesOn, Sink!Ends, Own!Ends, Sink!SetSinkState, Own!SetSinkState,
   Sink!Sends, Own!Sends, Sink!Happens, Own!Happens, Sink!Find, Own!Find, Sink!Contents,
   Own!Contents, Sink!Unused, Own!Unused, Sink!Cmd, Own!Cmd, Sink!DeviceCmd, Own!DeviceCmd,
   Sink!IndexCmd, Own!IndexCmd, Sink!SetEntry, Own!SetEntry, Sink!NoIndex, Own!NoIndex,
   Sink!Registering, Own!Registering, Sink!OtherCmds, Own!OtherCmds, Sink!Pairings, Own!Pairings

LEMMA OwnTables ==
  /\ \A d : Sink!FindOrAllocate(d) = Own!FindOrAllocate(d)
  /\ \A d : Sink!Paired(d) = Own!Paired(d)
  /\ \A d : Sink!Unpaired(d) = Own!Unpaired(d)
BY OwnSame DEF Sink!FindOrAllocate, Own!FindOrAllocate, Sink!Paired, Own!Paired, Sink!Unpaired,
   Own!Unpaired

LEMMA OwnLeftover == Sink!Leftover <=> Own!Leftover
BY DEF Sink!Leftover, Own!Leftover, Sink!HasCmd, Own!HasCmd, Sink!DeviceCmds, Own!DeviceCmds,
   Sink!IndexCmds, Own!IndexCmds

LEMMA OwnBegins ==
  ASSUME NEW o, NEW D, NEW M, Sink!Begins(o, D, M)
  PROVE  Own!Begins(o, D, M)
BY OwnSame, OwnLeftover DEF Sink!Begins, Own!Begins, Sink!Overlap, Own!Overlap

LEMMA OwnRequests ==
  /\ Sink!NetworkUp => Own!NetworkUp
  /\ Sink!UserRequests => Own!UserRequests
  /\ \A d : Sink!CommissioningFrame(d) => Own!CommissioningFrame(d)
<1> USE OwnSame, OwnBegins DEF Sink!SetSinkState, Own!SetSinkState, SinkLib, Sink!listVars,
  Own!listVars, Sink!entryVars, Own!entryVars, Sink!tableVars, Own!tableVars
<1>1. Sink!NetworkUp => Own!NetworkUp
  BY DEF Sink!NetworkUp, Own!NetworkUp
<1>2. Sink!UserRequests => Own!UserRequests
  BY DEF Sink!UserRequests, Own!UserRequests, Sink!AddGPDevices, Own!AddGPDevices,
     Sink!RemoveGPDevices, Own!RemoveGPDevices, Sink!ClearAllGPDevices, Own!ClearAllGPDevices,
     Sink!RequestRefused, Own!RequestRefused, Sink!OpenCommissioningSession,
     Own!OpenCommissioningSession, Sink!CloseCommissioningSession, Own!CloseCommissioningSession,
     Sink!RequestAccepted, Own!RequestAccepted, Sink!Lists, Own!Lists
<1>3. \A d : Sink!CommissioningFrame(d) => Own!CommissioningFrame(d)
  BY DEF Sink!CommissioningFrame, Own!CommissioningFrame
<1> QED BY <1>1, <1>2, <1>3

LEMMA OwnResponses == Sink!HandleEzspRxMessage => Own!HandleEzspRxMessage
<1> USE OwnSame, OwnTables DEF Sink!listVars, Own!listVars, Sink!entryVars, Own!entryVars,
  Sink!tableVars, Own!tableVars
<1>1. Sink!FindOrAllocateAnswered => Own!FindOrAllocateAnswered
  BY DEF Sink!FindOrAllocateAnswered, Own!FindOrAllocateAnswered
<1>2. Sink!GetEntryAnswered => Own!GetEntryAnswered
  BY DEF Sink!GetEntryAnswered, Own!GetEntryAnswered
<1>3. Sink!SetEntryAnswered => Own!SetEntryAnswered
  BY DEF Sink!SetEntryAnswered, Own!SetEntryAnswered
<1>4. Sink!SinkLookupAnswered => Own!SinkLookupAnswered
  BY DEF Sink!SinkLookupAnswered, Own!SinkLookupAnswered
<1>5. Sink!ProxyLookupAnswered => Own!ProxyLookupAnswered
  BY DEF Sink!ProxyLookupAnswered, Own!ProxyLookupAnswered
<1>6. Sink!ProxyGetEntryAnswered => Own!ProxyGetEntryAnswered
  BY DEF Sink!ProxyGetEntryAnswered, Own!ProxyGetEntryAnswered
<1>7. Sink!PairingAnswered => Own!PairingAnswered
  BY DEF Sink!PairingAnswered, Own!PairingAnswered, Sink!PairingExecuted, Own!PairingExecuted,
     Sink!RegistersNext, Own!RegistersNext
<1>8. Sink!OtherAnswered => Own!OtherAnswered
  BY DEF Sink!OtherAnswered, Own!OtherAnswered
<1> QED BY <1>1, <1>2, <1>3, <1>4, <1>5, <1>6, <1>7, <1>8
       DEF Sink!HandleEzspRxMessage, Own!HandleEzspRxMessage

LEMMA OwnInit == Sink!Init => Own!Init
BY OwnSame DEF Sink!Init, Own!Init, Sink!SinkInit, Own!SinkInit, SinkLib, Sink!Lists, Own!Lists,
   Sink!Filled, Own!Filled

LEMMA OwnStep == [Sink!Next]_(Sink!vars) => [Own!Next]_(Own!vars)
<1>1. Sink!Next => Own!Next
  BY OwnRequests, OwnResponses DEF Sink!Next, Own!Next
<1>2. UNCHANGED (Sink!vars) => UNCHANGED (Own!vars)
  BY DEF Sink!vars, Own!vars, Sink!historyVars, Own!historyVars, SinkLib, Sink!listVars,
     Own!listVars, Sink!entryVars, Own!entryVars, Sink!tableVars, Own!tableVars
<1> QED BY <1>1, <1>2

LEMMA OwnSpec == SinkAsSpecified => Own!Spec
BY OwnInit, OwnStep, PTL DEF SinkAsSpecified, Sink!Spec, Own!Spec

OwnInv == Own!TypeOK /\ Own!ListsNotEmpty /\ Own!LibFollowsSink /\ Own!ChainInv

LEMMA OwnAssumption == Own!SinkAssumption
BY ExampleAssumption DEF S!SinkAssumption, Own!SinkAssumption, S!Mishaps, Own!Mishaps

LEMMA OwnHolds == ExampleSpec => []OwnInv
<1>1. ExampleSpec => Own!Spec
  BY SinkImplemented, OwnSpec
<1>2. Own!Spec => [](Own!TypeOK)
  BY OwnAssumption, Own!SinkTypeCorrect
<1>3. Own!Spec => [](Own!ListsNotEmpty)
  BY OwnAssumption, Own!NeverPopsEmpty
<1>4. Own!Spec => [](Own!LibFollowsSink)
  BY OwnAssumption, Own!LibAgreesWithSink
<1>5. Own!Spec => [](Own!ChainInv)
  BY OwnAssumption, Own!ChainHolds
<1> QED BY <1>1, <1>2, <1>3, <1>4, <1>5, PTL DEF OwnInv

-----------------------------------------------------------------------------
(* The sink is initialised once: the library is told only once that the      *)
(* network it keeps is up.                                                   *)
SinkOnce ==
  /\ "networkUp" \notin sinkMishaps
  /\ sink_state # "SINK_NOT_INIT" => Lib!UpForGood

(* Who moves the sink.                                                       *)
OpensSession == OpensWindows /\ options.commission
FrameArrives(d) == S!CommissioningFrame(d) /\ UNCHANGED <<libVars, options, fsmVars, callback, mainVars>>

LEMMA WhoMovesSink ==
  ASSUME ExampleNext, ~UNCHANGED sinkVars
  PROVE  \/ StatusHandled /\ NetworkComesUp
         \/ (AnswerSink \/ AnswerBoth) /\ S!HandleEzspRxMessage
         \/ RemovesAll \/ Removes \/ Adds \/ OpensSession
         \/ \E d \in Devices : FrameArrives(d)
<1>1. ASSUME LibraryActs PROVE UNCHANGED sinkVars
  BY <1>1 DEF LibraryActs, AnswerLib, Resumes, LibHandles, Upgrades, ScansChannels, EzspInitDone,
     MainStarts, StatusHandled, NetworkComesUp
<1>2. ASSUME Ignores \/ EzspRun \/ WindowCloses \/ MainWaits \/ Interrupted
      PROVE  UNCHANGED sinkVars
  BY <1>2 DEF Ignores, EzspRun, WindowCloses, MainWaits, Interrupted
<1>3. AnswerSink \/ AnswerBoth => S!HandleEzspRxMessage
  BY DEF AnswerSink, AnswerBoth, S!HandleEzspRxMessage
<1>4. OpensWindows => OpensSession
  BY DEF OpensWindows, OpensSession
<1> QED BY <1>1, <1>2, <1>3, <1>4
       DEF ExampleNext, Goes, CallbackRuns, LibraryActs, EventHandled, Reported, FrameArrives

LEMMA SinkFirstMoves ==
  ASSUME Control, ExampleNext, ~(StatusHandled /\ NetworkComesUp)
  PROVE  /\ sink_state = "SINK_NOT_INIT" => UNCHANGED sink_state
         /\ "networkUp" \in sinkMishaps' => "networkUp" \in sinkMishaps
<1>1. CASE UNCHANGED sinkVars
  BY <1>1 DEF sinkVars
<1>2. CASE S!HandleEzspRxMessage
  <2>1. sink_state = "SINK_NOT_INIT" => UNCHANGED sink_state
    BY <1>2, SinkSteps
  <2>2. sinkMishaps' \subseteq sinkMishaps \cup {"full", "setFails"}
    BY <1>2 DEF S!HandleEzspRxMessage, S!FindOrAllocateAnswered, S!GetEntryAnswered,
       S!SetEntryAnswered, S!SinkLookupAnswered, S!ProxyLookupAnswered, S!ProxyGetEntryAnswered,
       S!PairingAnswered, S!PairingExecuted, S!OtherAnswered, S!Happens
  <2> QED BY <2>1, <2>2
<1>3. CASE RemovesAll \/ Removes \/ Adds
  <2>1. sink_state = "SINK_READY"
    BY <1>3 DEF RemovesAll, Removes, Adds, Requests, S!ClearAllGPDevices, S!RemoveGPDevices,
       S!AddGPDevices, S!RequestAccepted
  <2>2. sinkMishaps' \subseteq sinkMishaps \cup {"overlap", "secondClear"}
    BY <1>3 DEF RemovesAll, Removes, Adds, Requests, S!ClearAllGPDevices, S!RemoveGPDevices,
       S!AddGPDevices, S!Begins, S!Overlap, S!Happens
  <2> QED BY <2>1, <2>2
<1>4. CASE OpensSession
  <2>1. lib_state \in {"READY", "SCANNING"}
    BY <1>4 DEF OpensSession, OpensWindows, Ready, Control, Called
  <2>2. sink_state # "SINK_NOT_INIT"
    BY <2>1 DEF Control, SinkFirst
  <2>3. sinkMishaps' \subseteq sinkMishaps \cup {"overlap"}
    BY <1>4 DEF OpensSession, OpensWindows, S!OpenCommissioningSession, S!Begins, S!Overlap, S!Happens
  <2> QED BY <2>2, <2>3
<1>5. CASE \E d \in Devices : FrameArrives(d)
  <2>1. sink_state = "SINK_COM_OPEN" /\ sinkMishaps' \subseteq sinkMishaps \cup {"overlap"}
    BY <1>5 DEF FrameArrives, S!CommissioningFrame, S!Begins, S!Overlap, S!Happens
  <2> QED BY <2>1
<1> QED BY <1>1, <1>2, <1>3, <1>4, <1>5, WhoMovesSink

LEMMA SinkComesUp ==
  ASSUME ExampleInv, ExampleInv', SinkOnce, StatusHandled, NetworkComesUp
  PROVE  sink_state = "SINK_NOT_INIT" /\ S!NetworkUp /\ Lib!UpForGood'
<1>1. Lib!LibInvariant /\ Lib!LibInvariant' /\ Queue(commands) /\ Control
  BY DEF ExampleInv
<1>2. Lib!Unless({"drops"})
  BY DEF ExampleInv, Control, Asked, Lib!Unless
<1>3. Lib!LibAssumption
  BY ExampleAssumption DEF L!LibAssumption, Lib!LibAssumption, L!Mishaps, Lib!Mishaps
<1>4. Lib!HandleStackStatus /\ Lib!TypeOK'
  BY <1>1, LibHandleStackStatus DEF StatusHandled, Lib!LibInvariant
<1>5. ~Lib!UpForGood /\ Lib!UpForGood'
  BY <1>1, <1>2, <1>3, <1>4, Lib!UpAtLast DEF NetworkComesUp, Lib!Keep, L!KeepNetwork, Lib!KeepNetwork
<1> QED BY <1>5 DEF SinkOnce, StatusHandled, NetworkComesUp, InitsSink

LEMMA SinkOnceStays ==
  ASSUME ExampleInv, ExampleInv', SinkOnce, ExampleNext
  PROVE  SinkOnce'
<1>1. LibStep /\ Lib!LibInvariant /\ Lib!LibInvariant' /\ Queue(commands) /\ Control
  BY TheLibraryKeeps DEF ExampleInv
<1>2. Lib!Unless({"drops"})'
  BY DEF ExampleInv, Control, Asked, Lib!Unless
<1>3. Lib!LibAssumption
  BY ExampleAssumption DEF L!LibAssumption, Lib!LibAssumption, L!Mishaps, Lib!Mishaps
<1>4. Lib!UpForGood => Lib!UpForGood'
  BY <1>1, <1>2, <1>3, Lib!StaysUp DEF LibStep
<1>5. CASE StatusHandled /\ NetworkComesUp
  <2>1. sink_state = "SINK_NOT_INIT" /\ S!NetworkUp /\ Lib!UpForGood'
    BY <1>5, SinkComesUp
  <2>2. "networkUp" \notin sinkMishaps'
    BY <2>1 DEF SinkOnce, S!NetworkUp, S!Begins, S!Happens, S!Overlap
  <2> QED BY <2>1, <2>2 DEF SinkOnce
<1>6. CASE ~(StatusHandled /\ NetworkComesUp)
  <2>1. sink_state = "SINK_NOT_INIT" => UNCHANGED sink_state
    BY <1>1, <1>6, SinkFirstMoves
  <2>2. "networkUp" \notin sinkMishaps'
    BY <1>1, <1>6, SinkFirstMoves DEF SinkOnce
  <2> QED BY <1>4, <2>1, <2>2 DEF SinkOnce
<1> QED BY <1>5, <1>6

LEMMA SinkOnceHolds == ExampleSpec => []SinkOnce
<1>1. ExampleInit(Options) => SinkOnce
  BY DEF ExampleInit, S!SinkInit, SinkOnce
<1>2. ExampleInv /\ ExampleInv' /\ SinkOnce /\ [ExampleNext]_exampleVars => SinkOnce'
  <2>1. UNCHANGED exampleVars /\ SinkOnce => SinkOnce'
    BY DEF exampleVars, sinkVars, libVars, SinkOnce, Lib!UpForGood, Lib!Keep, Lib!Reported
  <2> QED BY <2>1, SinkOnceStays
<1> QED BY <1>1, <1>2, ExampleInvariant, PTL DEF ExampleSpec

-----------------------------------------------------------------------------
(* The scan comes last: it is asked for when the sink has nothing more to    *)
(* send, and is answered after all that the sink has sent.                   *)

(* No scan has begun, nor the request of the key that follows it.            *)
NotYet ==
  /\ adapter.scan = L!NoRequest /\ NoScan(events)
  /\ \A i \in 1 .. Len(running) : running[i].rest \in {"start", "request"}
  /\ callback \in {"none", "ready", "scan"} /\ networkKeyCallback = L!NoRequest
  /\ currentState \notin {"GET_NW_KEY", "RUN"}

ScanOnce ==
  currentState \in BeforeScan \/ callback = "scan" =>
    NotYet /\ NoneIn({"START_SCAN"}, commands) /\ running \in Starting

LEMMA NoScanMore ==
  ASSUME NEW T, NEW s \in Seq(T), NEW t \in Seq(T), NoScan(s), NoScan(t)
  PROVE  NoScan(s \o t) /\ (s # <<>> => NoScan(Tail(s)))
<1>1. /\ Len(s) \in Nat /\ Len(t) \in Nat /\ Len(s \o t) = Len(s) + Len(t)
      /\ \A i \in 1 .. Len(s \o t) : (s \o t)[i] = IF i <= Len(s) THEN s[i] ELSE t[i - Len(s)]
  OBVIOUS
<1>2. NoScan(s \o t)
  BY <1>1 DEF NoScan
<1>3. s # <<>> => NoScan(Tail(s))
  BY SeqFacts DEF NoScan
<1> QED BY <1>2, <1>3

(* What the frames of the library are, when none awaits the end of a scan.   *)
OnlyRequests(s) == \A i \in 1 .. Len(s) : s[i].rest \in {"start", "request"}

LEMMA RequestsMore ==
  ASSUME Lib!TypeOK, OnlyRequests(running)
  PROVE  /\ running # <<>> => OnlyRequests(Tail(running)) /\ Head(running).rest \in {"start", "request"}
         /\ \A k, i : OnlyRequests(<<[rest |-> "request", kind |-> k, scan |-> i]>> \o running)
<1>1. running \in Seq(Lib!Frames)
  BY DEF Lib!TypeOK
<1>2. running # <<>> => OnlyRequests(Tail(running)) /\ Head(running).rest \in {"start", "request"}
  BY <1>1, SeqFacts DEF OnlyRequests
<1>3. ASSUME NEW k, NEW i
      PROVE  OnlyRequests(<<[rest |-> "request", kind |-> k, scan |-> i]>> \o running)
  <2>1. PICK x : x = [rest |-> "request", kind |-> k, scan |-> i]
    OBVIOUS
  <2>2. PICK T : T = Lib!Frames \cup {x}
    OBVIOUS
  <2>3. running \in Seq(T) /\ <<x>> \in Seq(T) /\ Len(<<x>>) = 1 /\ <<x>>[1] = x
    BY <1>1, <2>2
  <2>4. /\ Len(<<x>> \o running) = 1 + Len(running) /\ Len(running) \in Nat
        /\ \A j \in 1 .. Len(<<x>> \o running) :
             (<<x>> \o running)[j] = IF j <= 1 THEN x ELSE running[j - 1]
    BY <2>3
  <2>5. x.rest = "request"
    BY <2>1
  <2> QED BY <2>1, <2>4, <2>5 DEF OnlyRequests
<1> QED BY <1>2, <1>3

(* Whatever comes back to the program concerns no scan.                      *)
LEMMA CallsBackEarly ==
  ASSUME CallsBack, Lib!TypeOK', OnlyRequests(running')
  PROVE  callback' \in {"none", "ready"}
<1>1. running' \in Seq(Lib!Frames')
  BY DEF Lib!TypeOK
<1>2. running' # <<>> => Head(running').rest \in {"start", "request"}
  BY <1>1, SeqFacts DEF OnlyRequests
<1> QED BY <1>2 DEF CallsBack, Enters

LEMMA NotYetStays ==
  ASSUME Queue(commands), Lib!TypeOK, Lib!TypeOK', Control, NotYet, ExampleNext,
         ~(AnswerLib /\ L!StartScanAnswered)
  PROVE  NotYet'
<1>0. /\ events \in Seq(Lib!Events) /\ NoScan(events) /\ OnlyRequests(running) /\ Asked
      /\ adapter.scan = L!NoRequest /\ networkKeyCallback = L!NoRequest /\ adapter \in Lib!Adapters
      /\ callback \in {"none", "ready", "scan"} /\ currentState \notin {"GET_NW_KEY", "RUN"}
  BY DEF Lib!TypeOK, NotYet, OnlyRequests, Control
<1>1. \A u \in Seq(Lib!Events) : NoScan(u) => NoScan(events \o u)
  BY <1>0, NoScanMore
<1>2. events # <<>> => NoScan(Tail(events)) /\ Head(events).event \notin ScanEvents
  <2>1. <<>> \in Seq(Lib!Events) /\ NoScan(<<>>)
    BY DEF NoScan
  <2>2. events # <<>> => 1 \in 1 .. Len(events) /\ Head(events) = events[1]
    BY <1>0, SeqFacts
  <2> QED BY <1>0, <2>1, <2>2, NoScanMore DEF NoScan
<1>3. ASSUME NoScan(events'), OnlyRequests(running'), adapter'.scan = adapter.scan,
             UNCHANGED networkKeyCallback \/ networkKeyCallback' = L!NoRequest,
             callback' \in {"none", "ready", "scan"},
             currentState' \notin {"GET_NW_KEY", "RUN"}
      PROVE  NotYet'
  BY <1>0, <1>3 DEF NotYet, OnlyRequests, L!NoRequest
<1>4. CASE AnswerLib \/ AnswerBoth
  <2>1. L!ResponseHandled /\ ~L!StartScanAnswered
    <3>1. AnswerBoth => Head(commands).cmd # "START_SCAN"
      BY DEF AnswerBoth, BothCmds
    <3>2. L!StartScanAnswered => Head(commands).cmd = "START_SCAN"
      BY DEF L!StartScanAnswered, L!Answered
    <3> QED BY <1>4, <3>1, <3>2 DEF AnswerLib, LibHandles, AnswerBoth, L!ResponseHandled
  <2>2. PICK u \in Seq(Lib!Events) : NoScan(u) /\ events' = events \o u
    BY <1>0, <2>1, LibResponseMoves DEF Asked
  <2>3. UNCHANGED <<running, networkKeyCallback>> /\ adapter'.scan = adapter.scan
    BY <1>0, <2>1, LibResponseMoves DEF Asked
  <2>4. callback' \in {"none", "ready", "scan"} /\ UNCHANGED currentState
    <3>1. CASE AnswerLib
      BY <1>0, <2>3, <3>1 DEF AnswerLib, LibHandles, CallsBack, Enters, fsmVars
    <3>2. CASE AnswerBoth
      BY <1>0, <3>2 DEF AnswerBoth, fsmVars
    <3> QED BY <1>4, <3>1, <3>2
  <2> QED BY <1>0, <1>1, <1>3, <2>2, <2>3, <2>4
<1>5. CASE LibHandles(L!HandleDongleReady \/ L!HandleScanResult \/ L!HandleScanComplete
                      \/ L!HandleXmodemReady)
  <2>1. ~L!HandleScanResult /\ ~L!HandleScanComplete
    BY <1>2 DEF L!HandleScanResult, L!HandleScanComplete, L!Handling, ScanEvents
  <2>2. /\ UNCHANGED <<running, networkKeyCallback, adapter>>
        /\ UNCHANGED events \/ (events # <<>> /\ events' = Tail(events))
    BY <1>5, <2>1 DEF LibHandles, L!HandleDongleReady, L!HandleXmodemReady
  <2>3. callback' \in {"none", "ready", "scan"} /\ UNCHANGED currentState
    BY <1>5, <2>2 DEF LibHandles, CallsBack, Enters, fsmVars
  <2> QED BY <1>0, <1>2, <1>3, <2>2, <2>3
<1>6. CASE StatusHandled
  <2>1. /\ UNCHANGED <<running, networkKeyCallback, adapter, currentState>>
        /\ events # <<>> /\ events' = Tail(events)
    BY <1>6 DEF StatusHandled, L!HandleStackStatus, L!Handling, fsmVars
  <2>2. callback' \in {"none", "ready", "scan"}
    BY <1>0, <1>6 DEF StatusHandled
  <2> QED BY <1>0, <1>2, <1>3, <2>1, <2>2
<1>7. ASSUME L!Return
      PROVE  /\ UNCHANGED <<networkKeyCallback, adapter, events>> /\ OnlyRequests(running')
  <2>1. Head(running).rest \in {"start", "request"} /\ OnlyRequests(Tail(running))
    BY <1>0, <1>7, RequestsMore DEF L!Return, L!ReturnsFrom
  <2> QED BY <1>7, <2>1 DEF L!Return, L!ReturnsFrom
<1>8. CASE Resumes
  <2>1. L!Return /\ CallsBack /\ UNCHANGED currentState
    BY <1>8 DEF Resumes, LibHandles, fsmVars
  <2> QED BY <1>0, <1>3, <1>7, <2>1, CallsBackEarly
<1>9. CASE AnswerSink
  <2>1. UNCHANGED <<running, networkKeyCallback, adapter, events, currentState>>
    BY <1>9 DEF AnswerSink, libVars, fsmVars
  <2> QED BY <1>0, <1>3, <1>9, <2>1 DEF AnswerSink
<1>10. CASE \E d \in Devices : FrameArrives(d)
  BY <1>0, <1>3, <1>10 DEF FrameArrives, libVars, fsmVars
<1>11. CASE /\ L!AdapterLeaves \/ L!AdapterScans
            /\ UNCHANGED <<sinkVars, options, fsmVars, callback, mainVars>>
  <2>1. PICK e : e = L!Status("NETWORK_DOWN")
    OBVIOUS
  <2>2. e \in Lib!Events /\ e.event \notin ScanEvents
    BY <2>1 DEF L!Status, Lib!Events, ScanEvents
  <2>3. <<e>> \in Seq(Lib!Events) /\ NoScan(<<e>>) /\ Append(events, e) = events \o <<e>>
    BY <1>0, <2>2 DEF NoScan
  <2>4. L!AdapterLeaves
    BY <1>0, <1>11 DEF L!AdapterScans
  <2>5. NoScan(events') /\ UNCHANGED <<running, networkKeyCallback>>
    BY <1>1, <2>1, <2>3, <2>4 DEF L!AdapterLeaves
  <2>6. adapter'.scan = adapter.scan
    <3>1. [adapter EXCEPT !.network = "none", !.up = FALSE].scan = adapter.scan
      BY <1>0 DEF Lib!Adapters
    <3> QED BY <2>4, <3>1 DEF L!AdapterLeaves
  <2> QED BY <1>0, <1>3, <1>11, <2>5, <2>6 DEF fsmVars
<1>12. CASE Upgrades \/ RemovesAll \/ Removes \/ Adds
  <2>1. /\ UNCHANGED <<running, networkKeyCallback, adapter, events>> /\ callback' = "none"
        /\ currentState' \notin {"GET_NW_KEY", "RUN"}
    BY <1>12 DEF Upgrades, RemovesAll, Removes, Adds, Requests, L!SinkRequested, L!Request,
       L!SetFirmwareUpgradeMode
  <2> QED BY <1>0, <1>3, <2>1
<1>13. CASE OpensWindows
  <2>1. /\ UNCHANGED <<running, networkKeyCallback, adapter, events>> /\ callback' = "scan"
        /\ currentState' \notin {"GET_NW_KEY", "RUN"}
    BY <1>13 DEF OpensWindows, libVars
  <2> QED BY <1>0, <1>3, <2>1
<1>14. CASE ScansChannels
  <2>1. /\ UNCHANGED <<networkKeyCallback, adapter, events, currentState>> /\ callback' = "ready"
        /\ running' = <<[rest |-> "request", kind |-> "energy", scan |-> libOps + 1]>> \o running
    BY <1>14 DEF ScansChannels, L!StartScan, L!Request, fsmVars
  <2>2. OnlyRequests(running')
    BY <1>0, <2>1, RequestsMore
  <2> QED BY <1>0, <1>3, <2>1, <2>2
<1>15. CASE Ignores
  <2>1. UNCHANGED <<running, networkKeyCallback, adapter, events, currentState>> /\ callback' = "none"
    BY <1>15 DEF Ignores, libVars, fsmVars
  <2> QED BY <1>0, <1>3, <2>1
<1>16. CASE EzspInitDone \/ EzspRun
  BY <1>0, <1>16 DEF EzspInitDone, EzspRun
<1>17. CASE MainStarts
  <2>0. UNCHANGED <<callback, currentState>>
    BY <1>17 DEF MainStarts, fsmVars
  <2>1. CASE L!Start
    <3>1. UNCHANGED <<networkKeyCallback, adapter>>
      BY <2>1 DEF L!Start
    <3>2. events' = <<[event |-> "DONGLE_READY"]>> /\ running' = <<[rest |-> "start"]>>
      BY <2>1 DEF L!Start
    <3>3. NoScan(events') /\ OnlyRequests(running')
      BY <3>2 DEF NoScan, OnlyRequests, ScanEvents
    <3> QED BY <1>0, <1>3, <2>0, <3>1, <3>3
  <2> QED BY <1>0, <1>3, <1>7, <1>17, <2>0, <2>1 DEF MainStarts
<1>18. CASE WindowCloses \/ MainWaits \/ Interrupted
  <2>1. UNCHANGED <<running, networkKeyCallback, adapter, events, currentState, callback>>
    BY <1>18 DEF WindowCloses, MainWaits, Interrupted, libVars, fsmVars
  <2> QED BY <1>0, <1>3, <2>1
<1> QED BY <1>4, <1>5, <1>6, <1>8, <1>9, <1>10, <1>11, <1>12, <1>13, <1>14, <1>15, <1>16, <1>17, <1>18
       DEF ExampleNext, Goes, CallbackRuns, EventHandled, Reported, FrameArrives

LEMMA NobodyScans ==
  ASSUME Queue(commands), Control, Lib!TypeOK, running \in Starting, ExampleNext
  PROVE  Adds1({"START_SCAN"})
<1> DEFINE Scan == {"START_SCAN"}
<1>0. "START_SCAN" \notin SinkCmds \cup BothCmds
  BY DEF SinkCmds, BothCmds, S!DeviceCmds, S!IndexCmds
<1>1. ASSUME NEW c, c # "START_SCAN", commands' = Append(commands, L!Cmd(c))
      PROVE  Adds1(Scan)
  <2>1. L!Cmd(c).cmd \notin Scan
    BY <1>1 DEF L!Cmd
  <2> QED BY <1>1, <2>1, Adding
<1>2. CASE AnswerLib \/ AnswerBoth
  <2>1. L!ResponseHandled /\ commands # <<>>
    BY <1>2 DEF AnswerLib, LibHandles, AnswerBoth, L!ResponseHandled
  <2>2. PICK t : Queue(t) /\ NoneIn(NotSent, t) /\ L!Sends(t)
    BY <2>1, LibResponseSends
  <2>3. NoneIn(Scan, t)
    BY <2>2 DEF NoneIn, NotSent
  <2> QED BY <2>1, <2>2, <2>3 DEF Adds1, L!Sends
<1>3. CASE StatusHandled
  <2>1. CASE \E c \in {"GET_NETWORK_PARAMETERS", "NETWORK_STATE"} : commands' = Append(commands, L!Cmd(c))
    BY <1>1, <2>1
  <2>2. CASE commands' = commands \o <<L!Cmd("GP_SINK_TABLE_INIT"), L!Cmd("GET_NETWORK_PARAMETERS")>>
    <3>1. PICK x, y : /\ x = L!Cmd("GP_SINK_TABLE_INIT") /\ y = L!Cmd("GET_NETWORK_PARAMETERS")
      OBVIOUS
    <3>2. Queue(<<x, y>>) /\ NoneIn(Scan, <<x, y>>)
      BY <3>1, QueueFacts DEF NoneIn, L!Cmd
    <3> QED BY <2>2, <3>1, <3>2 DEF Adds1
  <2>3. CASE UNCHANGED commands
    BY <2>3, Adding
  <2> QED BY <1>3, <2>1, <2>2, <2>3 DEF StatusHandled, L!HandleStackStatus
<1>4. CASE LibHandles(L!HandleDongleReady \/ L!HandleScanResult \/ L!HandleScanComplete
                      \/ L!HandleXmodemReady)
  <2>1. PICK x : x = [cmd |-> "VERSION", version |-> exp_ezsp_min_version]
    OBVIOUS
  <2>2. UNCHANGED commands \/ commands' = Append(commands, x)
    BY <1>4, <2>1 DEF LibHandles, L!HandleDongleReady, L!DongleInit, L!HandleScanResult,
       L!HandleScanComplete, L!HandleXmodemReady
  <2>3. x.cmd \notin Scan
    BY <2>1
  <2> QED BY <2>2, <2>3, Adding
<1>5. CASE L!Return
  <2>1. Head(running).rest = "start"
    BY <1>5 DEF L!Return, L!ReturnsFrom, Starting
  <2> QED BY <1>5, <2>1, Adding DEF L!Return, L!ReturnsFrom
<1>6. CASE Upgrades \/ EzspInitDone
  <2>1. \/ UNCHANGED commands
        \/ \E c \in {"GET_KEY", "LAUNCH_STANDALONE_BOOTLOADER"} :
             commands' = Append(commands, L!Cmd(c))
    BY <1>6 DEF Upgrades, EzspInitDone, L!GetNetworkKey, L!SetFirmwareUpgradeMode
  <2> QED BY <1>1, <2>1, Adding
<1>7. CASE ScansChannels \/ L!Start \/ L!AdapterLeaves \/ L!AdapterScans \/ Ignores \/ EzspRun
           \/ WindowCloses \/ MainWaits \/ Interrupted
  BY <1>7, Adding DEF ScansChannels, L!StartScan, L!Start, L!AdapterLeaves, L!AdapterScans, Ignores,
     EzspRun, WindowCloses, MainWaits, Interrupted
<1>8. ASSUME NEW t, Queue(t), AllIn(SinkCmds, t),
             commands' = commands \o t \/ (commands # <<>> /\ commands' = Tail(commands) \o t)
      PROVE  Adds1(Scan)
  <2>1. NoneIn(Scan, t)
    BY <1>0, <1>8 DEF AllIn, NoneIn
  <2> QED BY <1>8, <2>1 DEF Adds1
<1>9. CASE AnswerSink
  <2>1. PICK t : Queue(t) /\ AllIn(SinkCmds, t) /\ S!Sends(t)
    BY <1>9, SinkSendsOnly DEF AnswerSink, Sinks
  <2> QED BY <1>8, <1>9, <2>1 DEF AnswerSink, S!Sends
<1>10. CASE \/ S!ClearAllGPDevices
            \/ \E list : S!RemoveGPDevices(list) \/ S!AddGPDevices(list)
            \/ S!OpenCommissioningSession
            \/ \E d : S!CommissioningFrame(d)
  <2>1. PICK t : Queue(t) /\ AllIn(SinkCmds, t) /\ commands' = commands \o t
    BY <1>10, SinkRequestSends
  <2> QED BY <1>8, <2>1
<1>11. CASE RemovesAll \/ Removes \/ Adds
  BY <1>10, <1>11 DEF RemovesAll, Removes, Adds, Requests
<1>12. CASE OpensWindows
  BY <1>10, <1>12, Adding DEF OpensWindows
<1>13. CASE Reported
  BY <1>7, <1>10, <1>13 DEF Reported
<1> QED BY <1>2, <1>3, <1>4, <1>5, <1>6, <1>7, <1>9, <1>11, <1>12, <1>13
       DEF ExampleNext, Goes, CallbackRuns, EventHandled, Resumes, LibHandles, MainStarts

(* Who moves the program, and what happens while it is called back.          *)
LEMMA StateMoves ==
  ASSUME ExampleNext, ~UNCHANGED currentState
  PROVE  Upgrades \/ RemovesAll \/ Removes \/ Adds \/ OpensWindows \/ EzspInitDone \/ EzspRun
BY DEF ExampleNext, Goes, CallbackRuns, EventHandled, AnswerLib, Resumes, LibHandles, fsmVars,
   StatusHandled, AnswerSink, AnswerBoth, ScansChannels, Ignores, Reported, WindowCloses, MainStarts,
   MainWaits, Interrupted

LEMMA HeldMoves ==
  ASSUME ExampleNext, Called, callback = "scan", callback' = "scan"
  PROVE  UNCHANGED running
<1>1. mainThread # "starts"
  BY DEF Called
<1> QED BY <1>1 DEF ExampleNext, Goes, CallbackRuns, EventHandled, AnswerLib, Resumes, LibHandles,
   Free, StatusHandled, AnswerSink, AnswerBoth, Upgrades, RemovesAll, Removes, Adds, OpensWindows,
   EzspInitDone, EzspRun, Ready, ScansChannels, Ignores, Reported, WindowCloses, MainStarts,
   MainWaits, Interrupted, libVars, L!AdapterLeaves, L!AdapterScans

LEMMA ScanOnceStays ==
  ASSUME ExampleInv, ExampleInv', ScanOnce, ExampleNext
  PROVE  ScanOnce'
<1> SUFFICES ASSUME currentState' \in BeforeScan \/ callback' = "scan"
             PROVE  NotYet' /\ NoneIn({"START_SCAN"}, commands') /\ running' \in Starting
  BY DEF ScanOnce
<1>0. /\ Queue(commands) /\ Lib!TypeOK /\ Lib!TypeOK' /\ Control /\ Called /\ Called'
  BY DEF ExampleInv, Control, Lib!LibInvariant
<1>1. callback' = "scan" => callback = "scan" \/ OpensWindows
  <2>1. CASE LibraryActs \/ AnswerBoth \/ AnswerSink \/ StatusHandled
    BY <2>1 DEF LibraryActs, AnswerLib, LibHandles, Resumes, CallsBack, AnswerBoth, AnswerSink,
       StatusHandled, Upgrades, ScansChannels, EzspInitDone, MainStarts, Ready, fsmVars
  <2>2. CASE RemovesAll \/ Removes \/ Adds \/ OpensWindows
    BY <2>2 DEF RemovesAll, Removes, Adds, Requests, OpensWindows, Ready
  <2>3. CASE Ignores \/ EzspRun \/ WindowCloses \/ MainWaits \/ Interrupted
    BY <2>3 DEF Ignores, EzspRun, WindowCloses, MainWaits, Interrupted, fsmVars
  <2>4. CASE \E d \in Devices : FrameArrives(d)
    BY <2>4 DEF FrameArrives, fsmVars
  <2> QED BY <2>1, <2>2, <2>3, <2>4
       DEF ExampleNext, Goes, CallbackRuns, EventHandled, Reported, LibraryActs, FrameArrives
<1>2. currentState \in BeforeScan \/ callback = "scan"
  <2>1. CASE callback' = "scan"
    BY <1>1, <2>1 DEF OpensWindows, Added, Removed, BeforeScan
  <2>2. CASE currentState' \in BeforeScan /\ callback' # "scan"
    <3>1. CASE UNCHANGED currentState
      BY <2>2, <3>1
    <3>2. CASE ~UNCHANGED currentState
      <4>1. Upgrades \/ RemovesAll \/ Removes \/ Adds
        BY <2>2, <3>2, StateMoves DEF BeforeScan, OpensWindows, EzspInitDone, EzspRun
      <4> QED BY <4>1 DEF Upgrades, RemovesAll, Removes, Adds, Removed, BeforeScan
    <3> QED BY <3>1, <3>2
  <2> QED BY <2>1, <2>2
<1>3. NotYet /\ NoneIn({"START_SCAN"}, commands) /\ running \in Starting
  BY <1>2 DEF ScanOnce
<1>4. ~(AnswerLib /\ L!StartScanAnswered)
  <2>1. commands # <<>> => 1 \in 1 .. Len(commands) /\ Head(commands) = commands[1]
    BY <1>0, SeqFacts DEF Queue
  <2> QED BY <1>3, <2>1 DEF L!StartScanAnswered, L!Answered, NoneIn
<1>5. NotYet'
  BY <1>0, <1>3, <1>4, NotYetStays
<1>6. NoneIn({"START_SCAN"}, commands')
  BY <1>0, <1>3, NobodyScans, Adding
<1>7. running' \in Starting
  <2>1. CASE currentState' \in BeforeScan
    BY <1>0, <2>1 DEF Called
  <2>2. CASE callback' = "scan"
    <3>1. CASE OpensWindows
      BY <1>3, <3>1 DEF OpensWindows, libVars
    <3>2. CASE callback = "scan"
      <4>1. UNCHANGED running
        BY <1>0, <2>2, <3>2, HeldMoves
      <4> QED BY <1>3, <4>1
    <3> QED BY <1>1, <2>2, <3>1, <3>2
  <2> QED BY <2>1, <2>2
<1> QED BY <1>5, <1>6, <1>7

-----------------------------------------------------------------------------
(* Where the sink is with what the program has asked of it.                  *)

(* Devices are removed, or others added and commissioned, but not both.      *)
Separate == options.remove = <<>> \/ (options.add = <<>> /\ ~options.commission)

FromScan == {"SCAN_CHANNELS", "GET_NW_KEY", "RUN"}
InTables == Own!Contents(sinkTable) \cup Own!Contents(proxyTable)
Did(op, list) == lastOp = [op |-> op, devices |-> Given(list)]
Done(busy) == sink_state \in {"SINK_READY", busy}

Begun ==
  /\ Done("SINK_NOT_INIT") /\ lastOp.op = "none" /\ proxy_table_index = 0
  /\ removeAllGPDAtStartup = options.removeAll /\ gpdRemoveList = options.remove
  /\ gpdAddList = options.add

Clearing ==
  Done("SINK_CLEAR_ALL") /\ lastOp.op = "clear" /\ options.removeAll /\ gpdAddList = options.add

Removing ==
  /\ Done("SINK_REMOVE_IN_PROGRESS") /\ Did("remove", options.remove)
  /\ options.remove # <<>> /\ gpdAddList = options.add

AddsThem ==
  /\ Did("add", options.add)
  /\ sink_state = "SINK_COM_OFFLINE_IN_PROGRESS" => Given(gpds_to_register) \subseteq Given(options.add)
  /\ options.removeAll => InTables \subseteq Given(options.add)

AddingThem == Done("SINK_COM_OFFLINE_IN_PROGRESS") /\ options.add # <<>> /\ AddsThem

(* While devices are commissioned, what was added stays.                     *)
Commissions ==
  /\ sink_state \in {"SINK_READY", "SINK_COM_OPEN", "SINK_COM_IN_PROGRESS"}
  /\ Own!Succeeds => Given(options.add) \subseteq Own!InBoth

(* Otherwise what was done last stays done.                                  *)
Rested ==
  /\ sink_state = "SINK_READY"
  /\ options.add # <<>> => AddsThem
  /\ options.add = <<>> /\ options.remove # <<>> => Did("remove", options.remove)
  /\ options.add = <<>> /\ options.removeAll => lastOp.op = "clear"

Stage ==
  /\ {"overlap", "secondClear"} \cap sinkMishaps = {}
  /\ currentState \in BeforeScan \cup FromScan
  /\ options.remove = <<>> => lastOp.op # "remove"
  /\ currentState = "INIT_PENDING" => Begun
  /\ currentState = "REMOVE_ALL_GPD" => Clearing
  /\ currentState = "REMOVE_SPECIFIC_GPD" => Removing
  /\ currentState = "ADD_GPD" => AddingThem
  /\ currentState \in FromScan => IF options.commission THEN Commissions ELSE Rested

Stages == Separate => Stage

(* An operation that begins while the sink is idle.                          *)
LEMMA BeginsAlone ==
  ASSUME Queue(commands), OwnInv, "overlap" \notin sinkMishaps,
         sink_state \in {"SINK_READY", "SINK_NOT_INIT", "SINK_COM_OPEN"},
         sink_state = "SINK_READY" => lastOp.op # "remove",
         NEW o, NEW D, NEW M, S!Begins(o, D, M)
  PROVE  sinkMishaps' = sinkMishaps \cup M /\ lastOp' = [op |-> o, devices |-> D]
<1>1. Own!Chain /\ Own!TypeOK
  BY DEF OwnInv, Own!ChainInv
<1>2. Own!Idle
  <2>1. \A d : ~Own!Unpairs(d) \/ lastOp.op = "remove"
    BY DEF Own!Unpairs
  <2> QED BY <1>1, <2>1 DEF Own!Chain, Own!Rests
<1>3. ~S!Leftover
  BY <1>1, <1>2, SinkLeftover, OwnLeftover, OwnAssumption, Own!IdleIsNoLeftover
<1> QED BY <1>3 DEF S!Begins, S!Overlap, S!Happens

(* When the library is ready for the first time, or again, so is the sink.   *)
LEMMA ReadyToAsk ==
  ASSUME ExampleInv, OwnInv, callback = "ready", currentState \in BeforeScan
  PROVE  sink_state \notin {"SINK_NOT_INIT"} \cup Own!Requested
<1>1. lib_state = "READY"
  BY DEF ExampleInv, Control, Called
<1>2. sink_state # "SINK_NOT_INIT"
  BY <1>1 DEF ExampleInv, Control, SinkFirst
<1>3. SinkLib = "READY"
  BY <1>1, <1>2 DEF SinkLib
<1> QED BY <1>2, <1>3 DEF OwnInv, Own!LibFollowsSink, SinkLib

LEMMA GivenIsElements ==
  /\ \A list : Given(list) = Own!Elements(list)
  /\ Given(<<>>) = {}
BY DEF Given, Own!Elements

(* A step of the program that leaves the sink as it is.                      *)
LEMMA StageAside ==
  ASSUME Stage, UNCHANGED <<sinkVars, options>>,
         \/ UNCHANGED <<currentState, removeAllGPDAtStartup, gpdRemoveList, gpdAddList>>
         \/ currentState' = "FW_UPGRADE"
         \/ currentState \in FromScan /\ currentState' \in FromScan
  PROVE  Stage'
<1>1. UNCHANGED <<sink_state, gpds_to_register, proxy_table_index, sinkTable, proxyTable, lastOp,
                  sinkMishaps, options>>
  BY DEF sinkVars
<1>2. /\ UNCHANGED <<InTables, Own!InBoth, Own!Succeeds>>
      /\ \A op, list : Did(op, list)' <=> lastOp = [op |-> op, devices |-> Given(list)]
  BY <1>1 DEF InTables, Own!InBoth, Own!Succeeds, Own!Contents, Did
<1>3. /\ Did("add", options.add)' <=> Did("add", options.add)
      /\ Did("remove", options.remove)' <=> Did("remove", options.remove)
      /\ Given(options.add)' = Given(options.add) /\ Given(gpds_to_register)' = Given(gpds_to_register)
  BY <1>1 DEF Did, Given
<1>4. AddsThem' <=> AddsThem
  BY <1>1, <1>2, <1>3 DEF AddsThem
<1>5. (Commissions' <=> Commissions) /\ (Rested' <=> Rested)
  BY <1>1, <1>2, <1>3, <1>4 DEF Commissions, Rested
<1>6. CASE UNCHANGED <<currentState, removeAllGPDAtStartup, gpdRemoveList, gpdAddList>>
  <2>1. /\ Begun' <=> Begun
        /\ Clearing' <=> Clearing
        /\ Removing' <=> Removing
        /\ AddingThem' <=> AddingThem
    BY <1>1, <1>3, <1>4, <1>6 DEF Begun, Clearing, Removing, AddingThem, Done
  <2> QED BY <1>1, <1>5, <1>6, <2>1 DEF Stage
<1>7. CASE currentState' = "FW_UPGRADE" \/ (currentState \in FromScan /\ currentState' \in FromScan)
  BY <1>1, <1>5, <1>7 DEF Stage, BeforeScan, FromScan
<1> QED BY <1>6, <1>7

LEMMA StageComesUp ==
  ASSUME Queue(commands), OwnInv, Stage, sink_state = "SINK_NOT_INIT", S!NetworkUp,
         UNCHANGED <<options, fsmVars>>
  PROVE  Stage'
<1>1. sinkMishaps' = sinkMishaps /\ lastOp' = [op |-> "none", devices |-> {}]
  BY BeginsAlone DEF S!NetworkUp, Stage
<1>2. sink_state' = "SINK_READY" /\ UNCHANGED proxy_table_index
  BY DEF S!NetworkUp, S!SetSinkState
<1>3. UNCHANGED <<currentState, removeAllGPDAtStartup, gpdRemoveList, gpdAddList>>
  BY DEF fsmVars
<1>4. currentState \in {"INIT_PENDING", "FW_UPGRADE"}
  BY DEF Stage, BeforeScan, FromScan, Clearing, Removing, AddingThem, Commissions, Rested, Done
<1> QED BY <1>1, <1>2, <1>3, <1>4 DEF Stage, Begun, Done, FromScan

LEMMA StageRequests ==
  ASSUME ExampleInv, OwnInv, Separate, Stage, RemovesAll \/ Removes \/ Adds
  PROVE  Stage'
<1>1. /\ Queue(commands) /\ "overlap" \notin sinkMishaps /\ "secondClear" \notin sinkMishaps
      /\ sink_state = "SINK_READY" /\ UNCHANGED options /\ options \in Options
      /\ options.remove = <<>> => lastOp.op # "remove"
  BY DEF ExampleInv, Control, Lists, Stage, RemovesAll, Removes, Adds, Ready, Requests,
     S!ClearAllGPDevices, S!RemoveGPDevices, S!AddGPDevices, S!RequestAccepted
<1>2. CASE RemovesAll
  <2>1. Begun /\ S!ClearAllGPDevices
    BY <1>2 DEF RemovesAll, Stage, Requests
  <2>2. sinkMishaps' = sinkMishaps /\ lastOp' = [op |-> "clear", devices |-> Devices]
    BY <1>1, <2>1, BeginsAlone DEF S!ClearAllGPDevices, Begun
  <2>3. sink_state' = "SINK_CLEAR_ALL" /\ UNCHANGED gpdAddList /\ currentState' = "REMOVE_ALL_GPD"
    BY <1>2, <2>1 DEF RemovesAll, S!ClearAllGPDevices, S!RequestAccepted, S!SetSinkState
  <2>4. Clearing'
    BY <1>1, <1>2, <2>1, <2>2, <2>3 DEF Clearing, Begun, Done, RemovesAll
  <2> QED BY <1>1, <2>2, <2>3, <2>4 DEF Stage, BeforeScan, FromScan
<1>3. CASE Removes
  <2>1. Begun /\ S!RemoveGPDevices(gpdRemoveList) /\ gpdRemoveList # <<>>
    BY <1>3 DEF Removes, Stage, Requests
  <2>2. PICK list : list = gpdRemoveList
    OBVIOUS
  <2>3. list = options.remove /\ list # <<>> /\ S!RemoveGPDevices(list)
    BY <2>1, <2>2 DEF Begun
  <2>4. sinkMishaps' = sinkMishaps /\ lastOp' = [op |-> "remove", devices |-> Given(list)]
    <3>1. S!Begins("remove", Given(list), {}) /\ lastOp.op # "remove"
      BY <2>1, <2>3 DEF S!RemoveGPDevices, Begun, Given
    <3> QED BY <1>1, <3>1, BeginsAlone
  <2>5. sink_state' = "SINK_REMOVE_IN_PROGRESS" /\ UNCHANGED gpdAddList
        /\ currentState' = "REMOVE_SPECIFIC_GPD"
    BY <1>3, <2>3 DEF Removes, S!RemoveGPDevices, S!RequestAccepted, S!SetSinkState
  <2>6. Removing'
    BY <1>1, <2>1, <2>3, <2>4, <2>5 DEF Removing, Begun, Done, Did
  <2> QED BY <1>1, <2>3, <2>4, <2>5, <2>6 DEF Stage, BeforeScan, FromScan
<1>4. CASE Adds
  <2>1. /\ Removed /\ S!AddGPDevices(gpdAddList) /\ gpdAddList # <<>>
        /\ currentState' = "ADD_GPD"
    BY <1>4 DEF Adds, Requests
  <2>2. PICK list : list = gpdAddList
    OBVIOUS
  <2>3. list = options.add /\ list # <<>> /\ S!AddGPDevices(list)
    BY <2>1, <2>2 DEF Removed, Stage, Begun, Clearing, Removing
  <2>4. options.remove = <<>>
    BY <2>3 DEF Separate
  <2>5. sinkMishaps' = sinkMishaps /\ lastOp' = [op |-> "add", devices |-> Given(list)]
    <3>1. S!Begins("add", Given(list), {}) /\ lastOp.op # "remove"
      BY <1>1, <2>3, <2>4 DEF S!AddGPDevices, Given
    <3> QED BY <1>1, <3>1, BeginsAlone
  <2>6. /\ sink_state' = "SINK_COM_OFFLINE_IN_PROGRESS" /\ gpds_to_register' = list
        /\ UNCHANGED <<sinkTable, proxyTable>>
    BY <2>3 DEF S!AddGPDevices, S!RequestAccepted, S!SetSinkState, S!tableVars
  <2>7. options.removeAll => InTables = {}
    <3>1. CASE currentState = "INIT_PENDING"
      BY <2>1, <3>1 DEF Removed, Stage, Begun
    <3>2. CASE currentState = "REMOVE_ALL_GPD"
      <4>1. lastOp.op = "clear" /\ Own!FirstClear /\ Own!Chain
        BY <1>1, <3>2 DEF Stage, Clearing, Own!FirstClear, OwnInv, Own!ChainInv
      <4>2. \A d : ~Own!Unpairs(d)
        BY <4>1 DEF Own!Unpairs
      <4> QED BY <1>1, <4>1, <4>2 DEF Own!Chain, Own!Rests, Own!Achieved, InTables
    <3>3. CASE currentState = "REMOVE_SPECIFIC_GPD"
      BY <2>4, <3>3 DEF Stage, Removing
    <3> QED BY <2>1, <3>1, <3>2, <3>3 DEF Removed
  <2>8. InTables' = InTables
    BY <2>6 DEF InTables, Own!Contents
  <2>9. AddingThem'
    BY <1>1, <2>3, <2>5, <2>6, <2>7, <2>8 DEF AddingThem, AddsThem, Done, Did
  <2> QED BY <1>1, <2>1, <2>5, <2>9 DEF Stage, BeforeScan, FromScan
<1> QED BY <1>2, <1>3, <1>4

LEMMA StageFrames ==
  ASSUME Queue(commands), OwnInv, Stage, NEW d, FrameArrives(d)
  PROVE  Stage'
<1>1. /\ sink_state = "SINK_COM_OPEN" /\ sink_state' = "SINK_COM_IN_PROGRESS"
      /\ S!Begins("commission", {d}, {}) /\ UNCHANGED <<sinkTable, proxyTable, options, fsmVars>>
  BY DEF FrameArrives, S!CommissioningFrame, S!SetSinkState, S!tableVars
<1>2. sinkMishaps' = sinkMishaps /\ lastOp' = [op |-> "commission", devices |-> {d}]
  BY <1>1, BeginsAlone DEF Stage
<1>3. UNCHANGED currentState
  BY <1>1 DEF fsmVars
<1>4. currentState = "FW_UPGRADE" \/ (currentState \in FromScan /\ options.commission)
  BY <1>1 DEF Stage, BeforeScan, FromScan, Begun, Clearing, Removing, AddingThem, Rested, Done
<1>5. Commissions => Commissions'
  BY <1>1, <1>2 DEF Commissions, Own!Succeeds, Own!InBoth, Own!Contents
<1> QED BY <1>1, <1>2, <1>3, <1>4, <1>5 DEF Stage, FromScan

LEMMA StageOpens ==
  ASSUME ExampleInv, OwnInv, Separate, Stage, OpensWindows
  PROVE  Stage'
<1>1. /\ callback = "ready" /\ Added /\ UNCHANGED options
      /\ currentState \in BeforeScan /\ currentState' = "SCAN_CHANNELS" /\ options \in Options
      /\ "overlap" \notin sinkMishaps
  BY DEF OpensWindows, Ready, Added, Removed, BeforeScan, ExampleInv, Control, Lists, Stage
<1>2. sink_state = "SINK_READY"
  <2>1. sink_state \notin {"SINK_NOT_INIT"} \cup Own!Requested
    BY <1>1, ReadyToAsk
  <2> QED BY <1>1, <2>1 DEF Stage, Added, Removed, Begun, Clearing, Removing, AddingThem, Done,
      Own!Requested
<1>3. Own!Rests
  BY <1>1, <1>2 DEF OwnInv, Own!ChainInv, Own!Chain
<1>4. /\ options.add # <<>> => currentState = "ADD_GPD"
      /\ options.add = <<>> /\ options.remove # <<>> => currentState = "REMOVE_SPECIFIC_GPD"
      /\ options.add = <<>> /\ options.removeAll => currentState = "REMOVE_ALL_GPD"
  <2>1. options.removeAll => options.remove = <<>>
    BY <1>1 DEF Options
  <2> QED BY <1>1, <2>1 DEF Added, Removed, Stage, Begun, Clearing, Removing, AddingThem
<1>5. CASE options.commission
  <2>1. options.remove = <<>> /\ lastOp.op # "remove" /\ Queue(commands)
    BY <1>5 DEF Separate, Stage, ExampleInv
  <2>2. S!OpenCommissioningSession
    BY <1>5 DEF OpensWindows
  <2>3. sinkMishaps' = sinkMishaps /\ lastOp' = [op |-> "none", devices |-> {}]
    <3>1. S!Begins("none", {}, {})
      BY <2>2 DEF S!OpenCommissioningSession
    <3>2. sink_state = "SINK_READY" /\ lastOp.op # "remove" /\ "overlap" \notin sinkMishaps
      BY <1>1, <1>2, <2>1
    <3>3. sinkMishaps' = sinkMishaps \cup {} /\ lastOp' = [op |-> "none", devices |-> {}]
      BY <2>1, <3>1, <3>2, BeginsAlone
    <3> QED BY <3>3
  <2>4. sink_state' = "SINK_COM_OPEN" /\ UNCHANGED <<sinkTable, proxyTable>>
    BY <2>2 DEF S!OpenCommissioningSession, S!SetSinkState, S!tableVars
  <2>5. Own!Succeeds => Given(options.add) \subseteq Own!InBoth
    <3>1. CASE options.add = <<>>
      BY <3>1, GivenIsElements
    <3>2. CASE options.add # <<>>
      <4>1. Did("add", options.add)
        BY <1>4, <3>2 DEF Stage, AddingThem, AddsThem
      <4>2. lastOp.op = "add" /\ lastOp.devices = Given(options.add)
        BY <4>1 DEF Did
      <4>3. \A e : ~Own!Unpairs(e)
        BY <4>2 DEF Own!Unpairs
      <4> QED BY <1>3, <4>2, <4>3 DEF Own!Rests, Own!Achieved
    <3> QED BY <3>1, <3>2
  <2>6. Commissions'
    BY <1>1, <2>3, <2>4, <2>5 DEF Commissions, Own!Succeeds, Own!InBoth, Own!Contents
  <2> QED BY <1>1, <1>5, <2>3, <2>6 DEF Stage, BeforeScan, FromScan
<1>6. CASE ~options.commission
  <2>1. UNCHANGED sinkVars
    BY <1>6 DEF OpensWindows
  <2>2. UNCHANGED <<sink_state, sinkTable, proxyTable, lastOp, sinkMishaps>>
    BY <2>1 DEF sinkVars
  <2>3. Rested
    BY <1>2, <1>4 DEF Rested, Stage, Clearing, Removing, AddingThem
  <2>4. Rested'
    BY <1>1, <2>2, <2>3 DEF Rested, AddsThem, Did, InTables, Own!Contents
  <2> QED BY <1>1, <1>6, <2>2, <2>4 DEF Stage, BeforeScan, FromScan
<1> QED BY <1>5, <1>6

LEMMA StageResponses ==
  ASSUME Queue(commands), OwnInv, Separate, Stage, AnswerSink \/ AnswerBoth
  PROVE  Stage'
<1>1. /\ S!HandleEzspRxMessage /\ UNCHANGED <<options, fsmVars>>
      /\ commands # <<>> /\ Head(commands).cmd \in KnownCmds
  BY DEF AnswerSink, AnswerBoth, S!HandleEzspRxMessage, KnownCmds
<1>2. Own!HandleEzspRxMessage
  BY <1>1, SinkResponses, OwnResponses
<1>3. /\ lastOp' = lastOp /\ sinkMishaps \subseteq sinkMishaps'
      /\ sinkMishaps' \subseteq sinkMishaps \cup {"full", "setFails"}
      /\ sink_state' \in {sink_state, "SINK_READY"}
      /\ gpds_to_register' # gpds_to_register => gpds_to_register' = Tail(gpds_to_register)
      /\ proxy_table_index' # proxy_table_index => sink_state = "SINK_CLEAR_ALL"
  BY <1>2, OwnAssumption, Own!ResponseLeaves
<1>4. Own!Chain /\ Own!TypeOK /\ Own!ListsNotEmpty
  BY DEF OwnInv, Own!ChainInv, Stage
<1>5. UNCHANGED <<currentState, removeAllGPDAtStartup, gpdRemoveList, gpdAddList, options>>
  BY <1>1 DEF fsmVars
<1>6. ASSUME sink_state \in {"SINK_READY", "SINK_NOT_INIT", "SINK_COM_OPEN"} \cup Own!Registering,
             lastOp.op # "remove"
      PROVE  /\ Own!InBoth \subseteq Own!InBoth'
             /\ \/ UNCHANGED InTables
                \/ /\ sink_state \in Own!Registering
                   /\ InTables' \subseteq InTables \cup {Own!Current}
  <2>1. \A d : ~Own!Unpairs(d)
    BY <1>6 DEF Own!Unpairs
  <2>2. sink_state \in Own!Registering \/ Own!Idle
    BY <1>4, <1>6, <2>1 DEF Own!Chain, Own!Rests
  <2>3. /\ Own!InBoth \subseteq Own!InBoth'
        /\ \/ UNCHANGED (Own!tableVars)
           \/ /\ sink_state \in Own!Registering
              /\ (Own!Contents(sinkTable) \cup Own!Contents(proxyTable))'
                   \subseteq Own!Contents(sinkTable) \cup Own!Contents(proxyTable) \cup {Own!Current}
    BY <1>2, <1>4, <2>2, OwnAssumption, Own!OnlyCurrentEnters
  <2>4. UNCHANGED (Own!tableVars) => UNCHANGED InTables
    BY DEF Own!tableVars, InTables, Own!Contents
  <2> QED BY <2>3, <2>4 DEF InTables
<1>7. ASSUME AddsThem, sink_state \in {"SINK_READY", "SINK_COM_OFFLINE_IN_PROGRESS"}
      PROVE  AddsThem'
  <2>1. lastOp.op = "add"
    BY <1>7 DEF AddsThem, Did
  <2>2. Did("add", options.add)' /\ Given(options.add)' = Given(options.add)
    BY <1>3, <1>5, <1>7 DEF AddsThem, Did, Given
  <2>3. CASE sink_state = "SINK_READY"
    <3>1. UNCHANGED InTables /\ sink_state' = "SINK_READY"
      BY <1>3, <1>6, <2>1, <2>3 DEF Own!Registering
    <3> QED BY <1>5, <1>7, <2>2, <3>1 DEF AddsThem
  <2>4. CASE sink_state = "SINK_COM_OFFLINE_IN_PROGRESS"
    <3>1. gpds_to_register # <<>> /\ gpds_to_register \in Seq(Devices)
      BY <1>4, <2>4 DEF Own!ListsNotEmpty, Own!TypeOK
    <3>2. /\ Given(Tail(gpds_to_register)) \subseteq Given(gpds_to_register)
          /\ Head(gpds_to_register) \in Given(gpds_to_register)
      BY <3>1, SeqFacts DEF Given
    <3>3. Given(gpds_to_register)' \subseteq Given(gpds_to_register)
      BY <1>3, <3>2 DEF Given
    <3>4. Own!Current = Head(gpds_to_register)
      BY <2>4 DEF Own!Current
    <3>5. InTables' \subseteq InTables \cup {Head(gpds_to_register)}
      BY <1>6, <2>1, <2>4, <3>4 DEF Own!Registering
    <3>6. Given(gpds_to_register) \subseteq Given(options.add)
      BY <1>7, <2>4 DEF AddsThem
    <3> QED BY <1>5, <1>7, <2>2, <3>2, <3>3, <3>5, <3>6 DEF AddsThem
  <2> QED BY <1>7, <2>3, <2>4
<1>8. /\ Begun => Begun'
      /\ Clearing => Clearing'
      /\ Removing => Removing'
      /\ AddingThem => AddingThem'
  <2>1. Begun => Begun'
    BY <1>3, <1>5 DEF Begun, Done
  <2>2. Clearing => Clearing'
    BY <1>3, <1>5 DEF Clearing, Done
  <2>3. Removing => Removing'
    BY <1>3, <1>5 DEF Removing, Done, Did, Given
  <2>4. AddingThem => AddingThem'
    BY <1>3, <1>5, <1>7 DEF AddingThem, Done
  <2> QED BY <2>1, <2>2, <2>3, <2>4
<1>9. Commissions /\ options.commission => Commissions'
  <2> SUFFICES ASSUME Commissions, options.commission PROVE Commissions'
    OBVIOUS
  <2>1. lastOp.op # "remove"
    BY DEF Separate, Stage
  <2>2. Own!InBoth \subseteq Own!InBoth'
    BY <1>6, <2>1 DEF Commissions, Own!Registering
  <2>3. Own!Succeeds' => Own!Succeeds
    BY <1>3 DEF Own!Succeeds
  <2>4. Given(options.add)' = Given(options.add)
    BY <1>5 DEF Given
  <2> QED BY <1>3, <2>2, <2>3, <2>4 DEF Commissions
<1>10. Rested => Rested'
  BY <1>3, <1>5, <1>7 DEF Rested, Did, Given
<1> QED BY <1>3, <1>5, <1>8, <1>9, <1>10 DEF Stage

LEMMA StageStays ==
  ASSUME ExampleInv, ExampleInv', OwnInv, SinkOnce, Called, Separate, Stage, ExampleNext
  PROVE  Stage'
<1>0. Queue(commands)
  BY DEF ExampleInv
<1>1. CASE StatusHandled /\ NetworkComesUp
  <2>1. sink_state = "SINK_NOT_INIT" /\ S!NetworkUp
    BY <1>1, SinkComesUp
  <2> QED BY <1>0, <1>1, <2>1, StageComesUp DEF StatusHandled
<1>2. CASE AnswerSink \/ AnswerBoth
  BY <1>0, <1>2, StageResponses
<1>3. CASE RemovesAll \/ Removes \/ Adds
  BY <1>3, StageRequests
<1>4. CASE OpensWindows
  BY <1>4, StageOpens
<1>5. CASE \E d \in Devices : FrameArrives(d)
  BY <1>0, <1>5, StageFrames
<1>6. CASE LibraryActs \/ Ignores \/ EzspRun \/ WindowCloses \/ MainWaits \/ Interrupted
  <2>1. UNCHANGED <<sinkVars, options>>
    BY <1>6 DEF LibraryActs, AnswerLib, Resumes, LibHandles, Upgrades, Ready, ScansChannels,
       EzspInitDone, MainStarts, StatusHandled, NetworkComesUp, Ignores, EzspRun, WindowCloses,
       MainWaits, Interrupted
  <2>2. CASE UNCHANGED currentState
    <3>1. UNCHANGED <<removeAllGPDAtStartup, gpdRemoveList, gpdAddList>>
      BY <1>6 DEF LibraryActs, AnswerLib, Resumes, LibHandles, Upgrades, ScansChannels,
         EzspInitDone, MainStarts, StatusHandled, Ignores, EzspRun, WindowCloses, MainWaits,
         Interrupted, fsmVars
    <3> QED BY <2>1, <2>2, <3>1, StageAside
  <2>3. CASE ~UNCHANGED currentState
    <3>1. Upgrades \/ EzspInitDone \/ EzspRun
      BY <1>6, <2>3 DEF LibraryActs, AnswerLib, Resumes, LibHandles, ScansChannels, MainStarts,
         StatusHandled, Ignores, WindowCloses, MainWaits, Interrupted, fsmVars
    <3>2. Upgrades => currentState' = "FW_UPGRADE"
      BY DEF Upgrades
    <3>3. EzspInitDone \/ EzspRun => currentState \in FromScan /\ currentState' \in FromScan
      BY DEF EzspInitDone, EzspRun, Called, Stage, FromScan
    <3> QED BY <2>1, <3>1, <3>2, <3>3, StageAside
  <2> QED BY <2>2, <2>3
<1> QED BY <1>1, <1>2, <1>3, <1>4, <1>5, <1>6
       DEF ExampleNext, Goes, CallbackRuns, EventHandled, Reported, LibraryActs, FrameArrives

(* A sink that is ready sends nothing by itself.                             *)
LEMMA ReadySendsNothing ==
  ASSUME S!HandleEzspRxMessage, sink_state = "SINK_READY"
  PROVE  S!Sends(<<>>)
<1> USE DEF S!GoesOn, S!Ends, S!Registering
<1>1. CASE S!FindOrAllocateAnswered
  BY <1>1 DEF S!FindOrAllocateAnswered
<1>2. CASE S!GetEntryAnswered
  BY <1>2 DEF S!GetEntryAnswered
<1>3. CASE S!SetEntryAnswered
  BY <1>3 DEF S!SetEntryAnswered
<1>4. CASE S!SinkLookupAnswered
  BY <1>4 DEF S!SinkLookupAnswered
<1>5. CASE S!ProxyLookupAnswered
  BY <1>5 DEF S!ProxyLookupAnswered
<1>6. CASE S!ProxyGetEntryAnswered
  BY <1>6 DEF S!ProxyGetEntryAnswered
<1>7. CASE S!PairingAnswered
  BY <1>7 DEF S!PairingAnswered
<1>8. CASE S!OtherAnswered
  BY <1>8 DEF S!OtherAnswered
<1> QED BY <1>1, <1>2, <1>3, <1>4, <1>5, <1>6, <1>7, <1>8 DEF S!HandleEzspRxMessage

(* A scan that is queued is queued after all commands of the sink.           *)
ScanLast(s) ==
  \A i, j \in 1 .. Len(s) : s[i].cmd = "START_SCAN" /\ s[j].cmd \in SinkCmds => j < i

LEMMA ScanLastMore ==
  ASSUME NEW s, NEW t, Queue(s), Queue(t), ScanLast(s), NoneIn(SinkCmds, t)
  PROVE  ScanLast(s \o t) /\ (s # <<>> => ScanLast(Tail(s) \o t))
<1>1. ASSUME NEW r, Queue(r), ScanLast(r) PROVE ScanLast(r \o t)
  <2>1. PICK T : r \in Seq(T) /\ t \in Seq(T)
    BY <1>1, QueueConcat
  <2>2. /\ Len(r) \in Nat /\ Len(t) \in Nat /\ Len(r \o t) = Len(r) + Len(t)
        /\ \A i \in 1 .. Len(r \o t) : (r \o t)[i] = IF i <= Len(r) THEN r[i] ELSE t[i - Len(r)]
    BY <2>1
  <2> SUFFICES ASSUME NEW i \in 1 .. Len(r \o t), NEW j \in 1 .. Len(r \o t),
                      (r \o t)[i].cmd = "START_SCAN", (r \o t)[j].cmd \in SinkCmds
               PROVE  j < i
    BY DEF ScanLast
  <2>3. j <= Len(r) /\ (r \o t)[j] = r[j]
    <3>1. CASE j > Len(r)
      <4>1. j - Len(r) \in 1 .. Len(t) /\ (r \o t)[j] = t[j - Len(r)]
        BY <2>2, <3>1
      <4> QED BY <4>1 DEF NoneIn
    <3>2. CASE j <= Len(r)
      BY <2>2, <3>2
    <3> QED BY <2>2, <3>1, <3>2
  <2>4. CASE i <= Len(r)
    BY <1>1, <2>2, <2>3, <2>4 DEF ScanLast
  <2>5. CASE i > Len(r)
    BY <2>2, <2>3, <2>5
  <2> QED BY <2>2, <2>4, <2>5
<1>2. ASSUME s # <<>> PROVE Queue(Tail(s)) /\ ScanLast(Tail(s))
  <2>1. PICK T : s \in Seq(T)
    BY DEF Queue
  <2>2. /\ Len(s) \in Nat /\ Len(Tail(s)) = Len(s) - 1
        /\ \A i \in 1 .. Len(Tail(s)) : Tail(s)[i] = s[i + 1]
    BY <1>2, <2>1
  <2>3. ScanLast(Tail(s))
    <3> SUFFICES ASSUME NEW i \in 1 .. Len(Tail(s)), NEW j \in 1 .. Len(Tail(s)),
                        Tail(s)[i].cmd = "START_SCAN", Tail(s)[j].cmd \in SinkCmds
                 PROVE  j < i
      BY DEF ScanLast
    <3>1. i + 1 \in 1 .. Len(s) /\ j + 1 \in 1 .. Len(s)
      BY <2>2
    <3>2. j + 1 < i + 1
      BY <2>2, <3>1 DEF ScanLast
    <3> QED BY <3>2
  <2> QED BY <1>2, <2>3, QueueFacts
<1> QED BY <1>1, <1>2

(* What removes devices is over when the scan is, unless others are          *)
(* commissioned meanwhile.                                                   *)
ScanInv ==
  Separate /\ options.remove # <<>> =>
    ScanLast(commands) /\ (NotYet \/ NoneIn(SinkCmds, commands))

LEMMA NothingMoreSent ==
  ASSUME ExampleInv, Separate, options.remove # <<>>, Stage, ExampleNext,
         currentState' \in FromScan, callback' # "scan"
  PROVE  Adds1(SinkCmds)
<1>0. Queue(commands) /\ Asked /\ Lib!TypeOK
  BY DEF ExampleInv, Control, Lib!LibInvariant
<1>1. CASE LibraryActs
  <2>1. Adds1(OthersCmds)
    BY <1>0, <1>1, LibraryAddsOwn, AddingOwn
  <2>2. PICK t : /\ Queue(t) /\ NoneIn(OthersCmds, t)
                 /\ commands' = commands \o t \/ (commands # <<>> /\ commands' = Tail(commands) \o t)
    BY <2>1 DEF Adds1
  <2>3. NoneIn(SinkCmds, t)
    BY <2>2 DEF NoneIn, OthersCmds
  <2> QED BY <2>2, <2>3 DEF Adds1
<1>2. CASE StatusHandled /\ NetworkComesUp
  <2>1. PICK x, y : x = L!Cmd("GP_SINK_TABLE_INIT") /\ y = L!Cmd("GET_NETWORK_PARAMETERS")
    OBVIOUS
  <2>2. Queue(<<x, y>>) /\ NoneIn(SinkCmds, <<x, y>>)
    BY <2>1, QueueFacts DEF NoneIn, L!Cmd, SinkCmds, S!DeviceCmds, S!IndexCmds
  <2>3. commands' = commands \o <<x, y>>
    BY <1>2, <2>1 DEF StatusHandled, NetworkComesUp, L!HandleStackStatus
  <2> QED BY <2>2, <2>3 DEF Adds1
<1>3. CASE AnswerBoth
  <2>1. L!ResponseHandled /\ commands # <<>>
    BY <1>3 DEF AnswerBoth, L!ResponseHandled
  <2>2. PICK t : Queue(t) /\ NoneIn(NotSent, t) /\ L!Sends(t)
    BY <1>0, <2>1, LibResponseSends
  <2>3. NoneIn(SinkCmds, t)
    BY <2>2 DEF NoneIn, NotSent, OthersCmds
  <2> QED BY <2>1, <2>2, <2>3 DEF Adds1, L!Sends
<1>4. ASSUME UNCHANGED currentState PROVE sink_state = "SINK_READY"
  BY <1>4 DEF Separate, Stage, Rested
<1>5. CASE AnswerSink
  <2>1. UNCHANGED currentState /\ S!HandleEzspRxMessage /\ commands # <<>>
    BY <1>5 DEF AnswerSink, fsmVars
  <2>2. commands' = Tail(commands) \o <<>>
    BY <1>4, <2>1, ReadySendsNothing DEF S!Sends
  <2>3. Queue(<<>>) /\ NoneIn(SinkCmds, <<>>)
    BY QueueFacts DEF NoneIn
  <2> QED BY <2>1, <2>2, <2>3 DEF Adds1
<1>6. ~RemovesAll /\ ~Removes /\ ~Adds /\ ~OpensWindows
  BY DEF RemovesAll, Removes, Adds, OpensWindows, FromScan
<1>7. ASSUME NEW d, FrameArrives(d) PROVE FALSE
  BY <1>4, <1>7 DEF FrameArrives, S!CommissioningFrame, fsmVars
<1>8. CASE Ignores \/ EzspRun \/ WindowCloses \/ MainWaits \/ Interrupted
  BY <1>0, <1>8, Adding DEF Ignores, EzspRun, WindowCloses, MainWaits, Interrupted
<1> QED BY <1>1, <1>2, <1>3, <1>5, <1>6, <1>7, <1>8
       DEF ExampleNext, Goes, CallbackRuns, EventHandled, Reported, LibraryActs, FrameArrives

LEMMA ScanInvStays ==
  ASSUME ExampleInv, ExampleInv', Stages, ScanOnce', ScanInv, ExampleNext,
         currentState' \in BeforeScan \cup FromScan
  PROVE  ScanInv'
<1>0. Queue(commands) /\ Queue(commands') /\ Control /\ Lib!TypeOK /\ Lib!TypeOK'
  BY DEF ExampleInv, Lib!LibInvariant
<1>1. UNCHANGED options
  BY OptionsStay
<1> SUFFICES ASSUME Separate, options.remove # <<>>
             PROVE  ScanLast(commands') /\ (NotYet' \/ NoneIn(SinkCmds, commands'))
  BY <1>1 DEF ScanInv, Separate
<1>2. CASE currentState' \in BeforeScan \/ callback' = "scan"
  <2>1. NotYet' /\ NoneIn({"START_SCAN"}, commands')
    BY <1>2 DEF ScanOnce
  <2> QED BY <2>1 DEF ScanLast, NoneIn
<1>3. CASE currentState' \in FromScan /\ callback' # "scan"
  <2>1. ScanLast(commands) /\ (NotYet \/ NoneIn(SinkCmds, commands))
    BY DEF ScanInv
  <2>2. Adds1(SinkCmds)
    BY <1>3, NothingMoreSent DEF Stages
  <2>3. ScanLast(commands')
    BY <1>0, <2>1, <2>2, ScanLastMore DEF Adds1
  <2>4. NoneIn(SinkCmds, commands) => NoneIn(SinkCmds, commands')
    BY <1>0, <2>2, Adding
  <2>5. CASE AnswerLib /\ L!StartScanAnswered
    <3>1. commands # <<>> /\ Head(commands).cmd = "START_SCAN"
      BY <2>5 DEF L!StartScanAnswered, L!Answered
    <3>2. 1 \in 1 .. Len(commands) /\ Head(commands) = commands[1]
      BY <1>0, <3>1, SeqFacts DEF Queue
    <3>3. NoneIn(SinkCmds, commands)
      BY <2>1, <3>1, <3>2 DEF ScanLast, NoneIn
    <3> QED BY <2>3, <2>4, <3>3
  <2>6. CASE ~(AnswerLib /\ L!StartScanAnswered)
    <3>1. NotYet => NotYet'
      BY <1>0, <2>6, NotYetStays
    <3> QED BY <2>1, <2>3, <2>4, <3>1
  <2> QED BY <2>5, <2>6
<1> QED BY <1>2, <1>3

(* What holds of the program and its sink besides.                           *)
DevicesInv == Stages /\ ScanOnce /\ ScanInv

LEMMA DevicesStart ==
  ASSUME ExampleInit(Options)
  PROVE  DevicesInv
<1>1. L!Init /\ S!SinkInit /\ currentState = "INIT_PENDING" /\ callback = "none"
  BY DEF ExampleInit
<1>2. commands = <<>> /\ events = <<>> /\ running = <<>> /\ networkKeyCallback = L!NoRequest
      /\ adapter.scan = L!NoRequest
  BY <1>1 DEF L!Init
<1>3. Stage
  BY <1>1 DEF ExampleInit, S!SinkInit, Stage, BeforeScan, FromScan, Begun, Done
<1>4. NotYet /\ NoneIn({"START_SCAN"}, commands) /\ running \in Starting
  BY <1>1, <1>2 DEF NotYet, NoScan, NoneIn, Starting
<1>5. ScanLast(commands)
  BY <1>2 DEF ScanLast
<1> QED BY <1>3, <1>4, <1>5 DEF DevicesInv, Stages, ScanOnce, ScanInv

LEMMA DevicesStep ==
  ASSUME ExampleInv, ExampleInv', OwnInv, SinkOnce, DevicesInv, [ExampleNext]_exampleVars
  PROVE  DevicesInv'
<1>1. CASE ExampleNext
  <2>1. Stages /\ ScanOnce /\ ScanInv /\ Called /\ UNCHANGED options
    BY <1>1, OptionsStay DEF DevicesInv, ExampleInv, Control
  <2>2. Stages'
    BY <1>1, <2>1, StageStays DEF Stages, Separate
  <2>3. ScanOnce'
    BY <1>1, <2>1, ScanOnceStays
  <2>4. ScanInv'
    <3>1. CASE Separate'
      <4>1. currentState' \in BeforeScan \cup FromScan
        BY <2>2, <3>1 DEF Stages, Stage, BeforeScan, FromScan
      <4> QED BY <1>1, <2>1, <2>3, <4>1, ScanInvStays
    <3> QED BY <3>1 DEF ScanInv
  <2> QED BY <2>2, <2>3, <2>4 DEF DevicesInv
<1>2. CASE UNCHANGED exampleVars
  <2>1. UNCHANGED <<sinkVars, options, currentState, removeAllGPDAtStartup, gpdRemoveList, gpdAddList,
                    commands, callback, adapter, events, running, networkKeyCallback>>
    BY <1>2 DEF exampleVars, fsmVars, libVars
  <2>2. Stages'
    BY <2>1, StageAside DEF DevicesInv, Stages, Separate
  <2>3. ScanOnce' /\ ScanInv'
    BY <2>1 DEF DevicesInv, ScanOnce, ScanInv, NotYet, NoScan, NoneIn, ScanLast, Separate
  <2> QED BY <2>2, <2>3 DEF DevicesInv
<1> QED BY <1>1, <1>2

LEMMA DevicesHold == ExampleSpec => []DevicesInv
<1>1. ExampleInit(Options) => DevicesInv
  BY DevicesStart
<1>2. ExampleInv /\ ExampleInv' /\ OwnInv /\ SinkOnce /\ DevicesInv /\ [ExampleNext]_exampleVars
        => DevicesInv'
  BY DevicesStep
<1> QED BY <1>1, <1>2, ExampleInvariant, OwnHolds, SinkOnceHolds, PTL DEF ExampleSpec

(* Nothing of the sink is queued: it is idle.                                *)
LEMMA NoneIsIdle ==
  ASSUME Queue(commands), Own!TypeOK, NoneIn(SinkCmds, commands)
  PROVE  Own!Idle
<1>1. PICK T : commands \in Seq(T)
  BY DEF Queue
<1>2. PICK p : p = SinkPart(commands)
  OBVIOUS
<1>3. /\ \A j \in 1 .. Len(p) : p[j].cmd \in KnownCmds
      /\ \A j \in 1 .. Len(p) : \E k \in 1 .. Len(commands) : p[j] = commands[k]
  <2>1. p = Part(KnownCmds, commands)
    BY <1>2 DEF SinkPart, KnownCmds
  <2>2. /\ \A j \in 1 .. Len(Part(KnownCmds, commands)) : Part(KnownCmds, commands)[j].cmd \in KnownCmds
        /\ \A j \in 1 .. Len(Part(KnownCmds, commands)) :
             \E k \in 1 .. Len(commands) : Part(KnownCmds, commands)[j] = commands[k]
    BY <1>1, PartElements
  <2> QED BY <2>1, <2>2
<1>4. \A j \in 1 .. Len(p) : p[j].cmd \in BothCmds
  BY <1>3 DEF NoneIn, KnownCmds
<1>5. BothCmds \subseteq Own!OtherCmds
  BY DEF BothCmds, Own!OtherCmds
<1>6. \A j \in 1 .. Len(p) : p[j] \notin Own!Chained
  BY <1>4, <1>5 DEF Own!Chained
<1> QED BY <1>2, <1>6 DEF Own!Idle, Own!InQueue

(* When the program runs, the devices of -s are in both tables and those of  *)
(* -r in none, and with -r '*' there is no device but those of -s, whatever  *)
(* the adapter, the network and the devices do; unless both -r and -s name   *)
(* devices, or the adapter has no room for an entry, or refuses it           *)
(* (MainStateMachine::ezspStateChangeCallback, one request at a time).       *)
THEOREM DevicesAreAsAsked == ExampleSpec => []DevicesAsAsked
<1>1. ExampleInv /\ OwnInv /\ DevicesInv => DevicesAsAsked
  <2> SUFFICES ASSUME ExampleInv, OwnInv, DevicesInv, currentState = "RUN", ~Excepted
               PROVE  /\ Given(options.add) \subseteq Own!InBoth
                      /\ ~options.commission =>
                           /\ Given(options.remove) \cap InTables = {}
                           /\ options.removeAll => InTables \subseteq Given(options.add)
    BY OwnSame, SinkSame DEF DevicesAsAsked, Own!InBoth, InTables
  <2>1. /\ Own!Succeeds /\ (options.remove = <<>> \/ options.add = <<>>)
        /\ options \in Options /\ Queue(commands)
    BY DEF Excepted, Own!Succeeds, ExampleInv, Control, Lists
  <2>2. CASE ~Separate
    <3>1. options.add = <<>> /\ options.commission
      BY <2>1, <2>2 DEF Separate
    <3> QED BY <3>1, GivenIsElements
  <2>3. CASE Separate /\ options.commission
    BY <2>1, <2>3 DEF DevicesInv, Stages, Stage, Commissions, FromScan
  <2>4. CASE Separate /\ ~options.commission
    <3>1. Rested /\ "overlap" \notin sinkMishaps /\ Own!FirstClear
      BY <2>4 DEF DevicesInv, Stages, Stage, FromScan, Own!FirstClear
    <3>2. Own!Rests
      BY <3>1 DEF Rested, OwnInv, Own!ChainInv, Own!Chain
    <3>3. CASE options.add # <<>>
      <4>1. AddsThem /\ options.remove = <<>>
        BY <2>1, <3>1, <3>3 DEF Rested
      <4>2. lastOp.op = "add" /\ lastOp.devices = Given(options.add)
        BY <4>1 DEF AddsThem, Did
      <4>3. Given(options.add) \subseteq Own!InBoth
        BY <2>1, <3>2, <4>2 DEF Own!Rests, Own!Achieved, Own!Unpairs
      <4> QED BY <4>1, <4>3, GivenIsElements DEF AddsThem
    <3>4. CASE options.add = <<>> /\ options.remove # <<>>
      <4>1. lastOp.op = "remove" /\ lastOp.devices = Given(options.remove)
        BY <3>1, <3>4 DEF Rested, Did
      <4>2. Own!Idle
        <5>1. ~NotYet
          BY DEF NotYet
        <5> QED BY <2>1, <2>4, <3>4, <5>1, NoneIsIdle DEF DevicesInv, ScanInv, OwnInv
      <4>3. ASSUME NEW d \in Devices, Own!Unpairs(d) PROVE FALSE
        <5>1. Own!DeviceCmd("REMOVE_PAIRING", d) \in Own!Chained
          BY OwnAssumption, Own!ChainedFacts DEF Own!DeviceCmds, Own!Content
        <5>2. ~Own!Idle
          BY <4>3, <5>1 DEF Own!Unpairs, Own!Waits, Own!Idle, Own!Alone, Own!InQueue
        <5> QED BY <4>2, <5>2
      <4>4. Given(options.remove) \cap InTables = {}
        BY <3>2, <4>1, <4>3 DEF Own!Rests, Own!Achieved, InTables
      <4>5. ~options.removeAll
        BY <2>1, <3>4 DEF Options
      <4> QED BY <3>4, <4>4, <4>5, GivenIsElements
    <3>5. CASE options.add = <<>> /\ options.remove = <<>>
      <4>1. options.removeAll => InTables = {}
        <5> SUFFICES ASSUME options.removeAll PROVE InTables = {}
          OBVIOUS
        <5>1. lastOp.op = "clear"
          BY <3>1, <3>5 DEF Rested
        <5> QED BY <3>1, <3>2, <5>1 DEF Own!Rests, Own!Achieved, Own!Unpairs, InTables
      <4> QED BY <3>5, <4>1, GivenIsElements
    <3> QED BY <3>3, <3>4, <3>5
  <2> QED BY <2>2, <2>3, <2>4
<1> QED BY <1>1, ExampleInvariant, OwnHolds, DevicesHold, PTL

-----------------------------------------------------------------------------
(* What GpSink and LibEzspMain promise, in the whole program.                *)

(* Whatever the user asks of the sink, the devices that are to be added are  *)
(* in both tables when it is ready again, those that are to be removed are   *)
(* not, and none has two entries in the sink table, as long as the adapter   *)
(* has room and refuses nothing and no request overlaps the commands of      *)
(* another one; and a sink at work always waits for a response that is to    *)
(* come (CGpSink::handleEzspRxMessage, with CLibEzspMain and the program     *)
(* using the same queue).                                                    *)
THEOREM SinkPromisesHold ==
  ExampleSpec => [](/\ Sink!AddTakesEffectAlone /\ Sink!RemovalTakesEffect
                    /\ Sink!OneEntryEach /\ Sink!SomethingUnderWay)
<1>1. ExampleSpec => Own!Spec
  BY SinkImplemented, OwnSpec
<1>2. Own!Spec => [](Own!AddTakesEffectAlone)
  BY OwnAssumption, Own!AddsAlone
<1>3. Own!Spec => [](Own!RemovalTakesEffect)
  BY OwnAssumption, Own!RemovesAlone
<1>4. Own!Spec => [](Own!OneEntryEach)
  BY OwnAssumption, Own!OneEntryAlways
<1>5. Own!Spec => [](Own!SomethingUnderWay)
  BY OwnAssumption, Own!NeverStuck
<1>6. Sink!Reported <=> Own!Reported
  BY DEF Sink!Reported, Own!Reported, SinkLib
<1>7. Own!AddTakesEffectAlone => Sink!AddTakesEffectAlone
  BY <1>6, OwnSame DEF Sink!AddTakesEffectAlone, Own!AddTakesEffectAlone, Sink!AddTakesEffect,
     Own!AddTakesEffect
<1>8. Own!RemovalTakesEffect => Sink!RemovalTakesEffect
  BY <1>6, OwnSame, OwnLeftover DEF Sink!RemovalTakesEffect, Own!RemovalTakesEffect,
     Sink!ClearTakesEffect, Own!ClearTakesEffect
<1>9. Own!OneEntryEach => Sink!OneEntryEach
  BY DEF Sink!OneEntryEach, Own!OneEntryEach
<1>10. Own!SomethingUnderWay => Sink!SomethingUnderWay
  BY OwnSame DEF Sink!SomethingUnderWay, Own!SomethingUnderWay, Sink!HasCmd, Own!HasCmd
<1> QED BY <1>1, <1>2, <1>3, <1>4, <1>5, <1>7, <1>8, <1>9, <1>10, PTL

(* With the sink and the program at work too, a library that is READY or     *)
(* busy is on the network that was there or on the one that was asked for,   *)
(* and forms or leaves none unasked, unless the network goes down by itself  *)
(* or a scan is requested before the user was told READY                     *)
(* (CLibEzspMain::stackInit, with CGpSink sharing its queue).                *)
THEOREM OnTheNetworkInCompany == ExampleSpec => [](Lib!ReadyOnWantedNetwork)
<1>1. Lib!LibAssumption
  BY ExampleAssumption DEF L!LibAssumption, Lib!LibAssumption, L!Mishaps, Lib!Mishaps
<1>2. ExampleInv => Lib!TypeOK /\ Lib!NetworkUnlessDrops
  BY DEF ExampleInv, Lib!LibInvariant
<1>3. ExampleInv => Lib!ReadyOnWantedNetwork
  BY <1>1, <1>2, Lib!NetworkAsked
<1> QED BY <1>3, ExampleInvariant, PTL

LEMMA ScansHold == ExampleSpec => []Lib!ScanInvariant
<1>1. ExampleInit(Options) => Lib!ScanInvariant
  BY LibStarts, Lib!ScanInvariantInit
<1>2. ExampleInv /\ ExampleInv' /\ Lib!ScanInvariant /\ [ExampleNext]_exampleVars
        => Lib!ScanInvariant'
  <2> SUFFICES ASSUME ExampleInv, ExampleInv', Lib!ScanInvariant, [ExampleNext]_exampleVars
               PROVE  Lib!ScanInvariant'
    OBVIOUS
  <2>1. Lib!LibAssumption
    BY ExampleAssumption DEF L!LibAssumption, Lib!LibAssumption, L!Mishaps, Lib!Mishaps
  <2>2. LibStep
    <3>1. CASE ExampleNext
      BY <3>1, TheLibraryKeeps DEF ExampleInv
    <3>2. CASE UNCHANGED exampleVars
      BY <3>2, LibIdles DEF exampleVars, LibPart
    <3> QED BY <3>1, <3>2
  <2> QED BY <2>1, <2>2, Lib!ScanInvariantStep DEF LibStep, ExampleInv
<1> QED BY <1>1, <1>2, ExampleInvariant, PTL DEF ExampleSpec

(* With the sink and the program at work too, a scan callback comes after    *)
(* the whole of its own scan and with nothing of another, unless the library *)
(* is taken out of its scan; it does not wait for a scan of which nothing is *)
(* left under way, unless the adapter refused one; and the dongle is not     *)
(* told to upgrade unless the program asks for it                            *)
(* (CLibEzspMain::startEnergyScan, setFirmwareUpgradeMode).                  *)
THEOREM ScansInCompany ==
  ExampleSpec => [](Lib!ScanCallbackAfterScan /\ Lib!ScanUnderWay /\ Lib!NotUpgrading)
<1>1. Lib!ScanInvariant => Lib!ScanCallbackAfterScan /\ Lib!ScanUnderWay /\ Lib!NotUpgrading
  BY DEF Lib!ScanInvariant, Lib!ScanPhases, Lib!ScanCallbackAfterScan, Lib!OneScan
<1> QED BY <1>1, ScansHold, PTL
=============================================================================
