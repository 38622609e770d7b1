----------------------- MODULE HistoryPublication_proofs -----------------------
(* Theorems about the publication and application of history, for any      *)
(* number of messages, attempts, retries, interrupts and restarts.         *)
EXTENDS HistoryPublication, SequenceTheorems, WellFoundedInduction, TLAPS

-------------------------------------------------------------------------------
(* Flattening a sequence of sequences                                      *)

(* Every nonempty set of natural numbers has a least element.              *)
LEMMA LeastNatural ==
    ASSUME NEW T, T \subseteq Nat, T # {}
    PROVE  \E n \in T : \A k \in T : n <= k
<1>. DEFINE R == {ss \in Nat \X Nat : ss[1] < ss[2]}
<1>1. IsWellFoundedOn(R, Nat)
  BY NatLessThanWellFounded, Zenon DEF OpToRel
<1>2. \A k, n \in T : k < n => <<k, n>> \in R
  OBVIOUS
<1>. HIDE DEF R
<1>3. PICK n \in T : \A k \in T : ~ (<<k, n>> \in R)
  BY <1>1, WFMin, Zenon
<1>4. \A k \in T : ~ (k < n)
  BY <1>2, <1>3, Zenon
<1>. QED  BY <1>4

(* The recursion that FlattenSeq states.                                   *)
Joins(ss, n, f) == f = [i \in 1 .. n |-> IF i = 1 THEN ss[i] ELSE f[i - 1] \o ss[i]]

LEMMA JoinsStep ==
    ASSUME NEW ss, NEW n, NEW f, Joins(ss, n, f), NEW i \in 1 .. n
    PROVE  f[i] = IF i = 1 THEN ss[i] ELSE f[i - 1] \o ss[i]
BY DEF Joins

LEMMA JoinsExtends ==
    ASSUME NEW ss, NEW n \in Nat, NEW f, Joins(ss, n, f)
    PROVE  \E g : Joins(ss, n + 1, g)
<1>. DEFINE g == [i \in 1 .. n + 1 |-> IF i = 1 THEN ss[i] ELSE f[i - 1] \o ss[i]]
<1>1. \A i \in 1 .. n : f[i] = IF i = 1 THEN ss[i] ELSE f[i - 1] \o ss[i]
  BY JoinsStep
<1>2. \A i \in 1 .. n : g[i] = f[i]
  BY <1>1
<1>3. g = [i \in 1 .. n + 1 |-> IF i = 1 THEN ss[i] ELSE g[i - 1] \o ss[i]]
  <2>1. ASSUME NEW i \in 1 .. n + 1, i # 1 PROVE g[i - 1] = f[i - 1]
    <3>1. i - 1 \in 1 .. n
      BY <2>1
    <3>. QED  BY <1>2, <3>1
  <2>. DEFINE h == [i \in 1 .. n + 1 |-> IF i = 1 THEN ss[i] ELSE g[i - 1] \o ss[i]]
  <2>2. \A i \in 1 .. n + 1 : g[i] = h[i]
    BY <2>1
  <2>. QED  BY <2>2
<1>. QED  BY <1>3 DEF Joins

LEMMA JoinsExists ==
    ASSUME NEW ss, NEW n \in Nat
    PROVE  \E f : Joins(ss, n, f)
<1>. DEFINE None_ == {k \in Nat : ~ \E f : Joins(ss, k, f)}
<1>1. SUFFICES ASSUME None_ # {} PROVE FALSE
  OBVIOUS
<1>2. PICK k \in None_ : \A j \in None_ : k <= j
  <2>1. None_ \subseteq Nat
    OBVIOUS
  <2>. HIDE DEF None_
  <2>. QED  BY <1>1, <2>1, LeastNatural
<1>3. k # 0
  <2>. DEFINE f == [i \in 1 .. 0 |-> 0]
  <2>1. Joins(ss, 0, f)
    BY DEF Joins
  <2>. QED  BY <2>1
<1>4. k - 1 \in Nat /\ ~ (k - 1 \in None_) /\ (k - 1) + 1 = k
  BY <1>2, <1>3
<1>5. PICK f : Joins(ss, k - 1, f)
  BY <1>4
<1>. QED  BY <1>4, <1>5, JoinsExtends

(* Two functions that agree up to n.                                       *)
Agree(f, g, n) == \A i \in 1 .. n : f[i] = g[i]

LEMMA JoinsUnique ==
    ASSUME NEW ss, NEW tt, NEW n \in Nat, NEW m \in Nat, NEW f, NEW g,
           Joins(ss, n, f), Joins(tt, m, g),
           n <= m, Agree(ss, tt, n)
    PROVE  Agree(f, g, n)
<1>0. \A i \in 1 .. n : ss[i] = tt[i]
  BY DEF Agree
<1>. DEFINE Differs == {i \in 1 .. n : f[i] # g[i]}
<1>1. SUFFICES ASSUME Differs # {} PROVE FALSE
  BY DEF Agree
<1>2. PICK i \in Differs : \A j \in Differs : i <= j
  <2>1. Differs \subseteq Nat
    OBVIOUS
  <2>. HIDE DEF Differs
  <2>. QED  BY <1>1, <2>1, LeastNatural
<1>3. /\ f[i] = IF i = 1 THEN ss[i] ELSE f[i - 1] \o ss[i]
      /\ g[i] = IF i = 1 THEN tt[i] ELSE g[i - 1] \o tt[i]
  <2>1. i \in 1 .. n /\ i \in 1 .. m
    OBVIOUS
  <2>. QED  BY <2>1, JoinsStep
<1>4. CASE i = 1
  BY <1>0, <1>3, <1>4
<1>5. CASE i # 1
  <2>1. i - 1 \in 1 .. n /\ ~ (i - 1 \in Differs)
    BY <1>2, <1>5
  <2>2. f[i - 1] = g[i - 1]
    BY <2>1
  <2>. QED  BY <1>0, <1>3, <1>5, <2>2
<1>. QED  BY <1>4, <1>5

LEMMA FlattenIs ==
    ASSUME NEW S, NEW ss \in Seq(S), ss # <<>>
    PROVE  \E f : Joins(ss, Len(ss), f) /\ FlattenSeq(ss) = f[Len(ss)]
<1>1. Len(ss) \in Nat /\ Len(ss) # 0
  BY EmptySeq
<1>2. \E f : f = [i \in 1 .. Len(ss) |-> IF i = 1 THEN ss[i] ELSE f[i - 1] \o ss[i]]
  BY <1>1, JoinsExists DEF Joins
<1>. QED  BY <1>1, <1>2 DEF FlattenSeq, Joins

LEMMA FlattenEmpty == FlattenSeq(<<>>) = <<>>
BY DEF FlattenSeq

LEMMA FlattenAppend ==
    ASSUME NEW S, NEW ss \in Seq(S), NEW x \in S
    PROVE  FlattenSeq(Append(ss, x)) = IF ss = <<>> THEN x ELSE FlattenSeq(ss) \o x
<1>1. PICK tt \in Seq(S) : tt = Append(ss, x)
  BY AppendProperties
<1>2. PICK n \in Nat : n = Len(ss)
  OBVIOUS
<1>3. /\ tt # <<>> /\ Len(tt) = n + 1
      /\ \A i \in 1 .. n : tt[i] = ss[i]
      /\ tt[n + 1] = x
  BY <1>1, <1>2, AppendProperties
<1>4. PICK g : Joins(tt, n + 1, g) /\ FlattenSeq(tt) = g[n + 1]
  BY <1>3, FlattenIs
<1>5. g[n + 1] = IF n + 1 = 1 THEN tt[n + 1] ELSE g[(n + 1) - 1] \o tt[n + 1]
  <2>1. n + 1 \in 1 .. n + 1
    OBVIOUS
  <2>. QED  BY <1>4, <2>1, JoinsStep
<1>6. CASE ss = <<>>
  BY <1>1, <1>2, <1>3, <1>4, <1>5, <1>6
<1>7. CASE ss # <<>>
  <2>1. PICK f : Joins(ss, n, f) /\ FlattenSeq(ss) = f[n]
    BY <1>2, <1>7, FlattenIs
  <2>2. n # 0
    BY <1>2, <1>7, EmptySeq
  <2>3. Agree(f, g, n)
    <3>1. Agree(ss, tt, n)
      BY <1>3 DEF Agree
    <3>2. PICK m \in Nat : m = n + 1
      OBVIOUS
    <3>3. n <= m
      BY <3>2
    <3>4. Joins(tt, m, g)
      BY <1>4, <3>2
    <3>5. Joins(ss, n, f)
      BY <2>1
    <3>. QED  BY <3>1, <3>3, <3>4, <3>5, JoinsUnique
  <2>4. (n + 1) - 1 = n /\ n + 1 # 1 /\ n \in 1 .. n
    BY <2>2
  <2>. QED  BY <1>1, <1>3, <1>4, <1>5, <1>7, <2>1, <2>3, <2>4 DEF Agree
<1>. QED  BY <1>6, <1>7

-------------------------------------------------------------------------------
(* The messages that the records of a path name                            *)

Messages == [n : Nat, at : Nat]
Records == [kind : {"message", "published", "applied"}, src : Seq(Messages)]

LEMMA AppendIs ==
    ASSUME NEW T, NEW s \in Seq(T), NEW t \in Seq(T), NEW x \in T,
           Len(t) = Len(s) + 1, t[Len(s) + 1] = x, \A i \in 1 .. Len(s) : t[i] = s[i]
    PROVE  t = Append(s, x)
<1>. DEFINE u == Append(s, x)
<1>1. /\ u \in Seq(T) /\ Len(u) = Len(s) + 1 /\ Len(s) \in Nat
      /\ \A i \in 1 .. Len(s) : u[i] = s[i]
      /\ u[Len(s) + 1] = x
  BY AppendProperties
<1>. HIDE DEF u
<1>2. \A i \in 1 .. Len(t) : t[i] = u[i]
  BY <1>1
<1>3. t = u
  BY <1>1, <1>2, SeqEqual
<1>. QED  BY <1>3 DEF u

(* What each record of a path contributes, one after the other.            *)
FlatMap(p, h) == FlattenSeq([i \in DOMAIN p |-> h[p[i]]])
Namings == [Records -> Seq(Messages)]

LEMMA FlatMapAppend ==
    ASSUME NEW p \in Seq(Records), NEW r \in Records, NEW h \in Namings,
           FlatMap(p, h) \in Seq(Messages)
    PROVE  /\ FlatMap(Append(p, r), h) = FlatMap(p, h) \o h[r]
           /\ FlatMap(Append(p, r), h) \in Seq(Messages)
<1>. DEFINE M(q) == [i \in DOMAIN q |-> h[q[i]]]
<1>1. ASSUME NEW q \in Seq(Records)
      PROVE  M(q) \in Seq(Seq(Messages)) /\ Len(M(q)) = Len(q) /\ \A i \in 1 .. Len(q) : M(q)[i] = h[q[i]]
  <2>1. DOMAIN q = 1 .. Len(q) /\ Len(q) \in Nat /\ \A i \in 1 .. Len(q) : q[i] \in Records
    BY LenProperties, ElementOfSeq
  <2>2. M(q) \in [1 .. Len(q) -> Seq(Messages)]
    BY <2>1 DEF Namings
  <2>. QED  BY <2>1, <2>2
<1>2. /\ Append(p, r) \in Seq(Records) /\ Len(Append(p, r)) = Len(p) + 1 /\ Len(p) \in Nat
      /\ \A i \in 1 .. Len(p) : Append(p, r)[i] = p[i]
      /\ Append(p, r)[Len(p) + 1] = r
  BY AppendProperties
<1>3. h[r] \in Seq(Messages)
  BY DEF Namings
<1>4. /\ M(Append(p, r)) \in Seq(Seq(Messages)) /\ Len(M(Append(p, r))) = Len(p) + 1
      /\ \A i \in 1 .. Len(p) + 1 : M(Append(p, r))[i] = h[Append(p, r)[i]]
  BY <1>1, <1>2
<1>5. /\ M(p) \in Seq(Seq(Messages)) /\ Len(M(p)) = Len(p)
      /\ \A i \in 1 .. Len(p) : M(p)[i] = h[p[i]]
  BY <1>1
<1>6. M(<<>>) = <<>>
  OBVIOUS
<1>7. FlatMap(Append(p, r), h) = FlattenSeq(M(Append(p, r))) /\ FlatMap(p, h) = FlattenSeq(M(p))
  BY DEF FlatMap
<1>. HIDE DEF M
<1>8. M(Append(p, r)) = Append(M(p), h[r])
  <2>1. ASSUME NEW i \in 1 .. Len(M(p)) PROVE M(Append(p, r))[i] = M(p)[i]
    <3>1. i \in 1 .. Len(p) /\ i \in 1 .. Len(p) + 1
      BY <1>2, <1>5
    <3>2. Append(p, r)[i] = p[i]
      BY <1>2, <3>1
    <3>3. M(Append(p, r))[i] = h[Append(p, r)[i]] /\ M(p)[i] = h[p[i]]
      BY <1>4, <1>5, <3>1, Zenon
    <3>. QED  BY <3>2, <3>3, Zenon
  <2>2. M(Append(p, r))[Len(M(p)) + 1] = h[r]
    <3>1. Len(p) + 1 \in 1 .. Len(p) + 1
      BY <1>2
    <3>2. M(Append(p, r))[Len(p) + 1] = h[Append(p, r)[Len(p) + 1]]
      BY <1>4, <3>1, Zenon
    <3>. QED  BY <1>2, <1>5, <3>2, Zenon
  <2>3. PICK T : T = Seq(Messages)
    OBVIOUS
  <2>4. M(p) \in Seq(T) /\ M(Append(p, r)) \in Seq(T) /\ h[r] \in T
    BY <1>3, <1>4, <1>5, <2>3
  <2>5. Len(M(Append(p, r))) = Len(M(p)) + 1
    BY <1>4, <1>5
  <2>. QED  BY <2>1, <2>2, <2>4, <2>5, AppendIs
<1>9. CASE p = <<>>
  <2>1. FlatMap(p, h) = <<>>
    BY <1>6, <1>7, <1>9, FlattenEmpty
  <2>2. FlatMap(Append(p, r), h) = h[r]
    BY <1>3, <1>5, <1>6, <1>7, <1>8, <1>9, FlattenAppend
  <2>. QED  BY <1>3, <2>1, <2>2, ConcatEmptySeq
<1>10. CASE p # <<>>
  <2>1. M(p) # <<>>
    BY <1>5, <1>10, EmptySeq
  <2>2. FlatMap(Append(p, r), h) = FlatMap(p, h) \o h[r]
    BY <1>3, <1>5, <1>7, <1>8, <2>1, FlattenAppend
  <2>. QED  BY <1>3, <2>2, ConcatProperties
<1>. QED  BY <1>9, <1>10

LEMMA FlatMapEmpty ==
    ASSUME NEW h
    PROVE  FlatMap(<<>>, h) = <<>>
<1>1. [i \in DOMAIN <<>> |-> h[<<>>[i]]] = <<>>
  OBVIOUS
<1>. QED  BY <1>1, FlattenEmpty DEF FlatMap

(* A path up to one of its records.                                        *)
LEMMA PrefixStep ==
    ASSUME NEW p \in Seq(Records)
    PROVE  /\ SubSeq(p, 1, 0) = <<>>
           /\ \A n \in 0 .. Len(p) : SubSeq(p, 1, n) \in Seq(Records) /\ Len(SubSeq(p, 1, n)) = n
           /\ \A n \in 1 .. Len(p) :
                 /\ SubSeq(p, 1, n) = Append(SubSeq(p, 1, n - 1), p[n])
                 /\ p[n] \in Records
           /\ \A n \in 0 .. Len(p) : \A i \in 1 .. n : SubSeq(p, 1, n)[i] = p[i]
           /\ \A n \in 0 .. Len(p) : \A i \in 0 .. n : SubSeq(SubSeq(p, 1, n), 1, i) = SubSeq(p, 1, i)
           /\ SubSeq(p, 1, Len(p)) = p
<1>1. Len(p) \in Nat /\ \A i \in 1 .. Len(p) : p[i] \in Records
  BY ElementOfSeq
<1>2. \A n \in 0 .. Len(p) :
        /\ SubSeq(p, 1, n) \in Seq(Records) /\ Len(SubSeq(p, 1, n)) = n
        /\ \A i \in 1 .. n : SubSeq(p, 1, n)[i] = p[i]
  <2>. SUFFICES ASSUME NEW n \in 0 .. Len(p)
                PROVE  /\ SubSeq(p, 1, n) \in Seq(Records) /\ Len(SubSeq(p, 1, n)) = n
                       /\ \A i \in 1 .. n : SubSeq(p, 1, n)[i] = p[i]
    OBVIOUS
  <2>1. n \in Int /\ \A i \in 1 .. n : p[i] \in Records
    BY <1>1
  <2>. QED  BY <2>1, SubSeqProperties
<1>3. SubSeq(p, 1, 0) = <<>>
  BY SubSeqEmpty
<1>4. ASSUME NEW n \in 1 .. Len(p) PROVE SubSeq(p, 1, n) = Append(SubSeq(p, 1, n - 1), p[n])
  <2>1. n - 1 \in 0 .. Len(p) /\ n \in 0 .. Len(p) /\ p[n] \in Records
    BY <1>1
  <2>. DEFINE a == SubSeq(p, 1, n)
              b == SubSeq(p, 1, n - 1)
              c == Append(b, p[n])
  <2>2. /\ a \in Seq(Records) /\ Len(a) = n /\ \A i \in 1 .. n : a[i] = p[i]
        /\ b \in Seq(Records) /\ Len(b) = n - 1 /\ \A i \in 1 .. n - 1 : b[i] = p[i]
    BY <1>2, <2>1
  <2>. HIDE DEF a, b
  <2>3. /\ c \in Seq(Records) /\ Len(c) = n /\ \A i \in 1 .. n - 1 : c[i] = b[i]
        /\ c[n] = p[n]
    BY <2>1, <2>2, AppendProperties
  <2>. HIDE DEF c
  <2>4. \A i \in 1 .. n : a[i] = c[i]
    BY <2>2, <2>3
  <2>5. a = c
    BY <2>2, <2>3, <2>4, SeqEqual
  <2>. QED  BY <2>5 DEF a, b, c
<1>5. ASSUME NEW n \in 0 .. Len(p), NEW i \in 0 .. n
      PROVE  SubSeq(SubSeq(p, 1, n), 1, i) = SubSeq(p, 1, i)
  <2>. DEFINE a == SubSeq(p, 1, n)
              b == SubSeq(p, 1, i)
              c == SubSeq(a, 1, i)
  <2>1. i \in 0 .. Len(p) /\ i \in Int
    BY <1>1
  <2>2. /\ a \in Seq(Records) /\ Len(a) = n /\ \A j \in 1 .. n : a[j] = p[j]
        /\ b \in Seq(Records) /\ Len(b) = i /\ \A j \in 1 .. i : b[j] = p[j]
    BY <1>2, <2>1
  <2>. HIDE DEF a, b
  <2>3. \A j \in 1 .. i : a[j] \in Records /\ a[j] = p[j]
    BY <1>1, <2>1, <2>2
  <2>4. c \in Seq(Records) /\ Len(c) = i /\ \A j \in 1 .. i : c[j] = a[j]
    BY <2>1, <2>3, SubSeqProperties
  <2>. HIDE DEF c
  <2>5. b = c
    BY <2>2, <2>3, <2>4, SeqEqual
  <2>. QED  BY <2>5 DEF a, b, c
<1>6. SubSeq(p, 1, Len(p)) = p
  BY SubSeqFull
<1>. QED  BY <1>1, <1>2, <1>3, <1>4, <1>5, <1>6

LEMMA FlatMapType ==
    ASSUME NEW p \in Seq(Records), NEW h \in Namings
    PROVE  FlatMap(p, h) \in Seq(Messages)
<1>. DEFINE Bad == {n \in 0 .. Len(p) : FlatMap(SubSeq(p, 1, n), h) \notin Seq(Messages)}
<1>1. SUFFICES ASSUME Bad # {} PROVE FALSE
  <2>1. Len(p) \in 0 .. Len(p) /\ SubSeq(p, 1, Len(p)) = p
    BY PrefixStep, LenProperties
  <2>. QED  BY <2>1
<1>2. PICK n \in Bad : \A k \in Bad : n <= k
  <2>1. Bad \subseteq Nat
    OBVIOUS
  <2>. HIDE DEF Bad
  <2>. QED  BY <1>1, <2>1, LeastNatural
<1>3. n # 0
  <2>1. FlatMap(SubSeq(p, 1, 0), h) \in Seq(Messages)
    <3>1. SubSeq(p, 1, 0) = <<>>
      BY PrefixStep
    <3>. QED  BY <3>1, FlatMapEmpty, EmptySeq, Zenon
  <2>. QED  BY <1>2, <2>1
<1>4. /\ n \in 1 .. Len(p) /\ n - 1 \in 0 .. Len(p)
      /\ FlatMap(SubSeq(p, 1, n - 1), h) \in Seq(Messages)
  BY <1>2, <1>3
<1>5. /\ SubSeq(p, 1, n) = Append(SubSeq(p, 1, n - 1), p[n]) /\ p[n] \in Records
      /\ SubSeq(p, 1, n - 1) \in Seq(Records)
  BY <1>4, PrefixStep
<1>. QED  BY <1>2, <1>4, <1>5, FlatMapAppend

PicksKind(kind) == [r \in Records |-> IF r.kind = kind THEN r.src ELSE <<>>]
PicksFrom(S) == [r \in Records |-> IF r.kind = "message" /\ r.src[1] \in S THEN r.src ELSE <<>>]

LEMMA PicksAreNamings ==
    /\ \A kind : PicksKind(kind) \in Namings
    /\ \A S : PicksFrom(S) \in Namings
<1>1. ASSUME NEW r \in Records PROVE r.src \in Seq(Messages) /\ <<>> \in Seq(Messages)
  BY EmptySeq DEF Records
<1>. QED  BY <1>1 DEF PicksKind, PicksFrom, Namings

LEMMA SourcesIsMap ==
    ASSUME NEW p \in Seq(Records), NEW kind
    PROVE  Sources(p, kind) = FlatMap(p, PicksKind(kind))
<1>1. \A i \in DOMAIN p : p[i] \in Records
  BY LenProperties, ElementOfSeq
<1>2. \A i \in DOMAIN p : PicksKind(kind)[p[i]] = IF p[i].kind = kind THEN p[i].src ELSE <<>>
  BY <1>1 DEF PicksKind
<1>3. [i \in DOMAIN p |-> PicksKind(kind)[p[i]]]
        = [i \in DOMAIN p |-> IF p[i].kind = kind THEN p[i].src ELSE <<>>]
  BY <1>2
<1>. QED  BY <1>3 DEF Sources, FlatMap

LEMMA SelectIsMap ==
    ASSUME NEW p \in Seq(Records), NEW S
    PROVE  Select(p, S) = FlatMap(p, PicksFrom(S))
<1>1. \A i \in DOMAIN p : p[i] \in Records
  BY LenProperties, ElementOfSeq
<1>2. \A i \in DOMAIN p :
        PicksFrom(S)[p[i]] = IF p[i].kind = "message" /\ p[i].src[1] \in S THEN p[i].src ELSE <<>>
  BY <1>1 DEF PicksFrom
<1>3. [i \in DOMAIN p |-> PicksFrom(S)[p[i]]]
        = [i \in DOMAIN p |-> IF p[i].kind = "message" /\ p[i].src[1] \in S THEN p[i].src ELSE <<>>]
  BY <1>2
<1>. QED  BY <1>3 DEF Select, FlatMap

(* A record adds what it names, and only to its own kind.                  *)
LEMMA SourcesAppend ==
    ASSUME NEW p \in Seq(Records), NEW r \in Records, NEW kind
    PROVE  /\ Sources(p, kind) \in Seq(Messages) /\ Sources(Append(p, r), kind) \in Seq(Messages)
           /\ r.kind = kind => Sources(Append(p, r), kind) = Sources(p, kind) \o r.src
           /\ r.kind # kind => Sources(Append(p, r), kind) = Sources(p, kind)
<1>1. Append(p, r) \in Seq(Records)
  BY AppendProperties
<1>2. /\ Sources(p, kind) = FlatMap(p, PicksKind(kind))
      /\ Sources(Append(p, r), kind) = FlatMap(Append(p, r), PicksKind(kind))
  BY <1>1, SourcesIsMap
<1>3. PicksKind(kind) \in Namings
  BY PicksAreNamings
<1>4. /\ Sources(p, kind) \in Seq(Messages)
      /\ Sources(Append(p, r), kind) \in Seq(Messages)
      /\ Sources(Append(p, r), kind) = Sources(p, kind) \o PicksKind(kind)[r]
  BY <1>1, <1>2, <1>3, FlatMapType, FlatMapAppend
<1>5. PicksKind(kind)[r] = IF r.kind = kind THEN r.src ELSE <<>>
  BY DEF PicksKind
<1>. QED  BY <1>4, <1>5, ConcatEmptySeq

LEMMA SelectAppend ==
    ASSUME NEW p \in Seq(Records), NEW r \in Records, NEW S
    PROVE  /\ Select(p, S) \in Seq(Messages)
           /\ Select(Append(p, r), S) =
                IF r.kind = "message" /\ r.src[1] \in S THEN Select(p, S) \o r.src ELSE Select(p, S)
<1>1. Append(p, r) \in Seq(Records)
  BY AppendProperties
<1>2. /\ Select(p, S) = FlatMap(p, PicksFrom(S))
      /\ Select(Append(p, r), S) = FlatMap(Append(p, r), PicksFrom(S))
  BY <1>1, SelectIsMap
<1>3. PicksFrom(S) \in Namings
  BY PicksAreNamings
<1>4. /\ Select(p, S) \in Seq(Messages)
      /\ Select(Append(p, r), S) = Select(p, S) \o PicksFrom(S)[r]
  BY <1>1, <1>2, <1>3, FlatMapType, FlatMapAppend
<1>5. PicksFrom(S)[r] = IF r.kind = "message" /\ r.src[1] \in S THEN r.src ELSE <<>>
  BY DEF PicksFrom
<1>. QED  BY <1>4, <1>5, ConcatEmptySeq

LEMMA NothingNamed ==
    /\ \A kind : Sources(<<>>, kind) = <<>>
    /\ \A S : Select(<<>>, S) = <<>>
<1>1. <<>> \in Seq(Records)
  BY EmptySeq
<1>. QED  BY <1>1, SourcesIsMap, SelectIsMap, FlatMapEmpty

LEMMA SourcesType ==
    ASSUME NEW p \in Seq(Records)
    PROVE  /\ \A kind : Sources(p, kind) \in Seq(Messages) /\ Len(Sources(p, kind)) \in Nat
           /\ \A S : Select(p, S) \in Seq(Messages)
BY SourcesIsMap, SelectIsMap, FlatMapType, PicksAreNamings, LenProperties

(* IsPrefix, element by element.                                           *)
Starts(s, t) == Len(s) <= Len(t) /\ \A i \in 1 .. Len(s) : s[i] = t[i]

LEMMA PrefixIs ==
    ASSUME NEW S, NEW s \in Seq(S), NEW t \in Seq(S)
    PROVE  IsPrefix(s, t) <=> Starts(s, t)
<1>1. Len(s) \in Nat /\ Len(t) \in Nat
  BY LenProperties
<1>2. SubSeq(s, 1, Len(s)) = s
  BY SubSeqFull
<1>3. ASSUME Len(s) <= Len(t)
      PROVE  s = SubSeq(t, 1, Len(s)) <=> \A i \in 1 .. Len(s) : s[i] = t[i]
  <2>1. \A i \in 1 .. Len(s) : t[i] \in S
    BY <1>1, <1>3, ElementOfSeq
  <2>. DEFINE u == SubSeq(t, 1, Len(s))
  <2>2. u \in Seq(S) /\ Len(u) = Len(s) /\ \A i \in 1 .. Len(s) : u[i] = t[i]
    BY <1>1, <2>1, SubSeqProperties
  <2>. HIDE DEF u
  <2>3. (\A i \in 1 .. Len(s) : s[i] = t[i]) => s = u
    BY <2>2, SeqEqual
  <2>4. s = u => \A i \in 1 .. Len(s) : s[i] = t[i]
    BY <2>2
  <2>. QED  BY <2>3, <2>4 DEF u
<1>. QED  BY <1>1, <1>2, <1>3 DEF IsPrefix, Starts

LEMMA StartsOrder ==
    ASSUME NEW S, NEW s \in Seq(S), NEW t \in Seq(S), NEW u \in Seq(S)
    PROVE  /\ Starts(s, s)
           /\ Starts(s, t) /\ Starts(t, u) => Starts(s, u)
           /\ Starts(s, t) => Starts(s, t \o u)
           /\ Starts(s, t) /\ Len(s) = Len(t) => s = t
<1>1. Len(s) \in Nat /\ Len(t) \in Nat /\ Len(u) \in Nat
  BY LenProperties
<1>2. Starts(s, s)
  BY <1>1 DEF Starts
<1>3. Starts(s, t) /\ Starts(t, u) => Starts(s, u)
  BY <1>1 DEF Starts
<1>4. Starts(s, t) => Starts(s, t \o u)
  <2>1. /\ Len(t \o u) = Len(t) + Len(u)
        /\ \A i \in 1 .. Len(t) + Len(u) : (t \o u)[i] = IF i <= Len(t) THEN t[i] ELSE u[i - Len(t)]
    BY ConcatProperties
  <2>2. \A i \in 1 .. Len(t) : (t \o u)[i] = t[i]
    BY <1>1, <2>1
  <2>. QED  BY <1>1, <2>1, <2>2 DEF Starts
<1>5. Starts(s, t) /\ Len(s) = Len(t) => s = t
  BY SeqEqual DEF Starts
<1>. QED  BY <1>2, <1>3, <1>4, <1>5

(* One record of a path after the others.                                  *)
Names(r, kind) == PicksKind(kind)[r]

LEMMA SourcesAt ==
    ASSUME NEW p \in Seq(Records), NEW k \in 1 .. Len(p), NEW kind
    PROVE  /\ Sources(SubSeq(p, 1, k - 1), kind) \in Seq(Messages)
           /\ Names(p[k], kind) \in Seq(Messages)
           /\ Sources(SubSeq(p, 1, k), kind)
                = Sources(SubSeq(p, 1, k - 1), kind) \o Names(p[k], kind)
<1>1. k - 1 \in 0 .. Len(p) /\ k \in 0 .. Len(p)
  BY LenProperties
<1>2. /\ SubSeq(p, 1, k - 1) \in Seq(Records) /\ SubSeq(p, 1, k) \in Seq(Records)
      /\ p[k] \in Records
      /\ SubSeq(p, 1, k) = Append(SubSeq(p, 1, k - 1), p[k])
  BY <1>1, PrefixStep
<1>3. PicksKind(kind) \in Namings
  BY PicksAreNamings
<1>4. /\ Sources(SubSeq(p, 1, k), kind) = FlatMap(SubSeq(p, 1, k), PicksKind(kind))
      /\ Sources(SubSeq(p, 1, k - 1), kind) = FlatMap(SubSeq(p, 1, k - 1), PicksKind(kind))
  BY <1>2, SourcesIsMap, Zenon
<1>5. Names(p[k], kind) \in Seq(Messages)
  BY <1>2, <1>3 DEF Names, Namings
<1>6. FlatMap(SubSeq(p, 1, k - 1), PicksKind(kind)) \in Seq(Messages)
  BY <1>2, <1>3, FlatMapType
<1>7. FlatMap(Append(SubSeq(p, 1, k - 1), p[k]), PicksKind(kind))
        = FlatMap(SubSeq(p, 1, k - 1), PicksKind(kind)) \o PicksKind(kind)[p[k]]
  BY <1>2, <1>3, <1>6, FlatMapAppend, Zenon
<1>. QED  BY <1>2, <1>4, <1>5, <1>6, <1>7, Zenon DEF Names

(* What an earlier part of a path names stays where it is.                 *)
LEMMA SourcesStart ==
    ASSUME NEW p \in Seq(Records), NEW n \in 0 .. Len(p), NEW kind
    PROVE  Starts(Sources(SubSeq(p, 1, n), kind), Sources(p, kind))
<1>. DEFINE P(k) == Starts(Sources(SubSeq(p, 1, n), kind), Sources(SubSeq(p, 1, k), kind))
            Bad == {k \in n .. Len(p) : ~ P(k)}
<1>0. Len(p) \in Nat
  BY LenProperties
<1>1. SUFFICES ASSUME Bad # {} PROVE FALSE
  <2>1. Len(p) \in n .. Len(p) /\ SubSeq(p, 1, Len(p)) = p
    BY <1>0, PrefixStep
  <2>. QED  BY <2>1
<1>. HIDE DEF P
<1>2. PICK k \in Bad : \A j \in Bad : k <= j
  <2>1. Bad \subseteq Nat
    BY <1>0
  <2>. HIDE DEF Bad
  <2>. QED  BY <1>1, <2>1, LeastNatural
<1>3. \A j \in 0 .. Len(p) : Sources(SubSeq(p, 1, j), kind) \in Seq(Messages)
  BY PrefixStep, SourcesType
<1>4. CASE k = n
  <2>1. P(n)
    BY <1>3, StartsOrder DEF P
  <2>. QED  BY <1>2, <1>4, <2>1
<1>5. CASE k # n
  <2>1. k - 1 \in n .. Len(p) /\ k - 1 \in 0 .. Len(p) /\ k \in 1 .. Len(p) /\ k \in 0 .. Len(p) /\ P(k - 1)
    BY <1>0, <1>2, <1>5
  <2>. DEFINE a == Sources(SubSeq(p, 1, n), kind)
              b == Sources(SubSeq(p, 1, k - 1), kind)
  <2>2. Starts(a, b) /\ a \in Seq(Messages)
    BY <1>3, <2>1 DEF P
  <2>3. /\ b \in Seq(Messages)
        /\ Names(p[k], kind) \in Seq(Messages)
        /\ Sources(SubSeq(p, 1, k), kind) = b \o Names(p[k], kind)
    BY <2>1, SourcesAt
  <2>. HIDE DEF a, b
  <2>4. Starts(a, b \o Names(p[k], kind))
    BY <2>2, <2>3, StartsOrder
  <2>5. P(k)
    BY <2>3, <2>4, Zenon DEF P, a
  <2>. QED  BY <1>2, <2>5
<1>. QED  BY <1>4, <1>5

Occurs(m, s) == \E j \in 1 .. Len(s) : s[j] = m

LEMMA OccursConcat ==
    ASSUME NEW S, NEW s \in Seq(S), NEW t \in Seq(S), NEW m
    PROVE  Occurs(m, s \o t) <=> Occurs(m, s) \/ Occurs(m, t)
<1>1. Len(s) \in Nat /\ Len(t) \in Nat
  BY LenProperties
<1>2. /\ Len(s \o t) = Len(s) + Len(t)
      /\ \A i \in 1 .. Len(s) + Len(t) : (s \o t)[i] = IF i <= Len(s) THEN s[i] ELSE t[i - Len(s)]
  BY ConcatProperties
<1>3. ASSUME NEW i \in 1 .. Len(s) + Len(t), (s \o t)[i] = m PROVE Occurs(m, s) \/ Occurs(m, t)
  <2>1. CASE i <= Len(s)
    BY <1>1, <1>2, <1>3, <2>1 DEF Occurs
  <2>2. CASE i > Len(s)
    <3>1. i - Len(s) \in 1 .. Len(t) /\ t[i - Len(s)] = m
      BY <1>1, <1>2, <1>3, <2>2
    <3>. QED  BY <3>1 DEF Occurs
  <2>. QED  BY <1>1, <2>1, <2>2
<1>4. ASSUME NEW i \in 1 .. Len(s), s[i] = m PROVE Occurs(m, s \o t)
  <2>1. i \in 1 .. Len(s) + Len(t) /\ (s \o t)[i] = m
    BY <1>1, <1>2, <1>4
  <2>. QED  BY <1>2, <2>1 DEF Occurs
<1>5. ASSUME NEW i \in 1 .. Len(t), t[i] = m PROVE Occurs(m, s \o t)
  <2>1. /\ Len(s) + i \in 1 .. Len(s) + Len(t) /\ ~ (Len(s) + i <= Len(s))
        /\ (Len(s) + i) - Len(s) = i
    BY <1>1
  <2>2. (s \o t)[Len(s) + i] = m
    BY <1>2, <1>5, <2>1
  <2>. QED  BY <1>2, <2>1, <2>2 DEF Occurs
<1>. QED  BY <1>2, <1>3, <1>4, <1>5 DEF Occurs

(* The messages that are named are those of the sequence.                  *)
LEMMA NamedIs ==
    ASSUME NEW p \in Seq(Records), NEW kind, NEW m
    PROVE  m \in Named(p, kind) <=> Occurs(m, Sources(p, kind))
<1>. DEFINE At(k) == \E i \in 1 .. k : p[i].kind = kind /\ Occurs(m, p[i].src)
            P(k) == At(k) <=> Occurs(m, Sources(SubSeq(p, 1, k), kind))
            Bad == {k \in 0 .. Len(p) : ~ P(k)}
<1>0. Len(p) \in Nat /\ DOMAIN p = 1 .. Len(p)
  BY LenProperties
<1>1. m \in Named(p, kind) <=> At(Len(p))
  <2>1. ASSUME NEW i \in 1 .. Len(p) PROVE DOMAIN p[i].src = 1 .. Len(p[i].src)
    <3>1. PICK r \in Records : r = p[i]
      BY ElementOfSeq
    <3>2. PICK s \in Seq(Messages) : s = r.src
      BY DEF Records
    <3>. QED  BY <3>1, <3>2, LenProperties
  <2>2. \A i \in 1 .. Len(p) : m \in ToSet(p[i].src) <=> Occurs(m, p[i].src)
    BY <2>1 DEF ToSet, Occurs
  <2>. QED  BY <1>0, <2>2 DEF Named
<1>2. SUFFICES ASSUME Bad # {} PROVE FALSE
  <2>1. Len(p) \in 0 .. Len(p) /\ SubSeq(p, 1, Len(p)) = p
    BY <1>0, PrefixStep
  <2>. QED  BY <1>1, <2>1
<1>. HIDE DEF P
<1>3. PICK k \in Bad : \A j \in Bad : k <= j
  <2>1. Bad \subseteq Nat
    OBVIOUS
  <2>. HIDE DEF Bad
  <2>. QED  BY <1>2, <2>1, LeastNatural
<1>4. CASE k = 0
  <2>1. SubSeq(p, 1, 0) = <<>>
    BY PrefixStep
  <2>2. ~ Occurs(m, <<>>)
    BY DEF Occurs
  <2>3. ~ At(0)
    OBVIOUS
  <2>. HIDE DEF At
  <2>4. Sources(SubSeq(p, 1, 0), kind) = <<>>
    BY <2>1, NothingNamed
  <2>5. P(0)
    BY <2>2, <2>3, <2>4 DEF P
  <2>. QED  BY <1>3, <1>4, <2>5
<1>5. CASE k # 0
  <2>1. k - 1 \in 0 .. Len(p) /\ k \in 1 .. Len(p) /\ P(k - 1)
    BY <1>0, <1>3, <1>5
  <2>. DEFINE b == Sources(SubSeq(p, 1, k - 1), kind)
  <2>2. /\ b \in Seq(Messages)
        /\ Names(p[k], kind) \in Seq(Messages)
        /\ Sources(SubSeq(p, 1, k), kind) = b \o Names(p[k], kind)
    BY <2>1, SourcesAt
  <2>3. At(k) <=> At(k - 1) \/ (p[k].kind = kind /\ Occurs(m, p[k].src))
    BY <2>1
  <2>4. Occurs(m, Names(p[k], kind)) <=> p[k].kind = kind /\ Occurs(m, p[k].src)
    <3>1. PICK r \in Records : r = p[k]
      BY <2>1, ElementOfSeq
    <3>2. Names(r, kind) = IF r.kind = kind THEN r.src ELSE <<>>
      BY DEF Names, PicksKind
    <3>3. ~ Occurs(m, <<>>)
      BY DEF Occurs
    <3>. QED  BY <3>1, <3>2, <3>3
  <2>5. At(k - 1) <=> Occurs(m, b)
    BY <2>1 DEF P
  <2>. HIDE DEF At, b
  <2>6. Occurs(m, b \o Names(p[k], kind)) <=> Occurs(m, b) \/ Occurs(m, Names(p[k], kind))
    BY <2>2, OccursConcat
  <2>7. P(k)
    BY <2>2, <2>3, <2>4, <2>5, <2>6, Zenon DEF P
  <2>. QED  BY <1>3, <2>7
<1>. QED  BY <1>4, <1>5

-------------------------------------------------------------------------------
(* Messages are numbered along a path                                      *)

Numbered(p) ==
    \A i \in 1 .. Len(p) : p[i].kind = "message" =>
        /\ Len(p[i].src) = 1
        /\ p[i].src[1].n = Len(MessagesOn(SubSeq(p, 1, i - 1))) + 1

LEMMA ConcatOne ==
    ASSUME NEW S, NEW s \in Seq(S), NEW x \in Seq(S), Len(x) = 1
    PROVE  /\ s \o x \in Seq(S) /\ Len(s \o x) = Len(s) + 1
           /\ \A i \in 1 .. Len(s) : (s \o x)[i] = s[i]
           /\ (s \o x)[Len(s) + 1] = x[1]
<1>1. Len(s) \in Nat
  BY LenProperties
<1>2. /\ s \o x \in Seq(S) /\ Len(s \o x) = Len(s) + 1
      /\ \A i \in 1 .. Len(s) + 1 : (s \o x)[i] = IF i <= Len(s) THEN s[i] ELSE x[i - Len(s)]
  <2>1. /\ s \o x \in Seq(S) /\ Len(s \o x) = Len(s) + Len(x)
        /\ \A i \in 1 .. Len(s) + Len(x) : (s \o x)[i] = IF i <= Len(s) THEN s[i] ELSE x[i - Len(s)]
    BY ConcatProperties
  <2>2. Len(s) + Len(x) = Len(s) + 1
    OBVIOUS
  <2>. QED  BY <2>1, <2>2, Zenon
<1>3. \A i \in 1 .. Len(s) : (s \o x)[i] = s[i]
  BY <1>1, <1>2
<1>4. (s \o x)[Len(s) + 1] = x[1]
  <2>1. Len(s) + 1 \in 1 .. Len(s) + 1 /\ ~ (Len(s) + 1 <= Len(s)) /\ (Len(s) + 1) - Len(s) = 1
    BY <1>1
  <2>. QED  BY <1>2, <2>1
<1>. QED  BY <1>2, <1>3, <1>4

LEMMA MessageAt ==
    ASSUME NEW p \in Seq(Records), Numbered(p), NEW k \in 1 .. Len(p)
    PROVE  LET m == MessagesOn(SubSeq(p, 1, k - 1))
           IN  /\ m \in Seq(Messages)
               /\ p[k].kind # "message" => MessagesOn(SubSeq(p, 1, k)) = m
               /\ p[k].kind = "message" =>
                     /\ p[k].src \in Seq(Messages) /\ Len(p[k].src) = 1
                     /\ p[k].src[1] \in Messages /\ p[k].src[1].n = Len(m) + 1
                     /\ MessagesOn(SubSeq(p, 1, k)) = m \o p[k].src
<1>. DEFINE m == MessagesOn(SubSeq(p, 1, k - 1))
<1>1. /\ m \in Seq(Messages)
      /\ Names(p[k], "message") \in Seq(Messages)
      /\ MessagesOn(SubSeq(p, 1, k)) = m \o Names(p[k], "message")
  BY SourcesAt DEF MessagesOn
<1>2. PICK r \in Records : r = p[k]
  BY ElementOfSeq
<1>3. Names(r, "message") = IF r.kind = "message" THEN r.src ELSE <<>>
  BY DEF Names, PicksKind
<1>. HIDE DEF m
<1>4. CASE r.kind # "message"
  <2>1. m \o <<>> = m
    BY <1>1, ConcatEmptySeq
  <2>. QED  BY <1>1, <1>2, <1>3, <1>4, <2>1, Zenon DEF m
<1>5. CASE r.kind = "message"
  <2>1. r.src \in Seq(Messages) /\ MessagesOn(SubSeq(p, 1, k)) = m \o r.src
    BY <1>1, <1>2, <1>3, <1>5, Zenon
  <2>2. Len(r.src) = 1 /\ r.src[1].n = Len(m) + 1
    BY <1>2, <1>5 DEF Numbered, m
  <2>3. r.src[1] \in Messages
    <3>1. PICK s \in Seq(Messages) : s = r.src
      BY <2>1
    <3>. QED  BY <2>2, <3>1, ElementOfSeq
  <2>. QED  BY <1>1, <1>2, <1>5, <2>1, <2>2, <2>3, Zenon DEF m
<1>. QED  BY <1>4, <1>5

(* A message's number is its place.                                        *)
LEMMA NumbersArePlaces ==
    ASSUME NEW p \in Seq(Records), Numbered(p)
    PROVE  \A j \in 1 .. Len(MessagesOn(p)) : MessagesOn(p)[j].n = j
<1>. DEFINE M(k) == MessagesOn(SubSeq(p, 1, k))
            P(k) == \A j \in 1 .. Len(M(k)) : M(k)[j].n = j
            Bad == {k \in 0 .. Len(p) : ~ P(k)}
<1>0. Len(p) \in Nat
  BY LenProperties
<1>1. SUFFICES ASSUME Bad # {} PROVE FALSE
  <2>1. Len(p) \in 0 .. Len(p) /\ SubSeq(p, 1, Len(p)) = p
    BY <1>0, PrefixStep
  <2>. QED  BY <2>1
<1>. HIDE DEF P
<1>2. PICK k \in Bad : \A j \in Bad : k <= j
  <2>1. Bad \subseteq Nat
    OBVIOUS
  <2>. HIDE DEF Bad
  <2>. QED  BY <1>1, <2>1, LeastNatural
<1>3. CASE k = 0
  <2>1. M(0) = <<>>
    BY PrefixStep, NothingNamed DEF MessagesOn
  <2>2. P(0)
    BY <2>1 DEF P
  <2>. QED  BY <1>2, <1>3, <2>2
<1>4. CASE k # 0
  <2>1. k - 1 \in 0 .. Len(p) /\ k \in 1 .. Len(p) /\ P(k - 1)
    BY <1>0, <1>2, <1>4
  <2>2. /\ M(k - 1) \in Seq(Messages)
        /\ p[k].kind # "message" => M(k) = M(k - 1)
        /\ p[k].kind = "message" =>
              /\ p[k].src \in Seq(Messages) /\ Len(p[k].src) = 1
              /\ p[k].src[1].n = Len(M(k - 1)) + 1
              /\ M(k) = M(k - 1) \o p[k].src
    BY <2>1, MessageAt
  <2>. HIDE DEF M
  <2>3. CASE p[k].kind # "message"
    BY <1>2, <2>1, <2>2, <2>3, Zenon DEF P
  <2>4. CASE p[k].kind = "message"
    <3>1. PICK x \in Seq(Messages) : x = p[k].src
      BY <2>2, <2>4
    <3>2. Len(x) = 1 /\ x[1].n = Len(M(k - 1)) + 1 /\ M(k) = M(k - 1) \o x
      BY <2>2, <2>4, <3>1, Zenon
    <3>3. /\ Len(M(k - 1) \o x) = Len(M(k - 1)) + 1
          /\ \A i \in 1 .. Len(M(k - 1)) : (M(k - 1) \o x)[i] = M(k - 1)[i]
          /\ (M(k - 1) \o x)[Len(M(k - 1)) + 1] = x[1]
      BY <2>2, <3>2, ConcatOne
    <3>4. Len(M(k - 1)) \in Nat
      BY <2>2, LenProperties
    <3>5. /\ Len(M(k)) = Len(M(k - 1)) + 1
          /\ \A i \in 1 .. Len(M(k - 1)) : M(k)[i] = M(k - 1)[i]
          /\ M(k)[Len(M(k - 1)) + 1].n = Len(M(k - 1)) + 1
      BY <3>2, <3>3, Zenon
    <3>6. \A j \in 1 .. Len(M(k - 1)) : M(k - 1)[j].n = j
      BY <2>1 DEF P
    <3>7. P(k)
      BY <3>4, <3>5, <3>6 DEF P
    <3>. QED  BY <1>2, <3>7
  <2>. QED  BY <2>3, <2>4
<1>. QED  BY <1>3, <1>4

(* The first a of the messages are left out, and those after the first b.  *)
IsWindow(s, t, a, b) ==
    LET e == IF Len(t) < b THEN Len(t) ELSE b
    IN  /\ Len(s) = IF a < e THEN e - a ELSE 0
        /\ \A i \in 1 .. Len(s) : s[i] = t[a + i]

LEMMA WindowGrows ==
    ASSUME NEW S, NEW s \in Seq(S), NEW t \in Seq(S), NEW x \in Seq(S), Len(x) = 1,
           NEW a \in Nat, NEW b \in Nat, IsWindow(s, t, a, b)
    PROVE  /\ (a < Len(t) + 1 /\ Len(t) + 1 <= b) => IsWindow(s \o x, t \o x, a, b)
           /\ ~ (a < Len(t) + 1 /\ Len(t) + 1 <= b) => IsWindow(s, t \o x, a, b)
<1>1. Len(s) \in Nat /\ Len(t) \in Nat
  BY LenProperties
<1>2. PICK u \in Seq(S) : /\ u = s \o x /\ Len(u) = Len(s) + 1
                          /\ \A i \in 1 .. Len(s) : u[i] = s[i]
                          /\ u[Len(s) + 1] = x[1]
  BY ConcatOne
<1>3. PICK v \in Seq(S) : /\ v = t \o x /\ Len(v) = Len(t) + 1
                          /\ \A i \in 1 .. Len(t) : v[i] = t[i]
                          /\ v[Len(t) + 1] = x[1]
  BY ConcatOne
<1>4. ASSUME a < Len(t) + 1, Len(t) + 1 <= b PROVE IsWindow(u, v, a, b)
  <2>1. Len(s) = Len(t) - a
    BY <1>1, <1>4 DEF IsWindow
  <2>2. ASSUME NEW i \in 1 .. Len(u) PROVE u[i] = v[a + i]
    <3>1. CASE i <= Len(s)
      <4>1. i \in 1 .. Len(s) /\ a + i \in 1 .. Len(t)
        BY <1>1, <1>2, <2>1, <2>2, <3>1
      <4>2. s[i] = t[a + i]
        BY <4>1 DEF IsWindow
      <4>. QED  BY <1>2, <1>3, <4>1, <4>2
    <3>2. CASE i = Len(s) + 1
      <4>1. a + i = Len(t) + 1
        BY <1>1, <2>1, <3>2
      <4>. QED  BY <1>2, <1>3, <3>2, <4>1
    <3>. QED  BY <1>1, <1>2, <3>1, <3>2
  <2>3. Len(u) = Len(v) - a /\ ~ (Len(v) > b) /\ a < Len(v)
    BY <1>1, <1>2, <1>3, <1>4, <2>1
  <2>. QED  BY <1>1, <1>3, <2>2, <2>3 DEF IsWindow
<1>5. ASSUME ~ (a < Len(t) + 1 /\ Len(t) + 1 <= b) PROVE IsWindow(s, v, a, b)
  <2>1. Len(s) = IF a < (IF Len(v) < b THEN Len(v) ELSE b)
                 THEN (IF Len(v) < b THEN Len(v) ELSE b) - a ELSE 0
    BY <1>1, <1>3, <1>5 DEF IsWindow
  <2>2. ASSUME NEW i \in 1 .. Len(s) PROVE s[i] = v[a + i]
    <3>1. a + i \in 1 .. Len(t) /\ s[i] = t[a + i]
      BY <1>1, <1>5, <2>2 DEF IsWindow
    <3>. QED  BY <1>3, <3>1
  <2>. QED  BY <2>1, <2>2 DEF IsWindow
<1>. QED  BY <1>2, <1>3, <1>4, <1>5

LEMMA PlaceOf ==
    ASSUME NEW p \in Seq(Records), Numbered(p), NEW k \in 1 .. Len(p), p[k].kind = "message"
    PROVE  /\ p[k].src[1] \in Messages
           /\ p[k].src[1].n \in 1 .. Len(MessagesOn(p))
           /\ MessagesOn(p)[p[k].src[1].n] = p[k].src[1]
<1>. DEFINE m == MessagesOn(SubSeq(p, 1, k - 1))
            l == MessagesOn(SubSeq(p, 1, k))
<1>1. /\ m \in Seq(Messages) /\ p[k].src \in Seq(Messages) /\ Len(p[k].src) = 1
      /\ p[k].src[1] \in Messages /\ p[k].src[1].n = Len(m) + 1
      /\ l = m \o p[k].src
  BY MessageAt
<1>2. Starts(l, MessagesOn(p))
  <2>1. k \in 0 .. Len(p)
    OBVIOUS
  <2>. QED  BY <2>1, SourcesStart DEF MessagesOn
<1>3. MessagesOn(p) \in Seq(Messages)
  BY SourcesType DEF MessagesOn
<1>. HIDE DEF m, l
<1>4. PICK x \in Seq(Messages) : x = p[k].src
  BY <1>1
<1>5. Len(x) = 1 /\ x[1] = p[k].src[1] /\ x[1].n = Len(m) + 1 /\ l = m \o x
  BY <1>1, <1>4, Zenon
<1>6. Len(m \o x) = Len(m) + 1 /\ (m \o x)[Len(m) + 1] = x[1]
  BY <1>1, <1>5, ConcatOne
<1>7. Len(m) \in Nat /\ Len(MessagesOn(p)) \in Nat
  BY <1>1, <1>3, LenProperties
<1>8. Len(l) = Len(m) + 1 /\ l[Len(m) + 1] = x[1]
  BY <1>5, <1>6, Zenon
<1>9. Len(m) + 1 \in 1 .. Len(MessagesOn(p)) /\ MessagesOn(p)[Len(m) + 1] = x[1]
  BY <1>2, <1>7, <1>8 DEF Starts
<1>. QED  BY <1>1, <1>5, <1>9

LEMMA SelectAt ==
    ASSUME NEW p \in Seq(Records), NEW k \in 1 .. Len(p), NEW S
    PROVE  /\ Select(SubSeq(p, 1, k - 1), S) \in Seq(Messages)
           /\ (p[k].kind = "message" /\ p[k].src[1] \in S) =>
                 Select(SubSeq(p, 1, k), S) = Select(SubSeq(p, 1, k - 1), S) \o p[k].src
           /\ ~ (p[k].kind = "message" /\ p[k].src[1] \in S) =>
                 Select(SubSeq(p, 1, k), S) = Select(SubSeq(p, 1, k - 1), S)
<1>1. k - 1 \in 0 .. Len(p)
  BY LenProperties
<1>2. PICK q \in Seq(Records) : q = SubSeq(p, 1, k - 1)
  BY <1>1, PrefixStep
<1>3. PICK r \in Records : r = p[k]
  BY ElementOfSeq
<1>4. SubSeq(p, 1, k) = Append(q, r)
  BY <1>2, <1>3, PrefixStep
<1>5. /\ Select(q, S) \in Seq(Messages)
      /\ Select(Append(q, r), S) =
           IF r.kind = "message" /\ r.src[1] \in S THEN Select(q, S) \o r.src ELSE Select(q, S)
  BY SelectAppend
<1>. QED  BY <1>2, <1>3, <1>4, <1>5, Zenon

(* A set that holds the messages of a window selects that window.          *)
LEMMA SelectIsWindow ==
    ASSUME NEW p \in Seq(Records), Numbered(p), NEW S, NEW a \in Nat, NEW b \in Nat,
           \A i \in 1 .. Len(p) : p[i].kind = "message" =>
                (p[i].src[1] \in S <=> a < p[i].src[1].n /\ p[i].src[1].n <= b)
    PROVE  IsWindow(Select(p, S), MessagesOn(p), a, b)
<1>. DEFINE M(k) == MessagesOn(SubSeq(p, 1, k))
            C(k) == Select(SubSeq(p, 1, k), S)
            P(k) == IsWindow(C(k), M(k), a, b)
            Bad == {k \in 0 .. Len(p) : ~ P(k)}
<1>0. Len(p) \in Nat
  BY LenProperties
<1>1. SUFFICES ASSUME Bad # {} PROVE FALSE
  <2>1. Len(p) \in 0 .. Len(p) /\ SubSeq(p, 1, Len(p)) = p
    BY <1>0, PrefixStep
  <2>. QED  BY <2>1
<1>. HIDE DEF P
<1>2. PICK k \in Bad : \A j \in Bad : k <= j
  <2>1. Bad \subseteq Nat
    OBVIOUS
  <2>. HIDE DEF Bad
  <2>. QED  BY <1>1, <2>1, LeastNatural
<1>3. CASE k = 0
  <2>1. M(0) = <<>> /\ C(0) = <<>>
    BY PrefixStep, NothingNamed DEF MessagesOn
  <2>. HIDE DEF M, C
  <2>2. P(0)
    BY <2>1 DEF P, IsWindow
  <2>. QED  BY <1>2, <1>3, <2>2
<1>4. CASE k # 0
  <2>1. k - 1 \in 0 .. Len(p) /\ k \in 1 .. Len(p) /\ P(k - 1)
    BY <1>0, <1>2, <1>4
  <2>2. /\ M(k - 1) \in Seq(Messages)
        /\ p[k].kind # "message" => M(k) = M(k - 1)
        /\ p[k].kind = "message" =>
              /\ p[k].src \in Seq(Messages) /\ Len(p[k].src) = 1
              /\ p[k].src[1].n = Len(M(k - 1)) + 1
              /\ M(k) = M(k - 1) \o p[k].src
    BY <2>1, MessageAt
  <2>3. /\ C(k - 1) \in Seq(Messages)
        /\ (p[k].kind = "message" /\ p[k].src[1] \in S) => C(k) = C(k - 1) \o p[k].src
        /\ ~ (p[k].kind = "message" /\ p[k].src[1] \in S) => C(k) = C(k - 1)
    BY <2>1, SelectAt
  <2>. HIDE DEF M, C
  <2>4. CASE p[k].kind # "message"
    BY <1>2, <2>1, <2>2, <2>3, <2>4, Zenon DEF P
  <2>5. CASE p[k].kind = "message"
    <3>1. PICK x \in Seq(Messages) : x = p[k].src
      BY <2>2, <2>5
    <3>2. /\ Len(x) = 1 /\ x[1].n = Len(M(k - 1)) + 1 /\ M(k) = M(k - 1) \o x
          /\ x[1] \in S => C(k) = C(k - 1) \o x
          /\ x[1] \notin S => C(k) = C(k - 1)
      BY <2>2, <2>3, <2>5, <3>1, Zenon
    <3>3. /\ (a < Len(M(k - 1)) + 1 /\ Len(M(k - 1)) + 1 <= b) => IsWindow(C(k - 1) \o x, M(k - 1) \o x, a, b)
          /\ ~ (a < Len(M(k - 1)) + 1 /\ Len(M(k - 1)) + 1 <= b) => IsWindow(C(k - 1), M(k - 1) \o x, a, b)
      BY <2>1, <2>2, <2>3, <3>2, WindowGrows DEF P
    <3>4. x[1] \in S <=> a < Len(M(k - 1)) + 1 /\ Len(M(k - 1)) + 1 <= b
      <4>1. p[k].src[1] \in S <=> a < p[k].src[1].n /\ p[k].src[1].n <= b
        BY <2>1, <2>5
      <4>. QED  BY <3>1, <3>2, <4>1, Zenon
    <3>5. P(k)
      BY <3>2, <3>3, <3>4, Zenon DEF P
    <3>. QED  BY <1>2, <3>5
  <2>. QED  BY <2>4, <2>5
<1>. QED  BY <1>3, <1>4

-------------------------------------------------------------------------------
(* What is retired, published and raw                                      *)

Layered(p) ==
    /\ Starts(PublishedOn(p), MessagesOn(p))
    /\ Starts(Retired(p), PublishedOn(p))

LEMMA LayerLengths ==
    ASSUME NEW p \in Seq(Records), Layered(p)
    PROVE  /\ MessagesOn(p) \in Seq(Messages) /\ PublishedOn(p) \in Seq(Messages)
           /\ Retired(p) \in Seq(Messages)
           /\ Len(MessagesOn(p)) \in Nat /\ Len(PublishedOn(p)) \in Nat /\ Len(Retired(p)) \in Nat
           /\ Len(Retired(p)) <= Len(PublishedOn(p)) /\ Len(PublishedOn(p)) <= Len(MessagesOn(p))
           /\ \A i \in 1 .. Len(PublishedOn(p)) : PublishedOn(p)[i] = MessagesOn(p)[i]
           /\ \A i \in 1 .. Len(Retired(p)) : Retired(p)[i] = MessagesOn(p)[i]
<1>1. /\ MessagesOn(p) \in Seq(Messages) /\ PublishedOn(p) \in Seq(Messages)
      /\ Retired(p) \in Seq(Messages)
      /\ Len(MessagesOn(p)) \in Nat /\ Len(PublishedOn(p)) \in Nat /\ Len(Retired(p)) \in Nat
  BY SourcesType DEF MessagesOn, PublishedOn, Retired
<1>2. /\ Len(Retired(p)) <= Len(PublishedOn(p)) /\ Len(PublishedOn(p)) <= Len(MessagesOn(p))
      /\ \A i \in 1 .. Len(PublishedOn(p)) : PublishedOn(p)[i] = MessagesOn(p)[i]
      /\ \A i \in 1 .. Len(Retired(p)) : Retired(p)[i] = PublishedOn(p)[i]
  BY DEF Layered, Starts
<1>3. \A i \in 1 .. Len(Retired(p)) : Retired(p)[i] = MessagesOn(p)[i]
  BY <1>1, <1>2
<1>. QED  BY <1>1, <1>2, <1>3

(* Which messages a layer holds is told by their numbers.                  *)
LEMMA InLayer ==
    ASSUME NEW p \in Seq(Records), Numbered(p), Layered(p),
           NEW k \in 1 .. Len(p), p[k].kind = "message"
    PROVE  LET m == p[k].src[1]
           IN  /\ m.n \in 1 .. Len(MessagesOn(p)) /\ m \in Named(p, "message")
               /\ m \in Named(p, "published") <=> m.n <= Len(PublishedOn(p))
               /\ m \in Named(p, "applied") <=> m.n <= Len(Retired(p))
<1>1. PICK m \in Messages : m = p[k].src[1]
  BY PlaceOf
<1>2. m.n \in 1 .. Len(MessagesOn(p)) /\ MessagesOn(p)[m.n] = m
  BY <1>1, PlaceOf
<1>3. \A j \in 1 .. Len(MessagesOn(p)) : MessagesOn(p)[j].n = j
  BY NumbersArePlaces
<1>4. Occurs(m, MessagesOn(p))
  BY <1>2 DEF Occurs
<1>5. Occurs(m, PublishedOn(p)) <=> m.n <= Len(PublishedOn(p))
  <2>1. ASSUME m.n <= Len(PublishedOn(p)) PROVE Occurs(m, PublishedOn(p))
    <3>1. m.n \in 1 .. Len(PublishedOn(p)) /\ PublishedOn(p)[m.n] = m
      BY <1>2, <2>1, LayerLengths
    <3>. QED  BY <3>1 DEF Occurs
  <2>2. ASSUME NEW j \in 1 .. Len(PublishedOn(p)), PublishedOn(p)[j] = m
        PROVE  m.n <= Len(PublishedOn(p))
    <3>1. j \in 1 .. Len(MessagesOn(p)) /\ MessagesOn(p)[j] = m
      BY <2>2, LayerLengths
    <3>. QED  BY <1>3, <3>1
  <2>. QED  BY <2>1, <2>2 DEF Occurs
<1>6. Occurs(m, Retired(p)) <=> m.n <= Len(Retired(p))
  <2>1. ASSUME m.n <= Len(Retired(p)) PROVE Occurs(m, Retired(p))
    <3>1. m.n \in 1 .. Len(Retired(p)) /\ Retired(p)[m.n] = m
      BY <1>2, <2>1, LayerLengths
    <3>. QED  BY <3>1 DEF Occurs
  <2>2. ASSUME NEW j \in 1 .. Len(Retired(p)), Retired(p)[j] = m
        PROVE  m.n <= Len(Retired(p))
    <3>1. j \in 1 .. Len(MessagesOn(p)) /\ MessagesOn(p)[j] = m
      BY <2>2, LayerLengths
    <3>. QED  BY <1>3, <3>1
  <2>. QED  BY <2>1, <2>2 DEF Occurs
<1>7. /\ m \in Named(p, "message") <=> Occurs(m, MessagesOn(p))
      /\ m \in Named(p, "published") <=> Occurs(m, PublishedOn(p))
      /\ m \in Named(p, "applied") <=> Occurs(m, Retired(p))
  BY NamedIs, Zenon DEF MessagesOn, PublishedOn, Retired
<1>8. /\ m.n \in 1 .. Len(MessagesOn(p)) /\ m \in Named(p, "message")
      /\ m \in Named(p, "published") <=> m.n <= Len(PublishedOn(p))
      /\ m \in Named(p, "applied") <=> m.n <= Len(Retired(p))
  BY <1>2, <1>4, <1>5, <1>6, <1>7, Zenon
<1>. QED  BY <1>1, <1>8, Zenon

Waiting(p) == Select(p, Named(p, "published") \ Named(p, "applied"))

(* The three selections of the model are windows of the messages.          *)
LEMMA LayersAreWindows ==
    ASSUME NEW p \in Seq(Records), Numbered(p), Layered(p)
    PROVE  /\ IsWindow(Raw(p), MessagesOn(p), Len(Retired(p)), Len(MessagesOn(p)))
           /\ IsWindow(Candidates(p), MessagesOn(p), Len(PublishedOn(p)), Len(MessagesOn(p)))
           /\ IsWindow(Waiting(p), MessagesOn(p), Len(Retired(p)), Len(PublishedOn(p)))
<1>1. /\ Len(MessagesOn(p)) \in Nat /\ Len(PublishedOn(p)) \in Nat /\ Len(Retired(p)) \in Nat
      /\ Len(Retired(p)) <= Len(PublishedOn(p)) /\ Len(PublishedOn(p)) <= Len(MessagesOn(p))
  BY LayerLengths
<1>2. \A k \in 1 .. Len(p) : p[k].kind = "message" =>
        /\ p[k].src[1].n \in 1 .. Len(MessagesOn(p)) /\ p[k].src[1] \in Named(p, "message")
        /\ p[k].src[1] \in Named(p, "published") <=> p[k].src[1].n <= Len(PublishedOn(p))
        /\ p[k].src[1] \in Named(p, "applied") <=> p[k].src[1].n <= Len(Retired(p))
  BY InLayer
<1>3. IsWindow(Raw(p), MessagesOn(p), Len(Retired(p)), Len(MessagesOn(p)))
  <2>. DEFINE S == Named(p, "message") \ Named(p, "applied")
  <2>1. \A i \in 1 .. Len(p) : p[i].kind = "message" =>
          (p[i].src[1] \in S <=> Len(Retired(p)) < p[i].src[1].n /\ p[i].src[1].n <= Len(MessagesOn(p)))
    BY <1>1, <1>2
  <2>. HIDE DEF S
  <2>2. IsWindow(Select(p, S), MessagesOn(p), Len(Retired(p)), Len(MessagesOn(p)))
    BY <1>1, <2>1, SelectIsWindow
  <2>. QED  BY <2>2 DEF Raw, S
<1>4. IsWindow(Candidates(p), MessagesOn(p), Len(PublishedOn(p)), Len(MessagesOn(p)))
  <2>. DEFINE S == Named(p, "message") \ (Named(p, "applied") \cup Named(p, "published"))
  <2>1. \A i \in 1 .. Len(p) : p[i].kind = "message" =>
          (p[i].src[1] \in S <=> Len(PublishedOn(p)) < p[i].src[1].n /\ p[i].src[1].n <= Len(MessagesOn(p)))
    BY <1>1, <1>2
  <2>. HIDE DEF S
  <2>2. IsWindow(Select(p, S), MessagesOn(p), Len(PublishedOn(p)), Len(MessagesOn(p)))
    BY <1>1, <2>1, SelectIsWindow
  <2>. QED  BY <2>2 DEF Candidates, S
<1>5. IsWindow(Waiting(p), MessagesOn(p), Len(Retired(p)), Len(PublishedOn(p)))
  <2>. DEFINE S == Named(p, "published") \ Named(p, "applied")
  <2>1. \A i \in 1 .. Len(p) : p[i].kind = "message" =>
          (p[i].src[1] \in S <=> Len(Retired(p)) < p[i].src[1].n /\ p[i].src[1].n <= Len(PublishedOn(p)))
    BY <1>1, <1>2
  <2>. HIDE DEF S
  <2>2. IsWindow(Select(p, S), MessagesOn(p), Len(Retired(p)), Len(PublishedOn(p)))
    BY <1>1, <2>1, SelectIsWindow
  <2>. QED  BY <2>2 DEF Waiting, S
<1>. QED  BY <1>3, <1>4, <1>5

LEMMA WindowTail ==
    ASSUME NEW S, NEW r \in Seq(S), NEW t \in Seq(S), NEW m \in Seq(S), NEW w \in Seq(S),
           Starts(r, t), Starts(t, m), IsWindow(w, m, Len(r), Len(t))
    PROVE  t = r \o w
<1>1. Len(r) \in Nat /\ Len(t) \in Nat /\ Len(m) \in Nat /\ Len(w) \in Nat
  BY LenProperties
<1>2. Len(r) <= Len(t) /\ Len(t) <= Len(m)
  BY DEF Starts
<1>3. Len(w) = Len(t) - Len(r) /\ \A i \in 1 .. Len(w) : w[i] = m[Len(r) + i]
  BY <1>1, <1>2 DEF IsWindow
<1>. DEFINE u == r \o w
<1>4. /\ u \in Seq(S) /\ Len(u) = Len(r) + Len(w)
      /\ \A i \in 1 .. Len(r) + Len(w) : u[i] = IF i <= Len(r) THEN r[i] ELSE w[i - Len(r)]
  BY ConcatProperties
<1>. HIDE DEF u
<1>5. ASSUME NEW i \in 1 .. Len(t) PROVE t[i] = u[i]
  <2>1. t[i] = m[i] /\ i \in 1 .. Len(r) + Len(w)
    BY <1>1, <1>3 DEF Starts
  <2>2. CASE i <= Len(r)
    BY <1>1, <1>4, <2>1, <2>2 DEF Starts
  <2>3. CASE i > Len(r)
    <3>1. i - Len(r) \in 1 .. Len(w) /\ Len(r) + (i - Len(r)) = i
      BY <1>1, <1>3, <2>1, <2>3
    <3>2. w[i - Len(r)] = m[i]
      BY <1>3, <3>1
    <3>. QED  BY <1>1, <1>4, <2>1, <2>3, <3>2
  <2>. QED  BY <1>1, <2>2, <2>3
<1>6. Len(t) = Len(u)
  BY <1>1, <1>3, <1>4
<1>7. t = u
  BY <1>4, <1>5, <1>6, SeqEqual
<1>. QED  BY <1>7 DEF u

LEMMA WindowConcat ==
    ASSUME NEW S, NEW t \in Seq(S), NEW m \in Seq(S), NEW w \in Seq(S), NEW x \in Seq(S),
           Starts(t, m), IsWindow(w, m, Len(t), Len(m)), Starts(x, w)
    PROVE  Starts(t \o x, m)
<1>1. Len(t) \in Nat /\ Len(m) \in Nat /\ Len(w) \in Nat /\ Len(x) \in Nat
  BY LenProperties
<1>2. Len(t) <= Len(m) /\ Len(x) <= Len(w)
  BY DEF Starts
<1>3. Len(w) = Len(m) - Len(t) /\ \A i \in 1 .. Len(w) : w[i] = m[Len(t) + i]
  BY <1>1, <1>2 DEF IsWindow
<1>. DEFINE u == t \o x
<1>4. /\ u \in Seq(S) /\ Len(u) = Len(t) + Len(x)
      /\ \A i \in 1 .. Len(t) + Len(x) : u[i] = IF i <= Len(t) THEN t[i] ELSE x[i - Len(t)]
  BY ConcatProperties
<1>. HIDE DEF u
<1>5. ASSUME NEW i \in 1 .. Len(u) PROVE u[i] = m[i]
  <2>1. CASE i <= Len(t)
    BY <1>1, <1>4, <2>1 DEF Starts
  <2>2. CASE i > Len(t)
    <3>1. i - Len(t) \in 1 .. Len(x) /\ Len(t) + (i - Len(t)) = i
      BY <1>1, <1>4, <2>2
    <3>2. x[i - Len(t)] = w[i - Len(t)]
      BY <3>1 DEF Starts
    <3>3. i - Len(t) \in 1 .. Len(w)
      BY <1>1, <1>2, <3>1
    <3>4. w[i - Len(t)] = m[i]
      BY <1>3, <3>1, <3>3
    <3>. QED  BY <1>1, <1>4, <2>2, <3>2, <3>4
  <2>. QED  BY <1>1, <1>4, <2>1, <2>2
<1>6. Len(u) <= Len(m)
  BY <1>1, <1>2, <1>3, <1>4
<1>7. Starts(u, m)
  BY <1>5, <1>6 DEF Starts
<1>. QED  BY <1>7 DEF u

LEMMA WindowsStart ==
    ASSUME NEW S, NEW v \in Seq(S), NEW w \in Seq(S), NEW m \in Seq(S),
           NEW a \in Nat, NEW b \in Nat, NEW c \in Nat, a <= b, b <= c, c <= Len(m),
           IsWindow(v, m, a, b), IsWindow(w, m, a, c)
    PROVE  /\ Starts(v, w) /\ Len(v) = b - a /\ Len(w) = c - a
           /\ b = c => v = w
<1>1. Len(v) \in Nat /\ Len(m) \in Nat /\ Len(w) \in Nat
  BY LenProperties
<1>2. /\ Len(v) = b - a /\ \A i \in 1 .. Len(v) : v[i] = m[a + i]
      /\ Len(w) = c - a /\ \A i \in 1 .. Len(w) : w[i] = m[a + i]
  BY <1>1 DEF IsWindow
<1>3. Starts(v, w)
  BY <1>1, <1>2 DEF Starts
<1>4. b = c => v = w
  BY <1>2, <1>3, StartsOrder
<1>. QED  BY <1>2, <1>3, <1>4

-------------------------------------------------------------------------------
(* Well-formed paths                                                       *)

WellFormed(p) == Numbered(p) /\ \A k \in 0 .. Len(p) : Layered(SubSeq(p, 1, k))

LEMMA WellFormedIsLayered ==
    ASSUME NEW p \in Seq(Records), WellFormed(p)
    PROVE  Numbered(p) /\ Layered(p)
<1>1. Len(p) \in 0 .. Len(p) /\ SubSeq(p, 1, Len(p)) = p
  BY LenProperties, PrefixStep
<1>. QED  BY <1>1 DEF WellFormed

LEMMA EmptyWellFormed == <<>> \in Seq(Records) /\ WellFormed(<<>>)
<1>1. <<>> \in Seq(Records) /\ Len(<<>>) = 0
  BY EmptySeq
<1>2. Numbered(<<>>)
  BY <1>1 DEF Numbered
<1>3. SubSeq(<<>>, 1, 0) = <<>>
  BY <1>1, PrefixStep
<1>4. Layered(<<>>)
  BY NothingNamed DEF Layered, Starts, MessagesOn, PublishedOn, Retired
<1>5. \A k \in 0 .. Len(<<>>) : k = 0
  BY <1>1
<1>. QED  BY <1>1, <1>2, <1>3, <1>4, <1>5 DEF WellFormed

(* An undo leaves a well-formed path.                                      *)
LEMMA PrefixWellFormed ==
    ASSUME NEW p \in Seq(Records), WellFormed(p), NEW n \in 0 .. Len(p)
    PROVE  SubSeq(p, 1, n) \in Seq(Records) /\ WellFormed(SubSeq(p, 1, n))
<1>1. Len(p) \in Nat
  BY LenProperties
<1>2. /\ SubSeq(p, 1, n) \in Seq(Records) /\ Len(SubSeq(p, 1, n)) = n
      /\ \A i \in 1 .. n : SubSeq(p, 1, n)[i] = p[i]
      /\ \A i \in 0 .. n : SubSeq(SubSeq(p, 1, n), 1, i) = SubSeq(p, 1, i)
  BY PrefixStep
<1>. DEFINE q == SubSeq(p, 1, n)
<1>. HIDE DEF q
<1>3. ASSUME NEW i \in 1 .. Len(q), q[i].kind = "message"
      PROVE  Len(q[i].src) = 1 /\ q[i].src[1].n = Len(MessagesOn(SubSeq(q, 1, i - 1))) + 1
  <2>1. q[i] = p[i] /\ i \in 1 .. Len(p) /\ i - 1 \in 0 .. n
    BY <1>1, <1>2 DEF q
  <2>2. SubSeq(q, 1, i - 1) = SubSeq(p, 1, i - 1)
    BY <1>2, <2>1 DEF q
  <2>. QED  BY <1>3, <2>1, <2>2 DEF WellFormed, Numbered
<1>4. ASSUME NEW k \in 0 .. Len(q) PROVE Layered(SubSeq(q, 1, k))
  <2>1. k \in 0 .. n /\ k \in 0 .. Len(p)
    BY <1>1, <1>2 DEF q
  <2>2. SubSeq(q, 1, k) = SubSeq(p, 1, k)
    BY <1>2, <2>1 DEF q
  <2>. QED  BY <2>1, <2>2 DEF WellFormed
<1>5. q \in Seq(Records) /\ WellFormed(q)
  BY <1>2, <1>3, <1>4 DEF WellFormed, Numbered, q
<1>. QED  BY <1>5 DEF q

LEMMA AppendWellFormed ==
    ASSUME NEW p \in Seq(Records), WellFormed(p), NEW r \in Records,
           r.kind = "message" => Len(r.src) = 1 /\ r.src[1].n = Len(MessagesOn(p)) + 1,
           Layered(Append(p, r))
    PROVE  Append(p, r) \in Seq(Records) /\ WellFormed(Append(p, r))
<1>1. Len(p) \in Nat
  BY LenProperties
<1>2. PICK q \in Seq(Records) : /\ q = Append(p, r) /\ Len(q) = Len(p) + 1
                                /\ \A i \in 1 .. Len(p) : q[i] = p[i]
                                /\ q[Len(p) + 1] = r
  BY AppendProperties
<1>3. ASSUME NEW k \in 0 .. Len(p) PROVE SubSeq(q, 1, k) = SubSeq(p, 1, k)
  <2>. DEFINE a == SubSeq(q, 1, k)
              b == SubSeq(p, 1, k)
  <2>1. k \in 0 .. Len(q)
    BY <1>1, <1>2
  <2>2. /\ a \in Seq(Records) /\ Len(a) = k /\ \A j \in 1 .. k : a[j] = q[j]
        /\ b \in Seq(Records) /\ Len(b) = k /\ \A j \in 1 .. k : b[j] = p[j]
    BY <2>1, PrefixStep
  <2>. HIDE DEF a, b
  <2>3. \A j \in 1 .. k : a[j] = b[j]
    BY <1>1, <1>2, <2>2
  <2>4. a = b
    BY <2>2, <2>3, SeqEqual
  <2>. QED  BY <2>4 DEF a, b
<1>4. ASSUME NEW i \in 1 .. Len(q), q[i].kind = "message"
      PROVE  Len(q[i].src) = 1 /\ q[i].src[1].n = Len(MessagesOn(SubSeq(q, 1, i - 1))) + 1
  <2>1. i - 1 \in 0 .. Len(p) /\ (i \in 1 .. Len(p) \/ i = Len(p) + 1)
    BY <1>1, <1>2
  <2>2. SubSeq(q, 1, i - 1) = SubSeq(p, 1, i - 1)
    BY <1>3, <2>1
  <2>3. CASE i \in 1 .. Len(p)
    BY <1>2, <1>4, <2>2, <2>3 DEF WellFormed, Numbered
  <2>4. CASE i = Len(p) + 1
    <3>1. i - 1 = Len(p) /\ SubSeq(p, 1, Len(p)) = p
      BY <1>1, <2>4, PrefixStep
    <3>2. q[i] = r
      BY <1>2, <2>4
    <3>. QED  BY <1>4, <2>2, <3>1, <3>2
  <2>. QED  BY <2>1, <2>3, <2>4
<1>5. ASSUME NEW k \in 0 .. Len(q) PROVE Layered(SubSeq(q, 1, k))
  <2>1. k \in 0 .. Len(p) \/ k = Len(q)
    BY <1>1, <1>2
  <2>2. CASE k \in 0 .. Len(p)
    BY <1>3, <2>2 DEF WellFormed
  <2>3. CASE k = Len(q)
    BY <1>2, <2>3, PrefixStep
  <2>. QED  BY <2>1, <2>2, <2>3
<1>6. Numbered(q)
  BY <1>4 DEF Numbered
<1>. QED  BY <1>2, <1>5, <1>6 DEF WellFormed

(* The raw messages depend on the messages and the retired ones only.      *)
LEMMA RawDependsOn ==
    ASSUME NEW p \in Seq(Records), WellFormed(p), NEW q \in Seq(Records), WellFormed(q),
           MessagesOn(q) = MessagesOn(p), Retired(q) = Retired(p)
    PROVE  Raw(q) = Raw(p)
<1>1. /\ Len(MessagesOn(p)) \in Nat /\ Len(Retired(p)) \in Nat /\ MessagesOn(p) \in Seq(Messages)
      /\ Len(Retired(p)) <= Len(MessagesOn(p))
  BY WellFormedIsLayered, LayerLengths
<1>2. Raw(p) \in Seq(Messages) /\ Raw(q) \in Seq(Messages)
  BY SourcesType DEF Raw
<1>3. /\ IsWindow(Raw(p), MessagesOn(p), Len(Retired(p)), Len(MessagesOn(p)))
      /\ IsWindow(Raw(q), MessagesOn(q), Len(Retired(q)), Len(MessagesOn(q)))
  BY WellFormedIsLayered, LayersAreWindows
<1>4. IsWindow(Raw(q), MessagesOn(p), Len(Retired(p)), Len(MessagesOn(p)))
  BY <1>3
<1>5. Len(MessagesOn(p)) <= Len(MessagesOn(p))
  BY <1>1
<1>. QED  BY <1>1, <1>2, <1>3, <1>4, <1>5, WindowsStart

LEMMA SingletonIs ==
    ASSUME NEW S, NEW e \in S
    PROVE  <<e>> \in Seq(S) /\ Len(<<e>>) = 1 /\ <<e>>[1] = e
OBVIOUS

LEMMA GrowsByMessage ==
    ASSUME NEW p \in Seq(Records), WellFormed(p),
           NEW m \in Messages, m.n = Len(MessagesOn(p)) + 1
    PROVE  LET q == Append(p, MessageRecord(m))
           IN  /\ q \in Seq(Records) /\ WellFormed(q)
               /\ PublishedOn(q) = PublishedOn(p) /\ Retired(q) = Retired(p)
               /\ Starts(Raw(p), Raw(q))
<1>1. PICK x \in Seq(Messages) : x = <<m>> /\ Len(x) = 1 /\ x[1] = m
  BY SingletonIs, Zenon
<1>2. PICK r \in Records : r = MessageRecord(m) /\ r.kind = "message" /\ r.src = x
  <2>1. [kind |-> "message", src |-> x] \in Records
    BY DEF Records
  <2>. QED  BY <1>1, <2>1 DEF MessageRecord
<1>3. /\ MessagesOn(p) \in Seq(Messages) /\ PublishedOn(p) \in Seq(Messages) /\ Retired(p) \in Seq(Messages)
      /\ MessagesOn(Append(p, r)) = MessagesOn(p) \o r.src
      /\ PublishedOn(Append(p, r)) = PublishedOn(p)
      /\ Retired(Append(p, r)) = Retired(p)
  BY <1>2, SourcesAppend DEF MessagesOn, PublishedOn, Retired
<1>4. MessagesOn(Append(p, r)) = MessagesOn(p) \o x
  BY <1>2, <1>3, Zenon
<1>5. Layered(p) /\ Numbered(p)
  BY WellFormedIsLayered
<1>6. /\ Starts(PublishedOn(p), MessagesOn(p) \o x)
      /\ Starts(MessagesOn(p), MessagesOn(p) \o x)
      /\ Len(MessagesOn(p) \o x) = Len(MessagesOn(p)) + 1
      /\ MessagesOn(p) \o x \in Seq(Messages)
  <2>1. Starts(PublishedOn(p), MessagesOn(p))
    BY <1>5 DEF Layered
  <2>2. Len(MessagesOn(p) \o x) = Len(MessagesOn(p)) + 1 /\ MessagesOn(p) \o x \in Seq(Messages)
    BY <1>1, <1>3, ConcatOne
  <2>3. Starts(PublishedOn(p), MessagesOn(p) \o x)
    BY <1>3, <2>1, StartsOrder
  <2>4. Starts(MessagesOn(p), MessagesOn(p) \o x)
    BY <1>3, StartsOrder
  <2>. QED  BY <2>2, <2>3, <2>4
<1>7. Layered(Append(p, r))
  BY <1>3, <1>4, <1>5, <1>6, Zenon DEF Layered
<1>8. r.kind = "message" => Len(r.src) = 1 /\ r.src[1].n = Len(MessagesOn(p)) + 1
  BY <1>1, <1>2, Zenon
<1>9. Append(p, r) \in Seq(Records) /\ WellFormed(Append(p, r))
  BY <1>7, <1>8, AppendWellFormed
<1>10. Starts(Raw(p), Raw(Append(p, r)))
  <2>1. Raw(p) \in Seq(Messages) /\ Raw(Append(p, r)) \in Seq(Messages)
    BY <1>9, SourcesType DEF Raw
  <2>2. /\ IsWindow(Raw(p), MessagesOn(p), Len(Retired(p)), Len(MessagesOn(p)))
        /\ IsWindow(Raw(Append(p, r)), MessagesOn(p) \o x, Len(Retired(p)), Len(MessagesOn(p) \o x))
    <3>1. /\ IsWindow(Raw(p), MessagesOn(p), Len(Retired(p)), Len(MessagesOn(p)))
          /\ IsWindow(Raw(Append(p, r)), MessagesOn(Append(p, r)), Len(Retired(Append(p, r))),
                      Len(MessagesOn(Append(p, r))))
      BY <1>5, <1>9, WellFormedIsLayered, LayersAreWindows
    <3>. QED  BY <1>3, <1>4, <3>1, Zenon
  <2>. DEFINE a == Len(Retired(p))
              b == Len(MessagesOn(p))
  <2>3. a \in Nat /\ b \in Nat /\ a <= b
    BY <1>5, LayerLengths
  <2>4. Len(Raw(p)) = b - a /\ \A i \in 1 .. Len(Raw(p)) : Raw(p)[i] = MessagesOn(p)[a + i]
    BY <2>2, <2>3 DEF IsWindow
  <2>5. /\ Len(Raw(Append(p, r))) = b + 1 - a
        /\ \A i \in 1 .. Len(Raw(Append(p, r))) : Raw(Append(p, r))[i] = (MessagesOn(p) \o x)[a + i]
    BY <1>6, <2>2, <2>3 DEF IsWindow
  <2>6. \A i \in 1 .. b : (MessagesOn(p) \o x)[i] = MessagesOn(p)[i]
    BY <1>6 DEF Starts
  <2>7. \A i \in 1 .. Len(Raw(p)) : Raw(p)[i] = Raw(Append(p, r))[i]
    <3>. SUFFICES ASSUME NEW i \in 1 .. Len(Raw(p)) PROVE Raw(p)[i] = Raw(Append(p, r))[i]
      OBVIOUS
    <3>1. i \in 1 .. Len(Raw(Append(p, r))) /\ a + i \in 1 .. b
      BY <2>3, <2>4, <2>5
    <3>. QED  BY <2>4, <2>5, <2>6, <3>1, Zenon
  <2>8. Len(Raw(p)) <= Len(Raw(Append(p, r)))
    BY <2>3, <2>4, <2>5
  <2>. QED  BY <2>7, <2>8 DEF Starts
<1>. QED  BY <1>2, <1>3, <1>9, <1>10, Zenon

LEMMA GrowsByPublication ==
    ASSUME NEW p \in Seq(Records), WellFormed(p),
           NEW x \in Seq(Messages), IsPrefix(x, Candidates(p))
    PROVE  LET q == Append(p, Published(x))
           IN  /\ q \in Seq(Records) /\ WellFormed(q)
               /\ MessagesOn(q) = MessagesOn(p) /\ Retired(q) = Retired(p)
               /\ Raw(q) = Raw(p)
<1>1. PICK r \in Records : r = Published(x) /\ r.kind = "published" /\ r.src = x
  <2>1. [kind |-> "published", src |-> x] \in Records
    BY DEF Records
  <2>. QED  BY <2>1 DEF Published
<1>2. /\ MessagesOn(p) \in Seq(Messages) /\ PublishedOn(p) \in Seq(Messages) /\ Retired(p) \in Seq(Messages)
      /\ MessagesOn(Append(p, r)) = MessagesOn(p)
      /\ PublishedOn(Append(p, r)) = PublishedOn(p) \o r.src
      /\ Retired(Append(p, r)) = Retired(p)
  BY <1>1, SourcesAppend DEF MessagesOn, PublishedOn, Retired
<1>3. PublishedOn(Append(p, r)) = PublishedOn(p) \o x
  BY <1>1, <1>2, Zenon
<1>4. Layered(p) /\ Numbered(p)
  BY WellFormedIsLayered
<1>5. Candidates(p) \in Seq(Messages)
  BY SourcesType DEF Candidates
<1>6. Starts(x, Candidates(p))
  BY <1>5, PrefixIs
<1>7. IsWindow(Candidates(p), MessagesOn(p), Len(PublishedOn(p)), Len(MessagesOn(p)))
  BY <1>4, LayersAreWindows
<1>8. Starts(PublishedOn(p) \o x, MessagesOn(p))
  BY <1>2, <1>4, <1>5, <1>6, <1>7, WindowConcat DEF Layered
<1>9. Starts(Retired(p), PublishedOn(p) \o x)
  BY <1>2, <1>4, StartsOrder DEF Layered
<1>10. Layered(Append(p, r))
  BY <1>2, <1>3, <1>8, <1>9, Zenon DEF Layered
<1>11. r.kind = "message" => Len(r.src) = 1 /\ r.src[1].n = Len(MessagesOn(p)) + 1
  BY <1>1
<1>12. Append(p, r) \in Seq(Records) /\ WellFormed(Append(p, r))
  BY <1>10, <1>11, AppendWellFormed
<1>13. Raw(Append(p, r)) = Raw(p)
  BY <1>2, <1>12, RawDependsOn
<1>. QED  BY <1>1, <1>2, <1>12, <1>13, Zenon

LEMMA GrowsByApplication ==
    ASSUME NEW p \in Seq(Records), WellFormed(p), NEW x \in Seq(Messages),
           NEW i \in DOMAIN p, PublishedOn(SubSeq(p, 1, i)) = Retired(p) \o x
    PROVE  LET q == Append(p, Applied(x))
           IN  q \in Seq(Records) /\ WellFormed(q)
<1>1. PICK r \in Records : r = Applied(x) /\ r.kind = "applied" /\ r.src = x
  <2>1. [kind |-> "applied", src |-> x] \in Records
    BY DEF Records
  <2>. QED  BY <2>1 DEF Applied
<1>2. /\ MessagesOn(Append(p, r)) = MessagesOn(p)
      /\ PublishedOn(Append(p, r)) = PublishedOn(p)
      /\ Retired(Append(p, r)) = Retired(p) \o r.src
  BY <1>1, SourcesAppend DEF MessagesOn, PublishedOn, Retired
<1>3. Retired(Append(p, r)) = Retired(p) \o x
  BY <1>1, <1>2, Zenon
<1>4. i \in 0 .. Len(p)
  BY LenProperties
<1>5. Starts(PublishedOn(SubSeq(p, 1, i)), PublishedOn(p))
  BY <1>4, SourcesStart DEF PublishedOn
<1>6. Layered(p)
  BY WellFormedIsLayered
<1>7. Layered(Append(p, r))
  BY <1>2, <1>3, <1>5, <1>6, Zenon DEF Layered
<1>8. r.kind = "message" => Len(r.src) = 1 /\ r.src[1].n = Len(MessagesOn(p)) + 1
  BY <1>1
<1>9. Append(p, r) \in Seq(Records) /\ WellFormed(Append(p, r))
  BY <1>7, <1>8, AppendWellFormed
<1>. QED  BY <1>1, <1>9, Zenon

(* What waits for its application, and that it can be applied.             *)
LEMMA WaitingIs ==
    ASSUME NEW p \in Seq(Records), WellFormed(p)
    PROVE  /\ Waiting(p) \in Seq(Messages) /\ Raw(p) \in Seq(Messages) /\ Candidates(p) \in Seq(Messages)
           /\ Waiting(p) = <<>> <=> Len(PublishedOn(p)) = Len(Retired(p))
           /\ Len(PublishedOn(p)) = Len(Retired(p)) => Candidates(p) = Raw(p)
           /\ IsPrefix(Waiting(p), Raw(p))
           /\ PublishedOn(p) = Retired(p) \o Waiting(p)
           /\ MessagesOn(p) = Retired(p) \o Raw(p)
<1>1. Layered(p) /\ Numbered(p)
  BY WellFormedIsLayered
<1>2. Waiting(p) \in Seq(Messages) /\ Raw(p) \in Seq(Messages) /\ Candidates(p) \in Seq(Messages)
  BY SourcesType DEF Waiting, Raw, Candidates
<1>. DEFINE m == MessagesOn(p)
            t == PublishedOn(p)
            r == Retired(p)
<1>3. /\ m \in Seq(Messages) /\ t \in Seq(Messages) /\ r \in Seq(Messages)
      /\ Len(m) \in Nat /\ Len(t) \in Nat /\ Len(r) \in Nat
      /\ Len(r) <= Len(t) /\ Len(t) <= Len(m)
  BY <1>1, LayerLengths
<1>4. /\ IsWindow(Raw(p), m, Len(r), Len(m))
      /\ IsWindow(Candidates(p), m, Len(t), Len(m))
      /\ IsWindow(Waiting(p), m, Len(r), Len(t))
  BY <1>1, LayersAreWindows
<1>5. Starts(t, m) /\ Starts(r, t)
  BY <1>1 DEF Layered
<1>. HIDE DEF m, t, r
<1>6. Starts(m, m) /\ Starts(r, m)
  BY <1>3, <1>5, StartsOrder
<1>7. Starts(Waiting(p), Raw(p)) /\ Len(Waiting(p)) = Len(t) - Len(r)
  <2>1. Len(m) <= Len(m)
    BY <1>3
  <2>. QED  BY <1>2, <1>3, <1>4, <2>1, WindowsStart
<1>8. Waiting(p) = <<>> <=> Len(t) = Len(r)
  <2>1. Waiting(p) # <<>> => Len(Waiting(p)) # 0
    BY <1>2, EmptySeq
  <2>2. Waiting(p) = <<>> => Len(Waiting(p)) = 0
    OBVIOUS
  <2>. QED  BY <1>3, <1>7, <2>1, <2>2
<1>9. Len(t) = Len(r) => Candidates(p) = Raw(p)
  <2>1. Len(m) <= Len(m) /\ Len(r) <= Len(m)
    BY <1>3
  <2>2. Len(t) = Len(r) => IsWindow(Candidates(p), m, Len(r), Len(m))
    BY <1>4
  <2>. QED  BY <1>2, <1>3, <1>4, <2>1, <2>2, WindowsStart
<1>10. t = r \o Waiting(p)
  BY <1>2, <1>3, <1>4, <1>5, WindowTail
<1>11. m = r \o Raw(p)
  BY <1>2, <1>3, <1>4, <1>6, WindowTail
<1>12. IsPrefix(Waiting(p), Raw(p))
  BY <1>2, <1>7, PrefixIs
<1>. QED  BY <1>2, <1>8, <1>9, <1>10, <1>11, <1>12 DEF m, t, r

-------------------------------------------------------------------------------
(* The invariant                                                           *)

Results == {"none", "ok", "rejected", "transport"}
Jobs == [kind : {"job"}, src : Seq(Messages), at : Nat, result : Results]
Failures == [kind : {"failure"}, first : Messages, len : Nat, class : {"rejected", "transport"},
             fresh : BOOLEAN, attempts : Nat]
Requests == [kind : {"asked"}, first : Messages, times : Nat]

Types ==
    /\ path \in Seq(Records) /\ revision \in Nat /\ limit \in Nat
    /\ job \in Jobs \cup {None} /\ failure \in Failures \cup {None} /\ asked \in Requests \cup {None}
    /\ plan \in Seq(Messages)

(* A publication waits from its answer to its application only: the        *)
(* historian works when none waits, and until its answer the messages it   *)
(* was given stay the oldest raw ones.                                     *)
NothingWaits == Len(PublishedOn(path)) = Len(Retired(path))
JobIsCurrent ==
    Running => /\ job.at = revision /\ job.src # <<>>
               /\ job.result # "ok" => NothingWaits /\ IsPrefix(job.src, Raw(path))
PlanStands == pc = "apply" => AcceptsApplication(plan)
Control ==
    /\ JobIsCurrent /\ PlanStands
    /\ pc = "work" /\ ~ Running => NothingWaits
    /\ pc = "wait" => Running
    /\ ~ refused

(* The jobs of a region that ended are among its failures since the last   *)
(* pause; one more may run.                                                *)
Counted(first) == IF failure # None /\ failure.fresh /\ failure.first = first THEN failure.attempts ELSE 0
Counting ==
    asked # None =>
        /\ asked.times \in 1 .. MaxAttempts
        /\ asked.times <= Counted(asked.first) + (IF Running THEN 1 ELSE 0)
        /\ Running => asked.first = Head(job.src)

HistoryInv == Types /\ WellFormed(path) /\ Control /\ Counting

LEMMA JobParts ==
    ASSUME NEW j \in Jobs
    PROVE  j # None /\ j.src \in Seq(Messages) /\ j.at \in Nat /\ j.result \in Results
BY DEF Jobs, None

LEMMA JobEnds ==
    ASSUME NEW j \in Jobs, NEW res \in Results
    PROVE  /\ [j EXCEPT !.result = res] \in Jobs
           /\ [j EXCEPT !.result = res].src = j.src
           /\ [j EXCEPT !.result = res].at = j.at
           /\ [j EXCEPT !.result = res].result = res
BY DEF Jobs

LEMMA JobStarts ==
    ASSUME NEW x \in Seq(Messages), revision \in Nat
    PROVE  Job(x) \in Jobs /\ Job(x).src = x /\ Job(x).at = revision /\ Job(x).result = "none"
BY DEF Jobs, Job, Results

LEMMA InitHistory == Init => HistoryInv
<1>. SUFFICES ASSUME Init PROVE HistoryInv
  OBVIOUS
<1>1. path \in Seq(Records) /\ WellFormed(path)
  BY EmptyWellFormed DEF Init
<1>2. Types
  <2>1. plan \in Seq(Messages)
    BY EmptySeq DEF Init
  <2>. QED  BY <1>1, <2>1 DEF Init, Types, Unlimited
<1>3. Control
  BY DEF Init, Control, JobIsCurrent, PlanStands, Running
<1>. QED  BY <1>1, <1>2, <1>3 DEF Init, HistoryInv, Counting

(* What is stated of the transcript and the job is kept by a step that     *)
(* leaves them alone.                                                      *)
LEMMA PathUnchanged ==
    ASSUME HistoryInv, UNCHANGED path
    PROVE  /\ WellFormed(path)' /\ NothingWaits' = NothingWaits
           /\ \A x : AcceptsApplication(x)' = AcceptsApplication(x)
           /\ Raw(path)' = Raw(path)
BY DEF HistoryInv, WellFormed, Numbered, Layered, NothingWaits, AcceptsApplication

(* A step that takes no job, fails none and asks for none keeps the count. *)
LEMMA CountUnchanged ==
    ASSUME Counting, UNCHANGED <<asked, failure, job>>
    PROVE  Counting'
BY DEF Counting, Counted, Running

LEMMA JobUnchanged ==
    ASSUME HistoryInv, UNCHANGED <<path, job, revision>>
    PROVE  JobIsCurrent'
BY PathUnchanged DEF HistoryInv, Control, JobIsCurrent, Running

LEMMA FailureIs ==
    ASSUME Types, NEW j \in Jobs, j.src # <<>>, j.result \in {"rejected", "transport"}
    PROVE  /\ Failure(j) \in Failures
           /\ Failure(j).first = Head(j.src) /\ Failure(j).fresh
           /\ Failure(j).attempts = Counted(Head(j.src)) + 1
<1>1. j.src \in Seq(Messages)
  BY JobParts
<1>2. Head(j.src) \in Messages /\ Len(j.src) \in Nat
  <2>1. PICK s \in Seq(Messages) : s = j.src
    BY <1>1
  <2>. QED  BY <2>1, HeadTailProperties, LenProperties
<1>3. failure # None => failure \in Failures /\ failure.attempts \in Nat
  BY DEF Types, Failures
<1>. DEFINE n == IF failure # None /\ failure.first = Head(j.src) /\ failure.fresh
                 THEN failure.attempts + 1 ELSE 1
<1>4. n \in Nat /\ n = Counted(Head(j.src)) + 1
  BY <1>3 DEF Counted
<1>5. Failure(j) = [kind |-> "failure", first |-> Head(j.src), len |-> Len(j.src),
                    class |-> j.result, fresh |-> TRUE, attempts |-> n]
  BY DEF Failure
<1>. HIDE DEF n
<1>. QED  BY <1>2, <1>4, <1>5 DEF Failures

(* Taking the historian's answer keeps the count.                          *)
LEMMA PollCounts ==
    ASSUME HistoryInv, Poll
    PROVE  /\ job' \in Jobs \cup {None} /\ failure' \in Failures \cup {None}
           /\ asked' \in Requests \cup {None}
           /\ Counting'
           /\ ~ Running => job' = job /\ failure' = failure
           /\ ~ Answered => job' = job /\ failure' = failure
           /\ Running /\ Answered => job' = None
           /\ Running => Current
<1>1. job \in Jobs \cup {None} /\ failure \in Failures \cup {None} /\ asked \in Requests \cup {None}
  BY DEF HistoryInv, Types
<1>2. Running => Current
  BY DEF HistoryInv, Control, JobIsCurrent, Current
<1>3. CASE ~ Running \/ ~ Answered
  <2>1. UNCHANGED <<job, orphans, failure, asked>>
    BY <1>3 DEF Poll
  <2>2. Counting'
    BY <2>1, CountUnchanged DEF HistoryInv
  <2>3. ~ Running \/ ~ Answered
    BY <1>3
  <2>. QED  BY <1>1, <1>2, <2>1, <2>2, <2>3
<1>4. CASE Running /\ Answered
  <2>1. job \in Jobs /\ job # None /\ Current /\ job.at = revision /\ job.src # <<>>
    BY <1>1, <1>2, <1>4 DEF Running, HistoryInv, Control, JobIsCurrent
  <2>2. job.result \in {"ok", "rejected", "transport"}
    <3>1. job.result # "none"
      BY <1>4, <2>1 DEF Answered
    <3>. QED  BY <2>1, <3>1, JobParts DEF Results
  <2>3. job' = None
    BY <1>4 DEF Poll, CancelJob
  <2>4. CASE job.result = "ok"
    <3>1. failure' = None /\ asked' = None
      BY <1>4, <2>1, <2>4 DEF Poll
    <3>2. Counting'
      BY <3>1 DEF Counting
    <3>. QED  BY <1>2, <1>4, <2>3, <3>1, <3>2
  <2>5. CASE job.result # "ok"
    <3>1. failure' = Failure(job) /\ asked' = asked
      BY <1>4, <2>1, <2>5 DEF Poll
    <3>2. /\ Failure(job) \in Failures /\ Failure(job).first = Head(job.src) /\ Failure(job).fresh
          /\ Failure(job).attempts = Counted(Head(job.src)) + 1
      BY <2>1, <2>2, <2>5, FailureIs DEF HistoryInv
    <3>3. Failure(job) # None
      BY <3>2 DEF Failures, None
    <3>4. Counting'
      <4>1. asked' = asked /\ ~ Running'
        BY <2>3, <3>1 DEF Running
      <4>2. ASSUME asked # None
            PROVE  asked.times \in 1 .. MaxAttempts /\ asked.times <= Counted(asked.first)'
        <5>1. /\ asked.times \in 1 .. MaxAttempts /\ asked.first = Head(job.src)
              /\ asked.times <= Counted(asked.first) + 1
          BY <1>4, <4>2 DEF HistoryInv, Counting
        <5>2. Counted(asked.first)' = Counted(asked.first) + 1
          BY <3>1, <3>2, <3>3, <5>1 DEF Counted
        <5>. QED  BY <5>1, <5>2
      <4>3. Counted(asked.first)' \in Nat
        <5>1. Failure(job).attempts \in Nat
          BY <3>2 DEF Failures
        <5>. QED  BY <3>1, <5>1 DEF Counted
      <4>4. asked # None => asked.times <= Counted(asked.first)' + 0
        BY <4>2, <4>3
      <4>. QED  BY <4>1, <4>2, <4>4 DEF Counting
    <3>. QED  BY <1>1, <1>2, <1>4, <2>3, <3>1, <3>2, <3>4
  <2>. QED  BY <2>4, <2>5
<1>. QED  BY <1>3, <1>4

(* So does cancelling the job, which then is not counted.                  *)
LEMMA CancelCounts ==
    ASSUME HistoryInv, CancelJob, asked' = Uncounted, UNCHANGED failure
    PROVE  Counting' /\ asked' \in Requests \cup {None} /\ job' = None
<1>1. job' = None /\ asked \in Requests \cup {None}
  BY DEF CancelJob, HistoryInv, Types
<1>2. CASE Running /\ asked # None
  <2>1. /\ asked \in Requests /\ asked.times \in 1 .. MaxAttempts
        /\ asked.times <= Counted(asked.first) + 1
    BY <1>1, <1>2 DEF HistoryInv, Counting
  <2>2. CASE asked.times = 1
    <3>1. asked' = None
      BY <1>2, <2>2 DEF Uncounted
    <3>. QED  BY <1>1, <3>1 DEF Counting
  <2>3. CASE asked.times # 1
    <3>1. asked' = [asked EXCEPT !.times = @ - 1]
      BY <1>2, <2>3 DEF Uncounted
    <3>2. asked.times - 1 \in Nat /\ asked.times - 1 \in 1 .. MaxAttempts
      BY <2>1, <2>3, HistoryAssumption
    <3>3. asked' \in Requests /\ asked'.first = asked.first /\ asked'.times = asked.times - 1
      BY <2>1, <3>1, <3>2 DEF Requests
    <3>4. Counted(asked.first)' = Counted(asked.first)
      BY <3>3 DEF Counted
    <3>5. Counted(asked.first) \in Nat
      BY DEF Counted, HistoryInv, Types, Failures
    <3>. QED  BY <1>1, <2>1, <3>2, <3>3, <3>4, <3>5 DEF Counting, Running
  <2>. QED  BY <2>2, <2>3
<1>3. CASE ~ (Running /\ asked # None)
  <2>1. asked' = asked
    BY <1>3 DEF Uncounted
  <2>2. Counting'
    <3>1. CASE asked = None
      BY <2>1, <3>1 DEF Counting
    <3>2. CASE asked # None
      <4>1. ~ Running
        BY <1>3, <3>2
      <4>2. Counted(asked.first)' = Counted(asked.first)
        BY <2>1 DEF Counted
      <4>. QED  BY <1>1, <2>1, <3>2, <4>1, <4>2 DEF HistoryInv, Counting, Running
    <3>. QED  BY <3>1, <3>2
  <2>. QED  BY <1>1, <2>1, <2>2
<1>. QED  BY <1>2, <1>3

-------------------------------------------------------------------------------
(* One lemma per action                                                    *)

LEMMA JobKept ==
    ASSUME HistoryInv, UNCHANGED <<path, revision>>, job' = job \/ job' = None
    PROVE  JobIsCurrent'
<1>1. CASE job' = None
  BY <1>1 DEF JobIsCurrent, Running
<1>2. CASE job' = job
  BY <1>2, JobUnchanged
<1>. QED  BY <1>1, <1>2

LEMMA ConverseKeeps == HistoryInv /\ Converse => HistoryInv'
<1>. SUFFICES ASSUME HistoryInv, Converse PROVE HistoryInv'
  OBVIOUS
<1>1. path \in Seq(Records) /\ WellFormed(path) /\ revision \in Nat
  BY DEF HistoryInv, Types
<1>2. MessagesOn(path) \in Seq(Messages) /\ Len(MessagesOn(path)) \in Nat
  BY <1>1, SourcesType DEF MessagesOn
<1>3. PICK m \in Messages : m = [n |-> Len(MessagesOn(path)) + 1, at |-> revision]
  <2>1. PICK k \in Nat : k = Len(MessagesOn(path)) + 1
    BY <1>2
  <2>2. [n |-> k, at |-> revision] \in Messages
    BY <1>1 DEF Messages
  <2>. QED  BY <2>1, <2>2
<1>4. m.n = Len(MessagesOn(path)) + 1
  BY <1>3
<1>5. path' = Append(path, MessageRecord(m))
  BY <1>3 DEF Converse
<1>6. /\ path' \in Seq(Records) /\ WellFormed(path)'
      /\ PublishedOn(path)' = PublishedOn(path) /\ Retired(path)' = Retired(path)
      /\ Starts(Raw(path), Raw(path)')
  BY <1>1, <1>4, <1>5, GrowsByMessage
<1>7. pc = "away" /\ UNCHANGED <<revision, job, failure, limit, loop, refused, asked>>
  BY DEF Converse
<1>8. Types'
  BY <1>6, <1>7 DEF HistoryInv, Types, loop
<1>9. JobIsCurrent'
  <2>1. SUFFICES ASSUME Running'
                 PROVE  /\ job'.at = revision' /\ job'.src # <<>>
                        /\ job'.result # "ok" => NothingWaits' /\ IsPrefix(job'.src, Raw(path)')
    BY DEF JobIsCurrent
  <2>2. /\ job' = job /\ revision' = revision /\ job \in Jobs
        /\ job.at = revision /\ job.src # <<>>
        /\ job.result # "ok" => NothingWaits /\ IsPrefix(job.src, Raw(path))
    BY <1>7, <2>1 DEF HistoryInv, Control, JobIsCurrent, Running, Types
  <2>3. NothingWaits' = NothingWaits
    BY <1>6 DEF NothingWaits
  <2>4. IsPrefix(job.src, Raw(path)) => IsPrefix(job.src, Raw(path)')
    <3>1. Raw(path) \in Seq(Messages) /\ Raw(path)' \in Seq(Messages) /\ job.src \in Seq(Messages)
      BY <1>1, <1>6, <2>2, SourcesType, JobParts DEF Raw
    <3>. QED  BY <1>6, <3>1, PrefixIs, StartsOrder
  <2>. QED  BY <2>2, <2>3, <2>4
<1>10. Control'
  BY <1>7, <1>9 DEF HistoryInv, Control, PlanStands, loop
<1>11. Counting'
  BY <1>7, CountUnchanged DEF HistoryInv
<1>. QED  BY <1>6, <1>8, <1>10, <1>11 DEF HistoryInv

LEMMA AdvanceKeeps == ASSUME NEW hold \in BOOLEAN, NEW near \in BOOLEAN
                      PROVE  HistoryInv /\ Advance(hold, near) => HistoryInv'
<1>. SUFFICES ASSUME HistoryInv, Advance(hold, near) PROVE HistoryInv'
  OBVIOUS
<1>1. /\ pc' \in {"plan", "away"} /\ UNCHANGED <<path, revision, limit, rounds, plan, refused>>
      /\ Poll
  BY DEF Advance
<1>2. /\ job' \in Jobs \cup {None} /\ failure' \in Failures \cup {None}
      /\ asked' \in Requests \cup {None} /\ Counting'
      /\ job' = job \/ job' = None
  BY <1>1, PollCounts
<1>3. Types'
  BY <1>1, <1>2 DEF HistoryInv, Types
<1>4. JobIsCurrent' /\ WellFormed(path)'
  BY <1>1, <1>2, JobKept, PathUnchanged
<1>5. Control'
  BY <1>1, <1>4 DEF HistoryInv, Control, PlanStands
<1>. QED  BY <1>2, <1>3, <1>4, <1>5 DEF HistoryInv

(* A plan is made of what waits, which the recorder accepts.               *)
LEMMA PlanIsAccepted ==
    ASSUME HistoryInv, Pending # <<>>
    PROVE  AcceptsApplication(Pending) /\ Pending \in Seq(Messages)
<1>1. path \in Seq(Records) /\ WellFormed(path)
  BY DEF HistoryInv, Types
<1>2. Pending = Waiting(path)
  BY DEF Pending, Waiting
<1>3. /\ Waiting(path) \in Seq(Messages) /\ IsPrefix(Waiting(path), Raw(path))
      /\ PublishedOn(path) = Retired(path) \o Waiting(path)
  BY <1>1, WaitingIs
<1>4. path # <<>>
  <2>1. path = <<>> => Waiting(path) = <<>>
    BY NothingNamed DEF Waiting
  <2>. QED  BY <1>2, <2>1
<1>5. Len(path) \in DOMAIN path /\ SubSeq(path, 1, Len(path)) = path
  <2>1. Len(path) \in Nat \ {0} /\ DOMAIN path = 1 .. Len(path)
    BY <1>1, <1>4, EmptySeq, LenProperties
  <2>. QED  BY <1>1, <2>1, PrefixStep
<1>6. PublishedOn(SubSeq(path, 1, Len(path))) = Retired(path) \o Pending
  BY <1>2, <1>3, <1>5, Zenon
<1>. QED  BY <1>2, <1>3, <1>5, <1>6, Zenon DEF AcceptsApplication

LEMMA PlanKeeps == HistoryInv /\ (Plan \/ PlanAgain) => HistoryInv'
<1>. SUFFICES ASSUME HistoryInv, Plan \/ PlanAgain PROVE HistoryInv'
  OBVIOUS
<1>1. /\ UNCHANGED <<path, revision, job, failure, limit, refused, asked>>
      /\ PlanApplication("work") \/ PlanApplication("away")
  BY DEF Plan, PlanAgain
<1>2. JobIsCurrent' /\ WellFormed(path)' /\ Counting' /\ NothingWaits' = NothingWaits
      /\ \A x : AcceptsApplication(x)' = AcceptsApplication(x)
  BY <1>1, JobUnchanged, PathUnchanged, CountUnchanged DEF HistoryInv
<1>3. /\ plan' \in Seq(Messages)
      /\ pc' \in {"away", "work", "apply"}
      /\ pc' = "apply" => AcceptsApplication(plan')
      /\ pc' = "work" => NothingWaits
  <2>1. CASE Pending = <<>>
    <3>1. (pc' = "away" /\ plan' = <<>>) \/ (pc' = "work" /\ plan' = plan)
      BY <1>1, <2>1 DEF PlanApplication, Go, Leave
    <3>2. plan' \in Seq(Messages)
      BY <3>1, EmptySeq DEF HistoryInv, Types
    <3>3. NothingWaits
      <4>1. Waiting(path) = <<>>
        BY <2>1 DEF Pending, Waiting
      <4>. QED  BY <4>1, WaitingIs DEF HistoryInv, Types, NothingWaits
    <3>. QED  BY <3>1, <3>2, <3>3
  <2>2. CASE Pending # <<>>
    <3>1. pc' = "apply" /\ plan' = Pending
      BY <1>1, <2>2 DEF PlanApplication
    <3>2. AcceptsApplication(Pending) /\ Pending \in Seq(Messages)
      BY <2>2, PlanIsAccepted
    <3>. QED  BY <3>1, <3>2, Zenon
  <2>. QED  BY <2>1, <2>2
<1>4. Types'
  BY <1>1, <1>3 DEF HistoryInv, Types
<1>5. PlanStands'
  <2>1. pc' = "apply" => AcceptsApplication(plan)'
    <3>1. pc' = "apply" => AcceptsApplication(plan')
      BY <1>3
    <3>2. AcceptsApplication(plan)' <=> AcceptsApplication(plan')
      BY <1>1 DEF AcceptsApplication
    <3>. QED  BY <3>1, <3>2
  <2>. QED  BY <2>1 DEF PlanStands
<1>6. Control'
  BY <1>1, <1>2, <1>3, <1>5 DEF HistoryInv, Control
<1>. QED  BY <1>2, <1>4, <1>6 DEF HistoryInv

(* What the recorder accepts is something that waits.                      *)
LEMMA AcceptedWaits ==
    ASSUME HistoryInv, AcceptsApplication(plan)
    PROVE  /\ ~ NothingWaits
           /\ Append(path, Applied(plan)) \in Seq(Records) /\ WellFormed(Append(path, Applied(plan)))
<1>1. path \in Seq(Records) /\ WellFormed(path) /\ plan \in Seq(Messages)
  BY DEF HistoryInv, Types
<1>2. PICK i \in DOMAIN path : PublishedOn(SubSeq(path, 1, i)) = Retired(path) \o plan
  BY DEF AcceptsApplication
<1>3. i \in 0 .. Len(path)
  BY <1>1, LenProperties
<1>4. Starts(PublishedOn(SubSeq(path, 1, i)), PublishedOn(path))
  BY <1>1, <1>3, SourcesStart DEF PublishedOn
<1>5. Len(PublishedOn(path)) \in Nat /\ Retired(path) \in Seq(Messages) /\ Len(Retired(path)) \in Nat
  BY <1>1, SourcesType DEF PublishedOn, Retired
<1>6. Len(plan) \in Nat \ {0}
  BY <1>1, EmptySeq DEF AcceptsApplication
<1>7. Len(Retired(path) \o plan) = Len(Retired(path)) + Len(plan)
  BY <1>1, <1>5, ConcatProperties
<1>8. Len(Retired(path)) + Len(plan) <= Len(PublishedOn(path))
  BY <1>2, <1>4, <1>7 DEF Starts
<1>9. ~ NothingWaits
  BY <1>5, <1>6, <1>8 DEF NothingWaits
<1>. QED  BY <1>1, <1>2, <1>9, GrowsByApplication

LEMMA ApplyKeeps == HistoryInv /\ Apply => HistoryInv'
<1>. SUFFICES ASSUME HistoryInv, Apply PROVE HistoryInv'
  OBVIOUS
<1>1. AcceptsApplication(plan)
  BY DEF Apply, HistoryInv, Control, PlanStands
<1>2. /\ path' = Append(path, Applied(plan))
      /\ pc' = "away" /\ plan' = <<>>
      /\ UNCHANGED <<revision, job, failure, limit, asked, refused>>
  BY <1>1 DEF Apply, Leave
<1>3. path' \in Seq(Records) /\ WellFormed(path)' /\ ~ NothingWaits
  BY <1>1, <1>2, AcceptedWaits
<1>4. Types'
  BY <1>2, <1>3, EmptySeq DEF HistoryInv, Types
<1>5. JobIsCurrent'
  BY <1>2, <1>3 DEF HistoryInv, Control, JobIsCurrent, Running
<1>6. Control'
  BY <1>2, <1>5 DEF HistoryInv, Control, PlanStands
<1>7. Counting'
  BY <1>2, CountUnchanged DEF HistoryInv
<1>. QED  BY <1>3, <1>4, <1>6, <1>7 DEF HistoryInv

LEMMA ReducedType ==
    ASSUME limit \in Nat, NEW n \in Nat
    PROVE  Reduced(n) \in Nat
BY DEF Reduced

LEMMA LimitNowType ==
    ASSUME Types
    PROVE  LimitNow \in Nat
<1>1. failure # None => failure.len \in Nat
  BY DEF Types, Failures
<1>. QED  BY <1>1, ReducedType DEF Types, LimitNow, Shrinks

(* The job that starts is given the oldest raw messages.                   *)
LEMMA JobIsGiven ==
    ASSUME HistoryInv, NEW n \in 1 .. Len(Raw(path)), NEW lim \in Nat
    PROVE  LET x == SubSeq(Raw(path), 1, Capped(n, lim))
           IN  x \in Seq(Messages) /\ x # <<>> /\ IsPrefix(x, Raw(path)) /\ Head(x) = Head(Raw(path))
<1>1. path \in Seq(Records)
  BY DEF HistoryInv, Types
<1>2. PICK r \in Seq(Messages) : r = Raw(path)
  BY <1>1, SourcesType DEF Raw
<1>3. PICK c \in 1 .. Len(r) : c = Capped(n, lim)
  <2>1. Len(r) \in Nat
    BY LenProperties
  <2>. QED  BY <1>2, <2>1 DEF Capped, Unlimited
<1>. DEFINE x == SubSeq(r, 1, c)
<1>4. \A i \in 1 .. c : r[i] \in Messages
  BY ElementOfSeq
<1>5. /\ x \in Seq(Messages) /\ Len(x) = c /\ \A i \in 1 .. c : x[i] = r[i]
  BY <1>4, SubSeqProperties
<1>6. Len(r) \in Nat
  BY LenProperties
<1>. HIDE DEF x
<1>7. x # <<>> /\ Head(x) = Head(r)
  BY <1>5, <1>6
<1>8. Starts(x, r)
  BY <1>5, <1>6 DEF Starts
<1>9. IsPrefix(x, r)
  BY <1>5, <1>8, PrefixIs
<1>. QED  BY <1>2, <1>3, <1>5, <1>7, <1>9 DEF x

LEMMA WorkKeeps == HistoryInv /\ Work => HistoryInv'
<1>. SUFFICES ASSUME HistoryInv, Work PROVE HistoryInv'
  OBVIOUS
<1>1. /\ pc = "work" /\ ~ Running /\ limit' = LimitNow
      /\ UNCHANGED <<path, revision, failure, refused>>
  BY DEF Work
<1>2. limit' \in Nat
  BY <1>1, LimitNowType DEF HistoryInv
<1>3. NothingWaits /\ job = None
  BY <1>1 DEF HistoryInv, Control, Running
<1>4. WellFormed(path)' /\ NothingWaits' = NothingWaits /\ Raw(path)' = Raw(path)
  BY <1>1, PathUnchanged
<1>5. CASE Leave /\ UNCHANGED <<job, asked>>
  <2>1. pc' = "away" /\ plan' = <<>>
    BY <1>5 DEF Leave
  <2>2. Types'
    BY <1>1, <1>2, <1>5, <2>1, EmptySeq DEF HistoryInv, Types
  <2>3. JobIsCurrent' /\ Counting'
    BY <1>1, <1>5, JobUnchanged, CountUnchanged DEF HistoryInv
  <2>4. Control'
    BY <1>1, <2>1, <2>3 DEF HistoryInv, Control, PlanStands
  <2>. QED  BY <1>4, <2>2, <2>3, <2>4 DEF HistoryInv
<1>6. ASSUME Raw(path) # <<>>, ~ Exhausted(Head(Raw(path))), NEW n \in 1 .. Len(Raw(path)),
             job' = Job(SubSeq(Raw(path), 1, Capped(n, LimitNow))),
             asked' = Asked(Head(Raw(path))),
             Go(IF blocking THEN "wait" ELSE "away")
      PROVE  HistoryInv'
  <2>0. PICK first \in Messages : first = Head(Raw(path))
    <3>1. Raw(path) \in Seq(Messages)
      BY SourcesType DEF Raw, HistoryInv, Types
    <3>. QED  BY <1>6, <3>1, HeadTailProperties
  <2>1. PICK x \in Seq(Messages) :
              /\ x = SubSeq(Raw(path), 1, Capped(n, LimitNow))
              /\ x # <<>> /\ IsPrefix(x, Raw(path)) /\ Head(x) = first
    BY <2>0, JobIsGiven, LimitNowType DEF HistoryInv
  <2>3. job' = Job(x) /\ asked' = Asked(first) /\ ~ Exhausted(first)
    BY <1>6, <2>0, <2>1
  <2>4. job' \in Jobs /\ job'.src = x /\ job'.at = revision /\ job'.result = "none"
    BY <2>1, <2>3, JobStarts DEF HistoryInv, Types
  <2>5. Running'
    BY <2>4, JobParts DEF Running
  <2>6. (pc' = "wait" /\ plan' = plan) \/ (pc' = "away" /\ plan' = <<>>)
    BY <1>6 DEF Go, Leave
  <2>7. Counted(first)' = Counted(first) /\ Counted(first) \in Nat
    <3>1. failure # None => failure.attempts \in Nat
      BY DEF HistoryInv, Types, Failures
    <3>. QED  BY <1>1, <3>1 DEF Counted
  <2>8. asked' \in Requests /\ asked'.first = first /\ asked'.times \in 1 .. MaxAttempts
        /\ asked'.times <= Counted(first) + 1
    <3>1. CASE asked # None /\ asked.first = first
      <4>1. asked.times \in 1 .. MaxAttempts /\ asked.times <= Counted(first)
        <5>1. Counted(first) + 0 = Counted(first)
          BY <2>7
        <5>. QED  BY <1>1, <3>1, <5>1 DEF HistoryInv, Counting
      <4>2. Counted(first) < MaxAttempts
        <5>1. MaxAttempts \in Nat \ {0}
          BY HistoryAssumption
        <5>2. failure # None => failure.attempts \in Nat
          BY DEF HistoryInv, Types, Failures
        <5>. QED  BY <2>3, <5>1, <5>2 DEF Exhausted, Counted
      <4>3. PICK k \in 1 .. MaxAttempts : k = asked.times + 1 /\ k <= Counted(first) + 1
        BY <2>7, <4>1, <4>2, HistoryAssumption
      <4>4. asked' = [kind |-> "asked", first |-> first, times |-> k]
        BY <2>3, <3>1, <4>3 DEF Asked
      <4>. QED  BY <4>3, <4>4 DEF Requests
    <3>2. CASE ~ (asked # None /\ asked.first = first)
      <4>1. asked' = [kind |-> "asked", first |-> first, times |-> 1]
        BY <2>3, <3>2 DEF Asked
      <4>. QED  BY <2>7, <4>1, HistoryAssumption DEF Requests
    <3>. QED  BY <3>1, <3>2
  <2>9. Counting'
    <3>1. asked'.first = Head(job'.src)
      BY <2>1, <2>4, <2>8
    <3>2. Counted(asked.first)' = Counted(first)
      BY <2>7, <2>8 DEF Counted
    <3>. QED  BY <2>5, <2>8, <3>1, <3>2 DEF Counting
  <2>10. Types'
    BY <1>1, <1>2, <2>4, <2>6, <2>8, EmptySeq DEF HistoryInv, Types
  <2>11. JobIsCurrent'
    BY <1>1, <1>3, <1>4, <2>1, <2>4 DEF JobIsCurrent
  <2>12. Control'
    BY <1>1, <2>5, <2>6, <2>11 DEF HistoryInv, Control, PlanStands
  <2>. QED  BY <1>4, <2>9, <2>10, <2>12 DEF HistoryInv
<1>. QED  BY <1>5, <1>6 DEF Work, GivenUp

LEMMA JoinKeeps == HistoryInv /\ Join => HistoryInv'
<1>. SUFFICES ASSUME HistoryInv, Join PROVE HistoryInv'
  OBVIOUS
<1>1. Running /\ UNCHANGED <<path, revision, job, failure, refused, asked>>
  BY DEF Join
<1>2. limit' \in Nat
  BY LimitNowType DEF Join, HistoryInv, Types
<1>3. (pc' = "wait" /\ plan' = plan) \/ (pc' = "away" /\ plan' = <<>>)
  BY DEF Join, Go, Leave
<1>4. Types'
  BY <1>1, <1>2, <1>3, EmptySeq DEF HistoryInv, Types
<1>5. JobIsCurrent' /\ WellFormed(path)' /\ Counting'
  BY <1>1, JobUnchanged, PathUnchanged, CountUnchanged DEF HistoryInv
<1>6. Control'
  BY <1>1, <1>3, <1>5 DEF HistoryInv, Control, PlanStands, Running
<1>. QED  BY <1>4, <1>5, <1>6 DEF HistoryInv

LEMMA WaitKeeps == HistoryInv /\ Wait => HistoryInv'
<1>. SUFFICES ASSUME HistoryInv, Wait PROVE HistoryInv'
  OBVIOUS
<1>1. pc = "wait" /\ Answered /\ Poll /\ UNCHANGED <<path, revision, refused>>
  BY DEF Wait
<1>2. Running
  BY <1>1 DEF HistoryInv, Control
<1>3. /\ job' = None /\ Current /\ failure' \in Failures \cup {None}
      /\ asked' \in Requests \cup {None} /\ Counting'
  BY <1>1, <1>2, PollCounts
<1>4. JobIsCurrent' /\ WellFormed(path)' /\ NothingWaits' = NothingWaits
  BY <1>1, <1>3, JobKept, PathUnchanged
<1>5. /\ limit' \in Nat
      /\ \/ pc' = "published" /\ plan' = plan
         \/ pc' = "work" /\ plan' = plan /\ job.result # "ok"
         \/ pc' = "away" /\ plan' = <<>>
  <2>1. CASE job.result = "ok"
    <3>1. Go("published") /\ UNCHANGED limit
      BY <1>3, <2>1 DEF Wait
    <3>. QED  BY <3>1 DEF Go, HistoryInv, Types
  <2>2. CASE job.result # "ok"
    <3>1. \/ /\ Shrinks(failure') /\ limit' = Reduced(failure'.len)
             /\ pc' = "work" /\ plan' = plan
          \/ Leave /\ UNCHANGED limit
      BY <2>2 DEF Wait
    <3>2. CASE /\ Shrinks(failure') /\ limit' = Reduced(failure'.len)
               /\ pc' = "work" /\ plan' = plan
      <4>1. failure'.len \in Nat
        BY <1>3, <3>2 DEF Shrinks, Failures
      <4>2. Reduced(failure'.len) \in Nat
        BY <4>1, ReducedType DEF HistoryInv, Types
      <4>. QED  BY <2>2, <3>2, <4>2
    <3>3. CASE Leave /\ UNCHANGED limit
      BY <3>3 DEF Leave, HistoryInv, Types
    <3>. QED  BY <3>1, <3>2, <3>3
  <2>. QED  BY <2>1, <2>2
<1>6. Types'
  <2>1. plan' \in Seq(Messages)
    BY <1>5, EmptySeq DEF HistoryInv, Types
  <2>. QED  BY <1>1, <1>3, <1>5, <2>1 DEF HistoryInv, Types
<1>7. pc' = "work" => NothingWaits'
  BY <1>2, <1>4, <1>5 DEF HistoryInv, Control, JobIsCurrent
<1>8. Control'
  BY <1>1, <1>4, <1>5, <1>7 DEF HistoryInv, Control, PlanStands
<1>. QED  BY <1>3, <1>4, <1>6, <1>8 DEF HistoryInv

LEMMA WaitTimesOutKeeps == HistoryInv /\ WaitTimesOut => HistoryInv'
<1>. SUFFICES ASSUME HistoryInv, WaitTimesOut PROVE HistoryInv'
  OBVIOUS
<1>1. /\ UNCHANGED <<path, revision, job, failure, limit, refused, asked>>
      /\ pc' = "away" /\ plan' = <<>>
  BY DEF WaitTimesOut, Leave
<1>2. Types'
  BY <1>1, EmptySeq DEF HistoryInv, Types
<1>3. JobIsCurrent' /\ WellFormed(path)' /\ Counting'
  BY <1>1, JobUnchanged, PathUnchanged, CountUnchanged DEF HistoryInv
<1>4. Control'
  BY <1>1, <1>3 DEF HistoryInv, Control, PlanStands
<1>. QED  BY <1>2, <1>3, <1>4 DEF HistoryInv

LEMMA CooldownEndsKeeps == HistoryInv /\ CooldownEnds => HistoryInv'
<1>. SUFFICES ASSUME HistoryInv, CooldownEnds PROVE HistoryInv'
  OBVIOUS
<1>1. /\ failure \in Failures /\ failure' = [failure EXCEPT !.fresh = FALSE] /\ asked' = None
      /\ UNCHANGED <<path, revision, job, limit, pc, plan, refused>>
  BY DEF CooldownEnds, loop, HistoryInv, Types
<1>2. failure' \in Failures
  BY <1>1 DEF Failures
<1>3. Types' /\ Counting'
  BY <1>1, <1>2 DEF HistoryInv, Types, Counting
<1>4. JobIsCurrent' /\ WellFormed(path)' /\ NothingWaits' = NothingWaits
      /\ \A x : AcceptsApplication(x)' = AcceptsApplication(x)
  BY <1>1, JobUnchanged, PathUnchanged
<1>5. PlanStands'
  BY <1>1, <1>4 DEF HistoryInv, Control, PlanStands, AcceptsApplication
<1>6. Control'
  BY <1>1, <1>4, <1>5 DEF HistoryInv, Control, Running
<1>. QED  BY <1>3, <1>4, <1>6 DEF HistoryInv

(* An answer of this checkout is accepted.                                 *)
LEMMA TaskPublishesKeeps == HistoryInv /\ TaskPublishes => HistoryInv'
<1>. SUFFICES ASSUME HistoryInv, TaskPublishes PROVE HistoryInv'
  OBVIOUS
<1>1. /\ Running /\ job.result = "none"
      /\ UNCHANGED <<revision, failure, limit, pc, plan, asked>>
  BY DEF TaskPublishes, loop
<1>2. /\ job \in Jobs /\ job.src \in Seq(Messages) /\ job.at = revision /\ job.src # <<>>
      /\ NothingWaits /\ IsPrefix(job.src, Raw(path))
      /\ path \in Seq(Records) /\ WellFormed(path)
  BY <1>1, JobParts DEF HistoryInv, Types, Control, JobIsCurrent, Running
<1>3. Candidates(path) = Raw(path) /\ Raw(path) \in Seq(Messages)
  BY <1>2, WaitingIs DEF NothingWaits
<1>4. PICK n \in 1 .. Len(job.src) :
        LET src == SubSeq(job.src, 1, n)
        IN  IF AcceptsPublication(src, job.at)
            THEN /\ path' = Append(path, Published(src))
                 /\ job' = [job EXCEPT !.result = "ok"] /\ UNCHANGED refused
            ELSE /\ job' = [job EXCEPT !.result = "rejected"] /\ UNCHANGED path
                 /\ refused' = (refused \/ job.at = revision)
  BY DEF TaskPublishes
<1>5. PICK x \in Seq(Messages) : x = SubSeq(job.src, 1, n) /\ IsPrefix(x, Candidates(path))
  <2>1. PICK s \in Seq(Messages) : s = job.src
    BY <1>2
  <2>2. n \in 1 .. Len(s) /\ Len(s) \in Nat /\ \A i \in 1 .. n : s[i] \in Messages
    BY <2>1, ElementOfSeq, LenProperties
  <2>. DEFINE y == SubSeq(s, 1, n)
  <2>3. y \in Seq(Messages) /\ Len(y) = n /\ \A i \in 1 .. n : y[i] = s[i]
    BY <2>2, SubSeqProperties
  <2>. HIDE DEF y
  <2>4. Starts(y, s)
    BY <2>2, <2>3 DEF Starts
  <2>5. Starts(s, Raw(path))
    BY <1>2, <1>3, <2>1, PrefixIs
  <2>6. Starts(y, Raw(path))
    BY <1>3, <2>3, <2>4, <2>5, StartsOrder
  <2>7. IsPrefix(y, Candidates(path))
    BY <1>3, <2>3, <2>6, PrefixIs
  <2>. QED  BY <2>1, <2>3, <2>7 DEF y
<1>6. /\ path' = Append(path, Published(x))
      /\ job' = [job EXCEPT !.result = "ok"] /\ refused' = refused
  BY <1>2, <1>4, <1>5 DEF AcceptsPublication
<1>7. path' \in Seq(Records) /\ WellFormed(path)'
  BY <1>2, <1>5, <1>6, GrowsByPublication
<1>8. job' \in Jobs /\ job'.src = job.src /\ job'.at = job.at /\ job'.result = "ok" /\ Running'
  <2>1. "ok" \in Results
    BY DEF Results
  <2>2. job' \in Jobs /\ job'.src = job.src /\ job'.at = job.at /\ job'.result = "ok"
    BY <1>2, <1>6, <2>1, JobEnds
  <2>. QED  BY <2>2, JobParts DEF Running
<1>9. pc # "apply"
  BY <1>2, AcceptedWaits DEF HistoryInv, Control, PlanStands
<1>10. Types'
  BY <1>1, <1>7, <1>8 DEF HistoryInv, Types
<1>11. JobIsCurrent'
  BY <1>1, <1>2, <1>8 DEF JobIsCurrent
<1>12. Control'
  BY <1>1, <1>6, <1>8, <1>9, <1>11 DEF HistoryInv, Control, PlanStands
<1>13. Counting'
  <2>1. Counted(asked.first)' = Counted(asked.first)
    BY <1>1 DEF Counted
  <2>. QED  BY <1>1, <1>8, <2>1 DEF HistoryInv, Counting
<1>. QED  BY <1>7, <1>10, <1>12, <1>13 DEF HistoryInv

LEMMA TaskFailsKeeps ==
    ASSUME HistoryInv, NEW class \in {"rejected", "transport"}, TaskFails(class)
    PROVE  HistoryInv'
<1>1. /\ Running /\ job.result = "none" /\ job' = [job EXCEPT !.result = class]
      /\ UNCHANGED <<path, revision, failure, limit, pc, plan, refused, asked>>
  BY DEF TaskFails, loop
<1>2. job \in Jobs
  BY <1>1 DEF HistoryInv, Types, Running
<1>3. job' \in Jobs /\ job'.src = job.src /\ job'.at = job.at /\ job'.result = class /\ Running'
  <2>1. class \in Results
    BY DEF Results
  <2>2. job' \in Jobs /\ job'.src = job.src /\ job'.at = job.at /\ job'.result = class
    BY <1>1, <1>2, <2>1, JobEnds
  <2>. QED  BY <2>2, JobParts DEF Running
<1>4. WellFormed(path)' /\ NothingWaits' = NothingWaits /\ Raw(path)' = Raw(path)
  BY <1>1, PathUnchanged
<1>5. Types'
  BY <1>1, <1>3 DEF HistoryInv, Types
<1>6. JobIsCurrent'
  BY <1>1, <1>3, <1>4 DEF HistoryInv, Control, JobIsCurrent
<1>7. PlanStands'
  BY <1>1 DEF HistoryInv, Control, PlanStands, AcceptsApplication
<1>8. Control'
  BY <1>1, <1>3, <1>6, <1>7 DEF HistoryInv, Control
<1>9. Counting'
  <2>1. Counted(asked.first)' = Counted(asked.first)
    BY <1>1 DEF Counted
  <2>. QED  BY <1>1, <1>3, <2>1 DEF HistoryInv, Counting
<1>. QED  BY <1>4, <1>5, <1>8, <1>9 DEF HistoryInv

LEMMA OrphanEndsKeeps == HistoryInv /\ OrphanEnds => HistoryInv'
<1>. SUFFICES ASSUME HistoryInv, OrphanEnds PROVE HistoryInv'
  OBVIOUS
<1>1. UNCHANGED <<path, revision, job, failure, limit, pc, plan, refused, asked>>
  BY DEF OrphanEnds, LateAnswer, loop
<1>2. Types'
  BY <1>1 DEF HistoryInv, Types
<1>3. JobIsCurrent' /\ WellFormed(path)' /\ Counting' /\ NothingWaits' = NothingWaits
  BY <1>1, JobUnchanged, PathUnchanged, CountUnchanged DEF HistoryInv
<1>4. PlanStands'
  BY <1>1 DEF HistoryInv, Control, PlanStands, AcceptsApplication
<1>5. Control'
  BY <1>1, <1>3, <1>4 DEF HistoryInv, Control, Running
<1>. QED  BY <1>2, <1>3, <1>5 DEF HistoryInv

LEMMA BreaksKeep == HistoryInv /\ (Interrupt \/ Undo \/ Restart) => HistoryInv'
<1>. SUFFICES ASSUME HistoryInv, Interrupt \/ Undo \/ Restart PROVE HistoryInv'
  OBVIOUS
<1>1. /\ job' = None /\ pc' = "away" /\ plan' \in Seq(Messages)
      /\ revision' \in Nat /\ limit' \in Nat /\ failure' \in Failures \cup {None}
      /\ asked' \in Requests \cup {None}
      /\ Counting' /\ refused' = refused
  <2>1. CASE Interrupt
    <3>1. Counting' /\ asked' \in Requests \cup {None} /\ job' = None
      BY <2>1, CancelCounts DEF Interrupt
    <3>2. plan' \in Seq(Messages)
      BY <2>1, EmptySeq DEF Interrupt, Leave
    <3>. QED  BY <2>1, <3>1, <3>2 DEF Interrupt, Leave, HistoryInv, Types
  <2>2. CASE Undo
    <3>1. Counting' /\ asked' \in Requests \cup {None} /\ job' = None
      BY <2>2, CancelCounts DEF Undo
    <3>. QED  BY <2>2, <3>1 DEF Undo, loop, HistoryInv, Types
  <2>3. CASE Restart
    <3>1. plan' \in Seq(Messages)
      BY <2>3, EmptySeq DEF Restart, Leave
    <3>2. Counting'
      BY <2>3 DEF Restart, Counting
    <3>. QED  BY <2>3, <3>1, <3>2 DEF Restart, Leave, HistoryInv, Types, Unlimited
  <2>. QED  BY <2>1, <2>2, <2>3
<1>2. path' \in Seq(Records) /\ WellFormed(path)'
  <2>1. path \in Seq(Records) /\ WellFormed(path)
    BY DEF HistoryInv, Types
  <2>2. CASE Interrupt \/ Restart
    BY <2>1, <2>2, PathUnchanged DEF Interrupt, Restart
  <2>3. CASE Undo
    <3>1. PICK i \in DOMAIN path : path' = SubSeq(path, 1, i - 1)
      BY <2>3 DEF Undo
    <3>2. i - 1 \in 0 .. Len(path)
      BY <2>1, LenProperties
    <3>. QED  BY <2>1, <3>1, <3>2, PrefixWellFormed
  <2>. QED  BY <2>2, <2>3
<1>3. Types'
  BY <1>1, <1>2 DEF Types
<1>4. Control'
  BY <1>1 DEF HistoryInv, Control, JobIsCurrent, PlanStands, Running
<1>. QED  BY <1>1, <1>2, <1>3, <1>4 DEF HistoryInv

-------------------------------------------------------------------------------
(* The theorems                                                            *)

LEMMA HistoryStep == HistoryInv /\ [Next]_vars => HistoryInv'
<1>. SUFFICES ASSUME HistoryInv, [Next]_vars PROVE HistoryInv'
  OBVIOUS
<1>1. CASE Converse
  BY <1>1, ConverseKeeps
<1>2. ASSUME NEW hold \in BOOLEAN, NEW near \in BOOLEAN, Advance(hold, near) PROVE HistoryInv'
  BY <1>2, AdvanceKeeps
<1>3. CASE Step
  BY <1>3, PlanKeeps, ApplyKeeps, WorkKeeps, JoinKeeps, WaitKeeps DEF Step
<1>4. CASE WaitTimesOut \/ CooldownEnds
  BY <1>4, WaitTimesOutKeeps, CooldownEndsKeeps
<1>5. CASE TaskPublishes
  BY <1>5, TaskPublishesKeeps
<1>6. CASE TaskOversized \/ TaskBreaks
  BY <1>6, TaskFailsKeeps DEF TaskOversized, TaskBreaks
<1>7. CASE OrphanEnds
  BY <1>7, OrphanEndsKeeps
<1>8. CASE Interrupt \/ Undo \/ Restart
  BY <1>8, BreaksKeep
<1>9. CASE UNCHANGED vars
  <2>1. UNCHANGED <<path, revision, job, failure, limit, pc, plan, refused, asked>>
    BY <1>9 DEF vars, loop
  <2>2. Types'
    BY <2>1 DEF HistoryInv, Types
  <2>3. JobIsCurrent' /\ WellFormed(path)' /\ Counting' /\ NothingWaits' = NothingWaits
    BY <2>1, JobUnchanged, PathUnchanged, CountUnchanged DEF HistoryInv
  <2>4. PlanStands'
    BY <2>1 DEF HistoryInv, Control, PlanStands, AcceptsApplication
  <2>5. Control'
    BY <2>1, <2>3, <2>4 DEF HistoryInv, Control, Running
  <2>. QED  BY <2>2, <2>3, <2>5 DEF HistoryInv
<1>. QED  BY <1>1, <1>2, <1>3, <1>4, <1>5, <1>6, <1>7, <1>8, <1>9 DEF Next, Answer

LEMMA HistoryAlways == Spec => []HistoryInv
BY InitHistory, HistoryStep, PTL DEF Spec

(* Whatever is published, applied, undone, interrupted or lost, and        *)
(* whatever prefix the provider accepts: every message of the branch is    *)
(* either replaced by an applied summary or raw, once, in its place.       *)
THEOREM MessagesKept == Spec => []EachMessageOnce
<1>1. HistoryInv => EachMessageOnce
  <2>. SUFFICES ASSUME HistoryInv PROVE EachMessageOnce
    OBVIOUS
  <2>1. path \in Seq(Records) /\ WellFormed(path)
    BY DEF HistoryInv, Types
  <2>2. Layered(path)
    BY <2>1, WellFormedIsLayered
  <2>3. /\ MessagesOn(path) \in Seq(Messages) /\ PublishedOn(path) \in Seq(Messages)
        /\ Retired(path) \in Seq(Messages)
    BY <2>1, SourcesType DEF MessagesOn, PublishedOn, Retired
  <2>4. MessagesOn(path) = Retired(path) \o Raw(path)
    BY <2>1, WaitingIs
  <2>. QED  BY <2>2, <2>3, <2>4, PrefixIs DEF Layered, EachMessageOnce
<1>. QED  BY <1>1, HistoryAlways, PTL

(* The recorder refuses neither an application that the loop planned nor   *)
(* what the task of this checkout publishes, in whatever order loop, task, *)
(* user and crashes take their steps.                                      *)
THEOREM NothingIsRefused == Spec => []NeverRefused
<1>1. HistoryInv => NeverRefused
  BY DEF HistoryInv, Control, NeverRefused
<1>. QED  BY <1>1, HistoryAlways, PTL

(* No region is asked for more than MaxAttempts times between two pauses,  *)
(* for any number of retries within one preparation.                       *)
THEOREM RegionAttemptsBounded == Spec => []AttemptsBounded
<1>1. HistoryInv => AttemptsBounded
  BY HistoryAssumption DEF HistoryInv, Counting, AttemptsBounded
<1>. QED  BY <1>1, HistoryAlways, PTL
===============================================================================
