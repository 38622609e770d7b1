----------------------- MODULE TranscriptJournal_proofs -----------------------
(* Theorems about a session's transcript file, for any number of           *)
(* recorders, sizes of transactions, failed writes and losses of power.    *)
EXTENDS TranscriptJournal, SequenceTheorems, WellFoundedInduction, TLAPS

-------------------------------------------------------------------------------
(* The frontier of a file                                                  *)

(* Every nonempty set of natural numbers has a least element.              *)
LEMMA LeastNatural ==
    ASSUME NEW T, T \subseteq Nat, T # {}
    PROVE  \E n \in T : \A k \in T : n <= k
<1>. DEFINE R == {ss \in Nat \X Nat : ss[1] < ss[2]}
<1>1. IsWellFoundedOn(R, Nat)
  BY NatLessThanWellFounded, Zenon DEF OpToRel
<1>2. \A k, n \in T : k < n => <<k, n>> \in R
  OBVIOUS
<1>. HIDE DEF R
<1>3. PICK n \in T : \A k \in T : ~ (<<k, n>> \in R)
  BY <1>1, WFMin, Zenon
<1>4. \A k \in T : ~ (k < n)
  BY <1>2, <1>3, Zenon
<1>. QED  BY <1>4

LEMMA MaxOfBounded ==
    ASSUME NEW n \in Nat, NEW S, S \subseteq 0 .. n, S # {}
    PROVE  Max(S) \in S /\ \A k \in S : k <= Max(S)
<1>. DEFINE Gaps == {n - k : k \in S}
<1>1. Gaps \subseteq Nat /\ Gaps # {}
  <2>1. \A k \in S : n - k \in Nat
    OBVIOUS
  <2>2. PICK k \in S : TRUE
    OBVIOUS
  <2>. QED  BY <2>1, <2>2
<1>2. PICK g \in Gaps : \A h \in Gaps : g <= h
  <2>. HIDE DEF Gaps
  <2>. QED  BY <1>1, LeastNatural, Zenon
<1>3. PICK m \in S : g = n - m
  OBVIOUS
<1>4. \A k \in S : m >= k
  BY <1>2, <1>3
<1>5. Max(S) \in S /\ \A k \in S : Max(S) >= k
  BY <1>4 DEF Max
<1>. QED  BY <1>5

(* The frontier is the last line that may be followed by a new record.     *)
LEMMA FrontierIsLast ==
    ASSUME NEW f \in Seq(Lines)
    PROVE  /\ Frontier(f) \in 0 .. Len(f)
           /\ Frontier(f) > 0 => Free(f[Frontier(f)])
           /\ \A i \in 1 .. Len(f) : Free(f[i]) => i <= Frontier(f)
<1>. DEFINE S == {0} \cup {i \in 1 .. Len(f) : Free(f[i])}
<1>1. Len(f) \in Nat /\ S \subseteq 0 .. Len(f) /\ S # {}
  OBVIOUS
<1>2. Frontier(f) = Max(S)
  BY DEF Frontier
<1>3. Max(S) \in S /\ \A k \in S : k <= Max(S)
  <2>. HIDE DEF S
  <2>. QED  BY <1>1, MaxOfBounded
<1>. QED  BY <1>1, <1>2, <1>3

LEMMA FrontierIs ==
    ASSUME NEW f \in Seq(Lines), NEW k \in 0 .. Len(f),
           k > 0 => Free(f[k]), \A i \in k + 1 .. Len(f) : ~ Free(f[i])
    PROVE  Frontier(f) = k
<1>1. /\ Frontier(f) \in 0 .. Len(f)
      /\ Frontier(f) > 0 => Free(f[Frontier(f)])
      /\ \A i \in 1 .. Len(f) : Free(f[i]) => i <= Frontier(f)
  BY FrontierIsLast
<1>2. Frontier(f) <= k
  BY <1>1
<1>3. k <= Frontier(f)
  BY <1>1
<1>. QED  BY <1>1, <1>2, <1>3

(* A prefix: what is left of a file after the power was lost.              *)
LEMMA Prefix ==
    ASSUME NEW f \in Seq(Lines), NEW n \in 0 .. Len(f)
    PROVE  /\ SubSeq(f, 1, n) \in Seq(Lines)
           /\ Len(SubSeq(f, 1, n)) = n
           /\ \A i \in 1 .. n : SubSeq(f, 1, n)[i] = f[i]
           /\ Parses(f) => Parses(SubSeq(f, 1, n))
<1>1. \A i \in 1 .. n : f[i] \in Lines
  BY ElementOfSeq
<1>2. /\ SubSeq(f, 1, n) \in Seq(Lines)
      /\ Len(SubSeq(f, 1, n)) = n
      /\ \A i \in 1 .. n : SubSeq(f, 1, n)[i] = f[i]
  BY <1>1, SubSeqProperties
<1>. DEFINE g == SubSeq(f, 1, n)
<1>. HIDE DEF g
<1>3. ASSUME Parses(f) PROVE Parses(g)
  <2>1. g # <<>> => MayStart(g[1])
    <3>1. g # <<>> => n > 0 /\ f # <<>>
      BY <1>2, EmptySeq DEF g
    <3>. QED  BY <1>2, <1>3, <3>1 DEF g, Parses
  <2>2. ASSUME NEW i \in 1 .. Len(g) - 1 PROVE MayFollow(g[i], g[i + 1])
    <3>1. i \in 1 .. Len(f) - 1 /\ g[i] = f[i] /\ g[i + 1] = f[i + 1]
      BY <1>2 DEF g
    <3>. QED  BY <1>3, <3>1 DEF Parses
  <2>. QED  BY <2>1, <2>2 DEF Parses
<1>. QED  BY <1>2, <1>3 DEF g

-------------------------------------------------------------------------------
(* Batches                                                                 *)

(* What an append writes: lines that follow each other, of which the last  *)
(* and no other closes the batch, and that continue at a revision.         *)
IsBatch(b, rev, n) ==
    /\ b \in Seq(Lines) /\ Len(b) > 0
    /\ b[1].rev = rev + 1
    /\ b[1].kind = "record" \/ (b[1].kind = "member" /\ b[1].index = 1)
    /\ \A i \in 1 .. Len(b) - 1 : MayFollow(b[i], b[i + 1])
    /\ \A i \in 1 .. Len(b) : Free(b[i]) <=> i = Len(b)
    /\ b[Len(b)].rev = rev + n

LEMMA RecordIsBatch ==
    ASSUME TypeOK, NEW p \in Recorders
    PROVE  IsBatch(RecordBatch(p), sequence[p], 1)
<1>1. sequence[p] \in Nat /\ appends \in Nat
  BY JournalAssumption DEF TypeOK
<1>2. Line("record", sequence[p] + 1, 0, 0) \in Lines
  BY <1>1 DEF Line, Lines, Kinds
<1>. QED  BY <1>1, <1>2 DEF IsBatch, RecordBatch, Line, Free

LEMMA TransactionIsBatch ==
    ASSUME TypeOK, NEW p \in Recorders, NEW n \in Sizes
    PROVE  IsBatch(TransactionBatch(p, n), sequence[p], n)
<1>. DEFINE b == TransactionBatch(p, n)
            e(i) == IF i <= n THEN Line("member", sequence[p] + i, i, n)
                    ELSE Line("commit", sequence[p] + n, n, n)
<1>1. sequence[p] \in Nat /\ appends \in Nat /\ n \in Nat /\ n > 0
  BY JournalAssumption DEF TypeOK
<1>2. \A i \in 1 .. n + 1 : e(i) \in Lines
  BY <1>1 DEF Line, Lines, Kinds
<1>3. b = [i \in 1 .. n + 1 |-> e(i)]
  BY DEF TransactionBatch
<1>4. b \in Seq(Lines) /\ Len(b) = n + 1 /\ \A i \in 1 .. n + 1 : b[i] = e(i)
  <2>. HIDE DEF e, b
  <2>1. n + 1 \in Nat
    BY <1>1
  <2>2. b \in [1 .. n + 1 -> Lines]
    BY <1>2, <1>3
  <2>. QED  BY <2>1, <2>2, <1>3
<1>. HIDE DEF b
<1>5. \A i \in 1 .. n : /\ b[i].kind = "member" /\ b[i].rev = sequence[p] + i
                        /\ b[i].append = appends /\ b[i].index = i /\ b[i].of = n
  BY <1>1, <1>4 DEF Line
<1>6. /\ b[n + 1].kind = "commit" /\ b[n + 1].rev = sequence[p] + n
      /\ b[n + 1].append = appends /\ b[n + 1].index = n /\ b[n + 1].of = n
  BY <1>1, <1>4 DEF Line
<1>7. ASSUME NEW i \in 1 .. n PROVE MayFollow(b[i], b[i + 1])
  <2>1. CASE i = n
    BY <1>1, <1>5, <1>6, <2>1 DEF MayFollow
  <2>2. CASE i < n
    <3>1. i + 1 \in 1 .. n
      BY <1>1, <2>2
    <3>. QED  BY <1>1, <1>5, <3>1, <2>2 DEF MayFollow
  <2>. QED  BY <1>1, <2>1, <2>2
<1>8. \A i \in 1 .. n + 1 : Free(b[i]) <=> i = n + 1
  BY <1>1, <1>5, <1>6 DEF Free
<1>9. IsBatch(b, sequence[p], n)
  BY <1>1, <1>4, <1>5, <1>6, <1>7, <1>8 DEF IsBatch
<1>. QED  BY <1>9 DEF b

(* A batch, or the part of it that a failed write leaves, continues a file *)
(* that ends at its frontier: the file parses, and its frontier moves only *)
(* when the batch is complete.                                             *)
LEMMA AppendBatch ==
    ASSUME NEW f \in Seq(Lines), Parses(f), ~ Uncommitted(f),
           NEW b, NEW n \in Nat, IsBatch(b, Revision(f), n), NEW k \in 0 .. Len(b)
    PROVE  LET g == f \o SubSeq(b, 1, k)
           IN  /\ g \in Seq(Lines) /\ Len(g) = Len(f) + k
               /\ \A i \in 1 .. Len(f) : g[i] = f[i]
               /\ \A i \in 1 .. k : g[Len(f) + i] = b[i]
               /\ Parses(g)
               /\ k < Len(b) => Frontier(g) = Len(f)
               /\ k = Len(b) => Frontier(g) = Len(g) /\ Revision(g) = Revision(f) + n
<1>. DEFINE c == SubSeq(b, 1, k)
            g == f \o c
<1>1. /\ b \in Seq(Lines) /\ Len(b) \in Nat /\ Len(b) > 0 /\ k \in Nat /\ Len(f) \in Nat
      /\ \A i \in 1 .. Len(b) - 1 : MayFollow(b[i], b[i + 1])
      /\ \A i \in 1 .. Len(b) : Free(b[i]) <=> i = Len(b)
  BY DEF IsBatch
<1>2. c \in Seq(Lines) /\ Len(c) = k /\ \A i \in 1 .. k : c[i] = b[i]
  BY <1>1, Prefix
<1>. HIDE DEF c
<1>3. /\ g \in Seq(Lines) /\ Len(g) = Len(f) + k
      /\ \A i \in 1 .. Len(f) + k : g[i] = IF i <= Len(f) THEN f[i] ELSE c[i - Len(f)]
  BY <1>2, ConcatProperties
<1>4. \A i \in 1 .. Len(f) : g[i] = f[i]
  BY <1>1, <1>3
<1>5. \A i \in 1 .. k : g[Len(f) + i] = b[i]
  <2>. SUFFICES ASSUME NEW i \in 1 .. k PROVE g[Len(f) + i] = b[i]
    OBVIOUS
  <2>1. Len(f) + i \in 1 .. Len(f) + k /\ ~ (Len(f) + i <= Len(f)) /\ (Len(f) + i) - Len(f) = i
    BY <1>1
  <2>. QED  BY <1>2, <1>3, <2>1
<1>. HIDE DEF g
<1>6. Frontier(f) = Len(f) /\ (Len(f) > 0 => Free(f[Len(f)]))
  BY <1>1, FrontierIsLast DEF Uncommitted
<1>7. f # <<>> <=> Len(f) > 0
  BY EmptySeq
<1>8. Parses(g)
  <2>1. ASSUME g # <<>> PROVE MayStart(g[1])
    <3>1. Len(f) + k > 0
      BY <1>1, <1>3, <2>1, EmptySeq
    <3>2. CASE Len(f) > 0
      <4>1. g[1] = f[1]
        BY <1>1, <1>4, <3>2
      <4>. QED  BY <1>7, <3>2, <4>1 DEF Parses
    <3>3. CASE Len(f) = 0
      <4>1. g[1] = b[1]
        BY <1>1, <1>5, <3>1, <3>3
      <4>2. Revision(f) = 0
        BY <1>6, <3>3 DEF Revision
      <4>. QED  BY <4>1, <4>2 DEF IsBatch, MayStart
    <3>. QED  BY <1>1, <3>2, <3>3
  <2>2. ASSUME NEW i \in 1 .. Len(g) - 1 PROVE MayFollow(g[i], g[i + 1])
    <3>1. CASE i < Len(f)
      <4>1. i \in 1 .. Len(f) - 1 /\ g[i] = f[i] /\ g[i + 1] = f[i + 1]
        BY <1>1, <1>3, <1>4, <3>1
      <4>. QED  BY <4>1 DEF Parses
    <3>2. CASE i = Len(f)
      <4>1. g[i] = f[Len(f)] /\ Free(f[Len(f)])
        BY <1>1, <1>3, <1>4, <1>6, <3>2
      <4>2. g[i + 1] = b[1]
        BY <1>1, <1>3, <1>5, <3>2
      <4>3. Revision(f) = f[Len(f)].rev
        BY <1>1, <1>6, <3>2 DEF Revision
      <4>. QED  BY <4>1, <4>2, <4>3 DEF IsBatch, MayFollow
    <3>3. CASE i > Len(f)
      <4>1. PICK j \in 1 .. k - 1 : i = Len(f) + j
        <5>1. i - Len(f) \in 1 .. k - 1 /\ i = Len(f) + (i - Len(f))
          BY <1>1, <1>3, <3>3
        <5>. QED  BY <5>1
      <4>2. j + 1 \in 1 .. k /\ j \in 1 .. k /\ j \in 1 .. Len(b) - 1 /\ i + 1 = Len(f) + (j + 1)
        BY <1>1, <4>1
      <4>3. g[i] = b[j] /\ g[i + 1] = b[j + 1]
        BY <1>5, <4>1, <4>2
      <4>. QED  BY <1>1, <4>2, <4>3
    <3>. QED  BY <1>1, <1>3, <3>1, <3>2, <3>3
  <2>. QED  BY <2>1, <2>2 DEF Parses
<1>9. ASSUME k < Len(b) PROVE Frontier(g) = Len(f)
  <2>1. ASSUME NEW i \in Len(f) + 1 .. Len(g) PROVE ~ Free(g[i])
    <3>1. i - Len(f) \in 1 .. k /\ i = Len(f) + (i - Len(f)) /\ i - Len(f) # Len(b)
      BY <1>1, <1>3, <1>9
    <3>2. g[i] = b[i - Len(f)]
      BY <1>5, <3>1
    <3>3. i - Len(f) \in 1 .. Len(b)
      BY <1>1, <1>9, <3>1
    <3>. QED  BY <1>1, <3>1, <3>2, <3>3
  <2>2. Len(f) > 0 => Free(g[Len(f)])
    BY <1>1, <1>4, <1>6
  <2>3. Len(f) \in 0 .. Len(g)
    BY <1>1, <1>3
  <2>. QED  BY <1>3, <2>1, <2>2, <2>3, FrontierIs
<1>10. ASSUME k = Len(b) PROVE Frontier(g) = Len(g) /\ Revision(g) = Revision(f) + n
  <2>1. k \in 1 .. k /\ g[Len(g)] = b[Len(b)] /\ Len(g) > 0
    BY <1>1, <1>3, <1>5, <1>10
  <2>2. Free(b[Len(b)])
    BY <1>1
  <2>3. Frontier(g) = Len(g)
    BY <1>1, <1>3, <2>1, <2>2, FrontierIs
  <2>. QED  BY <2>1, <2>3 DEF Revision, IsBatch
<1>. QED  BY <1>3, <1>4, <1>5, <1>8, <1>9, <1>10 DEF g, c

-------------------------------------------------------------------------------
(* The abstract log                                                        *)

LogStep == [Log!Extend \/ Log!Promise \/ Log!Lose]_<<Visible(file), promised>>

LEMMA VisibleIs ==
    ASSUME NEW f \in Seq(Lines)
    PROVE  /\ Visible(f) \in Seq(Lines) /\ Len(Visible(f)) = Frontier(f)
           /\ \A i \in 1 .. Frontier(f) : Visible(f)[i] = f[i]
BY FrontierIsLast, Prefix DEF Visible

LEMMA VisibleWhole ==
    ASSUME NEW f \in Seq(Lines), ~ Uncommitted(f)
    PROVE  Visible(f) = f /\ Frontier(f) = Len(f)
<1>1. Frontier(f) = Len(f)
  BY FrontierIsLast DEF Uncommitted
<1>. QED  BY <1>1, SubSeqFull DEF Visible

(* A complete batch becomes visible as a whole, and a part of one not at   *)
(* all.                                                                    *)
LEMMA BatchShows ==
    ASSUME file \in Seq(Lines), Parses(file), ~ Uncommitted(file),
           NEW b, NEW n \in Nat, IsBatch(b, Revision(file), n), NEW k \in 0 .. Len(b),
           file' = file \o SubSeq(b, 1, k), UNCHANGED promised
    PROVE  LogStep
<1>1. /\ file' \in Seq(Lines) /\ Len(file') = Len(file) + k
      /\ \A i \in 1 .. Len(file) : file'[i] = file[i]
      /\ \A i \in 1 .. k : file'[Len(file) + i] = b[i]
      /\ k < Len(b) => Frontier(file') = Len(file)
      /\ k = Len(b) => Frontier(file') = Len(file')
  BY AppendBatch
<1>2. Visible(file) = file /\ Len(file) \in Nat
  BY VisibleWhole
<1>3. Len(b) \in Nat /\ Len(b) > 0 /\ \A i \in 1 .. Len(b) : Free(b[i]) <=> i = Len(b)
  BY DEF IsBatch
<1>4. CASE k < Len(b)
  <2>1. SubSeq(file', 1, Len(file)) = file
    <3>1. /\ SubSeq(file', 1, Len(file)) \in Seq(Lines)
          /\ Len(SubSeq(file', 1, Len(file))) = Len(file)
          /\ \A i \in 1 .. Len(file) : SubSeq(file', 1, Len(file))[i] = file'[i]
      BY <1>1, <1>2, Prefix
    <3>. QED  BY <1>1, <3>1, SeqEqual
  <2>2. Visible(file)' = file
    BY <1>1, <1>4, <2>1 DEF Visible
  <2>. QED  BY <1>2, <2>2 DEF LogStep
<1>5. CASE k = Len(b)
  <2>1. Visible(file)' = file'
    BY <1>1, <1>5, SubSeqFull DEF Visible
  <2>2. SubSeq(file', 1, Len(file)) = file
    <3>1. /\ SubSeq(file', 1, Len(file)) \in Seq(Lines)
          /\ Len(SubSeq(file', 1, Len(file))) = Len(file)
          /\ \A i \in 1 .. Len(file) : SubSeq(file', 1, Len(file))[i] = file'[i]
      BY <1>1, <1>2, <1>3, Prefix
    <3>. QED  BY <1>1, <3>1, SeqEqual
  <2>3. ASSUME NEW i \in Len(file) + 1 .. Len(file') PROVE Closes(file'[i]) <=> i = Len(file')
    <3>1. i - Len(file) \in 1 .. k /\ i = Len(file) + (i - Len(file))
      BY <1>1, <1>2, <1>3
    <3>2. file'[i] = b[i - Len(file)]
      BY <1>1, <3>1
    <3>3. Free(file'[i]) <=> i - Len(file) = Len(b)
      BY <1>3, <1>5, <3>1, <3>2
    <3>4. i - Len(file) = Len(b) <=> i = Len(file')
      BY <1>1, <1>2, <1>3, <1>5
    <3>. QED  BY <3>3, <3>4, Zenon DEF Closes
  <2>4. Len(file') > Len(file)
    BY <1>1, <1>2, <1>3, <1>5
  <2>5. Log!Extend
    BY <1>2, <2>1, <2>2, <2>3, <2>4 DEF Log!Extend
  <2>. QED  BY <2>5 DEF LogStep
<1>. QED  BY <1>3, <1>4, <1>5

(* What the power takes from the end of the file are whole batches, and    *)
(* none that was reported as durable.                                      *)
LEMMA PrefixShows ==
    ASSUME file \in Seq(Lines), promised \in Nat, promised > 0 => Free(file[promised]),
           NEW n \in promised .. Len(file), file' = SubSeq(file, 1, n), UNCHANGED promised
    PROVE  LogStep
<1>1. n \in 0 .. Len(file) /\ Len(file) \in Nat
  OBVIOUS
<1>2. file' \in Seq(Lines) /\ Len(file') = n /\ \A i \in 1 .. n : file'[i] = file[i]
  BY <1>1, Prefix
<1>. DEFINE m == Frontier(file')
<1>3. /\ m \in 0 .. n
      /\ m > 0 => Free(file'[m])
      /\ \A i \in 1 .. n : Free(file'[i]) => i <= m
  BY <1>2, FrontierIsLast
<1>4. /\ Frontier(file) \in 0 .. Len(file)
      /\ \A i \in 1 .. Len(file) : Free(file[i]) => i <= Frontier(file)
  BY FrontierIsLast
<1>5. Visible(file') \in Seq(Lines) /\ Len(Visible(file')) = m
      /\ \A i \in 1 .. m : Visible(file')[i] = file'[i]
  BY <1>2, VisibleIs
<1>6. Visible(file) \in Seq(Lines) /\ Len(Visible(file)) = Frontier(file)
      /\ \A i \in 1 .. Frontier(file) : Visible(file)[i] = file[i]
  BY VisibleIs
<1>. HIDE DEF m
<1>7. m <= Frontier(file)
  BY <1>1, <1>2, <1>3, <1>4
<1>8. promised <= m
  BY <1>1, <1>2, <1>3
<1>9. /\ SubSeq(Visible(file), 1, m) \in Seq(Lines) /\ Len(SubSeq(Visible(file), 1, m)) = m
      /\ \A i \in 1 .. m : SubSeq(Visible(file), 1, m)[i] = Visible(file)[i]
  BY <1>3, <1>4, <1>6, <1>7, Prefix
<1>10. Visible(file') = SubSeq(Visible(file), 1, m)
  <2>1. \A i \in 1 .. m : Visible(file')[i] = SubSeq(Visible(file), 1, m)[i]
    BY <1>1, <1>2, <1>3, <1>4, <1>5, <1>6, <1>7, <1>9
  <2>. QED  BY <1>5, <1>9, <2>1, SeqEqual
<1>11. m > 0 => Closes(Visible(file)[m])
  BY <1>1, <1>2, <1>3, <1>4, <1>6, <1>7 DEF Closes
<1>12. m \in promised .. Len(Visible(file))
  BY <1>3, <1>4, <1>6, <1>7, <1>8
<1>13. Log!Lose
  BY <1>10, <1>11, <1>12 DEF Log!Lose
<1>. QED  BY <1>13 DEF LogStep

-------------------------------------------------------------------------------
(* Steps                                                                   *)

(* What was reported as durable ends with a whole batch.                   *)
PromiseCloses == promised > 0 => Free(file[promised])

JournalInv == TypeOK /\ FileParses /\ WriterAtFrontier /\ PromiseCloses

Writing(p) == recorder[p] \in {"idle", "written"}

(* Two recorders never write: each would have the lock.                    *)
LEMMA Alone ==
    ASSUME WriterAtFrontier, NEW p \in Recorders, lock = p \/ lock = NoRecorder,
           NEW q \in Recorders, q # p
    PROVE  ~ Writing(q)
BY JournalAssumption DEF WriterAtFrontier, Writing

LEMMA InitJournal == Init => JournalInv /\ Log!LogInit
<1>. SUFFICES ASSUME Init PROVE JournalInv /\ Log!LogInit
  OBVIOUS
<1>1. PICK p \in Recorders :
        lock = p /\ recorder = [q \in Recorders |-> IF q = p THEN "idle" ELSE "closed"]
  BY DEF Init
<1>2. /\ file = <<>> /\ ending = "newline" /\ synced = 0 /\ promised = 0 /\ appends = 0
      /\ sequence = [q \in Recorders |-> 0] /\ writing = [q \in Recorders |-> 0]
      /\ loaded = [q \in Recorders |-> NotLoaded]
  BY DEF Init
<1>3. file \in Seq(Lines) /\ Len(file) = 0
  BY <1>2, EmptySeq
<1>4. Frontier(file) = 0 /\ Visible(file) = <<>>
  <2>1. Frontier(file) = 0
    <3>1. Frontier(file) \in 0 .. Len(file)
      BY <1>3, FrontierIsLast
    <3>. QED  BY <1>3, <3>1
  <2>2. Visible(file) \in Seq(Lines) /\ Len(Visible(file)) = 0
    BY <1>3, <2>1, VisibleIs
  <2>. QED  BY <2>1, <2>2, EmptySeq
<1>5. TypeOK
  <2>1. NotLoaded \in [file : Seq(Lines), ending : Endings]
    BY <1>2, <1>3 DEF NotLoaded, Endings
  <2>. QED  BY <1>1, <1>2, <1>3, <2>1, JournalAssumption DEF TypeOK, States, Endings
<1>6. FileParses
  BY <1>2, <1>3 DEF FileParses, Parses
<1>7. WriterAtFrontier
  BY <1>1, <1>2, <1>3, <1>4 DEF WriterAtFrontier, Uncommitted, Revision
<1>. QED  BY <1>2, <1>4, <1>5, <1>6, <1>7 DEF JournalInv, PromiseCloses, Log!LogInit

(* An append by a recorder that is in step with the file.                  *)
LEMMA AppendDisk ==
    ASSUME JournalInv, NEW p \in Recorders, recorder[p] = "idle",
           NEW b, NEW n \in Nat, IsBatch(b, sequence[p], n), NEW k \in 0 .. Len(b),
           file' = Joined(SubSeq(b, 1, k)), UNCHANGED <<synced, promised>>
    PROVE  /\ file' \in Seq(Lines) /\ synced' \in 0 .. Len(file') /\ FileParses' /\ PromiseCloses'
           /\ LogStep
           /\ k = Len(b) => ~ Uncommitted(file)' /\ Revision(file)' = sequence[p] + n
<1>1. /\ ending = "newline" /\ ~ Uncommitted(file) /\ Revision(file) = sequence[p]
      /\ file \in Seq(Lines) /\ synced \in 0 .. Len(file) /\ promised \in 0 .. synced
      /\ Parses(file) /\ sequence[p] \in Nat
  <2>1. /\ file \in Seq(Lines) /\ synced \in 0 .. Len(file) /\ promised \in 0 .. synced
        /\ Parses(file) /\ sequence[p] \in Nat
    BY DEF JournalInv, TypeOK, FileParses
  <2>2. ending = "newline" /\ ~ Uncommitted(file) /\ Revision(file) = sequence[p] + 0
    BY DEF JournalInv, WriterAtFrontier
  <2>. QED  BY <2>1, <2>2
<1>2. file' = file \o SubSeq(b, 1, k)
  BY <1>1 DEF Joined
<1>3. /\ file' \in Seq(Lines) /\ Len(file') = Len(file) + k
      /\ \A i \in 1 .. Len(file) : file'[i] = file[i]
      /\ Parses(file')
      /\ k = Len(b) => Frontier(file') = Len(file') /\ Revision(file') = Revision(file) + n
  <2>1. IsBatch(b, Revision(file), n)
    BY <1>1
  <2>. DEFINE f == file
              g == f \o SubSeq(b, 1, k)
  <2>2. /\ g \in Seq(Lines) /\ Len(g) = Len(f) + k
        /\ \A i \in 1 .. Len(f) : g[i] = f[i]
        /\ Parses(g)
        /\ k = Len(b) => Frontier(g) = Len(g) /\ Revision(g) = Revision(f) + n
    BY <1>1, <2>1, AppendBatch
  <2>3. file' = g
    BY <1>2
  <2>. QED  BY <2>2, <2>3
<1>4. synced' \in 0 .. Len(file') /\ Len(file') \in Nat
  BY <1>1, <1>3, LenProperties
<1>5. PromiseCloses'
  BY <1>1, <1>3 DEF PromiseCloses, JournalInv
<1>6. LogStep
  BY <1>1, <1>2, BatchShows
<1>7. ASSUME k = Len(b) PROVE ~ Uncommitted(file)' /\ Revision(file)' = sequence[p] + n
  BY <1>1, <1>3, <1>4, <1>7 DEF Uncommitted
<1>. QED  BY <1>3, <1>4, <1>5, <1>6, <1>7 DEF FileParses

LEMMA WriteStep ==
    ASSUME JournalInv, NEW p \in Recorders, NEW b, NEW n \in Nat, NEW durable \in BOOLEAN,
           IsBatch(b, sequence[p], n), Write(p, b, n, durable)
    PROVE  JournalInv' /\ LogStep
<1>1. recorder[p] = "idle" /\ lock = p /\ appends' \in 0 .. MaxAppends
  BY JournalAssumption DEF Write, JournalInv, WriterAtFrontier, TypeOK
<1>2. b \in Seq(Lines) /\ Len(b) \in 0 .. Len(b) /\ b = SubSeq(b, 1, Len(b))
  BY SubSeqFull, LenProperties DEF IsBatch
<1>3. file' = Joined(SubSeq(b, 1, Len(b))) /\ UNCHANGED <<synced, promised, lock, loaded>>
      /\ ending' = "newline"
  BY <1>2 DEF Write
<1>4. /\ file' \in Seq(Lines) /\ synced' \in 0 .. Len(file') /\ FileParses' /\ PromiseCloses'
      /\ LogStep /\ ~ Uncommitted(file)' /\ Revision(file)' = sequence[p] + n
  BY <1>1, <1>2, <1>3, AppendDisk
<1>5. \/ /\ recorder' = [recorder EXCEPT ![p] = "written"] /\ writing' = [writing EXCEPT ![p] = n]
         /\ sequence' = sequence
      \/ sequence' = [sequence EXCEPT ![p] = @ + n] /\ recorder' = recorder /\ writing' = writing
  BY DEF Write, Counted
<1>6. TypeOK'
  <2>1. /\ recorder' \in [Recorders -> States] /\ sequence' \in [Recorders -> Nat]
        /\ writing' \in [Recorders -> Nat]
    <3>1. /\ recorder \in [Recorders -> States] /\ sequence \in [Recorders -> Nat]
          /\ writing \in [Recorders -> Nat] /\ sequence[p] + n \in Nat
      BY DEF JournalInv, TypeOK
    <3>. QED  BY <1>5, <3>1 DEF States
  <2>. QED  BY <1>1, <1>3, <1>4, <2>1 DEF JournalInv, TypeOK, Endings
<1>7. WriterAtFrontier'
  <2>. SUFFICES ASSUME NEW q \in Recorders, recorder'[q] \in {"idle", "written"}
                PROVE  /\ lock' = q /\ ending' = "newline" /\ ~ Uncommitted(file)'
                       /\ Revision(file)' = sequence'[q]
                                + IF recorder'[q] = "written" THEN writing'[q] ELSE 0
    BY DEF WriterAtFrontier
  <2>1. q = p
    BY <1>1, <1>5, Alone DEF JournalInv, TypeOK, Writing
  <2>. QED  BY <1>1, <1>3, <1>4, <1>5, <2>1 DEF JournalInv, TypeOK
<1>. QED  BY <1>4, <1>6, <1>7 DEF JournalInv

LEMMA WriteFailsStep ==
    ASSUME JournalInv, NEW p \in Recorders, NEW b, NEW n \in Nat,
           IsBatch(b, sequence[p], n), WriteFails(p, b)
    PROVE  JournalInv' /\ LogStep
<1>1. recorder[p] = "idle" /\ lock = p /\ appends' \in 0 .. MaxAppends
  BY JournalAssumption DEF WriteFails, JournalInv, WriterAtFrontier, TypeOK
<1>2. PICK k \in 0 .. Len(b), e \in Endings :
        file' = Joined(SubSeq(b, 1, k)) /\ ending' = e /\ synced' = synced
  BY DEF WriteFails, LandsInPart
<1>3. /\ recorder' = [recorder EXCEPT ![p] = "poisoned"] /\ lock' = NoRecorder
      /\ UNCHANGED <<sequence, writing, loaded, promised>>
  BY <1>1 DEF WriteFails, Poison
<1>4. /\ file' \in Seq(Lines) /\ synced' \in 0 .. Len(file') /\ FileParses' /\ PromiseCloses'
      /\ LogStep
  BY <1>1, <1>2, <1>3, AppendDisk
<1>5. TypeOK'
  BY <1>1, <1>2, <1>3, <1>4 DEF JournalInv, TypeOK, States
<1>6. WriterAtFrontier'
  BY <1>1, <1>3, Alone DEF WriterAtFrontier, JournalInv, TypeOK, Writing
<1>. QED  BY <1>4, <1>5, <1>6 DEF JournalInv

LEMMA Unchanged ==
    ASSUME UNCHANGED <<file, promised>>
    PROVE  LogStep
BY DEF LogStep, Visible, Frontier

(* The writer is the one whose sync is reported, and the whole file is     *)
(* visible.                                                                *)
LEMMA SyncStep ==
    ASSUME JournalInv, NEW p \in Recorders, Sync(p)
    PROVE  JournalInv' /\ LogStep
<1>1. /\ recorder[p] = "written" /\ lock = p /\ ending = "newline" /\ ~ Uncommitted(file)
      /\ Revision(file) = sequence[p] + writing[p]
  BY DEF Sync, JournalInv, WriterAtFrontier
<1>2. /\ file \in Seq(Lines) /\ sequence[p] \in Nat /\ writing[p] \in Nat
  BY DEF JournalInv, TypeOK
<1>3. /\ file' = file /\ ending' = ending /\ lock' = lock /\ writing' = writing
      /\ synced' = Len(file) /\ promised' = Len(file)
      /\ recorder' = [recorder EXCEPT ![p] = "idle"]
      /\ sequence' = [sequence EXCEPT ![p] = sequence[p] + writing[p]]
  BY <1>1, <1>2, VisibleWhole DEF Sync, Counted
<1>4. Len(file) \in Nat /\ (Len(file) > 0 => Free(file[Len(file)]))
  BY <1>1, <1>2, VisibleWhole, FrontierIsLast
<1>5. TypeOK'
  <2>1. sequence' \in [Recorders -> Nat] /\ recorder' \in [Recorders -> States]
    BY <1>2, <1>3 DEF JournalInv, TypeOK, States
  <2>. QED  BY <1>2, <1>3, <1>4, <2>1 DEF JournalInv, TypeOK, Sync
<1>6. WriterAtFrontier'
  <2>. SUFFICES ASSUME NEW q \in Recorders, recorder'[q] \in {"idle", "written"}
                PROVE  /\ lock' = q /\ ending' = "newline" /\ ~ Uncommitted(file)'
                       /\ Revision(file)' = sequence'[q]
                                + IF recorder'[q] = "written" THEN writing'[q] ELSE 0
    BY DEF WriterAtFrontier
  <2>1. q = p
    BY <1>1, <1>3, Alone DEF JournalInv, TypeOK, Writing
  <2>2. recorder'[p] = "idle" /\ sequence'[p] = sequence[p] + writing[p]
    BY <1>3 DEF JournalInv, TypeOK
  <2>3. Revision(file)' = Revision(file) /\ Uncommitted(file)' = Uncommitted(file)
    BY <1>3 DEF Revision, Uncommitted, Frontier
  <2>. QED  BY <1>1, <1>2, <1>3, <2>1, <2>2, <2>3
<1>7. FileParses' /\ PromiseCloses'
  BY <1>3, <1>4 DEF JournalInv, FileParses, PromiseCloses, Parses
<1>8. LogStep
  <2>1. Visible(file) = file /\ Visible(file)' = Visible(file)
    BY <1>1, <1>2, <1>3, VisibleWhole DEF Visible, Frontier
  <2>2. Log!Promise
    BY <1>3, <2>1 DEF Log!Promise
  <2>. QED  BY <2>2 DEF LogStep
<1>. QED  BY <1>5, <1>6, <1>7, <1>8 DEF JournalInv

(* A recorder that stops writing gives up the lock, if it has it.          *)
LEMMA LeaveStep ==
    ASSUME JournalInv, NEW p \in Recorders, NEW s \in {"poisoned", "closed"},
           recorder' = [recorder EXCEPT ![p] = s],
           lock' = IF lock = p THEN NoRecorder ELSE lock,
           UNCHANGED <<diskVars, sequence, writing, loaded, promised, appends>>
    PROVE  JournalInv' /\ LogStep
<1>1. TypeOK'
  BY DEF JournalInv, TypeOK, diskVars, States
<1>2. WriterAtFrontier'
  <2>. SUFFICES ASSUME NEW q \in Recorders, recorder'[q] \in {"idle", "written"}
                PROVE  /\ lock' = q /\ ending' = "newline" /\ ~ Uncommitted(file)'
                       /\ Revision(file)' = sequence'[q]
                                + IF recorder'[q] = "written" THEN writing'[q] ELSE 0
    BY DEF WriterAtFrontier
  <2>1. q # p /\ recorder'[q] = recorder[q]
    BY DEF JournalInv, TypeOK
  <2>2. lock = q /\ ending = "newline" /\ ~ Uncommitted(file)
        /\ Revision(file) = sequence[q] + IF recorder[q] = "written" THEN writing[q] ELSE 0
    BY <2>1 DEF JournalInv, WriterAtFrontier
  <2>3. Revision(file)' = Revision(file) /\ Uncommitted(file)' = Uncommitted(file)
    BY DEF Revision, Uncommitted, Frontier, diskVars
  <2>. QED  BY <2>1, <2>2, <2>3 DEF diskVars
<1>3. FileParses' /\ PromiseCloses'
  BY DEF JournalInv, FileParses, PromiseCloses, Parses, diskVars
<1>4. LogStep
  BY Unchanged DEF diskVars
<1>. QED  BY <1>1, <1>2, <1>3, <1>4 DEF JournalInv

(* A recorder that opens a file which parses, and ends at its frontier,    *)
(* counts on from there.                                                   *)
LEMMA OpenStep ==
    ASSUME JournalInv, NEW p \in Recorders, lock = NoRecorder, ~ Uncommitted(file),
           Opened(p, Revision(file)), UNCHANGED file, ending' = "newline",
           synced' \in synced .. Len(file)
    PROVE  JournalInv' /\ LogStep
<1>1. file \in Seq(Lines) /\ Revision(file) \in Nat
  <2>1. file \in Seq(Lines) /\ Len(file) \in Nat
    BY DEF JournalInv, TypeOK
  <2>2. Frontier(file) \in 0 .. Len(file)
    BY <2>1, FrontierIsLast
  <2>3. \A i \in 1 .. Len(file) : file[i] \in Lines
    BY <2>1, ElementOfSeq
  <2>4. \A i \in 1 .. Len(file) : file[i].rev \in Nat
    BY <2>3 DEF Lines
  <2>. QED  BY <2>1, <2>2, <2>4 DEF Revision
<1>2. TypeOK'
  <2>1. NotLoaded \in [file : Seq(Lines), ending : Endings]
    BY EmptySeq DEF NotLoaded, Endings
  <2>2. /\ recorder' \in [Recorders -> States] /\ sequence' \in [Recorders -> Nat]
        /\ writing' \in [Recorders -> Nat]
        /\ loaded' \in [Recorders -> [file : Seq(Lines), ending : Endings]]
    BY <1>1, <2>1 DEF Opened, JournalInv, TypeOK, States
  <2>3. synced' \in 0 .. Len(file') /\ promised' \in 0 .. synced'
    BY <1>1 DEF Opened, JournalInv, TypeOK
  <2>. QED  BY <1>1, <2>2, <2>3 DEF Opened, JournalInv, TypeOK, Endings
<1>3. WriterAtFrontier'
  <2>. SUFFICES ASSUME NEW q \in Recorders, recorder'[q] \in {"idle", "written"}
                PROVE  /\ lock' = q /\ ending' = "newline" /\ ~ Uncommitted(file)'
                       /\ Revision(file)' = sequence'[q]
                                + IF recorder'[q] = "written" THEN writing'[q] ELSE 0
    BY DEF WriterAtFrontier
  <2>1. q = p
    BY Alone DEF JournalInv, TypeOK, Writing, Opened
  <2>2. recorder'[p] = "idle" /\ sequence'[p] = Revision(file)
    BY DEF JournalInv, TypeOK, Opened
  <2>3. Revision(file)' = Revision(file) /\ Uncommitted(file)' = Uncommitted(file)
    BY DEF Revision, Uncommitted, Frontier
  <2>. QED  BY <1>1, <2>1, <2>2, <2>3 DEF Opened
<1>4. FileParses' /\ PromiseCloses'
  BY DEF JournalInv, FileParses, PromiseCloses, Parses, Opened
<1>5. LogStep
  BY Unchanged DEF Opened
<1>. QED  BY <1>2, <1>3, <1>4, <1>5 DEF JournalInv

(* A repair that stops because the file ends in a transaction without its  *)
(* commit mark has changed only what no reader sees.                       *)
LEMMA QuietStep ==
    ASSUME JournalInv, UNCHANGED <<file, lock, recorder, sequence, writing, promised, appends>>,
           ending' \in {ending, "newline"}, synced' \in synced .. Len(file),
           loaded' \in [Recorders -> [file : Seq(Lines), ending : Endings]]
    PROVE  JournalInv' /\ LogStep
<1>1. TypeOK'
  BY LenProperties DEF JournalInv, TypeOK, Endings
<1>2. WriterAtFrontier' /\ FileParses' /\ PromiseCloses'
  BY DEF JournalInv, WriterAtFrontier, Uncommitted, Revision, Frontier, FileParses, PromiseCloses,
         Parses
<1>3. LogStep
  BY Unchanged
<1>. QED  BY <1>1, <1>2, <1>3 DEF JournalInv

LEMMA PowerLossStep ==
    ASSUME JournalInv, PowerLoss
    PROVE  JournalInv' /\ LogStep
<1>1. PICK n \in synced .. Len(file), e \in Endings : file' = SubSeq(file, 1, n) /\ ending' = e
  BY DEF PowerLoss
<1>2. /\ file \in Seq(Lines) /\ Len(file) \in Nat /\ synced \in 0 .. Len(file)
      /\ promised \in 0 .. synced /\ Parses(file) /\ (promised > 0 => Free(file[promised]))
  BY DEF JournalInv, TypeOK, FileParses, PromiseCloses
<1>3. n \in 0 .. Len(file) /\ n \in promised .. Len(file) /\ promised \in Nat
  BY <1>2
<1>4. /\ file' \in Seq(Lines) /\ Len(file') = n /\ \A i \in 1 .. n : file'[i] = file[i]
      /\ Parses(file')
  BY <1>1, <1>2, <1>3, Prefix
<1>5. NotLoaded \in [file : Seq(Lines), ending : Endings]
  BY EmptySeq DEF NotLoaded, Endings
<1>6. TypeOK'
  BY <1>1, <1>2, <1>3, <1>4, <1>5 DEF PowerLoss, JournalInv, TypeOK, States
<1>7. WriterAtFrontier' /\ FileParses'
  BY <1>4 DEF PowerLoss, WriterAtFrontier, FileParses
<1>8. PromiseCloses'
  BY <1>2, <1>3, <1>4 DEF PromiseCloses, PowerLoss
<1>9. LogStep
  BY <1>1, <1>2, <1>3, PrefixShows DEF PowerLoss
<1>. QED  BY <1>6, <1>7, <1>8, <1>9 DEF JournalInv

LEMMA NextJournal == JournalInv /\ [Next]_vars => JournalInv' /\ LogStep
<1>. SUFFICES ASSUME JournalInv, [Next]_vars PROVE JournalInv' /\ LogStep
  OBVIOUS
<1>1. /\ TypeOK /\ file \in Seq(Lines) /\ synced \in 0 .. Len(file) /\ Len(file) \in Nat
      /\ synced \in synced .. Len(file) /\ Len(file) \in synced .. Len(file)
  BY DEF JournalInv, TypeOK
<1>2. ASSUME NEW p \in Recorders, AppendRecord(p) PROVE JournalInv' /\ LogStep
  <2>1. IsBatch(RecordBatch(p), sequence[p], 1) /\ 1 \in Nat
    BY <1>1, RecordIsBatch
  <2>2. ASSUME NEW durable \in BOOLEAN, Write(p, RecordBatch(p), 1, durable)
        PROVE  JournalInv' /\ LogStep
    BY <2>1, <2>2, WriteStep
  <2>3. CASE WriteFails(p, RecordBatch(p))
    BY <2>1, <2>3, WriteFailsStep
  <2>. QED  BY <1>2, <2>2, <2>3 DEF AppendRecord
<1>3. ASSUME NEW p \in Recorders, NEW n \in Sizes, AppendTransaction(p, n)
      PROVE  JournalInv' /\ LogStep
  <2>1. IsBatch(TransactionBatch(p, n), sequence[p], n) /\ n \in Nat
    BY <1>1, TransactionIsBatch, JournalAssumption
  <2>2. CASE Write(p, TransactionBatch(p, n), n, TRUE)
    BY <2>1, <2>2, WriteStep
  <2>3. CASE WriteFails(p, TransactionBatch(p, n))
    BY <2>1, <2>3, WriteFailsStep
  <2>. QED  BY <1>3, <2>2, <2>3 DEF AppendTransaction
<1>4. ASSUME NEW p \in Recorders, Sync(p) PROVE JournalInv' /\ LogStep
  BY <1>4, SyncStep
<1>5. ASSUME NEW p \in Recorders, SyncFails(p) PROVE JournalInv' /\ LogStep
  BY <1>5, LeaveStep DEF SyncFails, Poison
<1>6. ASSUME NEW p \in Recorders, Open(p) PROVE JournalInv' /\ LogStep
  BY <1>1, <1>6, OpenStep DEF Open, Appendable, diskVars
<1>7. ASSUME NEW p \in Recorders, Load(p) PROVE JournalInv' /\ LogStep
  <2>1. loaded' \in [Recorders -> [file : Seq(Lines), ending : Endings]]
    BY <1>1, <1>7 DEF Load, TypeOK
  <2>. QED  BY <1>1, <1>7, <2>1, QuietStep DEF Load, diskVars
<1>8. ASSUME NEW p \in Recorders, OpenLoaded(p) PROVE JournalInv' /\ LogStep
  <2>1. loaded[p].file = file
    BY <1>8 DEF OpenLoaded
  <2>. QED  BY <1>1, <1>8, <2>1, OpenStep DEF OpenLoaded, Appendable, diskVars
<1>9. ASSUME NEW p \in Recorders, OpenRepaired(p) PROVE JournalInv' /\ LogStep
  <2>1. UNCHANGED file /\ ending' = "newline" /\ synced' \in synced .. Len(file)
    BY <1>1, <1>9 DEF OpenRepaired, Repaired
  <2>2. CASE Uncommitted(file)
    <3>1. UNCHANGED <<lock, recorder, sequence, writing, loaded, promised, appends>>
      BY <1>9, <2>2 DEF OpenRepaired, recorderVars
    <3>. QED  BY <1>1, <2>1, <3>1, QuietStep DEF TypeOK
  <2>3. CASE ~ Uncommitted(file)
    BY <1>9, <2>1, <2>3, OpenStep DEF OpenRepaired
  <2>. QED  BY <2>2, <2>3
<1>10. ASSUME NEW p \in Recorders, Close(p) PROVE JournalInv' /\ LogStep
  BY <1>10, LeaveStep DEF Close
<1>11. CASE PowerLoss
  BY <1>11, PowerLossStep
<1>12. CASE UNCHANGED vars
  BY <1>1, <1>12, QuietStep DEF vars, diskVars, recorderVars, TypeOK
<1>. QED  BY <1>2, <1>3, <1>4, <1>5, <1>6, <1>7, <1>8, <1>9, <1>10, <1>11, <1>12 DEF Next

-------------------------------------------------------------------------------
LEMMA Journal == Spec => []JournalInv /\ [][LogStep]_vars
<1>1. JournalInv /\ [Next]_vars => [LogStep]_vars
  BY NextJournal
<1>. QED  BY <1>1, InitJournal, NextJournal, PTL DEF Spec

(* The variables of the journal keep within their types; in particular no  *)
(* more lines are ever reported as durable than survive a loss of power.   *)
THEOREM JournalTypeCorrect == Spec => []TypeOK
BY Journal, PTL DEF JournalInv

(* After any number of failed and partial writes, deaths, losses of power  *)
(* and repairs the complete lines of the file are still a transcript       *)
(* (parse_records_content accepts them).                                   *)
THEOREM FileAlwaysParses == Spec => []FileParses
BY Journal, PTL DEF JournalInv

(* However recorders fail, are dropped and are opened anew, one has the    *)
(* file, and its sequence is the revision at which the file ends.          *)
THEOREM WriterContinuesFile == Spec => []WriterAtFrontier
BY Journal, PTL DEF JournalInv

(* A reader of the file sees a durable log: whole batches are added and    *)
(* lost, and none that was reported as durable is lost.                    *)
THEOREM JournalIsDurableLog == Spec => ImplementsDurableLog
<1>1. JournalInv /\ [Next]_vars
          => [Log!Extend \/ Log!Promise \/ Log!Lose]_(Log!logVars)
  BY NextJournal DEF LogStep, Log!logVars
<1>2. Init => Log!LogInit
  BY InitJournal
<1>. QED  BY <1>1, <1>2, Journal, PTL DEF Spec, ImplementsDurableLog, Log!LogSpec
===============================================================================
