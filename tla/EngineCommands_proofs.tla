------------------------ MODULE EngineCommands_proofs -------------------------
(***************************************************************************)
(* Theorems about the engine's command queues, for any number of controls, *)
(* models and efforts.                                                     *)
(*                                                                         *)
(* Draining the channel and flushing what a turn parked absorb a sequence  *)
(* of controls into a queue.  Three facts about a queue survive that, and  *)
(* each is proved first for one control, then for a sequence of them:      *)
(*   Sorted    its messages stand in the order of sending                  *)
(*   Shielded  a prompt that is revoked has its cancellation ahead of it   *)
(*   Chain     the settings in it lead from a value in force to another,   *)
(*             and meet each message at the value it was sent under        *)
(* The invariant Sound states them of the queues together; each part of it *)
(* has its lemmas about what one step leaves of it.                        *)
(***************************************************************************)
EXTENDS EngineCommands, SequenceTheorems, WellFoundedInduction, TLAPS

-------------------------------------------------------------------------------
(* Recursion along a sequence                                              *)

(* Every nonempty set of natural numbers has a least element.              *)
LEMMA LeastNatural ==
    ASSUME NEW T, T \subseteq Nat, T # {}
    PROVE  \E n \in T : \A k \in T : n <= k
<1>. DEFINE R == {ss \in Nat \X Nat : ss[1] < ss[2]}
<1>1. IsWellFoundedOn(R, Nat)
  BY NatLessThanWellFounded, Zenon DEF OpToRel
<1>2. \A k, n \in T : k < n => <<k, n>> \in R
  OBVIOUS
<1>. HIDE DEF R
<1>3. PICK n \in T : \A k \in T : ~ (<<k, n>> \in R)
  BY <1>1, WFMin, Zenon
<1>4. \A k \in T : ~ (k < n)
  BY <1>2, <1>3, Zenon
<1>. QED  BY <1>4

(* What holds at 0 and passes from each index to the next holds up to n.   *)
LEMMA UpTo ==
    ASSUME NEW n \in Nat, NEW T, 0 \in T, \A i \in 1 .. n : i - 1 \in T => i \in T
    PROVE  \A i \in 0 .. n : i \in T
<1>. DEFINE Rest == {i \in 0 .. n : i \notin T}
<1>1. SUFFICES ASSUME Rest # {} PROVE FALSE
  OBVIOUS
<1>2. PICK i \in Rest : \A j \in Rest : i <= j
  <2>1. Rest \subseteq Nat
    OBVIOUS
  <2>. HIDE DEF Rest
  <2>. QED  BY <1>1, <2>1, LeastNatural
<1>3. i \in 1 .. n /\ i - 1 \in 0 .. n /\ ~ (i - 1 \in Rest)
  BY <1>2
<1>. QED  BY <1>2, <1>3

(* A function that starts with b and takes step g for each entry of ss.    *)
Steps(g, b, ss, n, f) ==
    f = [i \in 0 .. n |-> IF i = 0 THEN b ELSE g[<<f[i - 1], ss[i]>>]]

LEMMA StepsExtend ==
    ASSUME NEW g, NEW b, NEW ss, NEW n \in Nat, NEW f, Steps(g, b, ss, n, f)
    PROVE  \E h : Steps(g, b, ss, n + 1, h)
<1>. DEFINE h == [i \in 0 .. n + 1 |-> IF i = 0 THEN b ELSE g[<<f[i - 1], ss[i]>>]]
<1>1. \A i \in 0 .. n : f[i] = IF i = 0 THEN b ELSE g[<<f[i - 1], ss[i]>>]
  BY DEF Steps
<1>2. \A i \in 0 .. n : h[i] = f[i]
  BY <1>1
<1>3. \A i \in 0 .. n + 1 : i # 0 => h[i - 1] = f[i - 1]
  BY <1>2
<1>4. h = [i \in 0 .. n + 1 |-> IF i = 0 THEN b ELSE g[<<h[i - 1], ss[i]>>]]
  <2>. DEFINE k == [i \in 0 .. n + 1 |-> IF i = 0 THEN b ELSE g[<<h[i - 1], ss[i]>>]]
  <2>1. \A i \in 0 .. n + 1 : h[i] = k[i]
    BY <1>3
  <2>. QED  BY <2>1
<1>. QED  BY <1>4 DEF Steps

LEMMA StepsExist ==
    ASSUME NEW g, NEW b, NEW ss, NEW n \in Nat
    PROVE  \E f : Steps(g, b, ss, n, f)
<1>. DEFINE T == {i \in Nat : \E f : Steps(g, b, ss, i, f)}
<1>1. 0 \in T
  <2>. DEFINE f == [i \in 0 .. 0 |-> b]
  <2>1. Steps(g, b, ss, 0, f)
    BY DEF Steps
  <2>. QED  BY <2>1
<1>2. \A i \in 1 .. n : i - 1 \in T => i \in T
  <2>1. SUFFICES ASSUME NEW i \in 1 .. n, i - 1 \in T PROVE i \in T
    OBVIOUS
  <2>2. PICK j \in Nat : j = i - 1
    OBVIOUS
  <2>3. PICK f : Steps(g, b, ss, j, f)
    BY <2>1, <2>2
  <2>4. \E h : Steps(g, b, ss, j + 1, h)
    BY <2>3, StepsExtend
  <2>5. j + 1 = i
    BY <2>2
  <2>. QED  BY <2>4, <2>5
<1>3. \A i \in 0 .. n : i \in T
  <2>. HIDE DEF T
  <2>. QED  BY <1>1, <1>2, UpTo
<1>. QED  BY <1>3

-------------------------------------------------------------------------------
(* Queues with some of their commands taken out                            *)

(* The entries of r are those of the first n of queue that are not in S, in *)
(* the same order; h says where each one stood.                             *)
Thins(r, queue, n, S, h) ==
    /\ r \in Seq(Command)
    /\ h \in [1 .. Len(r) -> 1 .. n]
    /\ \A a, b \in 1 .. Len(r) : a < b => h[a] < h[b]
    /\ \A a \in 1 .. Len(r) : r[a] = queue[h[a]] /\ r[a] \notin S
    /\ \A j \in 1 .. n : queue[j] \notin S => \E a \in 1 .. Len(r) : h[a] = j

Thinned(r, queue, S) == \E h : Thins(r, queue, Len(queue), S, h)

LEMMA ThinsStep ==
    ASSUME NEW queue \in Seq(Command), NEW S, NEW i \in 1 .. Len(queue),
           NEW r, NEW h, Thins(r, queue, i - 1, S, h)
    PROVE  \E g : Thins(IF queue[i] \in S THEN r ELSE Append(r, queue[i]), queue, i, S, g)
<1>1. /\ r \in Seq(Command) /\ Len(r) \in Nat
      /\ h \in [1 .. Len(r) -> 1 .. i - 1]
      /\ queue[i] \in Command
      /\ \A a \in 1 .. Len(r) : h[a] \in 1 .. i - 1
  <2>1. r \in Seq(Command) /\ h \in [1 .. Len(r) -> 1 .. i - 1]
    BY DEF Thins
  <2>2. queue[i] \in Command
    OBVIOUS
  <2>. QED  BY <2>1, <2>2
<1>2. CASE queue[i] \in S
  <2>1. h \in [1 .. Len(r) -> 1 .. i]
    <3>1. \A a \in 1 .. Len(r) : h[a] \in 1 .. i
      BY <1>1
    <3>. QED  BY <1>1, <3>1
  <2>2. Thins(r, queue, i, S, h)
    BY <1>2, <2>1 DEF Thins
  <2>. QED  BY <1>2, <2>2
<1>3. CASE queue[i] \notin S
  <2>1. PICK n \in Nat : n = Len(r)
    BY <1>1
  <2>2. PICK s \in Seq(Command) : s = Append(r, queue[i])
    BY <1>1, AppendProperties
  <2>3. /\ Len(s) = n + 1 /\ s[n + 1] = queue[i]
        /\ \A a \in 1 .. n : s[a] = r[a]
    BY <1>1, <2>1, <2>2, AppendProperties
  <2>. DEFINE g == [a \in 1 .. n + 1 |-> IF a = n + 1 THEN i ELSE h[a]]
  <2>4. g \in [1 .. n + 1 -> 1 .. i]
    BY <1>1, <2>1
  <2>5. /\ g[n + 1] = i
        /\ \A a \in 1 .. n : g[a] = h[a] /\ h[a] < i
    BY <1>1, <2>1
  <2>. HIDE DEF g
  <2>6. \A a, b \in 1 .. n + 1 : a < b => g[a] < g[b]
    <3>1. SUFFICES ASSUME NEW a \in 1 .. n + 1, NEW b \in 1 .. n + 1, a < b
                   PROVE  g[a] < g[b]
      OBVIOUS
    <3>2. a \in 1 .. n
      BY <3>1
    <3>3. CASE b = n + 1
      BY <2>5, <3>2, <3>3
    <3>4. CASE b \in 1 .. n
      BY <2>1, <2>5, <3>1, <3>2, <3>4 DEF Thins
    <3>. QED  BY <3>3, <3>4
  <2>7. \A a \in 1 .. n + 1 : s[a] = queue[g[a]] /\ s[a] \notin S
    <3>1. SUFFICES ASSUME NEW a \in 1 .. n + 1 PROVE s[a] = queue[g[a]] /\ s[a] \notin S
      OBVIOUS
    <3>2. CASE a = n + 1
      BY <1>3, <2>3, <2>5, <3>2
    <3>3. CASE a \in 1 .. n
      BY <2>1, <2>3, <2>5, <3>3 DEF Thins
    <3>. QED  BY <3>2, <3>3
  <2>8. \A j \in 1 .. i : queue[j] \notin S => \E a \in 1 .. n + 1 : g[a] = j
    <3>1. SUFFICES ASSUME NEW j \in 1 .. i, queue[j] \notin S
                   PROVE  \E a \in 1 .. n + 1 : g[a] = j
      OBVIOUS
    <3>2. CASE j = i
      BY <2>5, <3>2
    <3>3. CASE j \in 1 .. i - 1
      <4>1. PICK a \in 1 .. n : h[a] = j
        BY <2>1, <3>1, <3>3 DEF Thins
      <4>. QED  BY <2>5, <4>1
    <3>. QED  BY <3>2, <3>3
  <2>9. Thins(s, queue, i, S, g)
    BY <2>2, <2>3, <2>4, <2>6, <2>7, <2>8 DEF Thins
  <2>. QED  BY <1>3, <2>2, <2>9
<1>. QED  BY <1>2, <1>3

(* What Dropping computes is such a queue.                                 *)
LEMMA DroppingThins ==
    ASSUME NEW queue \in Seq(Command), NEW S
    PROVE  Thinned(Dropping(queue, S), queue, S)
<1>. DEFINE n == Len(queue)
            keep(before, c) == IF c \in S THEN before ELSE Append(before, c)
            g == [p \in Seq(Command) \X Command |-> keep(p[1], p[2])]
            Kept(f) == f = [i \in 0 .. n |-> IF i = 0 THEN <<>>
                                             ELSE keep(f[i - 1], queue[i])]
<1>1. n \in Nat /\ \A i \in 1 .. n : queue[i] \in Command
  OBVIOUS
<1>2. \E f : Kept(f)
  <2>1. PICK f : Steps(g, <<>>, queue, n, f)
    BY <1>1, StepsExist
  <2>. DEFINE T == {i \in 0 .. n : f[i] \in Seq(Command)}
  <2>2. /\ f[0] = <<>>
        /\ \A i \in 1 .. n : f[i] = g[<<f[i - 1], queue[i]>>]
    <3>. HIDE DEF g
    <3>. QED  BY <1>1, <2>1 DEF Steps
  <2>3. \A i \in 1 .. n : f[i - 1] \in Seq(Command) => f[i] = keep(f[i - 1], queue[i])
    <3>1. \A b \in Seq(Command), c \in Command : g[<<b, c>>] = keep(b, c)
      <4>. HIDE DEF keep
      <4>. QED  OBVIOUS
    <3>. HIDE DEF g, keep
    <3>. QED  BY <1>1, <2>2, <3>1
  <2>4. 0 \in T
    <3>1. f[0] \in Seq(Command)
      BY <2>2
    <3>. QED  BY <1>1, <3>1
  <2>5. \A i \in 1 .. n : i - 1 \in T => i \in T
    <3>1. \A b \in Seq(Command), c \in Command : keep(b, c) \in Seq(Command)
      OBVIOUS
    <3>2. \A i \in 1 .. n : i \in 0 .. n
      OBVIOUS
    <3>. HIDE DEF keep
    <3>. QED  BY <1>1, <2>3, <3>1, <3>2
  <2>6. \A i \in 0 .. n : i \in T
    <3>. HIDE DEF T
    <3>. QED  BY <1>1, <2>4, <2>5, UpTo
  <2>7. \A i \in 1 .. n : f[i] = keep(f[i - 1], queue[i])
    <3>1. \A i \in 1 .. n : i - 1 \in 0 .. n
      OBVIOUS
    <3>. QED  BY <2>3, <2>6, <3>1
  <2>8. f = [i \in 0 .. n |-> IF i = 0 THEN <<>> ELSE g[<<f[i - 1], queue[i]>>]]
    BY <2>1 DEF Steps
  <2>9. f = [i \in 0 .. n |-> IF i = 0 THEN <<>> ELSE keep(f[i - 1], queue[i])]
    <3>. DEFINE k == [i \in 0 .. n |-> IF i = 0 THEN <<>> ELSE keep(f[i - 1], queue[i])]
    <3>1. \A i \in 0 .. n : f[i] = k[i]
      BY <2>2, <2>7
    <3>. HIDE DEF g, keep
    <3>2. DOMAIN f = 0 .. n
      BY <2>8
    <3>. HIDE DEF k
    <3>3. f = [i \in 0 .. n |-> f[i]]
      BY <2>8
    <3>4. k = [i \in 0 .. n |-> k[i]]
      BY DEF k
    <3>. QED  BY <3>1, <3>3, <3>4 DEF k
  <2>. QED  BY <2>9
<1>3. PICK f : Kept(f) /\ Dropping(queue, S) = f[n]
  BY <1>2 DEF Dropping
<1>4. /\ f[0] = <<>>
      /\ \A i \in 1 .. n : f[i] = IF queue[i] \in S THEN f[i - 1] ELSE Append(f[i - 1], queue[i])
  <2>. DEFINE k(i) == IF i = 0 THEN <<>> ELSE keep(f[i - 1], queue[i])
  <2>1. f = [i \in 0 .. n |-> k(i)]
    BY <1>3
  <2>2. \A i \in 0 .. n : f[i] = k(i)
    <3>. HIDE DEF k
    <3>. QED  BY <2>1
  <2>3. 0 \in 0 .. n /\ \A i \in 1 .. n : i \in 0 .. n /\ i # 0
    BY <1>1
  <2>4. f[0] = <<>>
    BY <2>2, <2>3
  <2>5. \A i \in 1 .. n : f[i] = keep(f[i - 1], queue[i])
    <3>. HIDE DEF keep
    <3>. QED  BY <2>2, <2>3
  <2>. QED  BY <2>4, <2>5
<1>. DEFINE T == {i \in 0 .. n : \E h : Thins(f[i], queue, i, S, h)}
<1>5. 0 \in T
  <2>. DEFINE h == [a \in 1 .. 0 |-> a]
  <2>1. Thins(<<>>, queue, 0, S, h)
    BY DEF Thins
  <2>. QED  BY <1>4, <2>1
<1>6. \A i \in 1 .. n : i - 1 \in T => i \in T
  BY <1>4, ThinsStep
<1>7. \A i \in 0 .. n : i \in T
  <2>. HIDE DEF T
  <2>. QED  BY <1>1, <1>5, <1>6, UpTo
<1>. QED  BY <1>1, <1>3, <1>7 DEF Thinned

-------------------------------------------------------------------------------
(* Controls and the queue operations                                       *)

Keys == {"model", "effort"}

IsMessage(c) == c.kind \in MessageKinds
Cancels(c) == c.kind \in {"withdraw", "cancel"}
Sets(c, key) == c.kind = "set" /\ c.key = key

(* What the loop receives before the shutdown.                             *)
Accepted == {c \in Control : c.kind # "shutdown"}

LEMMA ControlKinds ==
    ASSUME NEW c \in Control
    PROVE  /\ c.kind \in MessageKinds \cup {"set", "withdraw", "cancel", "compact", "interrupt", "shutdown"}
           /\ IsMessage(c) => c \in Message
           /\ c.kind = "set" => c.key \in Keys
           /\ Sets(c, "model") => c.value \in Models
           /\ Sets(c, "effort") => c.value \in Efforts
           /\ Cancels(c) => c.id \in 1 .. MaxControls
<1>1. CASE c \in Message
  <2>1. c.kind \in MessageKinds
    BY <1>1 DEF Message
  <2>. QED  BY <1>1, <2>1 DEF IsMessage, Cancels, Sets, MessageKinds
<1>2. CASE c \in [kind : {"set"}, key : {"model"}, value : Models]
  BY <1>2 DEF IsMessage, Cancels, Sets, MessageKinds, Keys
<1>3. CASE c \in [kind : {"set"}, key : {"effort"}, value : Efforts]
  BY <1>3 DEF IsMessage, Cancels, Sets, MessageKinds, Keys
<1>4. CASE c \in [kind : {"withdraw", "cancel"}, id : 1 .. MaxControls]
  BY <1>4 DEF IsMessage, Cancels, Sets, MessageKinds
<1>5. CASE c \in [kind : {"compact", "interrupt", "shutdown"}]
  BY <1>5 DEF IsMessage, Cancels, Sets, MessageKinds
<1>. QED  BY <1>1, <1>2, <1>3, <1>4, <1>5 DEF Control

LEMMA CommandKinds ==
    ASSUME NEW c \in Command
    PROVE  /\ c \in Control
           /\ c.kind \in MessageKinds \cup {"set", "withdraw", "cancel", "compact"}
           /\ c.kind \notin Signals
BY ControlKinds, Zenon DEF Command, Signals

LEMMA AcceptedKinds ==
    ASSUME NEW c \in Accepted
    PROVE  /\ c \in Control
           /\ c.kind # "interrupt" => c \in Command
BY DEF Accepted, Command, Signals

LEMMA MessagesAreCommands == Message \subseteq Command
<1>1. SUFFICES ASSUME NEW m \in Message PROVE m \in Command
  OBVIOUS
<1>2. m.kind \in MessageKinds /\ m \in Control
  BY DEF Message, Control
<1>. QED  BY <1>2 DEF Command, Signals, MessageKinds

LEMMA GreatestIndex ==
    ASSUME NEW n \in Nat, NEW T, T \subseteq 1 .. n, T # {}
    PROVE  Max(T) \in T /\ \A i \in T : i <= Max(T)
<1>. DEFINE Above == {k \in Nat : \A i \in T : i <= k}
<1>1. n \in Above
  OBVIOUS
<1>2. PICK k \in Above : \A j \in Above : k <= j
  <2>1. Above \subseteq Nat /\ Above # {}
    BY <1>1
  <2>. HIDE DEF Above
  <2>. QED  BY <2>1, LeastNatural
<1>3. k \in T
  <2>1. SUFFICES ASSUME k \notin T PROVE FALSE
    OBVIOUS
  <2>2. \A i \in T : i \in Nat /\ i <= k /\ i # k
    BY <1>2, <2>1
  <2>3. \A i \in T : i <= k - 1
    BY <1>2, <2>2
  <2>4. k # 0
    <3>1. PICK i \in T : TRUE
      OBVIOUS
    <3>. QED  BY <1>2, <2>2, <3>1
  <2>5. k - 1 \in Above
    BY <1>2, <2>3, <2>4
  <2>. QED  BY <1>2, <2>5
<1>4. \E x \in T : \A y \in T : x >= y
  BY <1>2, <1>3
<1>. QED  BY <1>4 DEF Max

(* A queue with one entry taken out.                                       *)
LEMMA Removed ==
    ASSUME NEW q \in Seq(Command), NEW m \in 1 .. Len(q)
    PROVE  /\ RemoveAt(q, m) \in Seq(Command)
           /\ Len(RemoveAt(q, m)) = Len(q) - 1
           /\ \A i \in 1 .. m - 1 : RemoveAt(q, m)[i] = q[i]
           /\ \A i \in m .. Len(q) - 1 : RemoveAt(q, m)[i] = q[i + 1]
<1>1. /\ SubSeq(q, 1, m - 1) \in Seq(Command)
      /\ Len(SubSeq(q, 1, m - 1)) = m - 1
      /\ \A i \in 1 .. m - 1 : SubSeq(q, 1, m - 1)[i] = q[i]
  BY SubSeqProperties
<1>2. /\ SubSeq(q, m + 1, Len(q)) \in Seq(Command)
      /\ Len(SubSeq(q, m + 1, Len(q))) = Len(q) - m
      /\ \A i \in 1 .. Len(q) - m : SubSeq(q, m + 1, Len(q))[i] = q[m + i]
  BY SubSeqProperties
<1>3. PICK a \in Seq(Command), b \in Seq(Command) :
          a = SubSeq(q, 1, m - 1) /\ b = SubSeq(q, m + 1, Len(q))
  BY <1>1, <1>2
<1>4. /\ a \o b \in Seq(Command)
      /\ Len(a \o b) = Len(a) + Len(b)
      /\ \A i \in 1 .. Len(a) + Len(b) : (a \o b)[i] = IF i <= Len(a) THEN a[i] ELSE b[i - Len(a)]
  BY ConcatProperties
<1>5. Len(a) = m - 1 /\ Len(b) = Len(q) - m
  BY <1>1, <1>2, <1>3
<1>6. RemoveAt(q, m) = a \o b
  BY <1>3 DEF RemoveAt
<1>. DEFINE r == RemoveAt(q, m)
<1>7. r \in Seq(Command) /\ Len(r) = Len(q) - 1
  BY <1>4, <1>5, <1>6
<1>8. \A i \in 1 .. Len(q) - 1 : r[i] = IF i < m THEN a[i] ELSE b[i - m + 1]
  <2>1. SUFFICES ASSUME NEW i \in 1 .. Len(q) - 1
                 PROVE  r[i] = IF i < m THEN a[i] ELSE b[i - m + 1]
    OBVIOUS
  <2>2. /\ i \in 1 .. Len(a) + Len(b)
        /\ i <= Len(a) <=> i < m
        /\ i - Len(a) = i - m + 1
    BY <1>5
  <2>. QED  BY <1>4, <1>6, <2>2
<1>9. \A i \in 1 .. m - 1 : r[i] = q[i]
  BY <1>1, <1>3, <1>8
<1>10. \A i \in m .. Len(q) - 1 : r[i] = q[i + 1]
  <2>1. SUFFICES ASSUME NEW i \in m .. Len(q) - 1 PROVE r[i] = q[i + 1]
    OBVIOUS
  <2>2. r[i] = b[i - m + 1] /\ i - m + 1 \in 1 .. Len(q) - m
    BY <1>8
  <2>. QED  BY <1>2, <1>3, <2>2
<1>. QED  BY <1>7, <1>9, <1>10

-------------------------------------------------------------------------------
(* What one received control does to a queue                               *)

PeersIn(queue) == {c \in ToSet(queue) : c.kind \in Peers}
Named(queue, id) == {c \in ToSet(queue) : c.kind = "prompt" /\ c.id = id}

LEMMA WithoutThins ==
    ASSUME NEW queue \in Seq(Command), NEW id
    PROVE  Thinned(Without(queue, id), queue, Named(queue, id))
BY DroppingThins DEF Without, Named

LEMMA WithoutPeersThins ==
    ASSUME NEW queue \in Seq(Command)
    PROVE  Thinned(WithoutPeers(queue), queue, PeersIn(queue))
BY DroppingThins DEF WithoutPeers, PeersIn

LEMMA ThinnedType ==
    ASSUME NEW r, NEW queue, NEW S, Thinned(r, queue, S)
    PROVE  r \in Seq(Command)
BY DEF Thinned, Thins

LEMMA WithoutType ==
    ASSUME NEW queue \in Seq(Command), NEW id
    PROVE  Without(queue, id) \in Seq(Command)
BY WithoutThins, ThinnedType

(* A setting is put at the end; the one it replaces, if any, stands in the  *)
(* trailing run of settings.                                                *)
LEMMA EnqueueSettingForms ==
    ASSUME NEW queue \in Seq(Command), NEW c \in Command, c.kind = "set"
    PROVE  \/ EnqueueSetting(queue, c) = Append(queue, c)
           \/ \E m \in 1 .. Len(queue) :
                 /\ Sets(queue[m], c.key)
                 /\ \A j \in m .. Len(queue) : queue[j].kind = "set"
                 /\ EnqueueSetting(queue, c) = Append(RemoveAt(queue, m), c)
<1>. DEFINE old == Superseded(queue, c)
<1>1. CASE old = {}
  BY <1>1 DEF EnqueueSetting
<1>2. CASE old # {}
  <2>1. old \subseteq 1 .. Len(queue) /\ Len(queue) \in Nat
    BY DEF Superseded
  <2>2. PICK m \in old : m = Max(old)
    <3>. HIDE DEF old
    <3>. QED  BY <1>2, <2>1, GreatestIndex
  <2>3. EnqueueSetting(queue, c) = Append(RemoveAt(queue, m), c)
    BY <1>2, <2>2 DEF EnqueueSetting
  <2>4. /\ Sets(queue[m], c.key)
        /\ \A j \in m .. Len(queue) : queue[j].kind = "set"
    BY DEF Superseded, Sets
  <2>. QED  BY <2>1, <2>3, <2>4
<1>. QED  BY <1>1, <1>2

LEMMA AbsorbForms ==
    ASSUME NEW queue \in Seq(Command), NEW c \in Accepted
    PROVE  \/ /\ c.kind = "interrupt"
              /\ Absorb(queue, c) = WithoutPeers(queue)
           \/ /\ c.kind = "cancel" /\ c \in Command
              /\ Absorb(queue, c) = <<c>> \o queue
           \/ /\ c.kind = "withdraw" /\ c \in Command
              /\ Absorb(queue, c) = Append(Without(queue, c.id), c)
           \/ /\ c.kind = "set" /\ c \in Command
              /\ Absorb(queue, c) = EnqueueSetting(queue, c)
           \/ /\ c.kind \in MessageKinds \cup {"compact"} /\ c \in Command
              /\ Absorb(queue, c) = Append(queue, c)
<1>1. c \in Control /\ (c.kind # "interrupt" => c \in Command)
  BY AcceptedKinds
<1>2. c.kind # "interrupt" => c.kind \in MessageKinds \cup {"set", "withdraw", "cancel", "compact"}
  BY <1>1, CommandKinds
<1>3. CASE c.kind = "interrupt"
  BY <1>3 DEF Absorb
<1>4. CASE c.kind # "interrupt"
  BY <1>1, <1>2, <1>4 DEF Absorb, Enqueue, MessageKinds
<1>. QED  BY <1>3, <1>4

LEMMA AbsorbType ==
    ASSUME NEW queue \in Seq(Command), NEW c \in Accepted
    PROVE  Absorb(queue, c) \in Seq(Command)
<1>1. CASE Absorb(queue, c) = WithoutPeers(queue)
  BY <1>1, WithoutPeersThins, ThinnedType
<1>2. CASE c \in Command /\ Absorb(queue, c) = <<c>> \o queue
  <2>1. <<c>> \in Seq(Command)
    BY <1>2
  <2>. QED  BY <1>2, <2>1, ConcatProperties
<1>3. CASE c \in Command /\ Absorb(queue, c) = Append(Without(queue, c.id), c)
  BY <1>3, WithoutType, AppendProperties
<1>4. CASE c.kind = "set" /\ c \in Command /\ Absorb(queue, c) = EnqueueSetting(queue, c)
  <2>1. CASE EnqueueSetting(queue, c) = Append(queue, c)
    BY <1>4, <2>1, AppendProperties
  <2>2. ASSUME NEW m \in 1 .. Len(queue),
               EnqueueSetting(queue, c) = Append(RemoveAt(queue, m), c)
        PROVE  Absorb(queue, c) \in Seq(Command)
    <3>1. PICK r \in Seq(Command) : r = RemoveAt(queue, m)
      BY Removed
    <3>. QED  BY <1>4, <2>2, <3>1, AppendProperties
  <2>. QED  BY <1>4, <2>1, <2>2, EnqueueSettingForms
<1>5. CASE c \in Command /\ Absorb(queue, c) = Append(queue, c)
  BY <1>5, AppendProperties
<1>. QED  BY <1>1, <1>2, <1>3, <1>4, <1>5, AbsorbForms

(* A sequence of controls is absorbed one by one.                          *)
Absorbs(queue, controls, f) ==
    /\ f[0] = queue
    /\ \A i \in 1 .. Len(controls) : f[i] = Absorb(f[i - 1], controls[i])
    /\ \A i \in 0 .. Len(controls) : f[i] \in Seq(Command)

LEMMA AbsorbAllSteps ==
    ASSUME NEW queue \in Seq(Command), NEW controls \in Seq(Accepted)
    PROVE  \E f : Absorbs(queue, controls, f) /\ AbsorbAll(queue, controls) = f[Len(controls)]
<1>. DEFINE n == Len(controls)
            next(before, c) == Absorb(before, c)
            g == [p \in Seq(Command) \X Accepted |-> next(p[1], p[2])]
            chosen(q, c) == CHOOSE r \in {Absorb(before, c) : before \in {q}} : TRUE
            step(f, i) == IF i = 0 THEN queue ELSE chosen(f[i - 1], controls[i])
<1>1. n \in Nat /\ \A i \in 1 .. n : controls[i] \in Accepted
  OBVIOUS
<1>2. 0 \in 0 .. n /\ \A i \in 1 .. n : i \in 0 .. n /\ i # 0 /\ i - 1 \in 0 .. n
  BY <1>1
<1>3. \A q, c : chosen(q, c) = Absorb(q, c)
  OBVIOUS
<1>4. \A q \in Seq(Command), c \in Accepted : Absorb(q, c) \in Seq(Command)
  BY AbsorbType
<1>. HIDE DEF chosen
<1>5. \E f : f = [i \in 0 .. n |-> step(f, i)]
  <2>1. PICK f : Steps(g, queue, controls, n, f)
    BY <1>1, StepsExist
  <2>. DEFINE k(i) == IF i = 0 THEN queue ELSE g[<<f[i - 1], controls[i]>>]
              T == {i \in 0 .. n : f[i] \in Seq(Command)}
  <2>2. f = [i \in 0 .. n |-> k(i)]
    BY <2>1 DEF Steps
  <2>3. \A i \in 0 .. n : f[i] = k(i)
    <3>. HIDE DEF k
    <3>. QED  BY <2>2
  <2>4. f[0] = queue /\ \A i \in 1 .. n : f[i] = g[<<f[i - 1], controls[i]>>]
    <3>. HIDE DEF g
    <3>. QED  BY <1>2, <2>3
  <2>5. \A q \in Seq(Command), c \in Accepted : g[<<q, c>>] = Absorb(q, c)
    <3>1. \A q \in Seq(Command), c \in Accepted : g[<<q, c>>] = next(q, c)
      <4>. HIDE DEF next
      <4>. QED  OBVIOUS
    <3>2. \A q, c : next(q, c) = Absorb(q, c)
      OBVIOUS
    <3>. HIDE DEF g, next
    <3>3. SUFFICES ASSUME NEW q \in Seq(Command), NEW c \in Accepted
                   PROVE  g[<<q, c>>] = Absorb(q, c)
      BY Zenon
    <3>. QED  BY <3>1, <3>2, Zenon
  <2>. HIDE DEF g
  <2>6. 0 \in T
    BY <1>2, <2>4
  <2>7. \A i \in 1 .. n : i - 1 \in T => i \in T
    <3>1. SUFFICES ASSUME NEW i \in 1 .. n, f[i - 1] \in Seq(Command)
                   PROVE  f[i] \in Seq(Command)
      BY <1>2
    <3>2. f[i] = g[<<f[i - 1], controls[i]>>] /\ controls[i] \in Accepted
      BY <1>1, <2>4
    <3>3. f[i] = Absorb(f[i - 1], controls[i])
      BY <2>5, <3>1, <3>2, Zenon
    <3>. QED  BY <1>4, <3>1, <3>2, <3>3, Zenon
  <2>8. \A i \in 0 .. n : f[i] \in Seq(Command)
    <3>1. \A i \in 0 .. n : i \in T
      <4>. HIDE DEF T
      <4>. QED  BY <1>1, <2>6, <2>7, UpTo
    <3>. QED  BY <3>1
  <2>9. \A i \in 0 .. n : k(i) = step(f, i)
    <3>1. SUFFICES ASSUME NEW i \in 0 .. n, i # 0
                   PROVE  g[<<f[i - 1], controls[i]>>] = chosen(f[i - 1], controls[i])
      OBVIOUS
    <3>2. i \in 1 .. n /\ i - 1 \in 0 .. n
      BY <3>1
    <3>. QED  BY <1>1, <1>3, <2>5, <2>8, <3>2
  <2>10. f = [i \in 0 .. n |-> step(f, i)]
    <3>. HIDE DEF k, step
    <3>. QED  BY <2>2, <2>9
  <2>. QED  BY <2>10
<1>6. PICK f : f = [i \in 0 .. n |-> step(f, i)] /\ AbsorbAll(queue, controls) = f[n]
  BY <1>5 DEF AbsorbAll, chosen
<1>7. \A i \in 0 .. n : f[i] = step(f, i)
  <2>. HIDE DEF step
  <2>. QED  BY <1>6
<1>8. f[0] = queue /\ \A i \in 1 .. n : f[i] = Absorb(f[i - 1], controls[i])
  BY <1>2, <1>3, <1>7
<1>. DEFINE T == {i \in 0 .. n : f[i] \in Seq(Command)}
<1>9. 0 \in T
  BY <1>2, <1>8
<1>10. \A i \in 1 .. n : i - 1 \in T => i \in T
  <2>1. SUFFICES ASSUME NEW i \in 1 .. n, f[i - 1] \in Seq(Command)
                 PROVE  f[i] \in Seq(Command)
    BY <1>2
  <2>. QED  BY <1>1, <1>4, <1>8, <2>1
<1>11. \A i \in 0 .. n : f[i] \in Seq(Command)
  <2>1. \A i \in 0 .. n : i \in T
    <3>. HIDE DEF T
    <3>. QED  BY <1>1, <1>9, <1>10, UpTo
  <2>. QED  BY <2>1
<1>. QED  BY <1>6, <1>8, <1>11 DEF Absorbs

-------------------------------------------------------------------------------
(* What queues hold, and in which order                                    *)

(* The messages of a queue stand in the order of their numbers.            *)
Sorted(queue) ==
    \A i, j \in DOMAIN queue :
        i < j /\ IsMessage(queue[i]) /\ IsMessage(queue[j]) => queue[i].id < queue[j].id

(* Every message of S was sent before every message of T.                  *)
Before(S, T) ==
    \A a \in S, b \in T : IsMessage(a) /\ IsMessage(b) => a.id < b.id

LEMMA Entries ==
    ASSUME NEW queue \in Seq(Control)
    PROVE  /\ \A i \in 1 .. Len(queue) : queue[i] \in ToSet(queue)
           /\ \A c \in ToSet(queue) : \E i \in 1 .. Len(queue) : queue[i] = c
           /\ ToSet(queue) \subseteq Control
BY DEF ToSet

LEMMA QueuesHoldControls == Seq(Command) \subseteq Seq(Control) /\ Seq(Accepted) \subseteq Seq(Control)
BY DEF Command, Accepted

LEMMA Appended ==
    ASSUME NEW queue \in Seq(Control), NEW c \in Control
    PROVE  /\ ToSet(Append(queue, c)) = ToSet(queue) \cup {c}
           /\ Sorted(queue) /\ Before(ToSet(queue), {c}) => Sorted(Append(queue, c))
<1>1. PICK n \in Nat : n = Len(queue)
  OBVIOUS
<1>2. PICK r \in Seq(Control) : r = Append(queue, c)
  BY AppendProperties
<1>3. /\ Len(r) = n + 1 /\ r[n + 1] = c
      /\ \A i \in 1 .. n : r[i] = queue[i]
  BY <1>1, <1>2, AppendProperties
<1>4. DOMAIN r = 1 .. n + 1 /\ DOMAIN queue = 1 .. n
  BY <1>1, <1>3
<1>5. ToSet(r) = ToSet(queue) \cup {c}
  <2>1. ASSUME NEW e \in ToSet(r) PROVE e \in ToSet(queue) \cup {c}
    <3>1. PICK i \in 1 .. n + 1 : e = r[i]
      BY <1>4 DEF ToSet
    <3>. QED  BY <1>3, <1>4, <3>1 DEF ToSet
  <2>2. ASSUME NEW e \in ToSet(queue) \cup {c} PROVE e \in ToSet(r)
    <3>1. \E i \in 1 .. n + 1 : e = r[i]
      BY <1>3, <1>4 DEF ToSet
    <3>. QED  BY <1>4, <3>1 DEF ToSet
  <2>. QED  BY <2>1, <2>2
<1>6. ASSUME Sorted(queue), Before(ToSet(queue), {c}) PROVE Sorted(r)
  <2>1. SUFFICES ASSUME NEW i \in 1 .. n + 1, NEW j \in 1 .. n + 1, i < j,
                        IsMessage(r[i]), IsMessage(r[j])
                 PROVE  r[i].id < r[j].id
    BY <1>4 DEF Sorted
  <2>2. i \in 1 .. n /\ r[i] = queue[i] /\ queue[i] \in ToSet(queue)
    BY <1>1, <1>3, <2>1, Entries
  <2>3. CASE j = n + 1
    BY <1>3, <1>6, <2>1, <2>2, <2>3 DEF Before
  <2>4. CASE j \in 1 .. n
    BY <1>3, <1>4, <1>6, <2>1, <2>2, <2>4 DEF Sorted
  <2>. QED  BY <2>3, <2>4
<1>. QED  BY <1>2, <1>5, <1>6

LEMMA Joined ==
    ASSUME NEW q \in Seq(Control), NEW r \in Seq(Control)
    PROVE  /\ q \o r \in Seq(Control)
           /\ ToSet(q \o r) = ToSet(q) \cup ToSet(r)
           /\ Sorted(q) /\ Sorted(r) /\ Before(ToSet(q), ToSet(r)) => Sorted(q \o r)
<1>1. PICK m \in Nat, n \in Nat : m = Len(q) /\ n = Len(r)
  OBVIOUS
<1>2. PICK s \in Seq(Control) : s = q \o r
  BY ConcatProperties
<1>3. /\ Len(s) = m + n
      /\ \A i \in 1 .. m : s[i] = q[i]
      /\ \A i \in 1 .. n : s[m + i] = r[i]
      /\ \A i \in 1 .. m + n : i \notin 1 .. m => i - m \in 1 .. n /\ s[i] = r[i - m]
  BY <1>1, <1>2, ConcatProperties
<1>4. DOMAIN s = 1 .. m + n /\ DOMAIN q = 1 .. m /\ DOMAIN r = 1 .. n
  BY <1>1, <1>3
<1>5. ToSet(s) = ToSet(q) \cup ToSet(r)
  <2>1. ASSUME NEW e \in ToSet(s) PROVE e \in ToSet(q) \cup ToSet(r)
    <3>1. PICK i \in 1 .. m + n : e = s[i]
      BY <1>4 DEF ToSet
    <3>2. CASE i \in 1 .. m
      <4>1. e = q[i]
        BY <1>3, <3>1, <3>2
      <4>. QED  BY <1>4, <3>2, <4>1, Zenon DEF ToSet
    <3>3. CASE i \notin 1 .. m
      <4>1. i - m \in 1 .. n /\ e = r[i - m]
        BY <1>3, <3>1, <3>3, Zenon
      <4>. QED  BY <1>4, <4>1, Zenon DEF ToSet
    <3>. QED  BY <3>2, <3>3
  <2>2. ASSUME NEW i \in 1 .. m PROVE q[i] \in ToSet(s)
    <3>1. i \in 1 .. m + n
      OBVIOUS
    <3>2. s[i] = q[i]
      BY <1>3, Zenon
    <3>. QED  BY <1>4, <3>1, <3>2, Zenon DEF ToSet
  <2>3. ASSUME NEW i \in 1 .. n PROVE r[i] \in ToSet(s)
    <3>1. m + i \in 1 .. m + n
      OBVIOUS
    <3>2. s[m + i] = r[i]
      BY <1>3, Zenon
    <3>. QED  BY <1>4, <3>1, <3>2, Zenon DEF ToSet
  <2>. QED  BY <1>4, <2>1, <2>2, <2>3 DEF ToSet
<1>6. ASSUME Sorted(q), Sorted(r), Before(ToSet(q), ToSet(r)) PROVE Sorted(s)
  <2>1. SUFFICES ASSUME NEW i \in 1 .. m + n, NEW j \in 1 .. m + n, i < j,
                        IsMessage(s[i]), IsMessage(s[j])
                 PROVE  s[i].id < s[j].id
    BY <1>4 DEF Sorted
  <2>2. CASE j \in 1 .. m
    <3>1. i \in 1 .. m
      BY <2>1, <2>2
    <3>2. s[i] = q[i] /\ s[j] = q[j] /\ i \in DOMAIN q /\ j \in DOMAIN q
      BY <1>3, <1>4, <2>2, <3>1
    <3>. QED  BY <1>6, <2>1, <3>2 DEF Sorted
  <2>3. CASE i \in 1 .. m /\ j \notin 1 .. m
    <3>1. s[i] \in ToSet(q) /\ s[j] \in ToSet(r)
      BY <1>3, <1>4, <2>3 DEF ToSet
    <3>. QED  BY <1>6, <2>1, <3>1 DEF Before
  <2>4. CASE i \notin 1 .. m
    <3>1. /\ i - m \in 1 .. n /\ j - m \in 1 .. n /\ i - m < j - m
          /\ s[i] = r[i - m] /\ s[j] = r[j - m]
      BY <1>3, <2>1, <2>4
    <3>. QED  BY <1>4, <1>6, <2>1, <3>1 DEF Sorted
  <2>. QED  BY <2>1, <2>2, <2>3, <2>4
<1>. QED  BY <1>2, <1>5, <1>6

LEMMA Alone ==
    ASSUME NEW c \in Control
    PROVE  /\ <<c>> \in Seq(Control)
           /\ ToSet(<<c>>) = {c}
           /\ Sorted(<<c>>)
BY DEF ToSet, Sorted

LEMMA Thinning ==
    ASSUME NEW q \in Seq(Command), NEW S, NEW r, Thinned(r, q, S)
    PROVE  /\ ToSet(r) = ToSet(q) \ S
           /\ Sorted(q) => Sorted(r)
<1>1. PICK h : Thins(r, q, Len(q), S, h)
  BY DEF Thinned
<1>2. PICK m \in Nat, n \in Nat : m = Len(r) /\ n = Len(q)
  BY <1>1 DEF Thins
<1>3. /\ r \in Seq(Command) /\ DOMAIN r = 1 .. m /\ DOMAIN q = 1 .. n
      /\ \A a \in 1 .. m : h[a] \in 1 .. n /\ r[a] = q[h[a]] /\ r[a] \notin S
      /\ \A a, b \in 1 .. m : a < b => h[a] < h[b]
      /\ \A j \in 1 .. n : q[j] \notin S => \E a \in 1 .. m : h[a] = j
  BY <1>1, <1>2 DEF Thins
<1>4. ToSet(r) = ToSet(q) \ S
  <2>1. ASSUME NEW e \in ToSet(r) PROVE e \in ToSet(q) \ S
    BY <1>3 DEF ToSet
  <2>2. ASSUME NEW e \in ToSet(q) \ S PROVE e \in ToSet(r)
    <3>1. PICK j \in 1 .. n : e = q[j]
      BY <1>3 DEF ToSet
    <3>2. PICK a \in 1 .. m : h[a] = j
      BY <1>3, <3>1
    <3>. QED  BY <1>3, <3>1, <3>2 DEF ToSet
  <2>. QED  BY <2>1, <2>2
<1>5. Sorted(q) => Sorted(r)
  BY <1>3 DEF Sorted
<1>. QED  BY <1>4, <1>5

LEMMA Removing ==
    ASSUME NEW q \in Seq(Command), NEW m \in 1 .. Len(q)
    PROVE  /\ ToSet(RemoveAt(q, m)) \subseteq ToSet(q)
           /\ Sorted(q) => Sorted(RemoveAt(q, m))
<1>1. PICK n \in Nat : n = Len(q)
  OBVIOUS
<1>2. PICK r \in Seq(Command) : r = RemoveAt(q, m)
  BY Removed
<1>3. Len(r) = n - 1
  BY <1>1, <1>2, Removed
<1>. DEFINE h(i) == IF i < m THEN i ELSE i + 1
<1>4. \A i \in 1 .. n - 1 : h(i) \in 1 .. n /\ r[i] = q[h(i)]
  <2>1. /\ \A i \in 1 .. m - 1 : r[i] = q[i]
        /\ \A i \in m .. n - 1 : r[i] = q[i + 1]
    BY <1>1, <1>2, Removed
  <2>2. SUFFICES ASSUME NEW i \in 1 .. n - 1 PROVE h(i) \in 1 .. n /\ r[i] = q[h(i)]
    OBVIOUS
  <2>3. CASE i < m
    BY <1>1, <2>1, <2>3
  <2>4. CASE ~ (i < m)
    BY <1>1, <2>1, <2>4
  <2>. QED  BY <2>3, <2>4
<1>5. \A i, j \in 1 .. n - 1 : i < j => h(i) < h(j)
  OBVIOUS
<1>6. DOMAIN r = 1 .. n - 1 /\ DOMAIN q = 1 .. n
  BY <1>1, <1>3
<1>. HIDE DEF h
<1>7. ToSet(r) \subseteq ToSet(q)
  BY <1>4, <1>6 DEF ToSet
<1>8. Sorted(q) => Sorted(r)
  BY <1>4, <1>5, <1>6 DEF Sorted
<1>. QED  BY <1>2, <1>7, <1>8

LEMMA HeadAndTail ==
    ASSUME NEW q \in Seq(Control), q # <<>>
    PROVE  /\ Head(q) \in Control /\ Tail(q) \in Seq(Control)
           /\ Head(q) = q[1] /\ Len(q) \in Nat \ {0}
           /\ Len(Tail(q)) = Len(q) - 1
           /\ \A i \in 1 .. Len(q) - 1 : Tail(q)[i] = q[i + 1]
           /\ ToSet(q) = {Head(q)} \cup ToSet(Tail(q))
           /\ Sorted(q) => Sorted(Tail(q)) /\ Before({Head(q)}, ToSet(Tail(q)))
<1>1. /\ Head(q) \in Control /\ Tail(q) \in Seq(Control)
      /\ Head(q) = q[1] /\ Len(q) \in Nat \ {0}
      /\ Len(Tail(q)) = Len(q) - 1
      /\ \A i \in 1 .. Len(q) - 1 : Tail(q)[i] = q[i + 1]
  BY HeadTailProperties, EmptySeq
<1>2. PICK r \in Seq(Control) : r = Tail(q)
  BY <1>1
<1>3. PICK n \in Nat : n = Len(q) - 1
  <2>1. Len(q) - 1 \in Nat
    BY <1>1
  <2>. QED  BY <2>1, Zenon
<1>4. DOMAIN r = 1 .. n /\ DOMAIN q = 1 .. n + 1 /\ \A i \in 1 .. n : r[i] = q[i + 1]
  <2>1. Len(q) = n + 1
    BY <1>1, <1>3
  <2>3. Len(r) = n
    BY <1>1, <1>2, <1>3, Zenon
  <2>2. \A i \in 1 .. n : r[i] = q[i + 1]
    BY <1>1, <1>2, <1>3, Zenon
  <2>. QED  BY <2>3, <2>1, <2>2
<1>5. ToSet(q) = {q[1]} \cup ToSet(r)
  <2>1. ASSUME NEW e \in ToSet(q) PROVE e \in {q[1]} \cup ToSet(r)
    <3>1. PICK i \in 1 .. n + 1 : e = q[i]
      BY <1>4 DEF ToSet
    <3>2. CASE i # 1
      <4>1. i - 1 \in 1 .. n /\ (i - 1) + 1 = i
        BY <3>2
      <4>2. r[i - 1] = q[i]
        BY <1>4, <4>1, Zenon
      <4>. QED  BY <1>4, <3>1, <4>1, <4>2 DEF ToSet
    <3>. QED  BY <3>1, <3>2
  <2>2. q[1] \in ToSet(q)
    BY <1>4 DEF ToSet
  <2>3. ASSUME NEW i \in 1 .. n PROVE r[i] \in ToSet(q)
    <3>1. i + 1 \in 1 .. n + 1
      OBVIOUS
    <3>2. r[i] = q[i + 1]
      BY <1>4, Zenon
    <3>. QED  BY <1>4, <3>1, <3>2, Zenon DEF ToSet
  <2>. QED  BY <1>4, <2>1, <2>2, <2>3 DEF ToSet
<1>6. ASSUME Sorted(q) PROVE Sorted(r) /\ Before({q[1]}, ToSet(r))
  <2>1. Sorted(r)
    <3>1. SUFFICES ASSUME NEW i \in 1 .. n, NEW j \in 1 .. n, i < j,
                          IsMessage(r[i]), IsMessage(r[j])
                   PROVE  r[i].id < r[j].id
      BY <1>4 DEF Sorted
    <3>2. r[i] = q[i + 1] /\ r[j] = q[j + 1]
      BY <1>4, Zenon
    <3>3. i + 1 \in 1 .. n + 1 /\ j + 1 \in 1 .. n + 1 /\ i + 1 < j + 1
      BY <3>1
    <3>4. IsMessage(q[i + 1]) /\ IsMessage(q[j + 1])
      BY <3>1, <3>2, Zenon
    <3>5. q[i + 1].id < q[j + 1].id
      BY <1>4, <1>6, <3>3, <3>4, Zenon DEF Sorted
    <3>. QED  BY <3>2, <3>5, Zenon
  <2>2. \A i \in 1 .. n : IsMessage(q[1]) /\ IsMessage(r[i]) => q[1].id < r[i].id
    <3>1. \A i \in 1 .. n : 1 < i + 1 /\ i + 1 \in 1 .. n + 1 /\ 1 \in 1 .. n + 1
      OBVIOUS
    <3>. QED  BY <1>4, <1>6, <3>1 DEF Sorted
  <2>. QED  BY <1>4, <2>1, <2>2 DEF Before, ToSet
<1>. QED  BY <1>1, <1>2, <1>5, <1>6

(* Absorbing a control adds at most that control; an interrupt leaves no    *)
(* peer message, a withdrawal not the prompt it names; the order is kept.   *)
LEMMA AbsorbHolds ==
    ASSUME NEW q \in Seq(Command), NEW c \in Accepted
    PROVE  /\ ToSet(Absorb(q, c)) \subseteq ToSet(q) \cup {c}
           /\ c.kind = "interrupt" => ToSet(Absorb(q, c)) = ToSet(q) \ PeersIn(q)
           /\ c.kind = "cancel" => c \in ToSet(Absorb(q, c))
           /\ Sorted(q) /\ Before(ToSet(q), {c}) => Sorted(Absorb(q, c))
<1>1. q \in Seq(Control) /\ c \in Control
  BY QueuesHoldControls, AcceptedKinds
<1>. DEFINE Goal == /\ ToSet(Absorb(q, c)) \subseteq ToSet(q) \cup {c}
                    /\ c.kind = "interrupt" => ToSet(Absorb(q, c)) = ToSet(q) \ PeersIn(q)
                    /\ c.kind = "cancel" => c \in ToSet(Absorb(q, c))
                    /\ Sorted(q) /\ Before(ToSet(q), {c}) => Sorted(Absorb(q, c))
<1>2. CASE c.kind = "interrupt" /\ Absorb(q, c) = WithoutPeers(q)
  BY <1>2, WithoutPeersThins, Thinning
<1>3. CASE c.kind = "cancel" /\ Absorb(q, c) = <<c>> \o q
  <2>1. Before({c}, ToSet(q))
    BY <1>3 DEF Before, IsMessage, MessageKinds
  <2>2. PICK one \in Seq(Control) : one = <<c>> /\ ToSet(one) = {c} /\ Sorted(one)
    BY <1>1, Alone
  <2>3. /\ ToSet(one \o q) = {c} \cup ToSet(q)
        /\ Sorted(q) => Sorted(one \o q)
    BY <1>1, <2>1, <2>2, Joined
  <2>. HIDE DEF Goal
  <2>4. Absorb(q, c) = one \o q
    BY <1>3, <2>2
  <2>. QED  BY <1>3, <2>3, <2>4 DEF Goal
<1>4. CASE c.kind = "withdraw" /\ Absorb(q, c) = Append(Without(q, c.id), c)
  <2>1. PICK r : r = Without(q, c.id)
    OBVIOUS
  <2>2. Thinned(r, q, Named(q, c.id))
    BY <2>1, WithoutThins
  <2>3. r \in Seq(Control) /\ ToSet(r) \subseteq ToSet(q) /\ (Sorted(q) => Sorted(r))
    BY <2>2, Thinning, ThinnedType, QueuesHoldControls
  <2>4. Before(ToSet(r), {c})
    BY <1>4 DEF Before, IsMessage, MessageKinds
  <2>. QED  BY <1>1, <1>4, <2>1, <2>3, <2>4, Appended
<1>5. CASE c.kind = "set" /\ c \in Command /\ Absorb(q, c) = EnqueueSetting(q, c)
  <2>1. \A r : Before(ToSet(r), {c})
    BY <1>5 DEF Before, IsMessage, MessageKinds
  <2>2. CASE EnqueueSetting(q, c) = Append(q, c)
    BY <1>1, <1>5, <2>1, <2>2, Appended
  <2>3. ASSUME NEW m \in 1 .. Len(q), EnqueueSetting(q, c) = Append(RemoveAt(q, m), c)
        PROVE  Goal
    <3>1. PICK r \in Seq(Control) : r = RemoveAt(q, m)
      BY Removed, QueuesHoldControls
    <3>2. ToSet(r) \subseteq ToSet(q) /\ (Sorted(q) => Sorted(r))
      BY <3>1, Removing
    <3>3. /\ ToSet(Append(r, c)) = ToSet(r) \cup {c}
          /\ Sorted(r) => Sorted(Append(r, c))
      BY <1>1, <2>1, Appended
    <3>4. Absorb(q, c) = Append(r, c)
      BY <1>5, <2>3, <3>1
    <3>. QED  BY <1>5, <3>2, <3>3, <3>4
  <2>. QED  BY <1>5, <2>2, <2>3, EnqueueSettingForms
<1>6. CASE c.kind \in MessageKinds \cup {"compact"} /\ Absorb(q, c) = Append(q, c)
  BY <1>1, <1>6, Appended DEF MessageKinds
<1>. QED  BY <1>2, <1>3, <1>4, <1>5, <1>6, AbsorbForms

LEMMA AbsorbAllHolds ==
    ASSUME NEW q \in Seq(Command), NEW cs \in Seq(Accepted)
    PROVE  /\ AbsorbAll(q, cs) \in Seq(Command)
           /\ ToSet(AbsorbAll(q, cs)) \subseteq ToSet(q) \cup ToSet(cs)
           /\ Sorted(q) /\ Sorted(cs) /\ Before(ToSet(q), ToSet(cs)) => Sorted(AbsorbAll(q, cs))
<1>1. PICK n \in Nat : n = Len(cs)
  OBVIOUS
<1>2. PICK f : Absorbs(q, cs, f) /\ AbsorbAll(q, cs) = f[n]
  BY <1>1, AbsorbAllSteps
<1>3. /\ f[0] = q
      /\ \A i \in 1 .. n : /\ f[i] = Absorb(f[i - 1], cs[i])
                           /\ f[i - 1] \in Seq(Command) /\ cs[i] \in Accepted
      /\ f[n] \in Seq(Command)
  <2>1. \A i \in 1 .. n : i - 1 \in 0 .. n /\ cs[i] \in Accepted
    BY <1>1
  <2>. QED  BY <1>1, <1>2, <2>1 DEF Absorbs
<1>. DEFINE Ordered == Sorted(q) /\ Sorted(cs) /\ Before(ToSet(q), ToSet(cs))
            Past(i) == {cs[j] : j \in 1 .. i}
            T == {i \in 0 .. n : /\ ToSet(f[i]) \subseteq ToSet(q) \cup Past(i)
                                 /\ Ordered => Sorted(f[i])}
<1>4. 0 \in T
  BY <1>3
<1>5. \A i \in 1 .. n : i - 1 \in T => i \in T
  <2>1. SUFFICES ASSUME NEW i \in 1 .. n, i - 1 \in T PROVE i \in T
    OBVIOUS
  <2>2. PICK g \in Seq(Command), c \in Accepted : g = f[i - 1] /\ c = cs[i] /\ f[i] = Absorb(g, c)
    BY <1>3
  <2>3. ToSet(g) \subseteq ToSet(q) \cup Past(i - 1) /\ (Ordered => Sorted(g))
    BY <2>1, <2>2
  <2>4. Past(i) = Past(i - 1) \cup {c}
    <3>1. \A j : j \in 1 .. i <=> j \in 1 .. i - 1 \/ j = i
      OBVIOUS
    <3>. QED  BY <2>2, <3>1
  <2>5. ToSet(f[i]) \subseteq ToSet(q) \cup Past(i)
    <3>. HIDE DEF Past
    <3>. QED  BY <2>2, <2>3, <2>4, AbsorbHolds
  <2>6. ASSUME Ordered PROVE Before(ToSet(g), {c})
    <3>1. SUFFICES ASSUME NEW a \in ToSet(g), IsMessage(a), IsMessage(c)
                   PROVE  a.id < c.id
      BY DEF Before
    <3>2. c \in ToSet(cs) /\ DOMAIN cs = 1 .. n /\ c = cs[i]
      BY <1>1, <2>2 DEF ToSet
    <3>3. \A j \in 1 .. i - 1 : j \in 1 .. n /\ j < i
      OBVIOUS
    <3>4. CASE a \in ToSet(q)
      BY <2>6, <3>1, <3>2, <3>4 DEF Before
    <3>5. CASE a \in Past(i - 1)
      <4>1. PICK j \in 1 .. i - 1 : a = cs[j]
        BY <3>5
      <4>. HIDE DEF Past
      <4>2. Sorted(cs) /\ j \in DOMAIN cs /\ i \in DOMAIN cs /\ j < i
        BY <2>6, <3>2, <3>3
      <4>. QED  BY <3>1, <3>2, <4>1, <4>2 DEF Sorted
    <3>. QED  BY <2>3, <3>1, <3>4, <3>5
  <2>7. Ordered => Sorted(f[i])
    <3>. HIDE DEF Ordered
    <3>1. Sorted(g) /\ Before(ToSet(g), {c}) => Sorted(Absorb(g, c))
      BY AbsorbHolds, Zenon
    <3>. QED  BY <2>2, <2>3, <2>6, <3>1
  <2>. QED  BY <2>5, <2>7
<1>6. n \in T
  <2>1. \A i \in 0 .. n : i \in T
    <3>. HIDE DEF T
    <3>. QED  BY <1>1, <1>4, <1>5, UpTo
  <2>2. n \in 0 .. n
    OBVIOUS
  <2>. QED  BY <2>1, <2>2, Zenon
<1>7. Past(n) = ToSet(cs)
  BY <1>1 DEF ToSet
<1>. QED  BY <1>2, <1>3, <1>6, <1>7

(* A peer message that is left over was not followed by an interrupt.      *)
LEMMA AbsorbAllPeers ==
    ASSUME NEW q \in Seq(Command), NEW cs \in Seq(Accepted),
           NEW p \in ToSet(AbsorbAll(q, cs)), p.kind \in Peers
    PROVE  \/ p \in ToSet(q) /\ \A i \in 1 .. Len(cs) : cs[i].kind # "interrupt"
           \/ \E m \in 1 .. Len(cs) :
                 cs[m] = p /\ \A i \in m + 1 .. Len(cs) : cs[i].kind # "interrupt"
<1>1. PICK n \in Nat : n = Len(cs)
  OBVIOUS
<1>2. PICK f : Absorbs(q, cs, f) /\ AbsorbAll(q, cs) = f[n]
  BY <1>1, AbsorbAllSteps
<1>3. /\ f[0] = q
      /\ \A i \in 1 .. n : /\ f[i] = Absorb(f[i - 1], cs[i])
                           /\ f[i - 1] \in Seq(Command) /\ cs[i] \in Accepted
  <2>1. \A i \in 1 .. n : i - 1 \in 0 .. n /\ cs[i] \in Accepted
    BY <1>1
  <2>. QED  BY <1>1, <1>2, <2>1 DEF Absorbs
<1>. DEFINE Quiet(a, b) == \A i \in a .. b : cs[i].kind # "interrupt"
            T == {k \in 0 .. n : p \in ToSet(f[k]) =>
                      \/ p \in ToSet(q) /\ Quiet(1, k)
                      \/ \E m \in 1 .. k : cs[m] = p /\ Quiet(m + 1, k)}
<1>4. 0 \in T
  BY <1>3
<1>5. \A k \in 1 .. n : k - 1 \in T => k \in T
  <2>1. SUFFICES ASSUME NEW k \in 1 .. n, k - 1 \in T, p \in ToSet(f[k])
                 PROVE  \/ p \in ToSet(q) /\ Quiet(1, k)
                        \/ \E m \in 1 .. k : cs[m] = p /\ Quiet(m + 1, k)
    OBVIOUS
  <2>2. PICK g \in Seq(Command), c \in Accepted : g = f[k - 1] /\ c = cs[k] /\ f[k] = Absorb(g, c)
    BY <1>3
  <2>3. p \in ToSet(g) \/ p = c
    <3>1. ToSet(Absorb(g, c)) \subseteq ToSet(g) \cup {c}
      BY AbsorbHolds, Zenon
    <3>. QED  BY <2>1, <2>2, <3>1
  <2>4. CASE p = c
    <3>1. cs[k] = p /\ Quiet(k + 1, k)
      BY <2>2, <2>4
    <3>. QED  BY <3>1
  <2>5. CASE p \in ToSet(g)
    <3>1. c.kind # "interrupt"
      <4>1. c.kind = "interrupt" => ToSet(Absorb(g, c)) = ToSet(g) \ PeersIn(g)
        BY AbsorbHolds, Zenon
      <4>2. p \in PeersIn(g)
        BY <2>5 DEF PeersIn
      <4>. QED  BY <2>1, <2>2, <4>1, <4>2
    <3>2. \/ p \in ToSet(q) /\ Quiet(1, k - 1)
          \/ \E m \in 1 .. k - 1 : cs[m] = p /\ Quiet(m + 1, k - 1)
      BY <2>1, <2>2, <2>5
    <3>3. \A m \in 1 .. k : Quiet(m, k - 1) => Quiet(m, k)
      <4>1. \A m \in 1 .. k : \A i \in m .. k : i \in m .. k - 1 \/ i = k
        OBVIOUS
      <4>. QED  BY <2>2, <3>1, <4>1
    <3>4. \A m \in 1 .. k - 1 : m + 1 \in 1 .. k /\ m \in 1 .. k
      OBVIOUS
    <3>. HIDE DEF Quiet
    <3>. QED  BY <3>2, <3>3, <3>4
  <2>. QED  BY <2>3, <2>4, <2>5
<1>6. n \in T
  <2>1. \A i \in 0 .. n : i \in T
    <3>. HIDE DEF T
    <3>. QED  BY <1>1, <1>4, <1>5, UpTo
  <2>2. n \in 0 .. n
    OBVIOUS
  <2>. QED  BY <2>1, <2>2, Zenon
<1>. QED  BY <1>1, <1>2, <1>6

-------------------------------------------------------------------------------
(* Prompts whose cancellation the queue already holds                      *)

(* A prompt of the queue that is in R has its cancellation ahead of it.    *)
ShieldedAt(queue, j) ==
    \E i \in 1 .. j - 1 : queue[i].kind = "cancel" /\ queue[i].id = queue[j].id

Shielded(queue, R) ==
    \A j \in 1 .. Len(queue) :
        queue[j].kind = "prompt" /\ queue[j].id \in R => ShieldedAt(queue, j)

LEMMA ShieldedAppend ==
    ASSUME NEW q \in Seq(Command), NEW c \in Command, NEW R,
           Shielded(q, R),
           c.kind = "prompt" /\ c.id \in R =>
               \E i \in 1 .. Len(q) : q[i].kind = "cancel" /\ q[i].id = c.id
    PROVE  Shielded(Append(q, c), R)
<1>1. PICK n \in Nat : n = Len(q)
  OBVIOUS
<1>2. PICK r \in Seq(Command) : r = Append(q, c)
  BY AppendProperties
<1>3. /\ Len(r) = n + 1 /\ r[n + 1] = c
      /\ \A i \in 1 .. n : r[i] = q[i]
  BY <1>1, <1>2, AppendProperties
<1>4. SUFFICES ASSUME NEW j \in 1 .. n + 1, r[j].kind = "prompt", r[j].id \in R
               PROVE  \E i \in 1 .. j - 1 : r[i].kind = "cancel" /\ r[i].id = r[j].id
  BY <1>2, <1>3 DEF Shielded, ShieldedAt
<1>5. CASE j = n + 1
  <2>1. PICK i \in 1 .. n : q[i].kind = "cancel" /\ q[i].id = c.id
    BY <1>1, <1>3, <1>4, <1>5
  <2>2. i \in 1 .. j - 1 /\ r[i] = q[i]
    BY <1>3, <1>5
  <2>. QED  BY <1>3, <1>5, <2>1, <2>2
<1>6. CASE j \in 1 .. n
  <2>1. PICK i \in 1 .. j - 1 : q[i].kind = "cancel" /\ q[i].id = q[j].id
    BY <1>1, <1>3, <1>4, <1>6 DEF Shielded, ShieldedAt
  <2>2. i \in 1 .. n
    BY <1>6
  <2>. QED  BY <1>3, <1>6, <2>1, <2>2
<1>. QED  BY <1>5, <1>6

LEMMA ShieldedJoin ==
    ASSUME NEW b \in Seq(Command), NEW q \in Seq(Command), NEW R,
           \A i \in 1 .. Len(b) : b[i].kind = "prompt" => b[i].id \notin R,
           Shielded(q, {id \in R : \A i \in 1 .. Len(b) : ~ (b[i].kind = "cancel" /\ b[i].id = id)})
    PROVE  Shielded(b \o q, R)
<1>1. PICK m \in Nat, n \in Nat : m = Len(b) /\ n = Len(q)
  OBVIOUS
<1>2. PICK s \in Seq(Command) : s = b \o q
  BY ConcatProperties
<1>3. /\ Len(s) = m + n
      /\ \A i \in 1 .. m : s[i] = b[i]
      /\ \A i \in 1 .. n : s[m + i] = q[i]
      /\ \A i \in 1 .. m + n : i \notin 1 .. m => i - m \in 1 .. n /\ s[i] = q[i - m]
  BY <1>1, <1>2, ConcatProperties
<1>4. SUFFICES ASSUME NEW j \in 1 .. m + n, s[j].kind = "prompt", s[j].id \in R
               PROVE  \E i \in 1 .. j - 1 : s[i].kind = "cancel" /\ s[i].id = s[j].id
  BY <1>2, <1>3 DEF Shielded, ShieldedAt
<1>5. j \notin 1 .. m
  BY <1>1, <1>3, <1>4
<1>6. PICK k \in 1 .. n : k = j - m /\ s[j] = q[k]
  BY <1>3, <1>5
<1>7. CASE \E i \in 1 .. m : b[i].kind = "cancel" /\ b[i].id = s[j].id
  <2>1. PICK i \in 1 .. m : b[i].kind = "cancel" /\ b[i].id = s[j].id
    BY <1>7
  <2>2. i \in 1 .. j - 1 /\ s[i] = b[i]
    BY <1>3, <1>5
  <2>. QED  BY <2>1, <2>2
<1>8. CASE \A i \in 1 .. m : ~ (b[i].kind = "cancel" /\ b[i].id = s[j].id)
  <2>1. ShieldedAt(q, k)
    BY <1>1, <1>4, <1>6, <1>8 DEF Shielded
  <2>2. PICK i \in 1 .. k - 1 : q[i].kind = "cancel" /\ q[i].id = q[k].id
    BY <2>1 DEF ShieldedAt
  <2>3. i \in 1 .. n /\ m + i \in 1 .. j - 1 /\ s[m + i] = q[i]
    BY <1>3, <1>6
  <2>. QED  BY <1>6, <2>2, <2>3
<1>. QED  BY <1>7, <1>8

LEMMA ShieldedThinned ==
    ASSUME NEW q \in Seq(Command), NEW S, NEW r, Thinned(r, q, S), NEW R,
           Shielded(q, R), \A c \in S : c.kind # "cancel"
    PROVE  Shielded(r, R)
<1>1. PICK h : Thins(r, q, Len(q), S, h)
  BY DEF Thinned
<1>2. PICK m \in Nat, n \in Nat : m = Len(r) /\ n = Len(q)
  BY <1>1 DEF Thins
<1>3. /\ \A a \in 1 .. m : h[a] \in 1 .. n /\ r[a] = q[h[a]]
      /\ \A a, b \in 1 .. m : a < b => h[a] < h[b]
      /\ \A j \in 1 .. n : q[j] \notin S => \E a \in 1 .. m : h[a] = j
  BY <1>1, <1>2 DEF Thins
<1>4. SUFFICES ASSUME NEW j \in 1 .. m, r[j].kind = "prompt", r[j].id \in R
               PROVE  \E i \in 1 .. j - 1 : r[i].kind = "cancel" /\ r[i].id = r[j].id
  BY <1>2 DEF Shielded, ShieldedAt
<1>5. ShieldedAt(q, h[j])
  BY <1>2, <1>3, <1>4 DEF Shielded
<1>6. PICK k \in 1 .. h[j] - 1 : q[k].kind = "cancel" /\ q[k].id = q[h[j]].id
  BY <1>5 DEF ShieldedAt
<1>7. k \in 1 .. n /\ k < h[j]
  BY <1>3
<1>8. PICK a \in 1 .. m : h[a] = k
  BY <1>3, <1>6, <1>7
<1>9. a < j
  <2>1. SUFFICES ASSUME j <= a PROVE FALSE
    OBVIOUS
  <2>2. h[j] \in Nat /\ h[a] = k /\ k < h[j]
    BY <1>3, <1>7, <1>8
  <2>3. CASE j = a
    BY <2>2, <2>3
  <2>4. CASE j < a
    <3>1. h[j] < h[a]
      BY <1>3, <2>4
    <3>. QED  BY <2>2, <3>1
  <2>. QED  BY <2>1, <2>3, <2>4
<1>10. a \in 1 .. j - 1 /\ r[a] = q[k] /\ r[j] = q[h[j]]
  <2>1. a \in 1 .. j - 1
    BY <1>9
  <2>. QED  BY <1>3, <1>8, <2>1
<1>. QED  BY <1>6, <1>10, Zenon

LEMMA ShieldedRemoved ==
    ASSUME NEW q \in Seq(Command), NEW m \in 1 .. Len(q), NEW R,
           Shielded(q, R), q[m].kind # "cancel"
    PROVE  Shielded(RemoveAt(q, m), R)
<1>1. PICK n \in Nat : n = Len(q)
  OBVIOUS
<1>2. PICK r \in Seq(Command) : r = RemoveAt(q, m)
  BY Removed
<1>3. /\ Len(r) = n - 1
      /\ \A i \in 1 .. m - 1 : r[i] = q[i]
      /\ \A i \in m .. n - 1 : r[i] = q[i + 1]
  BY <1>1, <1>2, Removed
<1>4. SUFFICES ASSUME NEW j \in 1 .. n - 1, r[j].kind = "prompt", r[j].id \in R
               PROVE  \E i \in 1 .. j - 1 : r[i].kind = "cancel" /\ r[i].id = r[j].id
  BY <1>2, <1>3 DEF Shielded, ShieldedAt
<1>5. PICK k \in 1 .. n : r[j] = q[k] /\ k = IF j < m THEN j ELSE j + 1
  <2>1. CASE j < m
    <3>1. j \in 1 .. n /\ r[j] = q[j]
      BY <1>1, <1>3, <2>1
    <3>. QED  BY <2>1, <3>1
  <2>2. CASE ~ (j < m)
    <3>1. j + 1 \in 1 .. n /\ r[j] = q[j + 1]
      BY <1>1, <1>3, <2>2
    <3>. QED  BY <2>2, <3>1
  <2>. QED  BY <2>1, <2>2
<1>6. PICK i \in 1 .. k - 1 : q[i].kind = "cancel" /\ q[i].id = q[k].id
  BY <1>1, <1>4, <1>5 DEF Shielded, ShieldedAt
<1>7. i # m
  BY <1>6
<1>8. CASE i < m
  <2>1. i \in 1 .. j - 1 /\ r[i] = q[i]
    BY <1>1, <1>3, <1>5, <1>8
  <2>. QED  BY <1>5, <1>6, <2>1
<1>9. CASE i > m
  <2>1. i - 1 \in 1 .. j - 1 /\ i - 1 \in m .. n - 1
    BY <1>1, <1>5, <1>9
  <2>2. r[i - 1] = q[i]
    BY <1>3, <2>1
  <2>. QED  BY <1>5, <1>6, <2>1, <2>2
<1>. QED  BY <1>7, <1>8, <1>9

LEMMA ShieldedLess ==
    ASSUME NEW q, NEW R, NEW U, Shielded(q, R), U \subseteq R
    PROVE  Shielded(q, U)
BY DEF Shielded

LEMMA ShieldedWithout ==
    ASSUME NEW q \in Seq(Command), NEW id, NEW R, Shielded(q, R \ {id})
    PROVE  Shielded(Without(q, id), R)
<1>1. PICK r \in Seq(Command) : r = Without(q, id) /\ Thinned(r, q, Named(q, id))
  BY WithoutThins, WithoutType
<1>2. \A p \in Named(q, id) : p.kind # "cancel"
  BY DEF Named
<1>3. Shielded(r, R \ {id})
  BY <1>1, <1>2, ShieldedThinned
<1>4. \A j \in 1 .. Len(r) : r[j].kind = "prompt" => r[j].id # id
  <2>1. \A e \in ToSet(r) : ~ (e.kind = "prompt" /\ e.id = id)
    BY <1>1, Thinning DEF Named
  <2>. QED  BY <2>1 DEF ToSet
<1>. QED  BY <1>1, <1>3, <1>4 DEF Shielded

(* The cancellation at the head shields what it names until it is taken.    *)
LEMMA ShieldedTail ==
    ASSUME NEW q \in Seq(Command), q # <<>>, NEW R, Shielded(q, R)
    PROVE  /\ ~ (Head(q).kind = "prompt" /\ Head(q).id \in R)
           /\ Shielded(Tail(q), IF Head(q).kind = "cancel" THEN R \ {Head(q).id} ELSE R)
<1>1. q \in Seq(Control)
  BY QueuesHoldControls
<1>2. PICK n \in Nat : n = Len(q) - 1
  <2>1. Len(q) - 1 \in Nat
    BY <1>1, HeadAndTail
  <2>. QED  BY <2>1, Zenon
<1>3. PICK r, c : r = Tail(q) /\ c = Head(q)
  OBVIOUS
<1>4. Len(r) = Len(q) - 1 /\ \A i \in 1 .. Len(q) - 1 : r[i] = q[i + 1]
  BY <1>1, <1>3, HeadAndTail, Zenon
<1>5. Len(r) = n /\ Len(q) = n + 1 /\ \A i \in 1 .. n : r[i] = q[i + 1]
  BY <1>2, <1>4
<1>6. q[1] = c
  BY <1>1, <1>3, HeadAndTail, Zenon
<1>7. ~ (c.kind = "prompt" /\ c.id \in R)
  <2>1. ~ ShieldedAt(q, 1)
    BY DEF ShieldedAt
  <2>2. 1 \in 1 .. Len(q)
    BY <1>5
  <2>. QED  BY <1>6, <2>1, <2>2 DEF Shielded
<1>. DEFINE U == IF c.kind = "cancel" THEN R \ {c.id} ELSE R
<1>8. Shielded(r, U)
  <2>1. SUFFICES ASSUME NEW j \in 1 .. n, r[j].kind = "prompt", r[j].id \in U
                 PROVE  \E i \in 1 .. j - 1 : r[i].kind = "cancel" /\ r[i].id = r[j].id
    <3>. HIDE DEF U
    <3>. QED  BY <1>5 DEF Shielded, ShieldedAt
  <2>2. PICK k \in 1 .. n + 1 : k = j + 1 /\ r[j] = q[k]
    BY <1>5
  <2>3. ShieldedAt(q, k)
    BY <1>5, <2>1, <2>2 DEF Shielded
  <2>4. PICK i \in 1 .. k - 1 : q[i].kind = "cancel" /\ q[i].id = q[k].id
    BY <2>3 DEF ShieldedAt
  <2>5. i # 1
    BY <1>6, <2>1, <2>2, <2>4
  <2>6. PICK l \in 1 .. j - 1 : l + 1 = i
    <3>1. i - 1 \in 1 .. j - 1 /\ (i - 1) + 1 = i
      BY <2>2, <2>5
    <3>. QED  BY <3>1, Zenon
  <2>7. r[l] = q[i]
    BY <1>5, <2>6
  <2>. QED  BY <2>2, <2>4, <2>7
<1>. QED  BY <1>3, <1>7, <1>8

(* A control absorbed: what it cancels is shielded from then on.           *)
LEMMA AbsorbShielded ==
    ASSUME NEW q \in Seq(Command), NEW c \in Accepted, NEW R,
           Shielded(q, IF Cancels(c) THEN R \ {c.id} ELSE R),
           c.kind = "prompt" /\ c.id \in R =>
               \E i \in 1 .. Len(q) : q[i].kind = "cancel" /\ q[i].id = c.id
    PROVE  Shielded(Absorb(q, c), R)
<1>1. CASE c.kind = "interrupt" /\ Absorb(q, c) = WithoutPeers(q)
  <2>1. \A p \in PeersIn(q) : p.kind # "cancel"
    BY DEF PeersIn, Peers
  <2>2. Shielded(q, R)
    BY <1>1 DEF Cancels
  <2>3. Thinned(WithoutPeers(q), q, PeersIn(q))
    BY WithoutPeersThins
  <2>4. Shielded(WithoutPeers(q), R)
    BY <2>1, <2>2, <2>3, ShieldedThinned
  <2>. QED  BY <1>1, <2>4
<1>2. CASE c.kind = "cancel" /\ c \in Command /\ Absorb(q, c) = <<c>> \o q
  <2>1. PICK b : b = <<c>> /\ b \in Seq(Command) /\ Len(b) = 1 /\ b[1] = c
    <3>1. <<c>> \in Seq(Command) /\ Len(<<c>>) = 1 /\ <<c>>[1] = c
      BY <1>2
    <3>. QED  BY <3>1, Zenon
  <2>2. \A i \in 1 .. Len(b) : b[i] = c
    BY <2>1
  <2>3. Shielded(q, R \ {c.id})
    BY <1>2 DEF Cancels
  <2>4. {id \in R : \A i \in 1 .. Len(b) : ~ (b[i].kind = "cancel" /\ b[i].id = id)} \subseteq R \ {c.id}
    BY <1>2, <2>1
  <2>5. Shielded(b \o q, R)
    <3>1. Shielded(q, {id \in R : \A i \in 1 .. Len(b) : ~ (b[i].kind = "cancel" /\ b[i].id = id)})
      <4>. DEFINE U == {id \in R : \A i \in 1 .. Len(b) : ~ (b[i].kind = "cancel" /\ b[i].id = id)}
      <4>1. U \subseteq R \ {c.id}
        BY <2>4
      <4>. HIDE DEF U
      <4>2. Shielded(q, U)
        BY <2>3, <4>1, ShieldedLess
      <4>. QED  BY <4>2 DEF U
    <3>2. \A i \in 1 .. Len(b) : b[i].kind # "prompt"
      BY <1>2, <2>2
    <3>. QED  BY <2>1, <3>1, <3>2, ShieldedJoin
  <2>. QED  BY <1>2, <2>1, <2>5
<1>3. CASE c.kind = "withdraw" /\ c \in Command /\ Absorb(q, c) = Append(Without(q, c.id), c)
  <2>1. PICK r \in Seq(Command) : r = Without(q, c.id)
    BY WithoutType
  <2>2. Shielded(q, R \ {c.id})
    BY <1>3 DEF Cancels
  <2>3. Shielded(r, R)
    BY <2>1, <2>2, ShieldedWithout
  <2>4. Shielded(Append(r, c), R)
    BY <1>3, <2>3, ShieldedAppend
  <2>. QED  BY <1>3, <2>1, <2>4
<1>4. CASE c.kind = "set" /\ c \in Command /\ Absorb(q, c) = EnqueueSetting(q, c)
  <2>1. Shielded(q, R)
    BY <1>4 DEF Cancels
  <2>2. CASE EnqueueSetting(q, c) = Append(q, c)
    BY <1>4, <2>1, <2>2, ShieldedAppend
  <2>3. ASSUME NEW m \in 1 .. Len(q), Sets(q[m], c.key),
               EnqueueSetting(q, c) = Append(RemoveAt(q, m), c)
        PROVE  Shielded(Absorb(q, c), R)
    <3>1. PICK r \in Seq(Command) : r = RemoveAt(q, m)
      BY Removed
    <3>2. q[m].kind # "cancel"
      BY <2>3 DEF Sets
    <3>3. Shielded(r, R)
      BY <2>1, <3>1, <3>2, ShieldedRemoved
    <3>4. Shielded(Append(r, c), R)
      BY <1>4, <3>3, ShieldedAppend
    <3>. QED  BY <1>4, <2>3, <3>1, <3>4
  <2>. QED  BY <1>4, <2>2, <2>3, EnqueueSettingForms
<1>5. CASE c.kind \in MessageKinds \cup {"compact"} /\ c \in Command /\ Absorb(q, c) = Append(q, c)
  <2>1. Shielded(q, R)
    BY <1>5 DEF Cancels, MessageKinds
  <2>2. Shielded(Append(q, c), R)
    BY <1>5, <2>1, ShieldedAppend
  <2>. QED  BY <1>5, <2>2
<1>. QED  BY <1>1, <1>2, <1>3, <1>4, <1>5, AbsorbForms

(* No control takes a cancellation out of a queue.                          *)
LEMMA AbsorbKeepsCancels ==
    ASSUME NEW q \in Seq(Command), NEW c \in Accepted,
           NEW d \in ToSet(q), Cancels(d)
    PROVE  d \in ToSet(Absorb(q, c))
<1>1. q \in Seq(Control) /\ c \in Control
  BY QueuesHoldControls, AcceptedKinds
<1>2. CASE Absorb(q, c) = WithoutPeers(q)
  <2>1. d \notin PeersIn(q)
    BY DEF PeersIn, Peers, Cancels
  <2>2. ToSet(WithoutPeers(q)) = ToSet(q) \ PeersIn(q)
    BY WithoutPeersThins, Thinning
  <2>. QED  BY <1>2, <2>1, <2>2
<1>3. CASE c.kind = "cancel" /\ Absorb(q, c) = <<c>> \o q
  <2>1. PICK b \in Seq(Control) : b = <<c>>
    BY <1>1, Alone
  <2>2. ToSet(b \o q) = ToSet(b) \cup ToSet(q)
    BY <1>1, Joined
  <2>. QED  BY <1>3, <2>1, <2>2
<1>4. CASE c.kind = "withdraw" /\ Absorb(q, c) = Append(Without(q, c.id), c)
  <2>1. PICK r \in Seq(Control) : r = Without(q, c.id)
    BY WithoutType, QueuesHoldControls
  <2>2. d \notin Named(q, c.id)
    BY DEF Named, Cancels
  <2>3. ToSet(r) = ToSet(q) \ Named(q, c.id)
    BY <2>1, WithoutThins, Thinning
  <2>4. ToSet(Append(r, c)) = ToSet(r) \cup {c}
    BY <1>1, Appended
  <2>. QED  BY <1>4, <2>1, <2>2, <2>3, <2>4
<1>5. CASE c.kind = "set" /\ c \in Command /\ Absorb(q, c) = EnqueueSetting(q, c)
  <2>1. CASE EnqueueSetting(q, c) = Append(q, c)
    <3>1. ToSet(Append(q, c)) = ToSet(q) \cup {c}
      BY <1>1, Appended
    <3>. QED  BY <1>5, <2>1, <3>1
  <2>2. ASSUME NEW m \in 1 .. Len(q), Sets(q[m], c.key),
               EnqueueSetting(q, c) = Append(RemoveAt(q, m), c)
        PROVE  d \in ToSet(Absorb(q, c))
    <3>1. PICK n \in Nat : n = Len(q)
      OBVIOUS
    <3>2. PICK r \in Seq(Control) : r = RemoveAt(q, m)
      BY Removed, QueuesHoldControls
    <3>3. /\ Len(r) = n - 1
          /\ \A i \in 1 .. m - 1 : r[i] = q[i]
          /\ \A i \in m .. n - 1 : r[i] = q[i + 1]
      BY <3>1, <3>2, Removed
    <3>4. PICK i \in 1 .. n : q[i] = d
      BY <3>1 DEF ToSet
    <3>5. i # m
      BY <2>2, <3>4 DEF Sets, Cancels
    <3>6. d \in ToSet(r)
      <4>1. CASE i < m
        <5>1. i \in 1 .. n - 1 /\ r[i] = q[i]
          BY <3>1, <3>3, <4>1
        <5>. QED  BY <3>3, <3>4, <5>1 DEF ToSet
      <4>2. CASE i > m
        <5>1. i - 1 \in 1 .. n - 1 /\ i - 1 \in m .. n - 1 /\ (i - 1) + 1 = i
          BY <3>1, <4>2
        <5>2. r[i - 1] = q[i]
          BY <3>3, <5>1
        <5>. QED  BY <3>3, <3>4, <5>1, <5>2 DEF ToSet
      <4>. QED  BY <3>5, <4>1, <4>2
    <3>7. ToSet(Append(r, c)) = ToSet(r) \cup {c}
      BY <1>1, Appended
    <3>. QED  BY <1>5, <2>2, <3>2, <3>6, <3>7
  <2>. QED  BY <1>5, <2>1, <2>2, EnqueueSettingForms
<1>6. CASE Absorb(q, c) = Append(q, c)
  <2>1. ToSet(Append(q, c)) = ToSet(q) \cup {c}
    BY <1>1, Appended
  <2>. QED  BY <1>6, <2>1
<1>. QED  BY <1>2, <1>3, <1>4, <1>5, <1>6, AbsorbForms

LEMMA AbsorbAddsCancels ==
    ASSUME NEW q \in Seq(Command), NEW c \in Accepted, Cancels(c)
    PROVE  c \in ToSet(Absorb(q, c))
<1>1. q \in Seq(Control) /\ c \in Control
  BY QueuesHoldControls, AcceptedKinds
<1>2. CASE c.kind = "cancel"
  BY <1>2, AbsorbHolds
<1>3. CASE c.kind = "withdraw"
  <2>1. Absorb(q, c) = Append(Without(q, c.id), c)
    BY <1>3, AbsorbForms DEF MessageKinds
  <2>2. PICK r \in Seq(Control) : r = Without(q, c.id)
    BY WithoutType, QueuesHoldControls
  <2>3. ToSet(Append(r, c)) = ToSet(r) \cup {c}
    BY <1>1, Appended
  <2>. QED  BY <2>1, <2>2, <2>3
<1>. QED  BY <1>2, <1>3 DEF Cancels

(* A prompt that is received while its cancellation counts must have that   *)
(* cancellation ahead of it among the controls received with it.            *)
LEMMA AbsorbAllShielded ==
    ASSUME NEW q \in Seq(Command), NEW cs \in Seq(Accepted), NEW R, NEW W,
           Shielded(q, R \cap W),
           \A j \in 1 .. Len(cs) :
               /\ cs[j].kind = "prompt" /\ cs[j].id \in W
               /\ cs[j].id \in R \/ \E i \in 1 .. j - 1 : Cancels(cs[i]) /\ cs[i].id = cs[j].id
               => ShieldedAt(cs, j)
    PROVE  Shielded(AbsorbAll(q, cs), (R \cup Revoked(cs)) \cap W)
<1>1. PICK n \in Nat : n = Len(cs)
  OBVIOUS
<1>2. PICK f : Absorbs(q, cs, f) /\ AbsorbAll(q, cs) = f[n]
  BY <1>1, AbsorbAllSteps
<1>3. /\ f[0] = q
      /\ \A i \in 1 .. n : /\ f[i] = Absorb(f[i - 1], cs[i])
                           /\ f[i - 1] \in Seq(Command) /\ cs[i] \in Accepted
  <2>1. \A i \in 1 .. n : i - 1 \in 0 .. n /\ cs[i] \in Accepted
    BY <1>1
  <2>. QED  BY <1>1, <1>2, <2>1 DEF Absorbs
<1>. DEFINE named(i) == {cs[m].id : m \in {j \in 1 .. i : Cancels(cs[j])}}
            Held(i) == \A m \in 1 .. i : cs[m].kind = "cancel" => cs[m] \in ToSet(f[i])
            T == {i \in 0 .. n : Held(i) /\ Shielded(f[i], (R \cup named(i)) \cap W)}
<1>4. 0 \in T
  <2>1. named(0) = {}
    OBVIOUS
  <2>2. (R \cup named(0)) \cap W = R \cap W
    BY <2>1
  <2>3. Shielded(f[0], (R \cup named(0)) \cap W)
    BY <1>3, <2>2
  <2>. HIDE DEF named
  <2>. QED  BY <2>3
<1>5. \A i \in 1 .. n : i - 1 \in T => i \in T
  <2>1. SUFFICES ASSUME NEW i \in 1 .. n, i - 1 \in T PROVE i \in T
    OBVIOUS
  <2>2. PICK g \in Seq(Command), c \in Accepted : g = f[i - 1] /\ c = cs[i] /\ f[i] = Absorb(g, c)
    BY <1>3
  <2>3. Held(i - 1) /\ Shielded(g, (R \cup named(i - 1)) \cap W)
    BY <2>1, <2>2
  <2>4. named(i) = named(i - 1) \cup (IF Cancels(c) THEN {c.id} ELSE {})
    <3>1. \A j : j \in 1 .. i <=> j \in 1 .. i - 1 \/ j = i
      OBVIOUS
    <3>. QED  BY <2>2, <3>1
  <2>5. Held(i)
    <3>1. SUFFICES ASSUME NEW m \in 1 .. i, cs[m].kind = "cancel" PROVE cs[m] \in ToSet(f[i])
      OBVIOUS
    <3>2. CASE m = i
      <4>1. c.kind = "cancel" => c \in ToSet(Absorb(g, c))
        BY AbsorbHolds, Zenon
      <4>. QED  BY <2>2, <3>1, <3>2, <4>1
    <3>3. CASE m \in 1 .. i - 1
      <4>1. cs[m] \in ToSet(g)
        BY <2>2, <2>3, <3>1, <3>3
      <4>. QED  BY <2>2, <3>1, <4>1, AbsorbKeepsCancels DEF Cancels
    <3>. QED  BY <3>2, <3>3
  <2>. HIDE DEF named
  <2>6. Shielded(g, IF Cancels(c) THEN ((R \cup named(i)) \cap W) \ {c.id} ELSE (R \cup named(i)) \cap W)
    BY <2>3, <2>4, ShieldedLess
  <2>7. ASSUME c.kind = "prompt", c.id \in (R \cup named(i)) \cap W
        PROVE  \E k \in 1 .. Len(g) : g[k].kind = "cancel" /\ g[k].id = c.id
    <3>1. c.id \in R \/ c.id \in named(i - 1)
      BY <2>4, <2>7 DEF Cancels
    <3>2. c.id \in R \/ \E k \in 1 .. i - 1 : Cancels(cs[k]) /\ cs[k].id = c.id
      BY <3>1 DEF named
    <3>3. ShieldedAt(cs, i)
      BY <1>1, <2>2, <2>7, <3>2
    <3>4. PICK m \in 1 .. i - 1 : cs[m].kind = "cancel" /\ cs[m].id = c.id
      BY <2>2, <3>3 DEF ShieldedAt
    <3>5. cs[m] \in ToSet(g)
      BY <2>2, <2>3, <3>4
    <3>6. \E k \in 1 .. Len(g) : g[k] = cs[m]
      BY <3>5 DEF ToSet
    <3>. QED  BY <3>4, <3>6
  <2>8. Shielded(f[i], (R \cup named(i)) \cap W)
    BY <2>2, <2>6, <2>7, AbsorbShielded
  <2>. QED  BY <2>5, <2>8
<1>6. n \in T
  <2>1. \A i \in 0 .. n : i \in T
    <3>. HIDE DEF T
    <3>. QED  BY <1>1, <1>4, <1>5, UpTo
  <2>2. n \in 0 .. n
    OBVIOUS
  <2>. QED  BY <2>1, <2>2, Zenon
<1>7. named(n) = Revoked(cs)
  BY <1>1 DEF Revoked, Cancels
<1>. QED  BY <1>2, <1>6, <1>7

LEMMA AbsorbAllKeepsCancels ==
    ASSUME NEW q \in Seq(Command), NEW cs \in Seq(Accepted), NEW d, Cancels(d),
           d \in ToSet(q) \cup ToSet(cs)
    PROVE  d \in ToSet(AbsorbAll(q, cs))
<1>1. PICK n \in Nat : n = Len(cs)
  OBVIOUS
<1>2. PICK f : Absorbs(q, cs, f) /\ AbsorbAll(q, cs) = f[n]
  BY <1>1, AbsorbAllSteps
<1>3. /\ f[0] = q
      /\ \A i \in 1 .. n : /\ f[i] = Absorb(f[i - 1], cs[i])
                           /\ f[i - 1] \in Seq(Command) /\ cs[i] \in Accepted
  <2>1. \A i \in 1 .. n : i - 1 \in 0 .. n /\ cs[i] \in Accepted
    BY <1>1
  <2>. QED  BY <1>1, <1>2, <2>1 DEF Absorbs
<1>. DEFINE Due(i) == d \in ToSet(q) \/ \E j \in 1 .. i : cs[j] = d
            T == {i \in 0 .. n : Due(i) => d \in ToSet(f[i])}
<1>4. 0 \in T
  BY <1>3
<1>5. \A i \in 1 .. n : i - 1 \in T => i \in T
  <2>1. SUFFICES ASSUME NEW i \in 1 .. n, i - 1 \in T PROVE i \in T
    OBVIOUS
  <2>2. PICK g \in Seq(Command), c \in Accepted : g = f[i - 1] /\ c = cs[i] /\ f[i] = Absorb(g, c)
    BY <1>3
  <2>3. Due(i - 1) => d \in ToSet(g)
    BY <2>1, <2>2
  <2>4. ASSUME Due(i) PROVE d \in ToSet(f[i])
    <3>1. CASE c = d
      BY <2>2, <3>1, AbsorbAddsCancels
    <3>2. CASE c # d
      <4>1. \A j \in 1 .. i : j \in 1 .. i - 1 \/ j = i
        OBVIOUS
      <4>2. Due(i - 1)
        BY <2>2, <2>4, <3>2, <4>1
      <4>3. d \in ToSet(g)
        BY <2>3, <4>2
      <4>. QED  BY <2>2, <4>3, AbsorbKeepsCancels
    <3>. QED  BY <3>1, <3>2
  <2>. HIDE DEF Due
  <2>. QED  BY <2>4
<1>6. n \in T
  <2>1. \A i \in 0 .. n : i \in T
    <3>. HIDE DEF T
    <3>. QED  BY <1>1, <1>4, <1>5, UpTo
  <2>2. n \in 0 .. n
    OBVIOUS
  <2>. QED  BY <2>1, <2>2, Zenon
<1>7. Due(n)
  BY <1>1 DEF ToSet
<1>. QED  BY <1>2, <1>6, <1>7

-------------------------------------------------------------------------------
(* The settings a queue amounts to                                         *)

(* v is the value of key after the first n entries of a queue, d before it. *)
After(queue, n, key, d, v) ==
    \/ \E j \in 1 .. n : /\ Sets(queue[j], key) /\ queue[j].value = v
                         /\ \A m \in j + 1 .. n : ~ Sets(queue[m], key)
    \/ v = d /\ \A m \in 1 .. n : ~ Sets(queue[m], key)

(* The queue takes key from d to v, and each of its messages that is not in *)
(* X was sent under what the settings ahead of it amount to.                *)
Faithful(queue, key, d, X) ==
    \A i \in 1 .. Len(queue) :
        IsMessage(queue[i]) /\ queue[i].id \notin X => After(queue, i - 1, key, d, queue[i].under[key])

Chain(queue, key, d, v, X) ==
    Faithful(queue, key, d, X) /\ After(queue, Len(queue), key, d, v)

LEMMA AfterUnique ==
    ASSUME NEW q, NEW n \in Nat, NEW key, NEW d, NEW v, NEW w,
           After(q, n, key, d, v), After(q, n, key, d, w)
    PROVE  v = w
<1>1. CASE \A m \in 1 .. n : ~ Sets(q[m], key)
  BY <1>1 DEF After
<1>2. CASE \E m \in 1 .. n : Sets(q[m], key)
  <2>1. PICK i \in 1 .. n : /\ Sets(q[i], key) /\ q[i].value = v
                            /\ \A m \in i + 1 .. n : ~ Sets(q[m], key)
    BY <1>2 DEF After
  <2>2. PICK j \in 1 .. n : /\ Sets(q[j], key) /\ q[j].value = w
                            /\ \A m \in j + 1 .. n : ~ Sets(q[m], key)
    BY <1>2 DEF After
  <2>3. ~ (i < j) /\ ~ (j < i)
    BY <2>1, <2>2
  <2>4. i = j
    BY <2>3
  <2>. QED  BY <2>1, <2>2, <2>4
<1>. QED  BY <1>1, <1>2

LEMMA AfterSame ==
    ASSUME NEW q, NEW r, NEW n \in Nat, \A i \in 1 .. n : q[i] = r[i],
           NEW key, NEW d, NEW v, After(q, n, key, d, v)
    PROVE  After(r, n, key, d, v)
<1>1. \A j \in 1 .. n : \A m \in j + 1 .. n : m \in 1 .. n
  OBVIOUS
<1>. QED  BY <1>1 DEF After

LEMMA AfterNext ==
    ASSUME NEW q, NEW n \in Nat, NEW key, NEW d, NEW v, After(q, n, key, d, v)
    PROVE  After(q, n + 1, key, d, IF Sets(q[n + 1], key) THEN q[n + 1].value ELSE v)
<1>1. CASE Sets(q[n + 1], key)
  <2>1. /\ n + 1 \in 1 .. n + 1
        /\ \A m \in (n + 1) + 1 .. n + 1 : FALSE
    OBVIOUS
  <2>. QED  BY <1>1, <2>1 DEF After
<1>2. CASE ~ Sets(q[n + 1], key)
  <2>1. \A j \in 1 .. n + 1 : \A m \in j .. n + 1 : m \in j .. n \/ m = n + 1
    OBVIOUS
  <2>2. CASE v = d /\ \A m \in 1 .. n : ~ Sets(q[m], key)
    <3>1. \A m \in 1 .. n + 1 : ~ Sets(q[m], key)
      BY <1>2, <2>1, <2>2
    <3>. QED  BY <1>2, <2>2, <3>1 DEF After
  <2>3. CASE \E j \in 1 .. n : /\ Sets(q[j], key) /\ q[j].value = v
                               /\ \A m \in j + 1 .. n : ~ Sets(q[m], key)
    <3>1. PICK j \in 1 .. n : /\ Sets(q[j], key) /\ q[j].value = v
                              /\ \A m \in j + 1 .. n : ~ Sets(q[m], key)
      BY <2>3
    <3>2. j \in 1 .. n + 1 /\ \A m \in j + 1 .. n + 1 : ~ Sets(q[m], key)
      BY <1>2, <2>1, <3>1
    <3>. QED  BY <1>2, <3>1, <3>2 DEF After
  <2>. QED  BY <2>2, <2>3 DEF After
<1>. QED  BY <1>1, <1>2

LEMMA ChainEmpty ==
    ASSUME NEW key, NEW d, NEW v, NEW X
    PROVE  Chain(<<>>, key, d, v, X) <=> v = d
BY DEF Chain, Faithful, After

LEMMA ChainMore ==
    ASSUME NEW q, NEW key, NEW d, NEW v, NEW X, NEW Y, X \subseteq Y, Chain(q, key, d, v, X)
    PROVE  Chain(q, key, d, v, Y)
BY DEF Chain, Faithful

LEMMA ChainAppend ==
    ASSUME NEW q \in Seq(Control), NEW c \in Control, NEW key, NEW d, NEW v, NEW X,
           Chain(q, key, d, v, X),
           IsMessage(c) /\ c.id \notin X => c.under[key] = v
    PROVE  Chain(Append(q, c), key, d, IF Sets(c, key) THEN c.value ELSE v, X)
<1>1. PICK n \in Nat : n = Len(q)
  OBVIOUS
<1>2. PICK r \in Seq(Control) : r = Append(q, c)
  BY AppendProperties
<1>3. /\ Len(r) = n + 1 /\ r[n + 1] = c
      /\ \A i \in 1 .. n : r[i] = q[i]
  BY <1>1, <1>2, AppendProperties
<1>4. \A i \in 0 .. n : \A w : After(q, i, key, d, w) => After(r, i, key, d, w)
  <2>1. SUFFICES ASSUME NEW i \in 0 .. n, NEW w, After(q, i, key, d, w)
                 PROVE  After(r, i, key, d, w)
    OBVIOUS
  <2>2. i \in Nat /\ \A j \in 1 .. i : q[j] = r[j]
    BY <1>3
  <2>. QED  BY <2>1, <2>2, AfterSame
<1>5. After(r, n, key, d, v)
  BY <1>1, <1>4 DEF Chain
<1>6. After(r, n + 1, key, d, IF Sets(c, key) THEN c.value ELSE v)
  BY <1>3, <1>5, AfterNext
<1>7. Faithful(r, key, d, X)
  <2>1. SUFFICES ASSUME NEW i \in 1 .. n + 1, IsMessage(r[i]), r[i].id \notin X
                 PROVE  After(r, i - 1, key, d, r[i].under[key])
    BY <1>3 DEF Faithful
  <2>2. CASE i = n + 1
    <3>1. c.under[key] = v /\ i - 1 = n /\ r[i] = c
      BY <1>3, <2>1, <2>2
    <3>. QED  BY <1>5, <3>1
  <2>3. CASE i \in 1 .. n
    <3>1. After(q, i - 1, key, d, q[i].under[key]) /\ i - 1 \in 0 .. n /\ r[i] = q[i]
      BY <1>1, <1>3, <2>1, <2>3 DEF Chain, Faithful
    <3>. QED  BY <1>4, <3>1
  <2>. QED  BY <2>2, <2>3
<1>. QED  BY <1>2, <1>3, <1>6, <1>7 DEF Chain

(* Nothing in b sets anything, and its messages are in X.                   *)
LEMMA ChainJoin ==
    ASSUME NEW b \in Seq(Control), NEW q \in Seq(Control), NEW key, NEW d, NEW v, NEW X,
           \A i \in 1 .. Len(b) : b[i].kind # "set" /\ (IsMessage(b[i]) => b[i].id \in X),
           Chain(q, key, d, v, X)
    PROVE  Chain(b \o q, key, d, v, X)
<1>1. PICK m \in Nat, n \in Nat : m = Len(b) /\ n = Len(q)
  OBVIOUS
<1>2. PICK s \in Seq(Control) : s = b \o q
  BY ConcatProperties
<1>3. /\ Len(s) = m + n
      /\ \A i \in 1 .. m : s[i] = b[i]
      /\ \A i \in 1 .. n : s[m + i] = q[i]
      /\ \A i \in 1 .. m + n : i \notin 1 .. m => i - m \in 1 .. n /\ s[i] = q[i - m]
  BY <1>1, <1>2, ConcatProperties
<1>4. \A i \in 1 .. m : ~ Sets(s[i], key)
  BY <1>1, <1>3 DEF Sets
<1>5. \A k \in 0 .. n : \A w : After(q, k, key, d, w) => After(s, m + k, key, d, w)
  <2>1. SUFFICES ASSUME NEW k \in 0 .. n, NEW w, After(q, k, key, d, w)
                 PROVE  After(s, m + k, key, d, w)
    OBVIOUS
  <2>2. \A i \in 1 .. m + k : i \in 1 .. m \/ (i - m \in 1 .. k /\ s[i] = q[i - m])
    BY <1>3
  <2>3. CASE w = d /\ \A i \in 1 .. k : ~ Sets(q[i], key)
    BY <1>4, <2>2, <2>3 DEF After
  <2>4. CASE \E j \in 1 .. k : /\ Sets(q[j], key) /\ q[j].value = w
                               /\ \A i \in j + 1 .. k : ~ Sets(q[i], key)
    <3>1. PICK j \in 1 .. k : /\ Sets(q[j], key) /\ q[j].value = w
                              /\ \A i \in j + 1 .. k : ~ Sets(q[i], key)
      BY <2>4
    <3>2. m + j \in 1 .. m + k /\ s[m + j] = q[j]
      BY <1>3
    <3>3. \A i \in (m + j) + 1 .. m + k : i - m \in j + 1 .. k /\ s[i] = q[i - m]
      BY <1>3
    <3>. QED  BY <3>1, <3>2, <3>3 DEF After
  <2>. QED  BY <2>1, <2>3, <2>4 DEF After
<1>6. Faithful(s, key, d, X)
  <2>1. SUFFICES ASSUME NEW i \in 1 .. m + n, IsMessage(s[i]), s[i].id \notin X
                 PROVE  After(s, i - 1, key, d, s[i].under[key])
    BY <1>3 DEF Faithful
  <2>2. i \notin 1 .. m
    BY <1>1, <1>3, <2>1
  <2>3. PICK k \in 1 .. n : k = i - m /\ s[i] = q[k]
    BY <1>3, <2>2
  <2>4. After(q, k - 1, key, d, q[k].under[key])
    BY <1>1, <2>1, <2>3 DEF Chain, Faithful
  <2>5. k - 1 \in 0 .. n /\ m + (k - 1) = i - 1
    BY <2>3
  <2>6. After(s, m + (k - 1), key, d, s[i].under[key])
    BY <1>5, <2>3, <2>4, <2>5
  <2>. QED  BY <2>5, <2>6
<1>7. After(s, m + n, key, d, v)
  BY <1>1, <1>5 DEF Chain
<1>. QED  BY <1>2, <1>3, <1>6, <1>7 DEF Chain

LEMMA ChainThinned ==
    ASSUME NEW q \in Seq(Command), NEW S, NEW r, Thinned(r, q, S),
           \A c \in S : c.kind # "set",
           NEW key, NEW d, NEW v, NEW X, Chain(q, key, d, v, X)
    PROVE  Chain(r, key, d, v, X)
<1>1. PICK h : Thins(r, q, Len(q), S, h)
  BY DEF Thinned
<1>2. PICK m \in Nat, n \in Nat : m = Len(r) /\ n = Len(q)
  BY <1>1 DEF Thins
<1>3. /\ \A a \in 1 .. m : h[a] \in 1 .. n /\ r[a] = q[h[a]]
      /\ \A a, b \in 1 .. m : a < b => h[a] < h[b]
      /\ \A j \in 1 .. n : Sets(q[j], key) => \E a \in 1 .. m : h[a] = j
  BY <1>1, <1>2 DEF Thins, Sets
<1>4. ASSUME NEW i \in 0 .. m, NEW k \in 0 .. n,
             \A a \in 1 .. m : a <= i <=> h[a] <= k,
             NEW w, After(q, k, key, d, w)
      PROVE  After(r, i, key, d, w)
  <2>1. CASE w = d /\ \A j \in 1 .. k : ~ Sets(q[j], key)
    <3>1. \A a \in 1 .. i : a \in 1 .. m /\ h[a] \in 1 .. k /\ r[a] = q[h[a]]
      BY <1>3, <1>4
    <3>. QED  BY <2>1, <3>1 DEF After
  <2>2. CASE \E j \in 1 .. k : /\ Sets(q[j], key) /\ q[j].value = w
                               /\ \A l \in j + 1 .. k : ~ Sets(q[l], key)
    <3>1. PICK j \in 1 .. k : /\ Sets(q[j], key) /\ q[j].value = w
                              /\ \A l \in j + 1 .. k : ~ Sets(q[l], key)
      BY <2>2
    <3>2. j \in 1 .. n
      OBVIOUS
    <3>3. PICK a \in 1 .. m : h[a] = j
      BY <1>3, <3>1, <3>2
    <3>4. a \in 1 .. i /\ r[a] = q[j]
      BY <1>3, <1>4, <3>3
    <3>5. ASSUME NEW b \in a + 1 .. i PROVE ~ Sets(r[b], key)
      <4>1. b \in 1 .. m /\ a < b /\ b <= i
        OBVIOUS
      <4>2. h[b] \in 1 .. n /\ h[a] < h[b] /\ h[b] <= k /\ r[b] = q[h[b]]
        BY <1>3, <1>4, <4>1
      <4>3. PICK x \in 1 .. n : x = h[b] /\ j < x /\ x <= k
        BY <3>3, <4>2
      <4>4. x \in j + 1 .. k
        BY <4>3
      <4>. QED  BY <3>1, <4>2, <4>3, <4>4
    <3>. QED  BY <3>1, <3>4, <3>5 DEF After
  <2>. QED  BY <1>4, <2>1, <2>2 DEF After
<1>5. After(r, m, key, d, v)
  <2>1. \A a \in 1 .. m : a <= m <=> h[a] <= n
    BY <1>3
  <2>2. After(q, n, key, d, v)
    BY <1>2 DEF Chain
  <2>3. m \in 0 .. m /\ n \in 0 .. n
    OBVIOUS
  <2>. QED  BY <1>4, <2>1, <2>2, <2>3
<1>6. Faithful(r, key, d, X)
  <2>1. SUFFICES ASSUME NEW i \in 1 .. m, IsMessage(r[i]), r[i].id \notin X
                 PROVE  After(r, i - 1, key, d, r[i].under[key])
    BY <1>2 DEF Faithful
  <2>2. h[i] \in 1 .. n /\ r[i] = q[h[i]]
    BY <1>3
  <2>3. After(q, h[i] - 1, key, d, r[i].under[key])
    BY <1>2, <2>1, <2>2 DEF Chain, Faithful
  <2>4. ASSUME NEW a \in 1 .. m PROVE a <= i - 1 <=> h[a] <= h[i] - 1
    <3>1. h[a] \in 1 .. n
      BY <1>3
    <3>2. CASE a < i
      <4>1. h[a] < h[i]
        BY <1>3, <3>2
      <4>. QED  BY <2>2, <3>1, <3>2, <4>1
    <3>3. CASE a = i
      BY <2>2, <3>3
    <3>4. CASE i < a
      <4>1. h[i] < h[a]
        BY <1>3, <3>4
      <4>. QED  BY <2>2, <3>1, <3>4, <4>1
    <3>. QED  BY <3>2, <3>3, <3>4
  <2>5. i - 1 \in 0 .. m /\ h[i] - 1 \in 0 .. n
    BY <2>2
  <2>. QED  BY <1>4, <2>3, <2>4, <2>5
<1>. QED  BY <1>2, <1>5, <1>6 DEF Chain

(* The head of a queue, and what is behind it.                              *)
LEMMA ChainHead ==
    ASSUME NEW q \in Seq(Control), q # <<>>, NEW key, NEW d, NEW v, NEW X,
           Chain(q, key, d, v, X)
    PROVE  /\ IsMessage(Head(q)) /\ Head(q).id \notin X => Head(q).under[key] = d
           /\ Chain(Tail(q), key, IF Sets(Head(q), key) THEN Head(q).value ELSE d, v, X)
<1>1. PICK n \in Nat : n = Len(q) - 1
  <2>1. Len(q) - 1 \in Nat
    BY HeadAndTail
  <2>. QED  BY <2>1, Zenon
<1>2. PICK r \in Seq(Control), c \in Control : r = Tail(q) /\ c = Head(q)
  BY HeadAndTail
<1>3. Len(r) = Len(q) - 1 /\ \A i \in 1 .. Len(q) - 1 : r[i] = q[i + 1]
  BY <1>2, HeadAndTail, Zenon
<1>4. Len(r) = n /\ \A i \in 1 .. n : r[i] = q[i + 1]
  BY <1>1, <1>3, Zenon
<1>5. Len(q) = n + 1
  BY <1>1
<1>6. q[1] = c
  BY <1>2, HeadAndTail, Zenon
<1>. DEFINE e == IF Sets(c, key) THEN c.value ELSE d
<1>7. ASSUME NEW i \in 0 .. n, NEW w, After(q, i + 1, key, d, w)
      PROVE  After(r, i, key, e, w)
  <2>1. CASE w = d /\ \A j \in 1 .. i + 1 : ~ Sets(q[j], key)
    <3>1. ~ Sets(c, key)
      <4>1. 1 \in 1 .. i + 1
        OBVIOUS
      <4>. QED  BY <1>6, <2>1, <4>1
    <3>2. \A j \in 1 .. i : j + 1 \in 1 .. i + 1 /\ r[j] = q[j + 1]
      BY <1>4
    <3>. QED  BY <2>1, <3>1, <3>2 DEF After
  <2>2. CASE \E j \in 1 .. i + 1 : /\ Sets(q[j], key) /\ q[j].value = w
                                   /\ \A m \in j + 1 .. i + 1 : ~ Sets(q[m], key)
    <3>1. PICK j \in 1 .. i + 1 : /\ Sets(q[j], key) /\ q[j].value = w
                                  /\ \A m \in j + 1 .. i + 1 : ~ Sets(q[m], key)
      BY <2>2
    <3>2. CASE j = 1
      <4>1. \A m \in 1 .. i : m + 1 \in j + 1 .. i + 1 /\ r[m] = q[m + 1]
        BY <1>4, <3>2
      <4>2. \A m \in 1 .. i : ~ Sets(r[m], key)
        BY <3>1, <4>1
      <4>3. w = e
        BY <1>6, <3>1, <3>2
      <4>. QED  BY <4>2, <4>3 DEF After
    <3>3. CASE j # 1
      <4>1. PICK k \in 1 .. i : k + 1 = j
        <5>1. j - 1 \in 1 .. i /\ (j - 1) + 1 = j
          BY <3>3
        <5>. QED  BY <5>1, Zenon
      <4>2. r[k] = q[j]
        BY <1>4, <4>1
      <4>3. \A m \in k + 1 .. i : m + 1 \in j + 1 .. i + 1 /\ r[m] = q[m + 1]
        BY <1>4, <4>1
      <4>4. \A m \in k + 1 .. i : ~ Sets(r[m], key)
        BY <3>1, <4>3
      <4>. QED  BY <3>1, <4>1, <4>2, <4>4 DEF After
    <3>. QED  BY <3>2, <3>3
  <2>. HIDE DEF e
  <2>. QED  BY <1>7, <2>1, <2>2 DEF After
<1>8. After(r, n, key, e, v)
  <2>1. After(q, n + 1, key, d, v) /\ n \in 0 .. n
    BY <1>5 DEF Chain
  <2>. HIDE DEF e
  <2>. QED  BY <1>7, <2>1
<1>9. Faithful(r, key, e, X)
  <2>1. SUFFICES ASSUME NEW i \in 1 .. n, IsMessage(r[i]), r[i].id \notin X
                 PROVE  After(r, i - 1, key, e, r[i].under[key])
    <3>. HIDE DEF e
    <3>. QED  BY <1>4 DEF Faithful
  <2>2. i + 1 \in 1 .. n + 1 /\ r[i] = q[i + 1] /\ (i + 1) - 1 = i
    BY <1>4
  <2>3. After(q, i, key, d, r[i].under[key])
    BY <1>5, <2>1, <2>2 DEF Chain, Faithful
  <2>4. i - 1 \in 0 .. n /\ (i - 1) + 1 = i
    OBVIOUS
  <2>. HIDE DEF e
  <2>. QED  BY <1>7, <2>3, <2>4
<1>10. IsMessage(c) /\ c.id \notin X => c.under[key] = d
  <2>1. SUFFICES ASSUME IsMessage(c), c.id \notin X PROVE c.under[key] = d
    OBVIOUS
  <2>2. After(q, 0, key, d, c.under[key])
    <3>1. 1 \in 1 .. n + 1 /\ 1 - 1 = 0
      OBVIOUS
    <3>. QED  BY <1>5, <1>6, <2>1, <3>1 DEF Chain, Faithful
  <2>. QED  BY <2>2 DEF After
<1>11. Chain(r, key, e, v, X)
  <2>. HIDE DEF e
  <2>. QED  BY <1>4, <1>8, <1>9 DEF Chain
<1>. QED  BY <1>2, <1>10, <1>11

(* A setting whose place is in the trailing run of settings is taken out;   *)
(* the later one of the same key makes up for it.                           *)
LEMMA ChainReplaced ==
    ASSUME NEW q \in Seq(Command), NEW m \in 1 .. Len(q), NEW c \in Command,
           c.kind = "set", Sets(q[m], c.key),
           \A j \in m .. Len(q) : q[j].kind = "set",
           NEW key, NEW d, NEW v, NEW X, Chain(q, key, d, v, X)
    PROVE  Chain(Append(RemoveAt(q, m), c), key, d, IF Sets(c, key) THEN c.value ELSE v, X)
<1>1. PICK n \in Nat : n = Len(q)
  OBVIOUS
<1>2. PICK r \in Seq(Command) : r = RemoveAt(q, m)
  BY Removed
<1>3. /\ Len(r) = n - 1
      /\ \A i \in 1 .. m - 1 : r[i] = q[i]
      /\ \A i \in m .. n - 1 : r[i] = q[i + 1]
  BY <1>1, <1>2, Removed
<1>4. Faithful(r, key, d, X)
  <2>1. SUFFICES ASSUME NEW i \in 1 .. n - 1, IsMessage(r[i]), r[i].id \notin X
                 PROVE  After(r, i - 1, key, d, r[i].under[key])
    BY <1>3 DEF Faithful
  <2>2. i < m
    <3>1. SUFFICES ASSUME m <= i PROVE FALSE
      BY <1>1
    <3>2. r[i] = q[i + 1] /\ i + 1 \in m .. n
      BY <1>1, <1>3, <3>1
    <3>3. r[i].kind = "set"
      BY <1>1, <3>2
    <3>. QED  BY <2>1, <3>3 DEF IsMessage, MessageKinds
  <2>3. r[i] = q[i] /\ i \in 1 .. n
    BY <1>1, <1>3, <2>2
  <2>4. After(q, i - 1, key, d, r[i].under[key])
    BY <1>1, <2>1, <2>3 DEF Chain, Faithful
  <2>5. i - 1 \in Nat /\ \A j \in 1 .. i - 1 : q[j] = r[j]
    BY <1>1, <1>3, <2>2
  <2>. QED  BY <2>4, <2>5, AfterSame
<1>5. CASE Sets(c, key)
  <2>1. PICK s \in Seq(Command) : s = Append(r, c)
    BY AppendProperties
  <2>2. /\ Len(s) = (n - 1) + 1 /\ s[(n - 1) + 1] = c
        /\ \A i \in 1 .. n - 1 : s[i] = r[i]
    BY <1>3, <2>1, AppendProperties
  <2>3. Len(s) = n /\ s[n] = c /\ n \in 1 .. n
    BY <1>1, <2>2
  <2>4. After(s, n, key, d, c.value)
    <3>1. \A j \in n + 1 .. n : FALSE
      OBVIOUS
    <3>. QED  BY <1>5, <2>3, <3>1 DEF After
  <2>5. Faithful(s, key, d, X)
    <3>1. SUFFICES ASSUME NEW i \in 1 .. n, IsMessage(s[i]), s[i].id \notin X
                   PROVE  After(s, i - 1, key, d, s[i].under[key])
      BY <2>3 DEF Faithful
    <3>2. i # n
      BY <2>3, <3>1 DEF IsMessage, MessageKinds
    <3>3. i \in 1 .. n - 1 /\ s[i] = r[i]
      BY <2>2, <3>2
    <3>4. After(r, i - 1, key, d, s[i].under[key])
      BY <1>3, <1>4, <3>1, <3>3 DEF Faithful
    <3>5. i - 1 \in Nat /\ \A j \in 1 .. i - 1 : r[j] = s[j]
      BY <2>2, <3>3
    <3>. QED  BY <3>4, <3>5, AfterSame
  <2>. QED  BY <1>2, <1>5, <2>1, <2>3, <2>4, <2>5 DEF Chain
<1>6. CASE ~ Sets(c, key)
  <2>1. ~ Sets(q[m], key)
    BY <1>6 DEF Sets
  <2>2. After(q, n, key, d, v)
    BY <1>1 DEF Chain
  <2>3. After(r, n - 1, key, d, v)
    <3>. DEFINE h(i) == IF i < m THEN i ELSE i + 1
    <3>1. \A i \in 1 .. n - 1 : h(i) \in 1 .. n /\ r[i] = q[h(i)]
      <4>1. SUFFICES ASSUME NEW i \in 1 .. n - 1 PROVE h(i) \in 1 .. n /\ r[i] = q[h(i)]
        OBVIOUS
      <4>2. CASE i < m
        BY <1>1, <1>3, <4>2
      <4>3. CASE ~ (i < m)
        BY <1>1, <1>3, <4>3
      <4>. QED  BY <4>2, <4>3
    <3>2. CASE v = d /\ \A j \in 1 .. n : ~ Sets(q[j], key)
      <4>. HIDE DEF h
      <4>. QED  BY <3>1, <3>2 DEF After
    <3>3. CASE \E j \in 1 .. n : /\ Sets(q[j], key) /\ q[j].value = v
                                 /\ \A l \in j + 1 .. n : ~ Sets(q[l], key)
      <4>1. PICK j \in 1 .. n : /\ Sets(q[j], key) /\ q[j].value = v
                                /\ \A l \in j + 1 .. n : ~ Sets(q[l], key)
        BY <3>3
      <4>2. j # m
        BY <2>1, <4>1
      <4>3. PICK k \in 1 .. n - 1 : h(k) = j
        <5>1. CASE j < m
          <6>1. j \in 1 .. n - 1 /\ h(j) = j
            BY <1>1, <5>1
          <6>. HIDE DEF h
          <6>. QED  BY <6>1
        <5>2. CASE j > m
          <6>1. j - 1 \in 1 .. n - 1 /\ h(j - 1) = j
            BY <1>1, <5>2
          <6>. HIDE DEF h
          <6>. QED  BY <6>1
        <5>. QED  BY <4>2, <5>1, <5>2
      <4>4. \A l \in k + 1 .. n - 1 : l \in 1 .. n - 1 /\ h(l) > j /\ h(l) \in 1 .. n
        BY <1>1, <4>3
      <4>5. \A l \in k + 1 .. n - 1 : ~ Sets(r[l], key)
        <5>1. SUFFICES ASSUME NEW l \in k + 1 .. n - 1 PROVE ~ Sets(r[l], key)
          OBVIOUS
        <5>. HIDE DEF h
        <5>2. PICK x \in 1 .. n : x = h(l) /\ x > j /\ r[l] = q[x]
          BY <3>1, <4>4
        <5>3. x \in j + 1 .. n
          BY <5>2
        <5>. QED  BY <4>1, <5>2, <5>3
      <4>. HIDE DEF h
      <4>. QED  BY <3>1, <4>1, <4>3, <4>5 DEF After
    <3>. QED  BY <2>2, <3>2, <3>3 DEF After
  <2>4. Chain(r, key, d, v, X)
    BY <1>3, <1>4, <2>3 DEF Chain
  <2>5. r \in Seq(Control) /\ c \in Control /\ ~ IsMessage(c)
    BY QueuesHoldControls, CommandKinds DEF IsMessage, MessageKinds
  <2>6. Chain(Append(r, c), key, d, v, X)
    BY <1>6, <2>4, <2>5, ChainAppend
  <2>. QED  BY <1>2, <1>6, <2>6
<1>. QED  BY <1>5, <1>6

LEMMA AbsorbChain ==
    ASSUME NEW q \in Seq(Command), NEW c \in Accepted, NEW key, NEW d, NEW v, NEW X,
           Chain(q, key, d, v, X),
           IsMessage(c) /\ c.id \notin X => c.under[key] = v
    PROVE  Chain(Absorb(q, c), key, d, IF Sets(c, key) THEN c.value ELSE v, X)
<1>1. q \in Seq(Control) /\ c \in Control
  BY QueuesHoldControls, AcceptedKinds
<1>2. CASE c.kind = "interrupt" /\ Absorb(q, c) = WithoutPeers(q)
  <2>1. Thinned(WithoutPeers(q), q, PeersIn(q)) /\ \A p \in PeersIn(q) : p.kind # "set"
    BY WithoutPeersThins DEF PeersIn, Peers
  <2>2. Chain(WithoutPeers(q), key, d, v, X)
    BY <2>1, ChainThinned
  <2>3. ~ Sets(c, key)
    BY <1>2 DEF Sets
  <2>. QED  BY <1>2, <2>2, <2>3
<1>3. CASE c.kind = "cancel" /\ Absorb(q, c) = <<c>> \o q
  <2>1. PICK b : b = <<c>> /\ b \in Seq(Control) /\ Len(b) = 1 /\ b[1] = c
    <3>1. <<c>> \in Seq(Control) /\ Len(<<c>>) = 1 /\ <<c>>[1] = c
      BY <1>1
    <3>. QED  BY <3>1, Zenon
  <2>2. \A i \in 1 .. Len(b) : b[i] = c
    BY <2>1
  <2>3. ~ IsMessage(c) /\ c.kind # "set" /\ ~ Sets(c, key)
    BY <1>3 DEF IsMessage, MessageKinds, Sets
  <2>4. Chain(b \o q, key, d, v, X)
    BY <1>1, <2>1, <2>2, <2>3, ChainJoin
  <2>. QED  BY <1>3, <2>1, <2>3, <2>4
<1>4. CASE c.kind = "withdraw" /\ Absorb(q, c) = Append(Without(q, c.id), c)
  <2>1. PICK r \in Seq(Control) : r = Without(q, c.id)
    BY WithoutType, QueuesHoldControls
  <2>2. Thinned(r, q, Named(q, c.id)) /\ \A p \in Named(q, c.id) : p.kind # "set"
    BY <2>1, WithoutThins DEF Named
  <2>3. Chain(r, key, d, v, X)
    BY <2>2, ChainThinned
  <2>4. ~ IsMessage(c) /\ ~ Sets(c, key)
    BY <1>4 DEF IsMessage, MessageKinds, Sets
  <2>5. Chain(Append(r, c), key, d, v, X)
    BY <1>1, <2>3, <2>4, ChainAppend
  <2>. QED  BY <1>4, <2>1, <2>4, <2>5
<1>5. CASE c.kind = "set" /\ c \in Command /\ Absorb(q, c) = EnqueueSetting(q, c)
  <2>1. ~ IsMessage(c)
    BY <1>5 DEF IsMessage, MessageKinds
  <2>2. CASE EnqueueSetting(q, c) = Append(q, c)
    <3>1. Chain(Append(q, c), key, d, IF Sets(c, key) THEN c.value ELSE v, X)
      BY <1>1, <2>1, ChainAppend
    <3>. QED  BY <1>5, <2>2, <3>1
  <2>3. ASSUME NEW m \in 1 .. Len(q),
               Sets(q[m], c.key), \A j \in m .. Len(q) : q[j].kind = "set",
               EnqueueSetting(q, c) = Append(RemoveAt(q, m), c)
        PROVE  Chain(Absorb(q, c), key, d, IF Sets(c, key) THEN c.value ELSE v, X)
    <3>1. Chain(Append(RemoveAt(q, m), c), key, d, IF Sets(c, key) THEN c.value ELSE v, X)
      BY <1>5, <2>3, ChainReplaced
    <3>. QED  BY <1>5, <2>3, <3>1
  <2>. QED  BY <1>5, <2>2, <2>3, EnqueueSettingForms
<1>6. CASE Absorb(q, c) = Append(q, c)
  <2>1. Chain(Append(q, c), key, d, IF Sets(c, key) THEN c.value ELSE v, X)
    BY <1>1, ChainAppend
  <2>. QED  BY <1>6, <2>1
<1>. QED  BY <1>2, <1>3, <1>4, <1>5, <1>6, AbsorbForms

(* Absorbing one queue into another, the settings of the second follow      *)
(* those of the first.                                                      *)
LEMMA AbsorbAllChain ==
    ASSUME NEW q \in Seq(Command), NEW cs \in Seq(Accepted),
           NEW key, NEW d, NEW e, NEW v, NEW X,
           Chain(q, key, d, e, X), Chain(cs, key, e, v, X)
    PROVE  Chain(AbsorbAll(q, cs), key, d, v, X)
<1>1. PICK n \in Nat : n = Len(cs)
  OBVIOUS
<1>2. PICK f : Absorbs(q, cs, f) /\ AbsorbAll(q, cs) = f[n]
  BY <1>1, AbsorbAllSteps
<1>3. /\ f[0] = q
      /\ \A i \in 1 .. n : /\ f[i] = Absorb(f[i - 1], cs[i])
                           /\ f[i - 1] \in Seq(Command) /\ cs[i] \in Accepted
  <2>1. \A i \in 1 .. n : i - 1 \in 0 .. n /\ cs[i] \in Accepted
    BY <1>1
  <2>. QED  BY <1>1, <1>2, <2>1 DEF Absorbs
<1>. DEFINE Good(i) == \E w : Chain(f[i], key, d, w, X) /\ After(cs, i, key, e, w)
            T == {i \in 0 .. n : Good(i)}
<1>4. 0 \in T
  <2>1. After(cs, 0, key, e, e)
    BY DEF After
  <2>. QED  BY <1>3, <2>1
<1>5. \A i \in 1 .. n : i - 1 \in T => i \in T
  <2>1. SUFFICES ASSUME NEW i \in 1 .. n, Good(i - 1) PROVE Good(i)
    OBVIOUS
  <2>2. PICK g \in Seq(Command), c \in Accepted : g = f[i - 1] /\ c = cs[i] /\ f[i] = Absorb(g, c)
    BY <1>3
  <2>3. PICK w : Chain(g, key, d, w, X) /\ After(cs, i - 1, key, e, w)
    BY <2>1, <2>2
  <2>4. IsMessage(c) /\ c.id \notin X => c.under[key] = w
    <3>1. SUFFICES ASSUME IsMessage(c), c.id \notin X PROVE c.under[key] = w
      OBVIOUS
    <3>2. After(cs, i - 1, key, e, c.under[key])
      BY <1>1, <2>2, <3>1 DEF Chain, Faithful
    <3>3. i - 1 \in Nat
      OBVIOUS
    <3>. QED  BY <2>3, <3>2, <3>3, AfterUnique
  <2>5. Chain(f[i], key, d, IF Sets(c, key) THEN c.value ELSE w, X)
    BY <2>2, <2>3, <2>4, AbsorbChain
  <2>6. After(cs, i, key, e, IF Sets(c, key) THEN c.value ELSE w)
    <3>1. PICK k \in Nat : k = i - 1 /\ k + 1 = i
      <4>1. i - 1 \in Nat /\ (i - 1) + 1 = i
        OBVIOUS
      <4>. QED  BY <4>1, Zenon
    <3>2. After(cs, k + 1, key, e, IF Sets(cs[k + 1], key) THEN cs[k + 1].value ELSE w)
      BY <2>3, <3>1, AfterNext
    <3>. QED  BY <2>2, <3>1, <3>2
  <2>. QED  BY <2>5, <2>6
<1>6. Good(n)
  <2>1. \A i \in 0 .. n : i \in T
    <3>. HIDE DEF T
    <3>. QED  BY <1>1, <1>4, <1>5, UpTo
  <2>2. n \in 0 .. n
    OBVIOUS
  <2>. HIDE DEF Good
  <2>. QED  BY <2>1, <2>2
<1>7. PICK w : Chain(f[n], key, d, w, X) /\ After(cs, n, key, e, w)
  BY <1>6
<1>8. w = v
  BY <1>1, <1>7, AfterUnique DEF Chain
<1>. QED  BY <1>2, <1>7, <1>8

-------------------------------------------------------------------------------
(* The inductive invariant                                                 *)

(* Messages are numbered as they were sent; cancellations name prompts.    *)
Known(c, n, named) ==
    /\ IsMessage(c) => c.id \in 1 .. n /\ (c.kind = "prompt" <=> c.id \in named)
    /\ Cancels(c) => c.id \in named

Typed(ch, def, park, bound, n, named) ==
    /\ ch \in Seq(Control) /\ def \in Seq(Command)
    /\ park \in Seq(Command) /\ bound \in Seq(Message)
    /\ \A c \in ToSet(ch) \cup ToSet(def) \cup ToSet(park) \cup ToSet(bound) : Known(c, n, named)
    /\ \A c \in ToSet(park) : ~ Cancels(c)

(* The types of the variables that are no queues.                          *)
Bounded ==
    /\ phase \in {"idle", "turn", "compaction", "stopped"}
    /\ active \in IF phase = "turn" THEN Message ELSE {None}
    /\ phase = "turn" => active.id \in 1 .. messages
    /\ setting \in Setting /\ asked \in Setting
    /\ mode \in {"queue", "insert"}
    /\ sent \in 0 .. MaxControls /\ messages \in 0 .. sent
    /\ prompts \subseteq 1 .. messages
    /\ started \subseteq 1 .. messages
    /\ revoked \subseteq 1 .. messages /\ spared \subseteq revoked
    /\ inserts \subseteq 1 .. messages

(* Each queue is in the order of sending.  What is parked was sent before   *)
(* what is deferred, and all of it before what is in the channel; what is   *)
(* in or has been in the boundary queue is told apart by ins.               *)
InTurn(ch, def, park, bound, act, md, ins) ==
    /\ Before(ToSet(bound), ToSet(def) \cup ToSet(park))
    /\ Before({act}, ToSet(def) \cup ToSet(park) \cup ToSet(ch))
    /\ \A b \in ToSet(bound) : act.id < b.id \/ act.id \notin ins
    /\ md = "insert" => \A c \in ToSet(park) : ~ IsMessage(c)

Between(def, park, bound, ins) ==
    /\ park = <<>>
    /\ \A b \in ToSet(bound), x, y \in ToSet(def) :
          IsMessage(x) /\ IsMessage(y) /\ x.id < y.id => y.id \notin ins
    /\ \A b \in ToSet(bound), x \in ToSet(def) :
          IsMessage(x) => IF x.id \in ins THEN x.id < b.id ELSE b.id < x.id

Order(ch, def, park, bound, ph, act, md, ins) ==
    /\ Sorted(ch) /\ Sorted(def) /\ Sorted(park) /\ Sorted(bound)
    /\ Before(ToSet(park), ToSet(def))
    /\ Before(ToSet(park) \cup ToSet(def) \cup ToSet(bound), ToSet(ch))
    /\ \A b \in ToSet(bound) : IsMessage(b) /\ b.id \in ins
    /\ \A c \in ToSet(ch) : IsMessage(c) => c.id \notin ins
    /\ IF ph = "turn" THEN InTurn(ch, def, park, bound, act, md, ins)
                      ELSE Between(def, park, bound, ins)

(* A message whose cancellation was received, and not while it waited in    *)
(* the boundary queue, is gone from the queues, or it is a prompt and its    *)
(* cancellation is ahead of it.                                             *)
Firm == revoked \ spared

Revocation(ch, def, park, begun, firm) ==
    /\ begun \cap firm = {}
    /\ \A c \in ToSet(ch) : IsMessage(c) => c.id \notin firm
    /\ \A j \in 1 .. Len(ch) : \A i \in 1 .. j - 1 :
          Cancels(ch[i]) /\ IsMessage(ch[j]) => ch[i].id # ch[j].id
    /\ \A c \in ToSet(def) \cup ToSet(park) : c.kind \in Peers => c.id \notin firm
    /\ Shielded(def, firm)
    /\ \A c \in ToSet(park) : c.kind = "prompt" /\ c.id \in firm =>
          \E e \in ToSet(def) : Cancels(e) /\ e.id = c.id

Untouched(bound, firm) == \A b \in ToSet(bound) : b.id \notin firm

(* The settings in force, taken through what is parked, deferred and sent,  *)
(* become those asked for, and meet every message at what it was sent under. *)
Chained(ch, def, park, key, d, v, ins) ==
    \E e, f : /\ Chain(park, key, d, e, ins)
              /\ Chain(def, key, e, f, ins)
              /\ Chain(ch, key, f, v, ins)

InForce(ch, def, park, ph, act, set, ask, ins) ==
    ph # "stopped" =>
        \A key \in Keys :
            /\ Chained(ch, def, park, key, set[key], ask[key], ins)
            /\ ph = "turn" /\ act.id \notin ins => set[key] = act.under[key]

Sound ==
    /\ Bounded
    /\ Typed(channel, deferred, parked, boundary, messages, prompts)
    /\ Order(channel, deferred, parked, boundary, phase, active, mode, inserts)
    /\ Revocation(channel, deferred, parked, started, Firm)
    /\ Untouched(boundary, Firm)
    /\ InForce(channel, deferred, parked, phase, active, setting, asked, inserts)

-------------------------------------------------------------------------------
(* The channel drained into what is deferred                               *)

LEMMA QueueTypes ==
    /\ Seq(Message) \subseteq Seq(Command)
    /\ Seq(Command) \subseteq Seq(Accepted)
    /\ Seq(Accepted) \subseteq Seq(Control)
<1>1. Command \subseteq Accepted
  BY DEF Command, Accepted, Signals
<1>2. Message \subseteq Command /\ Accepted \subseteq Control
  BY MessagesAreCommands DEF Accepted
<1>. QED  BY <1>1, <1>2

LEMMA InQueue ==
    ASSUME NEW S, NEW q \in Seq(S)
    PROVE  /\ ToSet(q) \subseteq S
           /\ \A i \in 1 .. Len(q) : q[i] \in ToSet(q)
           /\ \A c \in ToSet(q) : \E i \in 1 .. Len(q) : q[i] = c
BY DEF ToSet

LEMMA EmptyQueue == ToSet(<<>>) = {} /\ Sorted(<<>>) /\ \A S : <<>> \in Seq(S) /\ Len(<<>>) = 0
BY DEF ToSet, Sorted

LEMMA QueuedNumbers ==
    ASSUME NEW q \in Seq(Control), NEW c \in ToSet(q), IsMessage(c)
    PROVE  c \in Message /\ c.id \in 1 .. MaxControls /\ c.id \in Int
<1>1. c \in Control
  BY InQueue
<1>2. c \in Message
  BY <1>1, ControlKinds
<1>. QED  BY <1>2 DEF Message

LEMMA AcceptsAll ==
    ASSUME NEW ch \in Seq(Control), ~ Holds(ch, "shutdown")
    PROVE  ch \in Seq(Accepted)
<1>1. \A i \in 1 .. Len(ch) : ch[i] \in Accepted
  BY DEF Holds, Accepted
<1>. QED  BY <1>1

LEMMA DrainTyped ==
    ASSUME NEW ch \in Seq(Accepted), NEW def, NEW park, NEW bound, NEW n, NEW named,
           Typed(ch, def, park, bound, n, named)
    PROVE  Typed(<<>>, AbsorbAll(def, ch), park, bound, n, named)
<1>1. def \in Seq(Command)
  BY DEF Typed
<1>2. /\ AbsorbAll(def, ch) \in Seq(Command)
      /\ ToSet(AbsorbAll(def, ch)) \subseteq ToSet(def) \cup ToSet(ch)
  BY <1>1, AbsorbAllHolds
<1>. QED  BY <1>2, EmptyQueue DEF Typed

LEMMA DrainOrder ==
    ASSUME NEW ch \in Seq(Accepted), NEW def \in Seq(Command), NEW park, NEW bound,
           NEW ph, NEW act, NEW md, NEW ins,
           Order(ch, def, park, bound, ph, act, md, ins)
    PROVE  Order(<<>>, AbsorbAll(def, ch), park, bound, ph, act, md, ins)
<1>1. PICK q \in Seq(Command) : q = AbsorbAll(def, ch)
  BY AbsorbAllHolds
<1>2. ToSet(q) \subseteq ToSet(def) \cup ToSet(ch)
  BY <1>1, AbsorbAllHolds
<1>3. Sorted(q)
  <2>1. Sorted(def) /\ Sorted(ch) /\ Before(ToSet(def), ToSet(ch))
    BY DEF Order, Before
  <2>. QED  BY <1>1, <2>1, AbsorbAllHolds
<1>4. Before(ToSet(park), ToSet(q))
  BY <1>2 DEF Order, Before
<1>5. ToSet(<<>>) = {} /\ Sorted(<<>>)
  BY EmptyQueue
<1>6. CASE ph = "turn"
  <2>1. InTurn(ch, def, park, bound, act, md, ins)
    BY <1>6 DEF Order
  <2>2. Before(ToSet(bound), ToSet(q) \cup ToSet(park))
    BY <1>2, <2>1 DEF Order, InTurn, Before
  <2>3. Before({act}, ToSet(q) \cup ToSet(park) \cup ToSet(<<>>))
    BY <1>2, <1>5, <2>1 DEF InTurn, Before
  <2>4. InTurn(<<>>, q, park, bound, act, md, ins)
    BY <2>1, <2>2, <2>3 DEF InTurn
  <2>. QED  BY <1>1, <1>3, <1>4, <1>5, <1>6, <2>4 DEF Order, Before
<1>7. CASE ph # "turn"
  <2>1. Between(def, park, bound, ins)
    BY <1>7 DEF Order
  <2>2. \A c \in ToSet(ch) : IsMessage(c) => c.id \notin ins
    BY DEF Order
  <2>3. ASSUME NEW b \in ToSet(bound), NEW x \in ToSet(q), IsMessage(x)
        PROVE  IF x.id \in ins THEN x.id < b.id ELSE b.id < x.id
    <3>1. CASE x \in ToSet(def)
      BY <2>1, <2>3, <3>1 DEF Between
    <3>2. CASE x \in ToSet(ch)
      <4>1. IsMessage(b)
        BY DEF Order
      <4>. QED  BY <2>2, <2>3, <3>2, <4>1 DEF Order, Before
    <3>. QED  BY <1>2, <3>1, <3>2
  <2>4. ASSUME NEW b \in ToSet(bound), NEW x \in ToSet(q), NEW y \in ToSet(q),
               IsMessage(x), IsMessage(y), x.id < y.id
        PROVE  y.id \notin ins
    <3>1. CASE y \in ToSet(ch)
      BY <2>2, <2>4, <3>1
    <3>2. CASE y \in ToSet(def) /\ x \in ToSet(def)
      BY <2>1, <2>4, <3>2 DEF Between
    <3>3. CASE y \in ToSet(def) /\ x \in ToSet(ch)
      <4>1. y.id < x.id
        BY <2>4, <3>3 DEF Order, Before
      <4>2. x.id \in Int /\ y.id \in Int
        BY <1>1, <2>4, QueueTypes, QueuedNumbers
      <4>. QED  BY <2>4, <4>1, <4>2
    <3>. QED  BY <1>2, <3>1, <3>2, <3>3
  <2>5. Between(q, park, bound, ins)
    BY <2>1, <2>3, <2>4 DEF Between
  <2>. QED  BY <1>1, <1>3, <1>4, <1>5, <1>7, <2>5 DEF Order, Before
<1>. QED  BY <1>6, <1>7

(* What receiving cs revokes: what its cancellations name, and the peer     *)
(* messages that an interrupt of cs finds, in cs or held from before.       *)
Interrupts(cs) == \E i \in 1 .. Len(cs) : cs[i].kind = "interrupt"

Revokes(cs, def, park, bound, x) ==
    \/ \E c \in ToSet(cs) : Cancels(c) /\ c.id = x
    \/ \E i \in 1 .. Len(cs), j \in 1 .. Len(cs) :
          j < i /\ cs[i].kind = "interrupt" /\ cs[j].kind \in Peers /\ cs[j].id = x
    \/ /\ Interrupts(cs)
       /\ \E p \in ToSet(def) \cup ToSet(park) \cup ToSet(bound) : p.kind \in Peers /\ p.id = x

LEMMA ReceivedRevokes ==
    ASSUME NEW cs \in Seq(Control), NEW dropped, Received(cs, dropped),
           deferred \in Seq(Command), parked \in Seq(Command), boundary \in Seq(Message),
           NEW x
    PROVE  /\ x \in revoked' => x \in revoked \/ Revokes(cs, deferred, parked, boundary, x)
           /\ x \in Firm' =>
                 \/ x \in Firm
                 \/ /\ x \notin started
                    /\ \/ x \in dropped
                       \/ /\ Revokes(cs, deferred, parked, boundary, x)
                          /\ x \notin MessagesOf(boundary)
           /\ spared \subseteq revoked => spared' \subseteq revoked'
<1>. DEFINE breaks == {i \in DOMAIN cs : cs[i].kind = "interrupt"}
<1>1. DOMAIN cs = 1 .. Len(cs) /\ Len(cs) \in Nat
  OBVIOUS
<1>2. ASSUME NEW y \in Revoked(cs) PROVE Revokes(cs, deferred, parked, boundary, y)
  BY <1>1 DEF Revoked, Revokes, Cancels, ToSet
<1>3. ASSUME NEW i \in breaks, NEW y \in PeersBefore(cs, i)
      PROVE  Revokes(cs, deferred, parked, boundary, y)
  <2>1. PICK j \in 1 .. i - 1 : cs[j].kind \in Peers /\ cs[j].id = y
    BY DEF PeersBefore
  <2>2. i \in 1 .. Len(cs) /\ j \in 1 .. Len(cs) /\ j < i /\ cs[i].kind = "interrupt"
    BY <1>1
  <2>. QED  BY <2>1, <2>2 DEF Revokes
<1>4. ASSUME breaks # {}, NEW y \in PeersHeld
      PROVE  Revokes(cs, deferred, parked, boundary, y)
  <2>1. PICK q \in {deferred, parked, boundary} : y \in PeersBefore(q, Len(q) + 1)
    BY <1>4 DEF PeersHeld
  <2>2. q \in Seq(Command)
    BY QueueTypes
  <2>3. PICK j \in 1 .. Len(q) : q[j].kind \in Peers /\ q[j].id = y
    <3>1. Len(q) \in Nat
      BY <2>2
    <3>. QED  BY <2>1, <3>1 DEF PeersBefore
  <2>4. q[j] \in ToSet(deferred) \cup ToSet(parked) \cup ToSet(boundary)
    <3>1. q[j] \in ToSet(q)
      BY <2>2, InQueue
    <3>. QED  BY <3>1
  <2>5. Interrupts(cs)
    BY <1>1, <1>4 DEF Interrupts
  <2>. QED  BY <2>3, <2>4, <2>5 DEF Revokes
<1>5. ASSUME x \in RevokedBy(cs)
      PROVE  x \notin started /\ Revokes(cs, deferred, parked, boundary, x)
  <2>. DEFINE overtaken == UNION {PeersBefore(cs, i) : i \in breaks}
              held == IF breaks = {} THEN {} ELSE PeersHeld
              named == Revoked(cs)
  <2>1. RevokedBy(cs) = (named \cup overtaken \cup held) \ started
    BY DEF RevokedBy
  <2>2. x \in overtaken => \E i \in breaks : x \in PeersBefore(cs, i)
    OBVIOUS
  <2>3. x \in held => breaks # {} /\ x \in PeersHeld
    OBVIOUS
  <2>4. x \notin started /\ (x \in named \/ x \in overtaken \/ x \in held)
    <3>. HIDE DEF overtaken, held, named
    <3>. QED  BY <1>5, <2>1
  <2>. HIDE DEF overtaken, held, breaks
  <2>. QED  BY <1>2, <1>3, <1>4, <2>2, <2>3, <2>4
<1>. HIDE DEF breaks
<1>6. /\ revoked' = revoked \cup RevokedBy(cs)
      /\ spared' = ((spared \ RevokedBy(cs))
                      \cup (RevokedBy(cs) \cap MessagesOf(boundary))) \ (dropped \ started)
  BY DEF Received
<1>7. ASSUME x \in Firm', x \notin Firm
      PROVE  \/ x \in dropped /\ x \notin started
             \/ x \in RevokedBy(cs) /\ x \notin MessagesOf(boundary)
  BY <1>6, <1>7 DEF Firm
<1>. QED  BY <1>5, <1>6, <1>7

(* After the drain, with the peer messages gone from park if an interrupt   *)
(* was among what was drained.                                              *)
LEMMA DrainRevocation ==
    ASSUME NEW ch \in Seq(Accepted), NEW def, NEW park, NEW bound, NEW n, NEW named,
           Typed(ch, def, park, bound, n, named),
           NEW ph, NEW act, NEW md, NEW ins, Order(ch, def, park, bound, ph, act, md, ins),
           NEW begun, NEW firm, Revocation(ch, def, park, begun, firm),
           NEW firm2, \A x \in firm2 : x \in firm \/ (x \notin begun /\ Revokes(ch, def, park, bound, x)),
           NEW park2 \in Seq(Command), ToSet(park2) \subseteq ToSet(park),
           Interrupts(ch) => \A c \in ToSet(park2) : c.kind \notin Peers
    PROVE  Revocation(<<>>, AbsorbAll(def, ch), park2, begun, firm2)
<1>. DEFINE R == firm
            R2 == firm2
<1>1. /\ def \in Seq(Command) /\ park \in Seq(Command) /\ bound \in Seq(Command)
      /\ ch \in Seq(Control)
  BY QueueTypes DEF Typed
<1>2. \A c \in ToSet(ch) \cup ToSet(def) \cup ToSet(park) \cup ToSet(bound) :
         /\ c.kind \in Peers => IsMessage(c) /\ c.id \notin named
         /\ c.kind = "prompt" => IsMessage(c) /\ c.id \in named
         /\ Cancels(c) => c.id \in named
  BY DEF Typed, Known, IsMessage, MessageKinds, Peers
<1>3. PICK q \in Seq(Command) : q = AbsorbAll(def, ch)
  BY <1>1, AbsorbAllHolds
<1>4. ToSet(q) \subseteq ToSet(def) \cup ToSet(ch)
  BY <1>1, <1>3, AbsorbAllHolds
<1>5. begun \cap firm2 = {}
  BY DEF Revocation
(* A prompt newly revoked is one that a cancellation names.                 *)
<1>6. ASSUME NEW c \in ToSet(ch) \cup ToSet(def) \cup ToSet(park),
             c.kind = "prompt", c.id \in R2
      PROVE  c.id \in R \/ \E e \in ToSet(ch) : Cancels(e) /\ e.id = c.id
  <2>1. c.id \in named
    BY <1>2, <1>6
  <2>2. \A j \in 1 .. Len(ch) : ch[j].kind \in Peers => ch[j].id \notin named
    <3>1. \A j \in 1 .. Len(ch) : ch[j] \in ToSet(ch)
      BY <1>1, InQueue
    <3>. QED  BY <1>2, <3>1
  <2>3. c.id \in firm \/ Revokes(ch, def, park, bound, c.id)
    BY <1>6
  <2>. QED  BY <1>2, <1>6, <2>1, <2>2, <2>3 DEF Revokes
(* A peer message is not revoked by a cancellation.                         *)
<1>7. ASSUME NEW p \in ToSet(def) \cup ToSet(park), p.kind \in Peers, ~ Interrupts(ch)
      PROVE  p.id \notin R2
  <2>1. p.id \notin R /\ p.id \notin named
    BY <1>2, <1>7 DEF Revocation
  <2>2. ~ Revokes(ch, def, park, bound, p.id)
    BY <1>2, <1>7, <2>1 DEF Revokes, Interrupts
  <2>. QED  BY <2>1, <2>2
<1>8. ASSUME NEW p \in ToSet(q), p.kind \in Peers PROVE p.id \notin R2
  <2>1. CASE p \in ToSet(def) /\ ~ Interrupts(ch)
    BY <1>7, <1>8, <2>1
  <2>2. ASSUME NEW m \in 1 .. Len(ch), ch[m] = p,
               \A i \in m + 1 .. Len(ch) : ch[i].kind # "interrupt"
        PROVE  p.id \notin R2
    <3>1. p \in ToSet(ch) /\ IsMessage(p) /\ p.id \notin named
      BY <1>1, <1>2, <1>8, <2>2, InQueue
    <3>2. p.id \notin R
      BY <3>1 DEF Revocation
    <3>3. ASSUME NEW i \in 1 .. Len(ch), NEW j \in 1 .. Len(ch), j < i,
                 ch[i].kind = "interrupt", ch[j].kind \in Peers
          PROVE  ch[j].id # p.id
      <4>1. ~ (m < i) /\ m # i
        BY <1>8, <2>2, <3>3 DEF Peers
      <4>2. j < m
        BY <3>3, <4>1
      <4>3. ch[j] \in ToSet(ch) /\ IsMessage(ch[j])
        BY <1>1, <1>2, <3>3, InQueue
      <4>4. ch[j].id < p.id
        <5>1. Sorted(ch) /\ j \in DOMAIN ch /\ m \in DOMAIN ch
          BY <1>1 DEF Order
        <5>. QED  BY <2>2, <3>1, <4>2, <4>3, <5>1 DEF Sorted
      <4>5. ch[j].id \in Int /\ p.id \in Int
        BY <1>1, <3>1, <4>3, QueuedNumbers
      <4>. QED  BY <4>4, <4>5
    <3>4. ASSUME NEW r \in ToSet(def) \cup ToSet(park) \cup ToSet(bound), r.kind \in Peers
          PROVE  r.id # p.id
      <4>1. IsMessage(r)
        BY <1>2, <3>4
      <4>2. r.id < p.id
        BY <3>1, <4>1 DEF Order, Before
      <4>3. r.id \in Int /\ p.id \in Int
        BY <1>1, <3>1, <4>1, QueueTypes, QueuedNumbers
      <4>. QED  BY <4>2, <4>3
    <3>5. ~ Revokes(ch, def, park, bound, p.id)
      BY <1>2, <3>1, <3>3, <3>4 DEF Revokes
    <3>. QED  BY <3>2, <3>5
  <2>. QED  BY <1>1, <1>3, <1>8, <2>1, <2>2, AbsorbAllPeers DEF Interrupts
<1>9. ASSUME NEW p \in ToSet(park2), p.kind \in Peers PROVE p.id \notin R2
  BY <1>7, <1>9
<1>10. Shielded(q, R2)
  <2>1. Shielded(def, R \cap R2)
    BY ShieldedLess DEF Revocation
  <2>2. ASSUME NEW j \in 1 .. Len(ch), ch[j].kind = "prompt",
               ch[j].id \in R \/ \E i \in 1 .. j - 1 : Cancels(ch[i]) /\ ch[i].id = ch[j].id
        PROVE  FALSE
    <3>1. ch[j] \in ToSet(ch) /\ IsMessage(ch[j])
      BY <1>1, <1>2, <2>2, InQueue
    <3>. QED  BY <2>2, <3>1 DEF Revocation
  <2>3. Shielded(q, (R \cup Revoked(ch)) \cap R2)
    <3>. HIDE DEF R, R2
    <3>. QED  BY <1>1, <1>3, <2>1, <2>2, AbsorbAllShielded
  <2>4. ASSUME NEW j \in 1 .. Len(q), q[j].kind = "prompt", q[j].id \in R2
        PROVE  q[j].id \in (R \cup Revoked(ch)) \cap R2
    <3>1. q[j] \in ToSet(ch) \cup ToSet(def)
      BY <1>3, <1>4, InQueue
    <3>2. q[j].id \in R \/ \E e \in ToSet(ch) : Cancels(e) /\ e.id = q[j].id
      <4>. HIDE DEF R, R2
      <4>. QED  BY <1>6, <2>4, <3>1
    <3>3. ASSUME NEW e \in ToSet(ch), Cancels(e) PROVE e.id \in Revoked(ch)
      BY <3>3 DEF Revoked, Cancels, ToSet
    <3>. QED  BY <2>4, <3>2, <3>3
  <2>. HIDE DEF R, R2
  <2>. QED  BY <2>3, <2>4 DEF Shielded
<1>11. ASSUME NEW c \in ToSet(park2), c.kind = "prompt", c.id \in R2
       PROVE  \E e \in ToSet(q) : Cancels(e) /\ e.id = c.id
  <2>1. c \in ToSet(park)
    OBVIOUS
  <2>2. c.id \in R \/ \E e \in ToSet(ch) : Cancels(e) /\ e.id = c.id
    <3>. HIDE DEF R, R2
    <3>. QED  BY <1>6, <1>11, <2>1
  <2>3. PICK e \in ToSet(def) \cup ToSet(ch) : Cancels(e) /\ e.id = c.id
    BY <1>11, <2>1, <2>2 DEF Revocation
  <2>4. e \in ToSet(q)
    BY <1>1, <1>3, <2>3, AbsorbAllKeepsCancels
  <2>. QED  BY <2>3, <2>4
<1>12. ToSet(<<>>) = {} /\ Len(<<>>) = 0
  BY EmptyQueue
<1>. QED  BY <1>3, <1>5, <1>8, <1>9, <1>10, <1>11, <1>12 DEF Revocation

LEMMA DrainInForce ==
    ASSUME NEW ch \in Seq(Accepted), NEW def \in Seq(Command), NEW park,
           NEW ph, NEW act, NEW set, NEW ask, NEW ins,
           InForce(ch, def, park, ph, act, set, ask, ins)
    PROVE  InForce(<<>>, AbsorbAll(def, ch), park, ph, act, set, ask, ins)
<1>1. ASSUME NEW key, NEW d, NEW v, Chained(ch, def, park, key, d, v, ins)
      PROVE  Chained(<<>>, AbsorbAll(def, ch), park, key, d, v, ins)
  <2>1. PICK e, f : /\ Chain(park, key, d, e, ins)
                    /\ Chain(def, key, e, f, ins)
                    /\ Chain(ch, key, f, v, ins)
    BY <1>1 DEF Chained
  <2>2. Chain(AbsorbAll(def, ch), key, e, v, ins)
    BY <2>1, AbsorbAllChain
  <2>3. Chain(<<>>, key, v, v, ins)
    BY ChainEmpty
  <2>. QED  BY <2>1, <2>2, <2>3 DEF Chained
<1>. QED  BY <1>1 DEF InForce

-------------------------------------------------------------------------------
(* What each step leaves of the order                                      *)

(* Taking commands out of the queues.                                       *)
LEMMA OrderLess ==
    ASSUME NEW ch, NEW def, NEW park, NEW bound, NEW ph, NEW act, NEW md, NEW ins,
           Order(ch, def, park, bound, ph, act, md, ins),
           NEW ch2, NEW def2, NEW park2, NEW bound2,
           Sorted(ch2), Sorted(def2), Sorted(park2), Sorted(bound2),
           ToSet(ch2) \subseteq ToSet(ch), ToSet(def2) \subseteq ToSet(def),
           ToSet(park2) \subseteq ToSet(park), ToSet(bound2) \subseteq ToSet(bound),
           park = <<>> => park2 = <<>>
    PROVE  Order(ch2, def2, park2, bound2, ph, act, md, ins)
<1>1. /\ Before(ToSet(park2), ToSet(def2))
      /\ Before(ToSet(park2) \cup ToSet(def2) \cup ToSet(bound2), ToSet(ch2))
  BY DEF Order, Before
<1>2. CASE ph = "turn"
  <2>1. InTurn(ch, def, park, bound, act, md, ins)
    BY <1>2 DEF Order
  <2>2. InTurn(ch2, def2, park2, bound2, act, md, ins)
    BY <2>1 DEF InTurn, Before
  <2>. QED  BY <1>1, <1>2, <2>2 DEF Order
<1>3. CASE ph # "turn"
  <2>1. Between(def, park, bound, ins)
    BY <1>3 DEF Order
  <2>2. Between(def2, park2, bound2, ins)
    BY <2>1 DEF Between
  <2>. QED  BY <1>1, <1>3, <2>2 DEF Order
<1>. QED  BY <1>2, <1>3

(* Outside a turn the order does not depend on what the loop does.          *)
LEMMA OrderIdle ==
    ASSUME NEW ch, NEW def, NEW park, NEW bound, NEW ph, NEW act, NEW md, NEW ins,
           Order(ch, def, park, bound, ph, act, md, ins), ph # "turn",
           NEW ph2, NEW act2, NEW md2, ph2 # "turn"
    PROVE  Order(ch, def, park, bound, ph2, act2, md2, ins)
BY DEF Order

(* The idle loop takes one control from the channel.                        *)
LEMMA TakeOrder ==
    ASSUME NEW ch \in Seq(Control), ch # <<>>, NEW bound, NEW ph, NEW act, NEW md, NEW ins,
           Order(ch, <<>>, <<>>, bound, ph, act, md, ins), ph # "turn",
           NEW def2, Sorted(def2), ToSet(def2) \subseteq {Head(ch)}
    PROVE  Order(Tail(ch), def2, <<>>, bound, ph, act, md, ins)
<1>1. /\ ToSet(ch) = {Head(ch)} \cup ToSet(Tail(ch))
      /\ Sorted(Tail(ch)) /\ Before({Head(ch)}, ToSet(Tail(ch)))
  BY HeadAndTail DEF Order
<1>2. ToSet(<<>>) = {} /\ Sorted(<<>>)
  BY EmptyQueue
<1>3. Before({}, ToSet(def2)) /\ Before({} \cup ToSet(def2) \cup ToSet(bound), ToSet(Tail(ch)))
  BY <1>1, <1>2 DEF Order, Before
<1>4. ASSUME NEW b \in ToSet(bound), NEW x \in ToSet(def2), IsMessage(x)
      PROVE  x.id \notin ins /\ b.id < x.id
  BY <1>1, <1>4 DEF Order, Before
<1>5. Between(def2, <<>>, bound, ins)
  BY <1>4 DEF Between
<1>. QED  BY <1>1, <1>2, <1>3, <1>5 DEF Order

(* A turn starts for the message at the head.                               *)
LEMMA StartOrder ==
    ASSUME NEW ch, NEW q \in Seq(Command), q # <<>>, IsMessage(Head(q)),
           NEW bound, NEW ph, NEW act, NEW md, NEW ins,
           Order(ch, q, <<>>, bound, ph, act, md, ins), ph # "turn"
    PROVE  Order(ch, Tail(q), <<>>, bound, "turn", Head(q), md, ins)
<1>1. /\ ToSet(q) = {Head(q)} \cup ToSet(Tail(q))
      /\ Sorted(Tail(q)) /\ Before({Head(q)}, ToSet(Tail(q)))
  BY HeadAndTail, QueuesHoldControls DEF Order
<1>2. ToSet(<<>>) = {} /\ Sorted(<<>>)
  BY EmptyQueue
<1>3. Between(q, <<>>, bound, ins)
  BY DEF Order
<1>4. Before({}, ToSet(Tail(q))) /\ Before({} \cup ToSet(Tail(q)) \cup ToSet(bound), ToSet(ch))
  BY <1>1, <1>2 DEF Order, Before
<1>5. ASSUME NEW b \in ToSet(bound), NEW x \in ToSet(Tail(q)), IsMessage(x)
      PROVE  b.id < x.id
  <2>1. Head(q).id < x.id
    BY <1>1, <1>5 DEF Before
  <2>. QED  BY <1>1, <1>3, <1>5, <2>1 DEF Between
<1>6. Before(ToSet(bound), ToSet(Tail(q)) \cup {})
  BY <1>5 DEF Before
<1>7. Before({Head(q)}, ToSet(Tail(q)) \cup {} \cup ToSet(ch))
  BY <1>1, <1>2 DEF Order, Before
<1>8. \A b \in ToSet(bound) : Head(q).id < b.id \/ Head(q).id \notin ins
  BY <1>1, <1>3 DEF Between
<1>9. InTurn(ch, Tail(q), <<>>, bound, Head(q), md, ins)
  BY <1>2, <1>6, <1>7, <1>8 DEF InTurn
<1>. QED  BY <1>1, <1>2, <1>4, <1>9 DEF Order

(* What a turn parked, behind the prompts b that waited for its tools.      *)
LEMMA FlushHolds ==
    ASSUME NEW park \in Seq(Command), NEW def \in Seq(Command)
    PROVE  /\ Flush(park, def) \in Seq(Command)
           /\ ToSet(Flush(park, def)) \subseteq ToSet(park) \cup ToSet(def)
           /\ Sorted(park) /\ Sorted(def) /\ Before(ToSet(park), ToSet(def))
                  => Sorted(Flush(park, def))
<1>1. park \in Seq(Accepted) /\ def \in Seq(Accepted) /\ <<>> \in Seq(Command)
  BY QueueTypes
<1>2. ToSet(<<>>) = {} /\ Sorted(<<>>)
  BY EmptyQueue
<1>3. PICK e \in Seq(Command) : e = <<>> /\ ToSet(e) = {} /\ Sorted(e)
  BY <1>1, <1>2
<1>4. PICK a \in Seq(Command) :
         /\ a = AbsorbAll(e, park)
         /\ ToSet(a) \subseteq ToSet(park)
         /\ Sorted(park) => Sorted(a)
  <2>1. Before(ToSet(e), ToSet(park))
    BY <1>3 DEF Before
  <2>. QED  BY <1>1, <1>3, <2>1, AbsorbAllHolds
<1>6. PICK f \in Seq(Command) : f = AbsorbAll(a, def)
  BY <1>1, AbsorbAllHolds
<1>7. ToSet(f) \subseteq ToSet(a) \cup ToSet(def)
  BY <1>1, <1>6, AbsorbAllHolds
<1>8. Sorted(park) /\ Sorted(def) /\ Before(ToSet(park), ToSet(def)) => Sorted(f)
  <2>1. Before(ToSet(park), ToSet(def)) => Before(ToSet(a), ToSet(def))
    BY <1>4 DEF Before
  <2>. QED  BY <1>1, <1>4, <1>6, <2>1, AbsorbAllHolds
<1>9. f = Flush(park, def)
  BY <1>3, <1>4, <1>6 DEF Flush
<1>. QED  BY <1>4, <1>7, <1>8, <1>9

(* The end of a turn: every prompt of the boundary queue is put in front,   *)
(* or only the first of them.                                               *)
LEMMA EndOrder ==
    ASSUME NEW ch, NEW def \in Seq(Command), NEW park \in Seq(Command), NEW bound \in Seq(Message),
           NEW act, NEW md, NEW ins,
           Order(ch, def, park, bound, "turn", act, md, ins), NEW act2, NEW md2
    PROVE  Order(ch, bound \o Flush(park, def), <<>>, <<>>, "idle", act2, md2, ins)
<1>1. InTurn(ch, def, park, bound, act, md, ins)
  BY DEF Order
<1>2. PICK f \in Seq(Command) :
         /\ f = Flush(park, def)
         /\ ToSet(f) \subseteq ToSet(park) \cup ToSet(def)
         /\ Sorted(f)
  <2>1. Sorted(park) /\ Sorted(def) /\ Before(ToSet(park), ToSet(def))
    BY DEF Order
  <2>. QED  BY <2>1, FlushHolds
<1>3. bound \in Seq(Control) /\ f \in Seq(Control)
  BY QueueTypes
<1>4. Sorted(bound) /\ Before(ToSet(bound), ToSet(f))
  BY <1>1, <1>2 DEF Order, InTurn, Before
<1>5. PICK d : d = bound \o f /\ ToSet(d) = ToSet(bound) \cup ToSet(f) /\ Sorted(d)
  BY <1>2, <1>3, <1>4, Joined
<1>6. ToSet(<<>>) = {} /\ Sorted(<<>>)
  BY EmptyQueue
<1>7. Before({}, ToSet(d)) /\ Before({} \cup ToSet(d) \cup {}, ToSet(ch))
  BY <1>2, <1>5 DEF Order, Before
<1>8. Between(d, <<>>, <<>>, ins)
  BY <1>6 DEF Between
<1>9. Order(ch, d, <<>>, <<>>, "idle", act2, md2, ins)
  BY <1>5, <1>6, <1>7, <1>8 DEF Order
<1>. QED  BY <1>2, <1>5, <1>9

LEMMA BatchOrder ==
    ASSUME NEW ch, NEW park \in Seq(Command), NEW bound \in Seq(Message), bound # <<>>,
           NEW act, NEW ins,
           Order(ch, <<>>, park, bound, "turn", act, "insert", ins), NEW act2, NEW md2
    PROVE  Order(ch, <<Head(bound)>> \o Flush(park, <<>>), <<>>, Tail(bound), "idle", act2, md2, ins)
<1>1. InTurn(ch, <<>>, park, bound, act, "insert", ins)
  BY DEF Order
<1>2. ToSet(<<>>) = {} /\ Sorted(<<>>) /\ <<>> \in Seq(Command)
  BY EmptyQueue
<1>3. PICK f \in Seq(Command) :
         /\ f = Flush(park, <<>>)
         /\ ToSet(f) \subseteq ToSet(park)
         /\ Sorted(f)
  <2>1. Sorted(park) /\ Before(ToSet(park), ToSet(<<>>))
    BY <1>2 DEF Order, Before
  <2>2. /\ Flush(park, <<>>) \in Seq(Command)
        /\ ToSet(Flush(park, <<>>)) \subseteq ToSet(park) \cup ToSet(<<>>)
        /\ Sorted(Flush(park, <<>>))
    BY <1>2, <2>1, FlushHolds, Zenon
  <2>. QED  BY <1>2, <2>2
<1>4. bound \in Seq(Control) /\ f \in Seq(Control)
  BY QueueTypes
<1>5. PICK h, t : h = Head(bound) /\ t = Tail(bound)
  OBVIOUS
<1>6. /\ h \in Control /\ t \in Seq(Control)
      /\ ToSet(bound) = {h} \cup ToSet(t)
      /\ Sorted(t) /\ Before({h}, ToSet(t))
  <2>1. Sorted(bound)
    BY DEF Order
  <2>. QED  BY <1>4, <1>5, <2>1, HeadAndTail
<1>7. \A c \in ToSet(f) : ~ IsMessage(c)
  BY <1>1, <1>3 DEF InTurn
<1>8. PICK d : d = <<h>> \o f /\ ToSet(d) = {h} \cup ToSet(f) /\ Sorted(d)
  <2>1. <<h>> \in Seq(Control) /\ ToSet(<<h>>) = {h} /\ Sorted(<<h>>)
    BY <1>6, Alone
  <2>2. Before({h}, ToSet(f))
    BY <1>7 DEF Before
  <2>. QED  BY <1>3, <1>4, <2>1, <2>2, Joined
<1>9. Before({}, ToSet(d)) /\ Before({} \cup ToSet(d) \cup ToSet(t), ToSet(ch))
  BY <1>3, <1>6, <1>8 DEF Order, Before
<1>10. IsMessage(h) /\ h.id \in ins /\ \A b \in ToSet(t) : IsMessage(b) /\ b.id \in ins
  BY <1>6 DEF Order
<1>11. h.id \in Int
  BY <1>4, <1>6, <1>10, QueuedNumbers
<1>12. Between(d, <<>>, t, ins)
  <2>1. \A x \in ToSet(d) : IsMessage(x) => x = h
    BY <1>7, <1>8
  <2>2. \A b \in ToSet(t) : h.id < b.id
    BY <1>6, <1>10 DEF Before
  <2>. QED  BY <1>10, <1>11, <2>1, <2>2 DEF Between
<1>13. Order(ch, d, <<>>, t, "idle", act2, md2, ins)
  BY <1>2, <1>6, <1>8, <1>9, <1>10, <1>12 DEF Order
<1>. QED  BY <1>3, <1>5, <1>8, <1>13

(* A message received during a turn waits for the tools.                    *)
LEMMA InsertOrder ==
    ASSUME NEW ch \in Seq(Control), NEW q \in Seq(Command), q # <<>>, IsMessage(Head(q)),
           NEW park, NEW bound \in Seq(Message), NEW act, NEW ins,
           Order(ch, q, park, bound, "turn", act, "insert", ins), IsMessage(act), act.id \in Int
    PROVE  Order(ch, Tail(q), park, Append(bound, Head(q)), "turn", act, "insert",
                 ins \cup {Head(q).id})
<1>1. PICK h, t : h = Head(q) /\ t = Tail(q)
  OBVIOUS
<1>2. q \in Seq(Control) /\ bound \in Seq(Control)
  BY QueueTypes
<1>3. /\ h \in Control /\ IsMessage(h)
      /\ ToSet(q) = {h} \cup ToSet(t)
      /\ Sorted(t) /\ Before({h}, ToSet(t))
  <2>1. Sorted(q)
    BY DEF Order
  <2>. QED  BY <1>1, <1>2, <2>1, HeadAndTail
<1>4. h.id \in Int
  BY <1>2, <1>3, QueuedNumbers
<1>5. InTurn(ch, q, park, bound, act, "insert", ins)
  BY DEF Order
<1>6. PICK b : b = Append(bound, h) /\ ToSet(b) = ToSet(bound) \cup {h} /\ Sorted(b)
  <2>1. Sorted(bound) /\ Before(ToSet(bound), {h})
    BY <1>3, <1>5 DEF Order, InTurn, Before
  <2>. QED  BY <1>2, <1>3, <2>1, Appended
<1>7. PICK ins2 : ins2 = ins \cup {h.id}
  OBVIOUS
<1>8. /\ Before(ToSet(park), ToSet(t))
      /\ Before(ToSet(park) \cup ToSet(t) \cup ToSet(b), ToSet(ch))
  BY <1>3, <1>6 DEF Order, Before
<1>9. \A c \in ToSet(b) : IsMessage(c) /\ c.id \in ins2
  BY <1>3, <1>6, <1>7 DEF Order
<1>10. ASSUME NEW c \in ToSet(ch), IsMessage(c) PROVE c.id \notin ins2
  <2>1. c.id \notin ins /\ h.id < c.id
    BY <1>3, <1>10 DEF Order, Before
  <2>2. c.id \in Int
    BY <1>10, QueuedNumbers
  <2>. QED  BY <1>4, <1>7, <2>1, <2>2
<1>11. act.id < h.id
  BY <1>3, <1>5 DEF InTurn, Before
<1>12. Before(ToSet(b), ToSet(t) \cup ToSet(park))
  <2>1. \A c \in ToSet(park) : ~ IsMessage(c)
    BY <1>5 DEF InTurn
  <2>. QED  BY <1>3, <1>5, <1>6, <2>1 DEF InTurn, Before
<1>13. Before({act}, ToSet(t) \cup ToSet(park) \cup ToSet(ch))
  BY <1>3, <1>5 DEF InTurn, Before
<1>14. \A c \in ToSet(b) : act.id < c.id \/ act.id \notin ins2
  <2>1. act.id # h.id
    BY <1>4, <1>11
  <2>. QED  BY <1>5, <1>6, <1>7, <1>11, <2>1 DEF InTurn
<1>15. InTurn(ch, t, park, b, act, "insert", ins2)
  BY <1>5, <1>12, <1>13, <1>14 DEF InTurn
<1>16. Order(ch, t, park, b, "turn", act, "insert", ins2)
  <2>1. Sorted(ch) /\ Sorted(park)
    BY DEF Order
  <2>. QED  BY <1>3, <1>6, <1>8, <1>9, <1>10, <1>15, <2>1 DEF Order
<1>. QED  BY <1>1, <1>6, <1>7, <1>16

(* A command received during a turn goes behind what is parked; a message   *)
(* does so when prompts are queued, not inserted.                           *)
LEMMA ParkOrder ==
    ASSUME NEW ch, NEW q \in Seq(Command), q # <<>>, NEW park, NEW bound, NEW act, NEW md, NEW ins,
           Order(ch, q, park, bound, "turn", act, md, ins),
           IsMessage(Head(q)) => md # "insert",
           NEW park2, ToSet(park2) \subseteq ToSet(park) \cup {Head(q)},
           Before(ToSet(park), {Head(q)}) => Sorted(park2)
    PROVE  Order(ch, Tail(q), park2, bound, "turn", act, md, ins)
<1>1. PICK h, t : h = Head(q) /\ t = Tail(q)
  OBVIOUS
<1>2. /\ ToSet(q) = {h} \cup ToSet(t)
      /\ Sorted(t) /\ Before({h}, ToSet(t))
  <2>1. Sorted(q)
    BY DEF Order
  <2>. QED  BY <1>1, <2>1, HeadAndTail, QueuesHoldControls
<1>3. InTurn(ch, q, park, bound, act, md, ins)
  BY DEF Order
<1>4. Sorted(park2)
  BY <1>1, <1>2 DEF Order, Before
<1>5. /\ Before(ToSet(park2), ToSet(t))
      /\ Before(ToSet(park2) \cup ToSet(t) \cup ToSet(bound), ToSet(ch))
  BY <1>1, <1>2 DEF Order, Before
<1>6. InTurn(ch, t, park2, bound, act, md, ins)
  <2>1. Before(ToSet(bound), ToSet(t) \cup ToSet(park2))
    BY <1>1, <1>2, <1>3 DEF InTurn, Before
  <2>2. Before({act}, ToSet(t) \cup ToSet(park2) \cup ToSet(ch))
    BY <1>1, <1>2, <1>3 DEF InTurn, Before
  <2>3. md = "insert" => \A c \in ToSet(park2) : ~ IsMessage(c)
    BY <1>1, <1>3 DEF InTurn
  <2>. QED  BY <1>3, <2>1, <2>2, <2>3 DEF InTurn
<1>7. Order(ch, t, park2, bound, "turn", act, md, ins)
  BY <1>2, <1>4, <1>5, <1>6 DEF Order
<1>. QED  BY <1>1, <1>7

(* A control is sent.                                                       *)
LEMMA SendOrder ==
    ASSUME NEW ch \in Seq(Control), NEW def, NEW park, NEW bound, NEW ph, NEW act, NEW md, NEW ins,
           Order(ch, def, park, bound, ph, act, md, ins),
           NEW c \in Control,
           Before(ToSet(ch) \cup ToSet(def) \cup ToSet(park) \cup ToSet(bound), {c}),
           ph = "turn" => Before({act}, {c}), IsMessage(c) => c.id \notin ins
    PROVE  Order(Append(ch, c), def, park, bound, ph, act, md, ins)
<1>1. PICK s : s = Append(ch, c) /\ ToSet(s) = ToSet(ch) \cup {c} /\ Sorted(s)
  <2>1. Sorted(ch) /\ Before(ToSet(ch), {c})
    BY DEF Order, Before
  <2>. QED  BY <2>1, Appended
<1>2. Before(ToSet(park) \cup ToSet(def) \cup ToSet(bound), ToSet(s))
  BY <1>1 DEF Order, Before
<1>3. \A x \in ToSet(s) : IsMessage(x) => x.id \notin ins
  BY <1>1 DEF Order
<1>4. CASE ph = "turn"
  <2>1. InTurn(ch, def, park, bound, act, md, ins)
    BY <1>4 DEF Order
  <2>2. Before({act}, ToSet(def) \cup ToSet(park) \cup ToSet(s))
    BY <1>1, <1>4, <2>1 DEF InTurn, Before
  <2>3. InTurn(s, def, park, bound, act, md, ins)
    BY <2>1, <2>2 DEF InTurn
  <2>. QED  BY <1>1, <1>2, <1>3, <1>4, <2>3 DEF Order
<1>5. CASE ph # "turn"
  BY <1>1, <1>2, <1>3, <1>5 DEF Order
<1>. QED  BY <1>4, <1>5

-------------------------------------------------------------------------------
(* What each step leaves of the revocations                                *)

LEMMA SendRevocation ==
    ASSUME NEW ch \in Seq(Control), NEW def, NEW park, NEW begun, NEW firm,
           Revocation(ch, def, park, begun, firm),
           NEW c \in Control,
           IsMessage(c) => c.id \notin firm /\ \A d \in ToSet(ch) : Cancels(d) => d.id # c.id
    PROVE  Revocation(Append(ch, c), def, park, begun, firm)
<1>1. PICK n \in Nat : n = Len(ch)
  OBVIOUS
<1>2. PICK s : s = Append(ch, c) /\ ToSet(s) = ToSet(ch) \cup {c}
  BY Appended
<1>3. Len(s) = n + 1 /\ s[n + 1] = c /\ \A i \in 1 .. n : s[i] = ch[i]
  BY <1>1, <1>2, AppendProperties
<1>4. \A x \in ToSet(s) : IsMessage(x) => x.id \notin firm
  BY <1>2 DEF Revocation
<1>5. ASSUME NEW j \in 1 .. n + 1, NEW i \in 1 .. j - 1, Cancels(s[i]), IsMessage(s[j])
      PROVE  s[i].id # s[j].id
  <2>1. i \in 1 .. n /\ s[i] = ch[i]
    BY <1>3
  <2>2. CASE j = n + 1
    <3>1. ch[i] \in ToSet(ch)
      BY <1>1, <2>1, InQueue
    <3>. QED  BY <1>3, <1>5, <2>1, <2>2, <3>1
  <2>3. CASE j \in 1 .. n
    BY <1>1, <1>3, <1>5, <2>1, <2>3 DEF Revocation
  <2>. QED  BY <2>2, <2>3
<1>6. Revocation(s, def, park, begun, firm)
  BY <1>3, <1>4, <1>5 DEF Revocation
<1>. QED  BY <1>2, <1>6

(* Messages that waited for the tools, in front of what a turn parked.      *)
LEMMA FlushRevocation ==
    ASSUME NEW ch, NEW def \in Seq(Command), NEW park \in Seq(Command), NEW begun, NEW firm,
           Revocation(ch, def, park, begun, firm),
           \A c \in ToSet(park) : ~ Cancels(c),
           NEW b \in Seq(Message), \A c \in ToSet(b) : c.id \notin firm
    PROVE  Revocation(ch, b \o Flush(park, def), <<>>, begun, firm)
<1>. DEFINE R == firm
            W == R \ Revoked(def)
<1>1. park \in Seq(Accepted) /\ def \in Seq(Accepted) /\ b \in Seq(Command) /\ b \in Seq(Control)
  BY QueueTypes
<1>2. <<>> \in Seq(Command) /\ ToSet(<<>>) = {}
  BY EmptyQueue
<1>3. PICK a \in Seq(Command) : a = AbsorbAll(<<>>, park) /\ ToSet(a) \subseteq ToSet(park)
  <2>1. AbsorbAll(<<>>, park) \in Seq(Command) /\ ToSet(AbsorbAll(<<>>, park)) \subseteq ToSet(<<>>) \cup ToSet(park)
    BY <1>1, <1>2, AbsorbAllHolds, Zenon
  <2>. QED  BY <1>2, <2>1
<1>4. PICK f \in Seq(Command) : f = AbsorbAll(a, def) /\ ToSet(f) \subseteq ToSet(a) \cup ToSet(def)
  BY <1>1, AbsorbAllHolds
<1>5. f = Flush(park, def)
  BY <1>2, <1>3, <1>4 DEF Flush
<1>6. \A c \in ToSet(a) : c.kind = "prompt" => c.id \notin W
  <2>1. ASSUME NEW c \in ToSet(park), c.kind = "prompt", c.id \in R PROVE c.id \in Revoked(def)
    <3>1. PICK d \in ToSet(def) : Cancels(d) /\ d.id = c.id
      BY <2>1 DEF Revocation
    <3>. QED  BY <3>1 DEF Revoked, Cancels, ToSet
  <2>. QED  BY <1>3, <2>1
<1>7. Shielded(a, W \cap R)
  <2>1. \A j \in 1 .. Len(a) : a[j] \in ToSet(a)
    BY InQueue
  <2>. HIDE DEF W, R
  <2>. QED  BY <1>6, <2>1 DEF Shielded
<1>8. ASSUME NEW j \in 1 .. Len(def), def[j].kind = "prompt", def[j].id \in R
      PROVE  ShieldedAt(def, j)
  BY <1>8 DEF Revocation, Shielded
<1>9. Shielded(f, (W \cup Revoked(def)) \cap R)
  <2>. HIDE DEF W, R
  <2>. QED  BY <1>1, <1>4, <1>7, <1>8, AbsorbAllShielded
<1>10. Shielded(f, R)
  <2>1. R \subseteq (W \cup Revoked(def)) \cap R
    OBVIOUS
  <2>. HIDE DEF W, R
  <2>. QED  BY <1>9, <2>1, ShieldedLess
<1>11. PICK d : d = b \o f /\ ToSet(d) = ToSet(b) \cup ToSet(f)
  <2>1. f \in Seq(Control)
    BY QueuesHoldControls
  <2>. QED  BY <1>1, <2>1, Joined
<1>12. Shielded(d, R)
  <2>1. \A i \in 1 .. Len(b) : b[i].id \notin R
    <3>1. \A i \in 1 .. Len(b) : b[i] \in ToSet(b)
      BY <1>1, InQueue
    <3>. QED  BY <3>1
  <2>2. PICK U : U = {id \in R : \A i \in 1 .. Len(b) : ~ (b[i].kind = "cancel" /\ b[i].id = id)}
    OBVIOUS
  <2>3. U \subseteq R
    BY <2>2
  <2>. HIDE DEF W, R
  <2>4. Shielded(f, U)
    BY <1>10, <2>3, ShieldedLess
  <2>. QED  BY <1>1, <1>11, <2>1, <2>2, <2>4, ShieldedJoin
<1>13. \A c \in ToSet(d) : c.kind \in Peers => c.id \notin R
  BY <1>3, <1>4, <1>11 DEF Revocation
<1>14. ToSet(<<>>) = {}
  BY EmptyQueue
<1>15. Revocation(ch, d, <<>>, begun, firm)
  BY <1>12, <1>13, <1>14 DEF Revocation
<1>. QED  BY <1>5, <1>11, <1>15

(* The idle loop takes one control from the channel: what it revokes is     *)
(* what it cancels.                                                         *)
LEMMA TakeRevocation ==
    ASSUME NEW ch \in Seq(Control), ch # <<>>, NEW begun, NEW firm,
           Revocation(ch, <<>>, <<>>, begun, firm), Head(ch).kind \notin Peers,
           NEW firm2, \A x \in firm2 : \/ x \in firm
                                       \/ x \notin begun /\ Cancels(Head(ch)) /\ Head(ch).id = x,
           NEW def2, def2 = <<Head(ch)>> \/ def2 = <<>>
    PROVE  Revocation(Tail(ch), def2, <<>>, begun, firm2)
<1>1. PICK n \in Nat : n = Len(ch) - 1
  <2>1. Len(ch) - 1 \in Nat
    BY HeadAndTail
  <2>. QED  BY <2>1, Zenon
<1>2. PICK h, t : h = Head(ch) /\ t = Tail(ch)
  OBVIOUS
<1>3. /\ h \in Control /\ h = ch[1] /\ ToSet(ch) = {h} \cup ToSet(t) /\ t \in Seq(Control)
      /\ Len(t) = Len(ch) - 1 /\ \A i \in 1 .. Len(ch) - 1 : t[i] = ch[i + 1]
  BY <1>2, HeadAndTail, Zenon
<1>4. Len(t) = n /\ Len(ch) = n + 1 /\ \A i \in 1 .. n : t[i] = ch[i + 1]
  <2>1. Len(ch) \in Nat
    OBVIOUS
  <2>. QED  BY <1>1, <1>3, <2>1
<1>5. begun \cap firm2 = {}
  BY DEF Revocation
<1>6. ASSUME NEW c \in ToSet(t), IsMessage(c) PROVE c.id \notin firm2
  <2>1. c.id \notin firm
    BY <1>3, <1>6 DEF Revocation
  <2>2. PICK i \in 1 .. n : t[i] = c
    BY <1>3, <1>4, <1>6, InQueue
  <2>3. i + 1 \in 1 .. n + 1 /\ 1 \in 1 .. (i + 1) - 1 /\ ch[i + 1] = c
    BY <1>4, <2>2
  <2>4. Cancels(h) => h.id # c.id
    BY <1>3, <1>4, <1>6, <2>3 DEF Revocation
  <2>. QED  BY <1>2, <2>1, <2>4
<1>7. ASSUME NEW j \in 1 .. n, NEW i \in 1 .. j - 1, Cancels(t[i]), IsMessage(t[j])
      PROVE  t[i].id # t[j].id
  <2>1. /\ j + 1 \in 1 .. n + 1 /\ i + 1 \in 1 .. (j + 1) - 1 /\ i \in 1 .. n
        /\ t[i] = ch[i + 1] /\ t[j] = ch[j + 1]
    BY <1>4
  <2>. QED  BY <1>4, <1>7, <2>1 DEF Revocation
<1>8. ToSet(<<>>) = {} /\ ToSet(<<h>>) = {h} /\ Len(<<>>) = 0 /\ Len(<<h>>) = 1 /\ <<h>>[1] = h
  BY <1>3, Alone, EmptyQueue
<1>9. h.kind = "prompt" => h.id \notin firm2
  <2>1. h.kind = "prompt" => IsMessage(h) /\ ~ Cancels(h)
    BY DEF IsMessage, MessageKinds, Cancels
  <2>. QED  BY <1>2, <1>3, <2>1 DEF Revocation
<1>10. Shielded(def2, firm2)
  <2>1. \A j \in 1 .. Len(def2) : def2[j] = h
    BY <1>2, <1>8
  <2>. QED  BY <1>9, <2>1 DEF Shielded
<1>11. \A c \in ToSet(def2) \cup ToSet(<<>>) : c.kind \in Peers => c.id \notin firm2
  BY <1>2, <1>8
<1>12. Revocation(t, def2, <<>>, begun, firm2)
  BY <1>4, <1>5, <1>6, <1>7, <1>8, <1>10, <1>11 DEF Revocation
<1>. QED  BY <1>2, <1>12

(* The head of the queue is dealt with, and what it cancels leaves the      *)
(* queues.                                                                  *)
LEMMA HeadRevocation ==
    ASSUME NEW ch, NEW q \in Seq(Command), q # <<>>, NEW park, NEW begun, NEW firm,
           Revocation(ch, q, park, begun, firm),
           NEW def2, def2 = IF Cancels(Head(q)) THEN Without(Tail(q), Head(q).id) ELSE Tail(q),
           NEW park2, ToSet(park2) \subseteq ToSet(park) \cup {Head(q)},
           Cancels(Head(q)) => \A c \in ToSet(park2) : c.kind = "prompt" => c.id # Head(q).id
    PROVE  Revocation(ch, def2, park2, begun, firm)
<1>. DEFINE R == firm
<1>1. PICK h \in Command, t \in Seq(Command) :
         h = Head(q) /\ t = Tail(q) /\ ToSet(q) = {h} \cup ToSet(t)
  <2>1. Head(q) \in Command /\ Tail(q) \in Seq(Command)
    OBVIOUS
  <2>2. ToSet(q) = {Head(q)} \cup ToSet(Tail(q))
    BY HeadAndTail, QueuesHoldControls
  <2>. QED  BY <2>1, <2>2, Zenon
<1>2. /\ ~ (h.kind = "prompt" /\ h.id \in R)
      /\ Shielded(t, IF h.kind = "cancel" THEN R \ {h.id} ELSE R)
  <2>1. Shielded(q, R)
    BY DEF Revocation
  <2>. HIDE DEF R
  <2>. QED  BY <1>1, <2>1, ShieldedTail
<1>3. Shielded(t, R \ {h.id})
  <2>1. R \ {h.id} \subseteq IF h.kind = "cancel" THEN R \ {h.id} ELSE R
    OBVIOUS
  <2>. HIDE DEF R
  <2>. QED  BY <1>2, <2>1, ShieldedLess
<1>4. PICK d : d = def2 /\ ToSet(d) \subseteq ToSet(t) /\ Shielded(d, R)
             /\ (~ Cancels(h) => d = t)
  <2>1. CASE Cancels(h)
    <3>1. def2 = Without(t, h.id)
      BY <1>1, <2>1
    <3>2. ToSet(def2) \subseteq ToSet(t)
      <4>1. Thinned(def2, t, Named(t, h.id))
        BY <3>1, WithoutThins
      <4>. QED  BY <4>1, Thinning
    <3>3. Shielded(def2, R)
      <4>. HIDE DEF R
      <4>. QED  BY <1>3, <3>1, ShieldedWithout
    <3>. QED  BY <2>1, <3>2, <3>3
  <2>2. CASE ~ Cancels(h)
    BY <1>1, <1>2, <2>2 DEF Cancels
  <2>. QED  BY <2>1, <2>2
<1>5. ASSUME NEW c \in ToSet(d) \cup ToSet(park2), c.kind \in Peers PROVE c.id \notin R
  BY <1>1, <1>4, <1>5 DEF Revocation
<1>6. ASSUME NEW c \in ToSet(park2), c.kind = "prompt", c.id \in R
      PROVE  \E e \in ToSet(d) : Cancels(e) /\ e.id = c.id
  <2>1. c \in ToSet(park)
    BY <1>1, <1>2, <1>6
  <2>2. PICK e \in ToSet(q) : Cancels(e) /\ e.id = c.id
    BY <1>6, <2>1 DEF Revocation
  <2>3. e \in ToSet(t)
    BY <1>1, <1>6, <2>2
  <2>4. CASE ~ Cancels(h)
    BY <1>4, <2>2, <2>3, <2>4
  <2>5. CASE Cancels(h)
    <3>1. d = Without(t, h.id)
      BY <1>1, <1>4, <2>5
    <3>2. ToSet(d) = ToSet(t) \ Named(t, h.id)
      BY <3>1, WithoutThins, Thinning
    <3>3. e \notin Named(t, h.id)
      BY <2>2 DEF Named, Cancels
    <3>. QED  BY <2>2, <2>3, <3>2, <3>3
  <2>. QED  BY <2>4, <2>5
<1>7. Revocation(ch, d, park2, begun, firm)
  BY <1>4, <1>5, <1>6 DEF Revocation
<1>. QED  BY <1>4, <1>7

(* A cancellation of the active message is dealt with: nothing else bears   *)
(* its number.                                                              *)
LEMMA ActiveRevocation ==
    ASSUME NEW ch, NEW q \in Seq(Command), q # <<>>, NEW park, NEW begun, NEW firm,
           Revocation(ch, q, park, begun, firm),
           \A c \in ToSet(Tail(q)) \cup ToSet(park) : c.kind = "prompt" => c.id # Head(q).id
    PROVE  Revocation(ch, Tail(q), park, begun, firm)
<1>. DEFINE R == firm
<1>1. PICK h \in Command, t \in Seq(Command) :
         h = Head(q) /\ t = Tail(q) /\ ToSet(q) = {h} \cup ToSet(t)
  <2>1. Head(q) \in Command /\ Tail(q) \in Seq(Command)
    OBVIOUS
  <2>2. ToSet(q) = {Head(q)} \cup ToSet(Tail(q))
    BY HeadAndTail, QueuesHoldControls
  <2>. QED  BY <2>1, <2>2, Zenon
<1>2. Shielded(t, IF h.kind = "cancel" THEN R \ {h.id} ELSE R)
  <2>1. Shielded(q, R)
    BY DEF Revocation
  <2>. HIDE DEF R
  <2>. QED  BY <1>1, <2>1, ShieldedTail
<1>3. Shielded(t, R)
  <2>1. \A j \in 1 .. Len(t) : t[j] \in ToSet(t)
    BY InQueue
  <2>. HIDE DEF R
  <2>. QED  BY <1>1, <1>2, <2>1 DEF Shielded
<1>4. ASSUME NEW c \in ToSet(park), c.kind = "prompt", c.id \in R
      PROVE  \E e \in ToSet(t) : Cancels(e) /\ e.id = c.id
  BY <1>1, <1>4 DEF Revocation
<1>5. \A c \in ToSet(t) \cup ToSet(park) : c.kind \in Peers => c.id \notin R
  BY <1>1 DEF Revocation
<1>6. Revocation(ch, t, park, begun, firm)
  BY <1>3, <1>4, <1>5 DEF Revocation
<1>. QED  BY <1>1, <1>6

(* Another message begins; or less is revoked, or what has left the queues. *)
LEMMA OtherRevocation ==
    ASSUME NEW ch, NEW def \in Seq(Command), NEW park, NEW begun, NEW firm,
           Revocation(ch, def, park, begun, firm),
           NEW gone, \A c \in ToSet(ch) \cup ToSet(def) \cup ToSet(park) : IsMessage(c) => c.id \notin gone,
           NEW begun2, NEW firm2, firm2 \subseteq firm \cup gone, begun2 \cap firm2 = {}
    PROVE  Revocation(ch, def, park, begun2, firm2)
<1>1. \A c : c.kind = "prompt" \/ c.kind \in Peers => IsMessage(c)
  BY DEF IsMessage, MessageKinds, Peers
<1>2. Shielded(def, firm2)
  <2>1. \A j \in 1 .. Len(def) : def[j] \in ToSet(def)
    BY InQueue
  <2>2. \A j \in 1 .. Len(def) : def[j].kind = "prompt" /\ def[j].id \in firm2 => def[j].id \in firm
    BY <1>1, <2>1
  <2>. QED  BY <2>2 DEF Revocation, Shielded
<1>. QED  BY <1>1, <1>2 DEF Revocation

(* The message at the head of the queue is not a revoked one.               *)
LEMMA HeadNotRevoked ==
    ASSUME NEW ch, NEW q \in Seq(Command), q # <<>>, NEW park, NEW begun, NEW firm,
           Revocation(ch, q, park, begun, firm), IsMessage(Head(q))
    PROVE  Head(q).id \notin firm
<1>1. Head(q).kind = "prompt" \/ Head(q).kind \in Peers
  BY DEF IsMessage, MessageKinds, Peers
<1>2. Head(q) \in ToSet(q)
  BY HeadAndTail, QueuesHoldControls
<1>3. ~ (Head(q).kind = "prompt" /\ Head(q).id \in firm)
  <2>1. Shielded(q, firm)
    BY DEF Revocation
  <2>. QED  BY <2>1, ShieldedTail
<1>. QED  BY <1>1, <1>2, <1>3 DEF Revocation

LEMMA EmptyRevocation ==
    ASSUME NEW begun, NEW firm, begun \cap firm = {}
    PROVE  Revocation(<<>>, <<>>, <<>>, begun, firm)
<1>1. ToSet(<<>>) = {} /\ Len(<<>>) = 0
  BY EmptyQueue
<1>. QED  BY <1>1 DEF Revocation, Shielded

(* Empty queues are in order.                                               *)
LEMMA OrderEmpty ==
    ASSUME NEW ph, ph # "turn", NEW act, NEW md, NEW ins
    PROVE  Order(<<>>, <<>>, <<>>, <<>>, ph, act, md, ins)
<1>1. ToSet(<<>>) = {} /\ Sorted(<<>>)
  BY EmptyQueue
<1>. QED  BY <1>1 DEF Order, Before, Between

-------------------------------------------------------------------------------
(* What each step leaves of the settings                                   *)

LEMMA SendChained ==
    ASSUME NEW ch \in Seq(Control), NEW def, NEW park, NEW key, NEW d, NEW v, NEW ins,
           Chained(ch, def, park, key, d, v, ins),
           NEW c \in Control, IsMessage(c) => c.under[key] = v
    PROVE  Chained(Append(ch, c), def, park, key, d, IF Sets(c, key) THEN c.value ELSE v, ins)
<1>1. PICK e, f : /\ Chain(park, key, d, e, ins)
                  /\ Chain(def, key, e, f, ins)
                  /\ Chain(ch, key, f, v, ins)
  BY DEF Chained
<1>2. Chain(Append(ch, c), key, f, IF Sets(c, key) THEN c.value ELSE v, ins)
  BY <1>1, ChainAppend
<1>. QED  BY <1>1, <1>2 DEF Chained

LEMMA FlushChained ==
    ASSUME NEW ch, NEW def \in Seq(Command), NEW park \in Seq(Command), NEW key, NEW d, NEW v, NEW ins,
           Chained(ch, def, park, key, d, v, ins),
           NEW b \in Seq(Message), \A c \in ToSet(b) : c.id \in ins
    PROVE  Chained(ch, b \o Flush(park, def), <<>>, key, d, v, ins)
<1>1. PICK e, f : /\ Chain(park, key, d, e, ins)
                  /\ Chain(def, key, e, f, ins)
                  /\ Chain(ch, key, f, v, ins)
  BY DEF Chained
<1>2. park \in Seq(Accepted) /\ def \in Seq(Accepted) /\ b \in Seq(Control)
  BY QueueTypes
<1>3. PICK z \in Seq(Command) : z = <<>> /\ Chain(z, key, d, d, ins)
  <2>1. <<>> \in Seq(Command)
    OBVIOUS
  <2>2. Chain(<<>>, key, d, d, ins)
    BY ChainEmpty
  <2>. QED  BY <2>1, <2>2, Zenon
<1>4. PICK a \in Seq(Command) : a = AbsorbAll(z, park)
  BY <1>2, AbsorbAllHolds
<1>5. Chain(a, key, d, e, ins)
  BY <1>1, <1>2, <1>3, <1>4, AbsorbAllChain
<1>6. PICK g \in Seq(Command) : g = AbsorbAll(a, def)
  BY <1>2, AbsorbAllHolds
<1>7. Chain(g, key, d, f, ins)
  BY <1>1, <1>2, <1>5, <1>6, AbsorbAllChain
<1>8. g = Flush(park, def)
  BY <1>3, <1>4, <1>6 DEF Flush
<1>9. \A i \in 1 .. Len(b) : b[i].kind # "set" /\ b[i].id \in ins
  <2>1. \A i \in 1 .. Len(b) : b[i] \in ToSet(b) /\ b[i] \in Message
    BY InQueue
  <2>2. \A c \in Message : c.kind # "set"
    BY DEF Message, MessageKinds
  <2>. QED  BY <2>1, <2>2
<1>10. Chain(b \o g, key, d, f, ins)
  <2>1. g \in Seq(Control)
    BY QueuesHoldControls
  <2>. QED  BY <1>2, <1>7, <1>9, <2>1, ChainJoin
<1>11. Chain(<<>>, key, d, d, ins)
  BY ChainEmpty
<1>12. Chained(ch, b \o g, <<>>, key, d, v, ins)
  BY <1>1, <1>10, <1>11 DEF Chained
<1>. QED  BY <1>8, <1>12

LEMMA TakeChained ==
    ASSUME NEW ch \in Seq(Control), ch # <<>>, NEW key, NEW d, NEW v, NEW ins,
           Chained(ch, <<>>, <<>>, key, d, v, ins),
           NEW def2, def2 = <<Head(ch)>> \/ (def2 = <<>> /\ ~ Sets(Head(ch), key))
    PROVE  Chained(Tail(ch), def2, <<>>, key, d, v, ins)
<1>1. PICK e, f : /\ Chain(<<>>, key, d, e, ins)
                  /\ Chain(<<>>, key, e, f, ins)
                  /\ Chain(ch, key, f, v, ins)
  BY DEF Chained
<1>2. e = d /\ f = d
  BY <1>1, ChainEmpty
<1>3. PICK h, t : h = Head(ch) /\ t = Tail(ch)
  OBVIOUS
<1>4. PICK w : w = IF Sets(h, key) THEN h.value ELSE d
  OBVIOUS
<1>5. h \in Control /\ (IsMessage(h) /\ h.id \notin ins => h.under[key] = d) /\ Chain(t, key, w, v, ins)
  <2>1. Chain(ch, key, d, v, ins)
    BY <1>1, <1>2
  <2>. QED  BY <1>3, <1>4, <2>1, ChainHead, HeadAndTail
<1>6. PICK z \in Seq(Control) : z = <<>> /\ Chain(z, key, d, d, ins)
  <2>1. <<>> \in Seq(Control)
    OBVIOUS
  <2>2. Chain(<<>>, key, d, d, ins)
    BY ChainEmpty
  <2>. QED  BY <2>1, <2>2, Zenon
<1>7. Chain(<<h>>, key, d, w, ins)
  <2>1. Chain(Append(z, h), key, d, w, ins)
    BY <1>4, <1>5, <1>6, ChainAppend
  <2>2. Append(z, h) = <<h>>
    BY <1>6
  <2>. QED  BY <2>1, <2>2
<1>8. Chain(def2, key, d, w, ins)
  BY <1>3, <1>4, <1>6, <1>7
<1>9. Chain(<<>>, key, d, d, ins)
  BY ChainEmpty
<1>. QED  BY <1>3, <1>5, <1>8, <1>9 DEF Chained

-------------------------------------------------------------------------------
(* The initial states                                                      *)

LEMMA InitSound == Init => Sound
<1>. SUFFICES ASSUME Init PROVE Sound
  OBVIOUS
<1>2. Bounded
  BY SettingsAssumption DEF Init, Bounded, Setting
<1>3. ToSet(<<>>) = {} /\ \A S : <<>> \in Seq(S)
  BY EmptyQueue
<1>4. Typed(<<>>, <<>>, <<>>, <<>>, messages, prompts)
  BY <1>3 DEF Typed
<1>5. Order(<<>>, <<>>, <<>>, <<>>, phase, active, mode, inserts)
  BY OrderEmpty DEF Init
<1>6. Revocation(<<>>, <<>>, <<>>, started, Firm)
  BY EmptyRevocation DEF Init, Firm
<1>9. Untouched(<<>>, Firm)
  BY <1>3 DEF Untouched
<1>7. InForce(<<>>, <<>>, <<>>, phase, active, setting, asked, inserts)
  <2>1. \A key : Chain(<<>>, key, setting[key], setting[key], inserts)
    BY ChainEmpty
  <2>2. \A key : Chained(<<>>, <<>>, <<>>, key, setting[key], setting[key], inserts)
    BY <2>1 DEF Chained
  <2>3. asked = setting /\ phase = "idle"
    BY DEF Init
  <2>. QED  BY <2>2, <2>3 DEF InForce
<1>8. channel = <<>> /\ deferred = <<>> /\ parked = <<>> /\ boundary = <<>>
  BY DEF Init
<1>. QED  BY <1>2, <1>4, <1>5, <1>6, <1>7, <1>8, <1>9 DEF Sound

-------------------------------------------------------------------------------
(* The loop stops, and nothing happens                                     *)

LEMMA StopSound == Sound /\ Stop => Sound'
<1>. SUFFICES ASSUME Sound, Stop PROVE Sound'
  OBVIOUS
<1>2. Bounded'
  BY DEF Sound, Bounded, Stop, unsent
<1>3. ToSet(<<>>) = {} /\ \A S : <<>> \in Seq(S)
  BY EmptyQueue
<1>4. Typed(<<>>, <<>>, <<>>, <<>>, messages', prompts')
  BY <1>3 DEF Typed
<1>5. Order(<<>>, <<>>, <<>>, <<>>, phase', active', mode', inserts')
  BY OrderEmpty DEF Stop
<1>6. Revocation(<<>>, <<>>, <<>>, started', Firm')
  <2>1. started \cap Firm = {}
    BY DEF Sound, Revocation
  <2>. QED  BY <2>1, EmptyRevocation DEF Stop, Firm
<1>9. Untouched(<<>>, Firm')
  BY <1>3 DEF Untouched
<1>7. InForce(<<>>, <<>>, <<>>, phase', active', setting', asked', inserts')
  BY DEF InForce, Stop
<1>8. channel' = <<>> /\ deferred' = <<>> /\ parked' = <<>> /\ boundary' = <<>>
  BY DEF Stop
<1>. QED  BY <1>2, <1>4, <1>5, <1>6, <1>7, <1>8, <1>9 DEF Sound

LEMMA StutterSound == Sound /\ UNCHANGED vars => Sound'
BY DEF Sound, Bounded, Firm, vars, queues

(* Taking one control, or draining the channel, revokes only what was sent. *)
LEMMA RevokedBounded ==
    ASSUME Sound, NEW cs \in Seq(Control), ToSet(cs) \subseteq ToSet(channel),
           NEW dropped, Received(cs, dropped)
    PROVE  revoked' \subseteq 1 .. messages /\ spared' \subseteq revoked'
<1>1. /\ deferred \in Seq(Command) /\ parked \in Seq(Command) /\ boundary \in Seq(Message)
      /\ \A c \in ToSet(channel) \cup ToSet(deferred) \cup ToSet(parked) \cup ToSet(boundary) :
            Known(c, messages, prompts)
  BY DEF Sound, Typed
<1>2. revoked \subseteq 1 .. messages /\ spared \subseteq revoked /\ prompts \subseteq 1 .. messages
  BY DEF Sound, Bounded
<1>3. ASSUME NEW x, Revokes(cs, deferred, parked, boundary, x) PROVE x \in 1 .. messages
  <2>1. \A j \in 1 .. Len(cs) : cs[j] \in ToSet(cs)
    BY InQueue
  <2>2. \A c : c.kind \in Peers => IsMessage(c)
    BY DEF Peers, IsMessage, MessageKinds
  <2>. QED  BY <1>1, <1>2, <1>3, <2>1, <2>2 DEF Revokes, Known
<1>. QED  BY <1>1, <1>2, <1>3, ReceivedRevokes

-------------------------------------------------------------------------------
(* The channel is drained                                                  *)

LEMMA DrainSound ==
    ASSUME Sound, NEW dropped, Received(channel, dropped), ~ Holds(channel, "shutdown"),
           NEW park2 \in Seq(Command), ToSet(park2) \subseteq ToSet(parked),
           Holds(channel, "interrupt") => \A c \in ToSet(park2) : c.kind \notin Peers,
           NEW firm, firm \subseteq Firm',
           \A x \in firm : x \in Firm \/ Revokes(channel, deferred, parked, boundary, x)
    PROVE  /\ Drained \in Seq(Command)
           /\ Typed(<<>>, Drained, parked, boundary, messages, prompts)
           /\ Order(<<>>, Drained, parked, boundary, phase, active, mode, inserts)
           /\ Revocation(<<>>, Drained, park2, started, firm)
           /\ InForce(<<>>, Drained, parked, phase, active, setting, asked, inserts)
           /\ revoked' \subseteq 1 .. messages /\ spared' \subseteq revoked'
<1>1. /\ channel \in Seq(Control) /\ deferred \in Seq(Command)
      /\ parked \in Seq(Command) /\ boundary \in Seq(Message)
      /\ Typed(channel, deferred, parked, boundary, messages, prompts)
      /\ Order(channel, deferred, parked, boundary, phase, active, mode, inserts)
      /\ Revocation(channel, deferred, parked, started, Firm)
      /\ InForce(channel, deferred, parked, phase, active, setting, asked, inserts)
  BY DEF Sound, Typed
<1>2. channel \in Seq(Accepted)
  BY <1>1, AcceptsAll
<1>3. AbsorbAll(deferred, channel) \in Seq(Command)
  BY <1>1, <1>2, AbsorbAllHolds
<1>4. Typed(<<>>, AbsorbAll(deferred, channel), parked, boundary, messages, prompts)
  BY <1>1, <1>2, DrainTyped
<1>5. Order(<<>>, AbsorbAll(deferred, channel), parked, boundary, phase, active, mode, inserts)
  BY <1>1, <1>2, DrainOrder
<1>6. Revocation(<<>>, AbsorbAll(deferred, channel), park2, started, firm)
  <2>1. \A x \in firm :
           x \in Firm \/ (x \notin started /\ Revokes(channel, deferred, parked, boundary, x))
    BY <1>1, ReceivedRevokes
  <2>2. Interrupts(channel) => \A c \in ToSet(park2) : c.kind \notin Peers
    BY <1>1 DEF Interrupts, Holds
  <2>. QED  BY <1>1, <1>2, <2>1, <2>2, DrainRevocation
<1>7. InForce(<<>>, AbsorbAll(deferred, channel), parked, phase, active, setting, asked, inserts)
  BY <1>1, <1>2, DrainInForce
<1>8. revoked' \subseteq 1 .. messages /\ spared' \subseteq revoked'
  BY <1>1, RevokedBounded
<1>. QED  BY <1>3, <1>4, <1>5, <1>6, <1>7, <1>8 DEF Drained

-------------------------------------------------------------------------------
(* The end of a turn                                                       *)

(* What waits in the boundary queue is spared, unless it is taken out.      *)
LEMMA ReceivedSpares ==
    ASSUME Sound, NEW cs \in Seq(Control), NEW dropped, Received(cs, dropped)
    PROVE  /\ \A b \in ToSet(boundary) : b.id \in Firm' => b.id \in dropped
           /\ started \cap Firm' = {}
           /\ \A x \in Firm' : \/ x \in dropped
                               \/ x \in Firm
                               \/ Revokes(cs, deferred, parked, boundary, x)
<1>1. /\ deferred \in Seq(Command) /\ parked \in Seq(Command) /\ boundary \in Seq(Message)
      /\ \A b \in ToSet(boundary) : b.id \notin Firm
      /\ started \cap Firm = {}
  BY DEF Sound, Typed, Untouched, Revocation
<1>2. ASSUME NEW b \in ToSet(boundary) PROVE b.id \in MessagesOf(boundary)
  <2>1. PICK i \in 1 .. Len(boundary) : boundary[i] = b
    BY <1>1, InQueue
  <2>2. boundary[i] \in Message
    BY <1>1
  <2>3. i \in DOMAIN boundary /\ boundary[i].kind \in MessageKinds
    BY <1>1, <2>2 DEF Message
  <2>. QED  BY <2>1, <2>3 DEF MessagesOf
<1>3. \A x \in Firm' :
         \/ x \in Firm
         \/ /\ x \notin started
            /\ \/ x \in dropped
               \/ Revokes(cs, deferred, parked, boundary, x) /\ x \notin MessagesOf(boundary)
  BY <1>1, ReceivedRevokes
<1>. QED  BY <1>1, <1>2, <1>3

LEMMA FlushTyped ==
    ASSUME NEW ch, NEW def, NEW park, NEW bound, NEW n, NEW named,
           Typed(ch, def, park, bound, n, named), NEW b \in Seq(Message), NEW bound2 \in Seq(Message),
           ToSet(b) \cup ToSet(bound2) \subseteq ToSet(bound)
    PROVE  Typed(ch, b \o Flush(park, def), <<>>, bound2, n, named)
<1>1. ch \in Seq(Control) /\ def \in Seq(Command) /\ park \in Seq(Command)
  BY DEF Typed
<1>2. PICK f \in Seq(Command) :
         f = Flush(park, def) /\ ToSet(f) \subseteq ToSet(park) \cup ToSet(def)
  BY <1>1, FlushHolds
<1>3. PICK d \in Seq(Command) : d = b \o f /\ ToSet(d) = ToSet(b) \cup ToSet(f)
  <2>1. b \in Seq(Command) /\ b \in Seq(Control) /\ f \in Seq(Control)
    BY QueueTypes
  <2>2. b \o f \in Seq(Command)
    BY <2>1
  <2>3. ToSet(b \o f) = ToSet(b) \cup ToSet(f)
    BY <2>1, Joined
  <2>. QED  BY <2>2, <2>3, Zenon
<1>4. PICK e \in Seq(Command) : e = <<>> /\ ToSet(e) = {}
  BY EmptyQueue, Zenon
<1>5. Typed(ch, d, e, bound2, n, named)
  <2>1. ToSet(ch) \cup ToSet(d) \cup ToSet(e) \cup ToSet(bound2)
            \subseteq ToSet(ch) \cup ToSet(def) \cup ToSet(park) \cup ToSet(bound)
    BY <1>2, <1>3, <1>4
  <2>2. \A c \in ToSet(e) : ~ Cancels(c)
    BY <1>4
  <2>. QED  BY <1>1, <2>1, <2>2 DEF Typed
<1>. QED  BY <1>2, <1>3, <1>4, <1>5

LEMMA EndTurnSound ==
    ASSUME Bounded, phase = "turn",
           NEW ch, NEW def \in Seq(Command), NEW park \in Seq(Command), NEW bound \in Seq(Message),
           Typed(ch, def, park, bound, messages, prompts),
           Order(ch, def, park, bound, phase, active, mode, inserts),
           Revocation(ch, def, park, started, Firm'),
           Untouched(bound, Firm'),
           InForce(ch, def, park, phase, active, setting, asked, inserts),
           revoked' \subseteq 1 .. messages /\ spared' \subseteq revoked',
           EndTurn(def, park, bound), channel' = ch
    PROVE  Sound'
<1>1. Bounded'
  BY DEF Bounded, EndTurn, unsent
<1>2. PICK d : d = bound \o Flush(park, def)
  OBVIOUS
<1>3. Typed(ch, d, <<>>, <<>>, messages, prompts)
  <2>1. <<>> \in Seq(Message) /\ ToSet(<<>>) = {}
    BY EmptyQueue
  <2>. QED  BY <1>2, <2>1, FlushTyped
<1>4. Order(ch, d, <<>>, <<>>, "idle", None, mode, inserts)
  BY <1>2, EndOrder
<1>5. \A c \in ToSet(bound) : c.id \in inserts
  BY DEF Order
<1>6. Revocation(ch, d, <<>>, started, Firm')
  <2>1. \A c \in ToSet(park) : ~ Cancels(c)
    BY DEF Typed
  <2>2. \A c \in ToSet(bound) : c.id \notin Firm'
    BY DEF Untouched
  <2>. QED  BY <1>2, <2>1, <2>2, FlushRevocation
<1>7. InForce(ch, d, <<>>, "idle", None, setting, asked, inserts)
  <2>1. ASSUME NEW key \in Keys
        PROVE  Chained(ch, d, <<>>, key, setting[key], asked[key], inserts)
    <3>1. Chained(ch, def, park, key, setting[key], asked[key], inserts)
      BY DEF InForce
    <3>. QED  BY <1>2, <1>5, <3>1, FlushChained
  <2>. QED  BY <2>1 DEF InForce
<1>9. Untouched(<<>>, Firm')
  BY EmptyQueue DEF Untouched
<1>8. /\ phase' = "idle" /\ active' = None /\ setting' = setting /\ asked' = asked
      /\ mode' = mode /\ messages' = messages /\ prompts' = prompts
      /\ started' = started /\ inserts' = inserts
      /\ deferred' = d /\ parked' = <<>> /\ boundary' = <<>>
  BY <1>2 DEF EndTurn, unsent
<1>. QED  BY <1>1, <1>3, <1>4, <1>6, <1>7, <1>8, <1>9 DEF Sound

LEMMA TurnInterruptedSound == Sound /\ TurnInterrupted => Sound'
<1>. SUFFICES ASSUME Sound, TurnInterrupted PROVE Sound'
  OBVIOUS
<1>1. /\ phase = "turn" /\ ~ Holds(channel, "shutdown") /\ channel' = <<>>
      /\ Holds(channel, "interrupt")
      /\ Received(channel, PeersBefore(boundary, Len(boundary) + 1))
      /\ EndTurn(Drained, WithoutPeers(parked), WithoutPeers(boundary))
  BY DEF TurnInterrupted
<1>2. /\ Bounded /\ parked \in Seq(Command) /\ boundary \in Seq(Message)
      /\ boundary \in Seq(Command) /\ Sorted(parked) /\ Sorted(boundary)
      /\ \A c \in ToSet(parked) : ~ Cancels(c)
  BY QueueTypes DEF Sound, Typed, Order
<1>3. PICK park2 \in Seq(Command) :
         /\ park2 = WithoutPeers(parked)
         /\ ToSet(park2) = ToSet(parked) \ PeersIn(parked) /\ Sorted(park2)
         /\ Thinned(park2, parked, PeersIn(parked))
  <2>1. PICK r : r = WithoutPeers(parked) /\ Thinned(r, parked, PeersIn(parked))
    BY <1>2, WithoutPeersThins
  <2>2. r \in Seq(Command)
    BY <2>1, ThinnedType
  <2>3. ToSet(r) = ToSet(parked) \ PeersIn(parked) /\ Sorted(r)
    BY <1>2, <2>1, Thinning
  <2>. QED  BY <2>1, <2>2, <2>3
<1>4. PICK bound2 \in Seq(Message) :
         /\ bound2 = WithoutPeers(boundary)
         /\ ToSet(bound2) \subseteq ToSet(boundary) /\ Sorted(bound2)
         /\ \A c \in ToSet(bound2) : c.kind \notin Peers
  <2>1. PICK r : r = WithoutPeers(boundary) /\ Thinned(r, boundary, PeersIn(boundary))
    BY <1>2, WithoutPeersThins
  <2>2. r \in Seq(Command)
    BY <2>1, ThinnedType
  <2>3. ToSet(r) = ToSet(boundary) \ PeersIn(boundary) /\ Sorted(r)
    BY <1>2, <2>1, Thinning
  <2>5. \A c \in ToSet(r) : c.kind \notin Peers
    BY <2>3 DEF PeersIn
  <2>4. r \in Seq(Message)
    <3>1. ToSet(boundary) \subseteq Message /\ \A i \in 1 .. Len(r) : r[i] \in ToSet(r)
      BY <1>2, <2>2, InQueue
    <3>2. \A i \in 1 .. Len(r) : r[i] \in Message
      BY <2>3, <3>1
    <3>. QED  BY <2>2, <3>2
  <2>. QED  BY <2>1, <2>3, <2>4, <2>5
<1>5. \A c \in ToSet(park2) : c.kind \notin Peers
  BY <1>3 DEF PeersIn
<1>6. /\ Drained \in Seq(Command)
      /\ Typed(<<>>, Drained, parked, boundary, messages, prompts)
      /\ Order(<<>>, Drained, parked, boundary, phase, active, mode, inserts)
      /\ Revocation(<<>>, Drained, park2, started, Firm')
      /\ InForce(<<>>, Drained, parked, phase, active, setting, asked, inserts)
      /\ revoked' \subseteq 1 .. messages /\ spared' \subseteq revoked'
  <2>1. ToSet(park2) \subseteq ToSet(parked)
    BY <1>3
  <2>2. channel \in Seq(Control)
    BY DEF Sound, Typed
  <2>3. Interrupts(channel)
    BY <1>1, <2>2 DEF Holds, Interrupts
  <2>4. ASSUME NEW x \in PeersBefore(boundary, Len(boundary) + 1)
        PROVE  \E p \in ToSet(boundary) : p.kind \in Peers /\ p.id = x
    <3>1. PICK k \in 1 .. Len(boundary) : boundary[k].kind \in Peers /\ boundary[k].id = x
      <4>1. Len(boundary) \in Nat
        BY <1>2
      <4>. QED  BY <4>1 DEF PeersBefore
    <3>. QED  BY <1>2, <3>1, InQueue
  <2>5. ASSUME NEW x \in PeersBefore(boundary, Len(boundary) + 1)
        PROVE  Revokes(channel, deferred, parked, boundary, x)
    BY <2>3, <2>4 DEF Revokes
  <2>6. \A x \in Firm' : x \in Firm \/ Revokes(channel, deferred, parked, boundary, x)
    BY <1>1, <2>2, <2>5, ReceivedSpares
  <2>. QED  BY <1>1, <1>5, <2>1, <2>6, DrainSound
<1>7. PICK q \in Seq(Command) : q = Drained
  BY <1>6
<1>8. Typed(<<>>, q, park2, bound2, messages, prompts)
  <2>1. <<>> \in Seq(Control)
    BY EmptyQueue
  <2>2. \A c \in ToSet(park2) : ~ Cancels(c)
    BY <1>2, <1>3
  <2>3. ToSet(<<>>) \cup ToSet(q) \cup ToSet(park2) \cup ToSet(bound2)
            \subseteq ToSet(<<>>) \cup ToSet(q) \cup ToSet(parked) \cup ToSet(boundary)
    BY <1>3, <1>4
  <2>. QED  BY <1>6, <1>7, <2>1, <2>2, <2>3 DEF Typed
<1>9. Order(<<>>, q, park2, bound2, phase, active, mode, inserts)
  <2>1. Sorted(q) /\ Sorted(<<>>)
    BY <1>6, <1>7 DEF Order
  <2>2. parked = <<>> => park2 = <<>>
    <3>1. parked = <<>> => ToSet(park2) = {}
      BY <1>3, EmptyQueue
    <3>2. \A i \in 1 .. Len(park2) : park2[i] \in ToSet(park2)
      BY InQueue
    <3>. QED  BY <3>1, <3>2
  <2>. QED  BY <1>3, <1>4, <1>6, <1>7, <2>1, <2>2, OrderLess
<1>10. InForce(<<>>, q, park2, phase, active, setting, asked, inserts)
  <2>1. ASSUME NEW key \in Keys
        PROVE  Chained(<<>>, q, park2, key, setting[key], asked[key], inserts)
    <3>1. PICK e, f : /\ Chain(parked, key, setting[key], e, inserts)
                      /\ Chain(q, key, e, f, inserts)
                      /\ Chain(<<>>, key, f, asked[key], inserts)
      BY <1>1, <1>6, <1>7 DEF InForce, Chained
    <3>2. \A c \in PeersIn(parked) : c.kind # "set"
      BY DEF PeersIn, Peers
    <3>3. Chain(park2, key, setting[key], e, inserts)
      BY <1>2, <1>3, <3>1, <3>2, ChainThinned
    <3>. QED  BY <3>1, <3>3 DEF Chained
  <2>. QED  BY <1>6, <2>1 DEF InForce
<1>11. Untouched(bound2, Firm')
  <2>1. channel \in Seq(Control)
    BY DEF Sound, Typed
  <2>2. \A c \in ToSet(boundary) : Known(c, messages, prompts) /\ IsMessage(c)
    BY DEF Sound, Typed, Order
  <2>3. ASSUME NEW b \in ToSet(bound2), b.id \in PeersBefore(boundary, Len(boundary) + 1)
        PROVE  FALSE
    <3>1. PICK k \in 1 .. Len(boundary) : boundary[k].kind \in Peers /\ boundary[k].id = b.id
      <4>1. Len(boundary) \in Nat
        BY <1>2
      <4>. QED  BY <2>3, <4>1 DEF PeersBefore
    <3>2. boundary[k] \in ToSet(boundary)
      BY <1>2, InQueue
    <3>3. boundary[k].id \notin prompts
      BY <2>2, <3>1, <3>2 DEF Known, Peers
    <3>4. b.kind = "prompt" /\ b.id \in prompts
      BY <1>4, <2>2 DEF Known, Peers, IsMessage, MessageKinds
    <3>. QED  BY <3>1, <3>3, <3>4
  <2>4. \A b \in ToSet(boundary) : b.id \in Firm' => b.id \in PeersBefore(boundary, Len(boundary) + 1)
    BY <1>1, <2>1, ReceivedSpares
  <2>. QED  BY <1>4, <2>3, <2>4 DEF Untouched
<1>. QED  BY <1>1, <1>2, <1>3, <1>4, <1>6, <1>7, <1>8, <1>9, <1>10, <1>11, EndTurnSound

LEMMA TurnCompletesSound == Sound /\ TurnCompletes => Sound'
<1>. SUFFICES ASSUME Sound, TurnCompletes PROVE Sound'
  OBVIOUS
<1>1. /\ phase = "turn" /\ deferred = <<>> /\ EndTurn(<<>>, parked, boundary)
      /\ channel' = channel /\ revoked' = revoked /\ spared' = spared
  BY DEF TurnCompletes
<1>2. /\ Bounded /\ parked \in Seq(Command) /\ boundary \in Seq(Message)
      /\ Typed(channel, <<>>, parked, boundary, messages, prompts)
      /\ Order(channel, <<>>, parked, boundary, phase, active, mode, inserts)
      /\ Revocation(channel, <<>>, parked, started, Firm)
      /\ Untouched(boundary, Firm)
      /\ InForce(channel, <<>>, parked, phase, active, setting, asked, inserts)
  BY <1>1 DEF Sound, Typed
<1>3. revoked \subseteq 1 .. messages /\ spared \subseteq revoked
  BY <1>2 DEF Bounded
<1>4. <<>> \in Seq(Command)
  BY EmptyQueue
<1>5. Firm' = Firm
  BY <1>1 DEF Firm
<1>. QED  BY <1>1, <1>2, <1>3, <1>4, <1>5, EndTurnSound

(* The tools of a turn have run and a prompt waits for it.                  *)
LEMMA ToolBatchEndsSound == Sound /\ ToolBatchEnds => Sound'
<1>. SUFFICES ASSUME Sound, ToolBatchEnds PROVE Sound'
  OBVIOUS
<1>1. PICK d, t : d = <<Head(boundary)>> \o Flush(parked, <<>>) /\ t = Tail(boundary)
  OBVIOUS
<1>2. /\ phase = "turn" /\ deferred = <<>> /\ mode = "insert" /\ boundary # <<>>
      /\ deferred' = d /\ parked' = <<>> /\ boundary' = t
      /\ phase' = "idle" /\ active' = None
      /\ channel' = channel /\ setting' = setting /\ mode' = mode /\ asked' = asked
      /\ messages' = messages /\ prompts' = prompts /\ sent' = sent
      /\ started' = started /\ revoked' = revoked /\ spared' = spared /\ inserts' = inserts
  BY <1>1 DEF ToolBatchEnds, unsent
<1>3. Bounded'
  BY <1>2 DEF Sound, Bounded
<1>4. /\ parked \in Seq(Command) /\ boundary \in Seq(Message) /\ boundary \in Seq(Control)
      /\ Typed(channel, <<>>, parked, boundary, messages, prompts)
      /\ Order(channel, <<>>, parked, boundary, "turn", active, "insert", inserts)
      /\ Revocation(channel, <<>>, parked, started, Firm)
      /\ Untouched(boundary, Firm)
      /\ InForce(channel, <<>>, parked, phase, active, setting, asked, inserts)
  BY <1>2, QueueTypes DEF Sound, Typed
<1>5. PICK b \in Seq(Message) : b = <<Head(boundary)>> /\ ToSet(b) \subseteq ToSet(boundary)
  <2>1. Head(boundary) \in Message /\ Head(boundary) \in Control
    BY <1>2, <1>4, HeadAndTail
  <2>2. ToSet(<<Head(boundary)>>) = {Head(boundary)} /\ <<Head(boundary)>> \in Seq(Message)
    BY <2>1, Alone
  <2>3. Head(boundary) \in ToSet(boundary)
    BY <1>2, <1>4, HeadAndTail
  <2>. QED  BY <2>2, <2>3
<1>6. t \in Seq(Message) /\ ToSet(t) \subseteq ToSet(boundary)
  <2>1. ToSet(boundary) = {Head(boundary)} \cup ToSet(Tail(boundary))
    BY <1>2, <1>4, HeadAndTail, Zenon
  <2>2. Tail(boundary) \in Seq(Message)
    BY <1>2, <1>4
  <2>. QED  BY <1>1, <2>1, <2>2
<1>7. Typed(channel, d, <<>>, t, messages, prompts)
  BY <1>1, <1>4, <1>5, <1>6, FlushTyped
<1>8. Order(channel, d, <<>>, t, "idle", None, mode, inserts)
  BY <1>1, <1>2, <1>4, BatchOrder
<1>9. \A c \in ToSet(b) : c.id \in inserts
  BY <1>4, <1>5 DEF Order
<1>10. <<>> \in Seq(Command)
  BY EmptyQueue
<1>11. Revocation(channel, d, <<>>, started, Firm)
  <2>1. \A c \in ToSet(parked) : ~ Cancels(c)
    BY <1>4 DEF Typed
  <2>2. \A c \in ToSet(b) : c.id \notin Firm
    BY <1>4, <1>5 DEF Untouched
  <2>. QED  BY <1>1, <1>4, <1>5, <1>10, <2>1, <2>2, FlushRevocation
<1>13. Untouched(t, Firm) /\ Firm' = Firm
  BY <1>2, <1>4, <1>6 DEF Untouched, Firm
<1>12. InForce(channel, d, <<>>, "idle", None, setting, asked, inserts)
  <2>1. ASSUME NEW key \in Keys
        PROVE  Chained(channel, d, <<>>, key, setting[key], asked[key], inserts)
    <3>1. Chained(channel, <<>>, parked, key, setting[key], asked[key], inserts)
      BY <1>2, <1>4 DEF InForce
    <3>. QED  BY <1>1, <1>4, <1>5, <1>9, <1>10, <3>1, FlushChained
  <2>. QED  BY <2>1 DEF InForce
<1>. QED  BY <1>2, <1>3, <1>7, <1>8, <1>11, <1>12, <1>13 DEF Sound

-------------------------------------------------------------------------------
(* One command dealt with by the idle loop                                 *)

LEMMA RestHolds ==
    ASSUME NEW q \in Seq(Command), q # <<>>,
           NEW def2, def2 = IF Cancels(Head(q)) THEN Without(Tail(q), Head(q).id) ELSE Tail(q)
    PROVE  /\ def2 \in Seq(Command)
           /\ ToSet(def2) \subseteq ToSet(q)
           /\ Sorted(q) => Sorted(def2)
           /\ \A key, d, v, X : Chain(Tail(q), key, d, v, X) => Chain(def2, key, d, v, X)
<1>1. PICK t \in Seq(Command) : t = Tail(q) /\ ToSet(t) \subseteq ToSet(q) /\ (Sorted(q) => Sorted(t))
  <2>1. Tail(q) \in Seq(Command)
    OBVIOUS
  <2>2. ToSet(Tail(q)) \subseteq ToSet(q) /\ (Sorted(q) => Sorted(Tail(q)))
    BY HeadAndTail, QueuesHoldControls
  <2>. QED  BY <2>1, <2>2, Zenon
<1>2. CASE ~ Cancels(Head(q))
  BY <1>1, <1>2
<1>3. CASE Cancels(Head(q))
  <2>1. PICK id : id = Head(q).id
    OBVIOUS
  <2>2. Thinned(def2, t, Named(t, id))
    BY <1>1, <1>3, <2>1, WithoutThins
  <2>3. def2 \in Seq(Command)
    BY <2>2, ThinnedType
  <2>4. ToSet(def2) \subseteq ToSet(t) /\ (Sorted(t) => Sorted(def2))
    BY <2>2, Thinning
  <2>5. \A c \in Named(t, id) : c.kind # "set"
    BY DEF Named
  <2>6. \A key, d, v, X : Chain(t, key, d, v, X) => Chain(def2, key, d, v, X)
    BY <2>2, <2>5, ChainThinned
  <2>. QED  BY <1>1, <2>3, <2>4, <2>6
<1>. QED  BY <1>2, <1>3

LEMMA HandleSound ==
    ASSUME Bounded, phase = "idle",
           NEW ch, NEW q \in Seq(Command), q # <<>>,
           Typed(ch, q, parked, boundary, messages, prompts),
           Order(ch, q, parked, boundary, phase, active, mode, inserts),
           Revocation(ch, q, parked, started, Firm'),
           Untouched(boundary, Firm'),
           InForce(ch, q, parked, phase, active, setting, asked, inserts),
           revoked' \subseteq 1 .. messages /\ spared' \subseteq revoked',
           Handle(Head(q), Tail(q)), channel' = ch
    PROVE  Sound'
<1>1. parked = <<>> /\ parked' = <<>> /\ boundary' = boundary /\ active = None
  BY DEF Order, Between, Handle, Bounded
<1>2. PICK h, t : h = Head(q) /\ t = Tail(q)
  OBVIOUS
<1>3. /\ mode' = mode /\ asked' = asked /\ messages' = messages /\ prompts' = prompts
      /\ sent' = sent /\ inserts' = inserts
  BY DEF Handle, unsent
<1>4. PICK def2 : /\ def2 = IF Cancels(h) THEN Without(t, h.id) ELSE t
                  /\ deferred' = def2
  BY <1>2 DEF Handle, Cancels
<1>5. /\ def2 \in Seq(Command)
      /\ ToSet(def2) \subseteq ToSet(q)
      /\ Sorted(def2)
      /\ \A key, d, v, X : Chain(t, key, d, v, X) => Chain(def2, key, d, v, X)
  <2>1. Sorted(q)
    BY DEF Order
  <2>2. def2 = IF Cancels(Head(q)) THEN Without(Tail(q), Head(q).id) ELSE Tail(q)
    BY <1>2, <1>4
  <2>. QED  BY <1>2, <2>1, <2>2, RestHolds
<1>6. h \in Command /\ h \in ToSet(q) /\ Known(h, messages, prompts)
  <2>1. h \in Command
    BY <1>2
  <2>2. h \in ToSet(q)
    BY <1>2, HeadAndTail, QueuesHoldControls
  <2>. QED  BY <2>1, <2>2 DEF Typed
<1>7. ToSet(<<>>) = {} /\ Sorted(<<>>)
  BY EmptyQueue
<1>8. Typed(ch, def2, <<>>, boundary, messages, prompts)
  BY <1>1, <1>5, <1>7 DEF Typed
<1>9. Order(ch, def2, <<>>, boundary, phase, active, mode, inserts)
  <2>1. Sorted(ch) /\ Sorted(boundary)
    BY DEF Order
  <2>. QED  BY <1>1, <1>5, <1>7, <2>1, OrderLess
<1>10. Revocation(ch, def2, <<>>, started, Firm')
  <2>1. def2 = IF Cancels(Head(q)) THEN Without(Tail(q), Head(q).id) ELSE Tail(q)
    BY <1>2, <1>4
  <2>2. ToSet(<<>>) \subseteq ToSet(parked) \cup {Head(q)}
    BY <1>7
  <2>3. Cancels(Head(q)) => \A c \in ToSet(<<>>) : c.kind = "prompt" => c.id # Head(q).id
    BY <1>7
  <2>. QED  BY <2>1, <2>2, <2>3, HeadRevocation
<1>11. ASSUME NEW key \in Keys
       PROVE  /\ IsMessage(h) /\ h.id \notin inserts => h.under[key] = setting[key]
              /\ Chained(ch, def2, <<>>, key, IF Sets(h, key) THEN h.value ELSE setting[key],
                         asked[key], inserts)
  <2>1. PICK e, f : /\ Chain(<<>>, key, setting[key], e, inserts)
                    /\ Chain(q, key, e, f, inserts)
                    /\ Chain(ch, key, f, asked[key], inserts)
    BY <1>1 DEF InForce, Chained
  <2>2. e = setting[key]
    BY <2>1, ChainEmpty
  <2>3. PICK w : w = IF Sets(h, key) THEN h.value ELSE setting[key]
    OBVIOUS
  <2>4. /\ IsMessage(h) /\ h.id \notin inserts => h.under[key] = setting[key]
        /\ Chain(t, key, w, f, inserts)
    BY <1>2, <2>1, <2>2, <2>3, ChainHead, QueuesHoldControls
  <2>5. Chain(<<>>, key, w, w, inserts)
    BY ChainEmpty
  <2>6. Chain(def2, key, w, f, inserts)
    BY <1>5, <2>4
  <2>. QED  BY <2>1, <2>3, <2>4, <2>5, <2>6 DEF Chained
<1>12. h.kind \in MessageKinds \cup {"set", "withdraw", "cancel", "compact"}
  BY <1>6, CommandKinds
(* The turn of a message starts.                                            *)
<1>13. CASE /\ IsMessage(h) /\ phase' = "turn" /\ active' = h
            /\ started' = started \cup {h.id} /\ setting' = setting
  <2>1. h \in Message /\ h.id \in 1 .. messages
    <3>1. h \in Control
      BY <1>6, CommandKinds
    <3>. QED  BY <1>6, <1>13, <3>1, ControlKinds DEF Known
  <2>2. Bounded'
    BY <1>3, <1>13, <2>1 DEF Bounded
  <2>3. def2 = t
    BY <1>4, <1>13 DEF IsMessage, Cancels, MessageKinds
  <2>4. Order(ch, def2, <<>>, boundary, "turn", h, mode, inserts)
    BY <1>1, <1>2, <1>13, <2>3, StartOrder
  <2>5. h.id \notin Firm'
    BY <1>2, <1>13, HeadNotRevoked
  <2>6. Revocation(ch, def2, <<>>, started', Firm')
    <3>1. started \cap Firm' = {}
      BY DEF Revocation
    <3>2. started' \cap Firm' = {}
      BY <1>13, <2>5, <3>1
    <3>. QED  BY <1>5, <1>10, <3>2, OtherRevocation
  <2>7. InForce(ch, def2, <<>>, "turn", h, setting, asked, inserts)
    <3>1. \A key : ~ Sets(h, key)
      BY <1>13 DEF IsMessage, Sets, MessageKinds
    <3>. QED  BY <1>11, <1>13, <3>1 DEF InForce
  <2>. QED  BY <1>1, <1>3, <1>4, <1>8, <1>13, <2>2, <2>4, <2>6, <2>7 DEF Sound
(* Or it does not, and nothing but a setting or a compaction comes of it.   *)
<1>14. CASE /\ phase' \in {"idle", "compaction"} /\ active' = None /\ started' = started
            /\ setting' \in Setting
            /\ \A key \in Keys : setting'[key] = IF Sets(h, key) THEN h.value ELSE setting[key]
  <2>1. Bounded'
    BY <1>1, <1>3, <1>14 DEF Bounded
  <2>2. Order(ch, def2, <<>>, boundary, phase', active', mode, inserts)
    BY <1>9, <1>14, OrderIdle
  <2>3. InForce(ch, def2, <<>>, phase', active', setting', asked, inserts)
    BY <1>11, <1>14 DEF InForce
  <2>. QED  BY <1>1, <1>3, <1>4, <1>8, <1>10, <1>14, <2>1, <2>2, <2>3 DEF Sound
<1>15. setting \in Setting
  BY DEF Bounded
<1>16. CASE IsMessage(h)
  <2>1. StartTurn(h)
    BY <1>2, <1>16 DEF Handle, IsMessage, MessageKinds
  <2>2. CASE Runs(h)
    BY <1>13, <1>16, <2>1, <2>2 DEF StartTurn
  <2>3. CASE ~ Runs(h)
    <3>1. \A key : ~ Sets(h, key)
      BY <1>16 DEF IsMessage, Sets, MessageKinds
    <3>2. UNCHANGED <<phase, active, started, setting>>
      BY <2>1, <2>3 DEF StartTurn
    <3>. QED  BY <1>1, <1>14, <1>15, <3>1, <3>2
  <2>. QED  BY <2>2, <2>3
<1>17. CASE h.kind = "set"
  <2>1. Apply(h)
    BY <1>2, <1>17 DEF Handle, MessageKinds
  <2>2. /\ h.key \in Keys
        /\ h.key = "model" => h.value \in Models
        /\ h.key = "effort" => h.value \in Efforts
    <3>1. h \in Control
      BY <1>6, CommandKinds
    <3>. QED  BY <1>17, <3>1, ControlKinds DEF Sets
  <2>3. setting' = [setting EXCEPT ![h.key] = h.value]
    BY <2>1 DEF Apply
  <2>4. \A key \in Keys : setting'[key] = IF Sets(h, key) THEN h.value ELSE setting[key]
    BY <1>15, <1>17, <2>2, <2>3 DEF Setting, Keys, Sets
  <2>5. setting' \in Setting
    BY <1>15, <2>2, <2>3 DEF Setting, Keys
  <2>. QED  BY <1>1, <1>14, <2>1, <2>4, <2>5 DEF Apply
<1>18. CASE h.kind \in {"withdraw", "cancel", "compact"}
  <2>1. \A key : ~ Sets(h, key)
    BY <1>18 DEF Sets
  <2>2. /\ phase' \in {"idle", "compaction"}
        /\ UNCHANGED <<active, setting, started>>
    BY <1>2, <1>18 DEF Handle, StartCompaction, MessageKinds
  <2>. QED  BY <1>1, <1>14, <1>15, <2>1, <2>2
<1>. QED  BY <1>12, <1>16, <1>17, <1>18 DEF IsMessage

(* Without an interrupt a drain leaves something, if there was anything.    *)
LEMMA DrainKeeps ==
    ASSUME NEW q \in Seq(Command), NEW cs \in Seq(Accepted),
           ~ Holds(cs, "interrupt"), q # <<>> \/ cs # <<>>
    PROVE  AbsorbAll(q, cs) # <<>>
<1>1. PICK n \in Nat : n = Len(cs)
  OBVIOUS
<1>2. PICK f : Absorbs(q, cs, f) /\ AbsorbAll(q, cs) = f[n]
  BY <1>1, AbsorbAllSteps
<1>3. CASE n = 0
  <2>1. cs = <<>>
    BY <1>1, <1>3, EmptySeq
  <2>2. f[0] = q
    BY <1>2 DEF Absorbs
  <2>. QED  BY <1>2, <1>3, <2>1, <2>2
<1>4. CASE n # 0
  <2>1. n \in 1 .. Len(cs) /\ cs[n] \in Accepted /\ cs[n].kind # "interrupt"
    BY <1>1, <1>4 DEF Holds
  <2>2. f[n] = Absorb(f[n - 1], cs[n]) /\ f[n - 1] \in Seq(Command)
    BY <1>2, <2>1 DEF Absorbs
  <2>3. PICK p \in Seq(Command), c \in Accepted : p = f[n - 1] /\ c = cs[n] /\ c.kind # "interrupt"
    BY <2>1, <2>2
  <2>4. c \in Command
    BY <2>3, AcceptedKinds
  <2>5. \A r \in Seq(Command) : Append(r, c) # <<>> /\ <<c>> \o r # <<>>
    <3>1. <<c>> \in Seq(Command) /\ Len(<<c>>) = 1 /\ Len(<<>>) = 0
      BY <2>4
    <3>2. \A r \in Seq(Command) : Len(Append(r, c)) = Len(r) + 1 /\ Len(r) \in Nat
      BY <2>4, AppendProperties
    <3>3. \A r \in Seq(Command) : Len(<<c>> \o r) = 1 + Len(r)
      BY <3>1, ConcatProperties
    <3>4. \A n1 \in Nat : n1 + 1 # 0 /\ 1 + n1 # 0
      OBVIOUS
    <3>. QED  BY <3>1, <3>2, <3>3, <3>4
  <2>6. Absorb(p, c) # <<>>
    <3>1. CASE c.kind = "set"
      <4>1. Absorb(p, c) = EnqueueSetting(p, c)
        BY <2>3, <3>1, AbsorbForms DEF MessageKinds
      <4>2. \A m \in 1 .. Len(p) : RemoveAt(p, m) \in Seq(Command)
        BY Removed
      <4>. QED  BY <2>4, <2>5, <3>1, <4>1, <4>2, EnqueueSettingForms
    <3>2. CASE c.kind # "set"
      <4>1. Without(p, c.id) \in Seq(Command)
        BY WithoutType
      <4>. QED  BY <2>3, <2>5, <3>2, <4>1, AbsorbForms
    <3>. QED  BY <3>1, <3>2
  <2>. QED  BY <1>2, <2>2, <2>3, <2>6
<1>. QED  BY <1>3, <1>4

-------------------------------------------------------------------------------
(* The steps of the idle loop                                              *)

LEMMA TakeSound ==
    ASSUME Sound, phase = "idle", deferred = <<>>, channel # <<>>, Head(channel).kind \notin Peers,
           Received(<<Head(channel)>>, {}),
           NEW def2 \in Seq(Command),
           def2 = <<Head(channel)>> \/ (def2 = <<>> /\ Head(channel).kind # "set")
    PROVE  /\ Typed(Tail(channel), def2, parked, boundary, messages, prompts)
           /\ Order(Tail(channel), def2, parked, boundary, phase, active, mode, inserts)
           /\ Revocation(Tail(channel), def2, parked, started, Firm')
           /\ Untouched(boundary, Firm')
           /\ InForce(Tail(channel), def2, parked, phase, active, setting, asked, inserts)
           /\ revoked' \subseteq 1 .. messages /\ spared' \subseteq revoked'
<1>1. /\ parked = <<>> /\ channel \in Seq(Control) /\ boundary \in Seq(Message)
      /\ Typed(channel, <<>>, <<>>, boundary, messages, prompts)
      /\ Order(channel, <<>>, <<>>, boundary, phase, active, mode, inserts)
      /\ Revocation(channel, <<>>, <<>>, started, Firm)
      /\ InForce(channel, <<>>, <<>>, phase, active, setting, asked, inserts)
  <2>1. parked = <<>>
    BY DEF Sound, Order, Between
  <2>. QED  BY <2>1 DEF Sound, Typed
<1>2. PICK h, t : /\ h = Head(channel) /\ t = Tail(channel)
                  /\ h \in Control /\ t \in Seq(Control) /\ ToSet(channel) = {h} \cup ToSet(t)
  <2>1. /\ Head(channel) \in Control /\ Tail(channel) \in Seq(Control)
        /\ ToSet(channel) = {Head(channel)} \cup ToSet(Tail(channel))
    BY <1>1, HeadAndTail
  <2>. QED  BY <2>1, Zenon
<1>3. /\ <<h>> \in Seq(Control) /\ ToSet(<<h>>) = {h} /\ Sorted(<<h>>)
      /\ ToSet(<<>>) = {} /\ Sorted(<<>>)
  BY <1>2, Alone, EmptyQueue
<1>4. ToSet(def2) \subseteq {h} /\ Sorted(def2)
  BY <1>2, <1>3
<1>5. Typed(t, def2, <<>>, boundary, messages, prompts)
  BY <1>1, <1>2, <1>3, <1>4 DEF Typed
<1>6. Order(t, def2, <<>>, boundary, phase, active, mode, inserts)
  BY <1>1, <1>2, <1>4, TakeOrder
<1>7. ASSUME NEW x \in Firm'
      PROVE  x \in Firm \/ (x \notin started /\ Cancels(h) /\ h.id = x)
  <2>1. CASE x \in Firm
    BY <2>1
  <2>2. CASE x \notin started /\ Revokes(<<h>>, deferred, parked, boundary, x) /\ x \notin MessagesOf(boundary)
    <3>1. CASE \E c \in ToSet(<<h>>) : Cancels(c) /\ c.id = x
      BY <1>3, <2>2, <3>1
    <3>2. CASE \E p \in ToSet(deferred) \cup ToSet(parked) \cup ToSet(boundary) : p.id = x
      <4>1. PICK p \in ToSet(boundary) : p.id = x
        BY <1>1, <1>3, <3>2
      <4>2. PICK i \in 1 .. Len(boundary) : boundary[i] = p
        BY <1>1, InQueue
      <4>3. boundary[i] \in Message /\ i \in DOMAIN boundary
        BY <1>1
      <4>. QED  BY <2>2, <4>1, <4>2, <4>3 DEF MessagesOf, Message
    <3>3. \A i \in 1 .. Len(<<h>>), j \in 1 .. Len(<<h>>) : ~ (j < i)
      <4>1. Len(<<h>>) = 1
        OBVIOUS
      <4>. QED  BY <4>1
    <3>. QED  BY <2>2, <3>1, <3>2, <3>3 DEF Revokes
  <2>3. deferred \in Seq(Command) /\ parked \in Seq(Command)
    BY <1>1, EmptyQueue
  <2>4. \/ x \in Firm
        \/ x \notin started /\ Revokes(<<h>>, deferred, parked, boundary, x) /\ x \notin MessagesOf(boundary)
    BY <1>1, <1>2, <1>3, <2>3, ReceivedRevokes
  <2>. QED  BY <2>1, <2>2, <2>4
<1>8. Revocation(t, def2, <<>>, started, Firm')
  BY <1>1, <1>2, <1>7, TakeRevocation
<1>9. InForce(t, def2, <<>>, phase, active, setting, asked, inserts)
  <2>1. ASSUME NEW key \in Keys
        PROVE  Chained(t, def2, <<>>, key, setting[key], asked[key], inserts)
    <3>1. Chained(channel, <<>>, <<>>, key, setting[key], asked[key], inserts)
      BY <1>1 DEF InForce
    <3>2. def2 = <<h>> \/ (def2 = <<>> /\ ~ Sets(h, key))
      BY <1>2 DEF Sets
    <3>. QED  BY <1>1, <1>2, <3>1, <3>2, TakeChained
  <2>. QED  BY <2>1 DEF InForce
<1>10. revoked' \subseteq 1 .. messages /\ spared' \subseteq revoked'
  <2>1. ToSet(<<h>>) \subseteq ToSet(channel)
    BY <1>2, <1>3
  <2>. QED  BY <1>2, <1>3, <2>1, RevokedBounded
<1>11. Untouched(boundary, Firm')
  BY <1>2, <1>3, ReceivedSpares DEF Untouched
<1>. QED  BY <1>1, <1>2, <1>5, <1>6, <1>8, <1>9, <1>10, <1>11

LEMMA IdleReceiveSound == Sound /\ IdleReceive => Sound'
<1>. SUFFICES ASSUME Sound, IdleReceive PROVE Sound'
  OBVIOUS
<1>1. /\ phase = "idle" /\ deferred = <<>> /\ channel # <<>> /\ Head(channel).kind \notin Peers
      /\ Head(channel).kind # "shutdown"
      /\ Handle(Head(channel), <<>>)
      /\ channel' = Tail(channel)
      /\ Received(<<Head(channel)>>, {})
  BY DEF IdleReceive, ReceivesOne
<1>2. channel \in Seq(Control) /\ parked = <<>> /\ Bounded
  BY <1>1 DEF Sound, Typed, Order, Between
<1>3. PICK h : h = Head(channel) /\ h \in Control
  BY <1>1, <1>2, HeadAndTail
<1>4. CASE h.kind # "interrupt"
  <2>1. h \in Command
    BY <1>1, <1>3, <1>4 DEF Command, Signals
  <2>2. PICK q \in Seq(Command) : q = <<h>>
    <3>1. <<h>> \in Seq(Command)
      BY <2>1
    <3>. QED  BY <3>1, Zenon
  <2>3. q # <<>> /\ Head(q) = h /\ Tail(q) = <<>>
    BY <2>2
  <2>4. q = <<Head(channel)>>
    BY <1>3, <2>2
  <2>5. /\ Typed(Tail(channel), q, parked, boundary, messages, prompts)
        /\ Order(Tail(channel), q, parked, boundary, phase, active, mode, inserts)
        /\ Revocation(Tail(channel), q, parked, started, Firm')
        /\ Untouched(boundary, Firm')
        /\ InForce(Tail(channel), q, parked, phase, active, setting, asked, inserts)
        /\ revoked' \subseteq 1 .. messages /\ spared' \subseteq revoked'
    BY <1>1, <2>4, TakeSound
  <2>6. Handle(Head(q), Tail(q))
    BY <1>1, <1>3, <2>3
  <2>. QED  BY <1>1, <1>2, <2>3, <2>5, <2>6, HandleSound
<1>5. CASE h.kind = "interrupt"
  <2>1. PICK q \in Seq(Command) : q = <<>>
    BY EmptyQueue, Zenon
  <2>2. Head(channel).kind # "set"
    BY <1>3, <1>5
  <2>3. /\ Typed(Tail(channel), q, parked, boundary, messages, prompts)
        /\ Order(Tail(channel), q, parked, boundary, phase, active, mode, inserts)
        /\ Revocation(Tail(channel), q, parked, started, Firm')
        /\ Untouched(boundary, Firm')
        /\ InForce(Tail(channel), q, parked, phase, active, setting, asked, inserts)
        /\ revoked' \subseteq 1 .. messages /\ spared' \subseteq revoked'
    BY <1>1, <2>1, <2>2, TakeSound
  <2>4. /\ deferred' = q /\ parked' = parked /\ boundary' = boundary
        /\ phase' = phase /\ active' = active /\ setting' = setting /\ started' = started
        /\ mode' = mode /\ asked' = asked /\ messages' = messages /\ prompts' = prompts
        /\ sent' = sent /\ inserts' = inserts
    BY <1>1, <1>3, <1>5, <2>1 DEF Handle, unsent, MessageKinds
  <2>5. Bounded'
    BY <1>2, <2>3, <2>4 DEF Bounded
  <2>. QED  BY <1>1, <2>3, <2>4, <2>5 DEF Sound
<1>. QED  BY <1>4, <1>5

LEMMA IdleCommandSound == Sound /\ IdleCommand => Sound'
<1>. SUFFICES ASSUME Sound, IdleCommand PROVE Sound'
  OBVIOUS
<1>1. /\ phase = "idle" /\ DrainsIdle
      /\ ~ Holds(channel, "shutdown") /\ ~ Holds(channel, "interrupt")
      /\ Handle(Head(Drained), Tail(Drained)) /\ channel' = <<>> /\ Received(channel, {})
  BY DEF IdleCommand
<1>2. parked = <<>> /\ Bounded /\ ToSet(<<>>) = {} /\ <<>> \in Seq(Command)
  BY <1>1, EmptyQueue DEF Sound, Order, Between
<1>3. PICK q \in Seq(Command) :
         /\ q = Drained
         /\ Typed(<<>>, q, parked, boundary, messages, prompts)
         /\ Order(<<>>, q, parked, boundary, phase, active, mode, inserts)
         /\ Revocation(<<>>, q, parked, started, Firm')
         /\ Untouched(boundary, Firm')
         /\ InForce(<<>>, q, parked, phase, active, setting, asked, inserts)
         /\ revoked' \subseteq 1 .. messages /\ spared' \subseteq revoked'
  <2>1. channel \in Seq(Control)
    BY DEF Sound, Typed
  <2>2. /\ Untouched(boundary, Firm')
        /\ \A x \in Firm' : x \in Firm \/ Revokes(channel, deferred, parked, boundary, x)
    BY <1>1, <2>1, ReceivedSpares DEF Untouched
  <2>. QED  BY <1>1, <1>2, <2>2, DrainSound
<1>4. q # <<>>
  <2>1. channel \in Seq(Control) /\ deferred \in Seq(Command)
    BY DEF Sound, Typed
  <2>2. channel \in Seq(Accepted)
    BY <1>1, <2>1, AcceptsAll
  <2>. QED  BY <1>1, <1>3, <2>1, <2>2, DrainKeeps DEF Drained, DrainsIdle
<1>5. Handle(Head(q), Tail(q))
  BY <1>1, <1>3
<1>. QED  BY <1>1, <1>2, <1>3, <1>4, <1>5, HandleSound

LEMMA IdleInterruptSound == Sound /\ IdleInterrupt => Sound'
<1>. SUFFICES ASSUME Sound, IdleInterrupt PROVE Sound'
  OBVIOUS
<1>1. /\ phase = "idle" /\ ~ Holds(channel, "shutdown") /\ Received(channel, {})
      /\ deferred' = Drained /\ channel' = <<>>
      /\ parked' = parked /\ boundary' = boundary /\ phase' = phase /\ active' = active
      /\ setting' = setting /\ mode' = mode /\ asked' = asked /\ messages' = messages
      /\ prompts' = prompts /\ sent' = sent /\ started' = started /\ inserts' = inserts
  BY DEF IdleInterrupt, unsent
<1>2. parked = <<>> /\ Bounded /\ ToSet(<<>>) = {} /\ <<>> \in Seq(Command)
  BY <1>1, EmptyQueue DEF Sound, Order, Between
<1>3. /\ Typed(<<>>, Drained, parked, boundary, messages, prompts)
      /\ Order(<<>>, Drained, parked, boundary, phase, active, mode, inserts)
      /\ Revocation(<<>>, Drained, parked, started, Firm')
      /\ Untouched(boundary, Firm')
      /\ InForce(<<>>, Drained, parked, phase, active, setting, asked, inserts)
      /\ revoked' \subseteq 1 .. messages /\ spared' \subseteq revoked'
  <2>1. channel \in Seq(Control)
    BY DEF Sound, Typed
  <2>2. /\ Untouched(boundary, Firm')
        /\ \A x \in Firm' : x \in Firm \/ Revokes(channel, deferred, parked, boundary, x)
    BY <1>1, <2>1, ReceivedSpares DEF Untouched
  <2>. QED  BY <1>1, <1>2, <2>2, DrainSound
<1>4. Bounded'
  BY <1>1, <1>2, <1>3 DEF Bounded
<1>. QED  BY <1>1, <1>3, <1>4 DEF Sound

-------------------------------------------------------------------------------
(* The steps of the loop in a compaction                                   *)

LEMMA CompactionReceivesSound == Sound /\ CompactionReceives => Sound'
<1>. SUFFICES ASSUME Sound, CompactionReceives PROVE Sound'
  OBVIOUS
<1>1. /\ phase = "compaction" /\ ~ Holds(channel, "shutdown") /\ Received(channel, {})
      /\ deferred' = Drained /\ channel' = <<>>
      /\ phase' \in {"idle", "compaction"}
      /\ parked' = parked /\ boundary' = boundary /\ active' = active
      /\ setting' = setting /\ mode' = mode /\ asked' = asked /\ messages' = messages
      /\ prompts' = prompts /\ sent' = sent /\ started' = started /\ inserts' = inserts
  BY DEF CompactionReceives, unsent
<1>2. parked = <<>> /\ Bounded /\ ToSet(<<>>) = {} /\ <<>> \in Seq(Command)
  BY <1>1, EmptyQueue DEF Sound, Order, Between
<1>3. /\ Typed(<<>>, Drained, parked, boundary, messages, prompts)
      /\ Order(<<>>, Drained, parked, boundary, phase, active, mode, inserts)
      /\ Revocation(<<>>, Drained, parked, started, Firm')
      /\ Untouched(boundary, Firm')
      /\ InForce(<<>>, Drained, parked, phase, active, setting, asked, inserts)
      /\ revoked' \subseteq 1 .. messages /\ spared' \subseteq revoked'
  <2>1. channel \in Seq(Control)
    BY DEF Sound, Typed
  <2>2. /\ Untouched(boundary, Firm')
        /\ \A x \in Firm' : x \in Firm \/ Revokes(channel, deferred, parked, boundary, x)
    BY <1>1, <2>1, ReceivedSpares DEF Untouched
  <2>. QED  BY <1>1, <1>2, <2>2, DrainSound
<1>4. Bounded'
  BY <1>1, <1>2, <1>3 DEF Bounded
<1>5. Order(<<>>, Drained, parked, boundary, phase', active, mode, inserts)
  BY <1>1, <1>3, OrderIdle
<1>6. InForce(<<>>, Drained, parked, phase', active, setting, asked, inserts)
  BY <1>1, <1>3 DEF InForce
<1>. QED  BY <1>1, <1>3, <1>4, <1>5, <1>6 DEF Sound

LEMMA CompactionEndsSound == Sound /\ CompactionEnds => Sound'
<1>. SUFFICES ASSUME Sound, CompactionEnds PROVE Sound'
  OBVIOUS
<1>1. /\ phase = "compaction" /\ phase' = "idle"
      /\ channel' = channel /\ deferred' = deferred /\ parked' = parked /\ boundary' = boundary
      /\ active' = active /\ setting' = setting /\ mode' = mode /\ asked' = asked
      /\ messages' = messages /\ prompts' = prompts /\ sent' = sent
      /\ started' = started /\ revoked' = revoked /\ spared' = spared /\ inserts' = inserts
  BY DEF CompactionEnds, queues, unsent
<1>2. Bounded'
  BY <1>1 DEF Sound, Bounded
<1>3. Order(channel, deferred, parked, boundary, phase', active, mode, inserts)
  BY <1>1, OrderIdle DEF Sound
<1>4. InForce(channel, deferred, parked, phase', active, setting, asked, inserts)
  BY <1>1 DEF Sound, InForce
<1>5. Firm' = Firm
  BY <1>1 DEF Firm
<1>. QED  BY <1>1, <1>2, <1>3, <1>4, <1>5 DEF Sound

-------------------------------------------------------------------------------
(* One command dealt with in a turn                                        *)

LEMMA WithoutHolds ==
    ASSUME NEW q \in Seq(Command), NEW id
    PROVE  /\ Without(q, id) \in Seq(Command)
           /\ ToSet(Without(q, id)) \subseteq ToSet(q)
           /\ \A c \in ToSet(Without(q, id)) : c.kind = "prompt" => c.id # id
           /\ Sorted(q) => Sorted(Without(q, id))
           /\ \A key, d, v, X : Chain(q, key, d, v, X) => Chain(Without(q, id), key, d, v, X)
<1>1. PICK r : r = Without(q, id) /\ Thinned(r, q, Named(q, id))
  BY WithoutThins
<1>2. r \in Seq(Command)
  BY <1>1, ThinnedType
<1>3. ToSet(r) = ToSet(q) \ Named(q, id) /\ (Sorted(q) => Sorted(r))
  BY <1>1, Thinning
<1>4. \A c \in ToSet(r) : c.kind = "prompt" => c.id # id
  BY <1>3 DEF Named
<1>5. \A c \in Named(q, id) : c.kind # "set"
  BY DEF Named
<1>6. \A key, d, v, X : Chain(q, key, d, v, X) => Chain(r, key, d, v, X)
  BY <1>1, <1>5, ChainThinned
<1>. QED  BY <1>1, <1>2, <1>3, <1>4, <1>6

LEMMA MessagesOnly ==
    ASSUME NEW b \in Seq(Message), NEW r \in Seq(Command), ToSet(r) \subseteq ToSet(b)
    PROVE  r \in Seq(Message)
<1>1. ToSet(b) \subseteq Message /\ \A i \in 1 .. Len(r) : r[i] \in ToSet(r)
  BY InQueue
<1>2. \A i \in 1 .. Len(r) : r[i] \in Message
  BY <1>1
<1>. QED  BY <1>2

LEMMA ParkSound ==
    ASSUME Bounded, phase = "turn",
           NEW ch, ch = <<>>, NEW q \in Seq(Command), q # <<>>,
           Typed(ch, q, parked, boundary, messages, prompts),
           Order(ch, q, parked, boundary, phase, active, mode, inserts),
           NEW firm, Revocation(ch, q, parked, started, firm), started \cap Firm' = {},
           \A x \in Firm' : x \in firm \/ (Cancels(Head(q)) /\ x = Head(q).id),
           \A b \in ToSet(boundary) : b.id \in Firm' => Cancels(Head(q)) /\ b.id = Head(q).id,
           InForce(ch, q, parked, phase, active, setting, asked, inserts),
           revoked' \subseteq 1 .. messages /\ spared' \subseteq revoked',
           Park(Head(q), Tail(q)), channel' = ch
    PROVE  Sound'
<1>1. /\ ch \in Seq(Control) /\ parked \in Seq(Command) /\ boundary \in Seq(Message)
      /\ boundary \in Seq(Command) /\ boundary \in Seq(Control) /\ parked \in Seq(Control)
      /\ active \in Message /\ \A c \in ToSet(parked) : ~ Cancels(c)
      /\ Sorted(ch) /\ Sorted(q) /\ Sorted(parked) /\ Sorted(boundary)
  BY QueueTypes DEF Typed, Bounded, Order
<1>2. PICK h \in Command, t \in Seq(Command) : h = Head(q) /\ t = Tail(q)
  <2>1. Head(q) \in Command /\ Tail(q) \in Seq(Command)
    OBVIOUS
  <2>. QED  BY <2>1, Zenon
<1>3. /\ phase' = phase /\ active' = active /\ setting' = setting
      /\ mode' = mode /\ asked' = asked /\ messages' = messages /\ prompts' = prompts
      /\ sent' = sent /\ started' = started
  BY DEF Park, unsent
<1>4. PICK def2 : /\ def2 = IF Cancels(h) THEN Without(t, h.id) ELSE t
                  /\ deferred' = def2
  BY <1>2 DEF Park, Cancels
<1>5. /\ def2 \in Seq(Command)
      /\ ToSet(def2) \subseteq ToSet(q)
      /\ Sorted(def2)
      /\ \A key, d, v, X : Chain(t, key, d, v, X) => Chain(def2, key, d, v, X)
  <2>1. def2 = IF Cancels(Head(q)) THEN Without(Tail(q), Head(q).id) ELSE Tail(q)
    BY <1>2, <1>4
  <2>2. /\ def2 \in Seq(Command) /\ ToSet(def2) \subseteq ToSet(q) /\ (Sorted(q) => Sorted(def2))
        /\ \A key, d, v, X : Chain(Tail(q), key, d, v, X) => Chain(def2, key, d, v, X)
    BY <2>1, RestHolds, Zenon
  <2>. QED  BY <1>1, <1>2, <2>2, Zenon
<1>6. h \in Control /\ h \in ToSet(q) /\ Known(h, messages, prompts)
  <2>1. h \in Control
    BY CommandKinds
  <2>2. h \in ToSet(q)
    BY <1>2, HeadAndTail, QueuesHoldControls
  <2>. QED  BY <2>1, <2>2 DEF Typed
<1>7. ASSUME NEW key \in Keys
      PROVE  \E e, f, w :
               /\ Chain(parked, key, setting[key], e, inserts)
               /\ IsMessage(h) /\ h.id \notin inserts => h.under[key] = e
               /\ w = IF Sets(h, key) THEN h.value ELSE e
               /\ Chain(def2, key, w, f, inserts)
               /\ Chain(ch, key, f, asked[key], inserts)
  <2>1. PICK e, f : /\ Chain(parked, key, setting[key], e, inserts)
                    /\ Chain(q, key, e, f, inserts)
                    /\ Chain(ch, key, f, asked[key], inserts)
    BY DEF InForce, Chained
  <2>2. PICK w : w = IF Sets(h, key) THEN h.value ELSE e
    OBVIOUS
  <2>3. /\ IsMessage(h) /\ h.id \notin inserts => h.under[key] = e
        /\ Chain(t, key, w, f, inserts)
    BY <1>2, <2>1, <2>2, ChainHead, QueuesHoldControls
  <2>4. Chain(def2, key, w, f, inserts)
    BY <1>5, <2>3
  <2>. QED  BY <2>1, <2>2, <2>3, <2>4
<1>8. \A key \in Keys : active.id \notin inserts => setting[key] = active.under[key]
  BY DEF InForce
<1>9. h.kind \in MessageKinds \cup {"set", "withdraw", "cancel", "compact"}
  BY CommandKinds
(* What is left to show of the queues parked and boundary.                  *)
<1>10. SUFFICES /\ Typed(ch, def2, parked', boundary', messages, prompts)
                /\ Order(ch, def2, parked', boundary', phase, active, mode, inserts')
                /\ Revocation(ch, def2, parked', started, Firm')
                /\ Untouched(boundary', Firm')
                /\ \A key \in Keys :
                      Chained(ch, def2, parked', key, setting[key], asked[key], inserts')
                /\ inserts \subseteq inserts' /\ inserts' \subseteq 1 .. messages
  <2>1. Bounded'
    BY <1>3, <1>10 DEF Bounded
  <2>2. InForce(ch, def2, parked', phase, active, setting, asked, inserts')
    BY <1>8, <1>10 DEF InForce
  <2>. QED  BY <1>3, <1>4, <1>10, <2>1, <2>2 DEF Sound
(* The queue parked takes the command; boundary stays.                      *)
<1>11. ASSUME NEW park2 \in Seq(Command), parked' = park2, boundary' = boundary, inserts' = inserts,
              ~ Cancels(h), IsMessage(h) => mode # "insert",
              ToSet(park2) \subseteq ToSet(parked) \cup {h},
              Before(ToSet(parked), {h}) => Sorted(park2),
              \A key \in Keys : \A d, e :
                 /\ Chain(parked, key, d, e, inserts)
                 /\ IsMessage(h) /\ h.id \notin inserts => h.under[key] = e
                 => Chain(park2, key, d, IF Sets(h, key) THEN h.value ELSE e, inserts)
       PROVE  /\ Typed(ch, def2, parked', boundary', messages, prompts)
              /\ Order(ch, def2, parked', boundary', phase, active, mode, inserts')
              /\ Revocation(ch, def2, parked', started, Firm')
              /\ Untouched(boundary', Firm')
              /\ \A key \in Keys :
                    Chained(ch, def2, parked', key, setting[key], asked[key], inserts')
              /\ inserts \subseteq inserts' /\ inserts' \subseteq 1 .. messages
  <2>1. def2 = Tail(q)
    BY <1>2, <1>4, <1>11
  <2>2. Typed(ch, def2, park2, boundary, messages, prompts)
    BY <1>1, <1>5, <1>6, <1>11 DEF Typed
  <2>3. Order(ch, def2, park2, boundary, phase, active, mode, inserts)
    BY <1>2, <1>11, <2>1, ParkOrder
  <2>4. Revocation(ch, def2, park2, started, Firm')
    <3>1. def2 = IF Cancels(Head(q)) THEN Without(Tail(q), Head(q).id) ELSE Tail(q)
      BY <1>2, <1>4
    <3>2. ToSet(park2) \subseteq ToSet(parked) \cup {Head(q)} /\ ~ Cancels(Head(q))
      BY <1>2, <1>11
    <3>3. Revocation(ch, def2, park2, started, firm)
      BY <3>1, <3>2, HeadRevocation
    <3>4. Firm' \subseteq firm \cup {}
      BY <3>2
    <3>. QED  BY <1>5, <3>3, <3>4, OtherRevocation
  <2>7. Untouched(boundary, Firm')
    BY <1>2, <1>11 DEF Untouched
  <2>5. \A key \in Keys : Chained(ch, def2, park2, key, setting[key], asked[key], inserts)
    BY <1>7, <1>11 DEF Chained
  <2>6. inserts \subseteq 1 .. messages
    BY DEF Bounded
  <2>. QED  BY <1>11, <2>2, <2>3, <2>4, <2>5, <2>6, <2>7
(* The two queues lose what a cancellation names, or nothing.               *)
<1>12. ASSUME NEW park2 \in Seq(Command), parked' = park2, ToSet(park2) \subseteq ToSet(parked),
              Sorted(park2), parked = <<>> => park2 = <<>>,
              NEW bound2 \in Seq(Command), boundary' = bound2, ToSet(bound2) \subseteq ToSet(boundary),
              Sorted(bound2), inserts' = inserts, ~ IsMessage(h), h.kind # "set",
              Cancels(h) => \A c \in ToSet(park2) \cup ToSet(bound2) : c.kind = "prompt" => c.id # h.id,
              \A key \in Keys : \A d, e : Chain(parked, key, d, e, inserts) => Chain(park2, key, d, e, inserts)
       PROVE  /\ Typed(ch, def2, parked', boundary', messages, prompts)
              /\ Order(ch, def2, parked', boundary', phase, active, mode, inserts')
              /\ Revocation(ch, def2, parked', started, Firm')
              /\ Untouched(boundary', Firm')
              /\ \A key \in Keys :
                    Chained(ch, def2, parked', key, setting[key], asked[key], inserts')
              /\ inserts \subseteq inserts' /\ inserts' \subseteq 1 .. messages
  <2>1. bound2 \in Seq(Message)
    BY <1>1, <1>12, MessagesOnly
  <2>2. Typed(ch, def2, park2, bound2, messages, prompts)
    BY <1>1, <1>5, <1>12, <2>1 DEF Typed
  <2>3. Order(ch, def2, park2, bound2, phase, active, mode, inserts)
    <3>1. /\ Sorted(ch) /\ Sorted(def2) /\ Sorted(park2) /\ Sorted(bound2)
          /\ ToSet(ch) \subseteq ToSet(ch) /\ ToSet(def2) \subseteq ToSet(q)
          /\ ToSet(park2) \subseteq ToSet(parked) /\ ToSet(bound2) \subseteq ToSet(boundary)
          /\ (parked = <<>> => park2 = <<>>)
      BY <1>1, <1>5, <1>12, Zenon
    <3>. QED  BY <3>1, OrderLess, Zenon
  <2>4. Revocation(ch, def2, park2, started, Firm')
    <3>1. def2 = IF Cancels(Head(q)) THEN Without(Tail(q), Head(q).id) ELSE Tail(q)
      BY <1>2, <1>4
    <3>2. ToSet(park2) \subseteq ToSet(parked) \cup {Head(q)}
      BY <1>12
    <3>3. Cancels(Head(q)) => \A c \in ToSet(park2) : c.kind = "prompt" => c.id # Head(q).id
      BY <1>2, <1>12
    <3>4. Revocation(ch, def2, park2, started, firm)
      BY <3>1, <3>2, <3>3, HeadRevocation
    <3>5. PICK gone : gone = IF Cancels(h) THEN {h.id} ELSE {}
      OBVIOUS
    <3>6. ASSUME NEW c \in ToSet(ch) \cup ToSet(def2) \cup ToSet(park2), IsMessage(c), Cancels(h)
          PROVE  c.id # h.id
      <4>1. c \in ToSet(def2) \cup ToSet(park2)
        BY <3>6, EmptyQueue
      <4>2. c.kind = "prompt" => c.id # h.id
        <5>1. c \in ToSet(def2) => c \in ToSet(Without(t, h.id))
          BY <1>4, <3>6
        <5>2. \A d \in ToSet(Without(t, h.id)) : d.kind = "prompt" => d.id # h.id
          BY WithoutHolds
        <5>. QED  BY <1>12, <3>6, <4>1, <5>1, <5>2
      <4>3. c.id \in prompts <=> c.kind = "prompt"
        BY <2>2, <3>6, <4>1 DEF Typed, Known
      <4>4. h.id \in prompts
        BY <1>6, <3>6 DEF Known
      <4>. QED  BY <4>2, <4>3, <4>4
    <3>7. \A c \in ToSet(ch) \cup ToSet(def2) \cup ToSet(park2) : IsMessage(c) => c.id \notin gone
      BY <3>5, <3>6
    <3>8. Firm' \subseteq firm \cup gone
      BY <1>2, <3>5
    <3>. QED  BY <1>5, <3>4, <3>7, <3>8, OtherRevocation
  <2>7. Untouched(bound2, Firm')
    <3>1. ASSUME NEW b \in ToSet(bound2), b.id \in Firm' PROVE FALSE
      <4>1. Cancels(h) /\ b.id = h.id
        BY <1>2, <1>12, <3>1
      <4>2. b.id \in prompts /\ b.kind # "prompt"
        BY <1>6, <1>12, <4>1 DEF Known
      <4>3. IsMessage(b) /\ Known(b, messages, prompts)
        BY <1>12, <3>1 DEF Typed, Order
      <4>. QED  BY <4>2, <4>3 DEF Known
    <3>. QED  BY <3>1 DEF Untouched
  <2>5. \A key \in Keys : Chained(ch, def2, park2, key, setting[key], asked[key], inserts)
    <3>1. \A key : ~ Sets(h, key)
      BY <1>12 DEF Sets
    <3>. QED  BY <1>7, <1>12, <3>1 DEF Chained
  <2>6. inserts \subseteq 1 .. messages
    BY DEF Bounded
  <2>. QED  BY <1>12, <2>2, <2>3, <2>4, <2>5, <2>6, <2>7
<1>13. CASE IsMessage(h) /\ mode = "insert"
  <2>1. boundary' = Append(boundary, h) /\ inserts' = inserts \cup {h.id} /\ parked' = parked
    BY <1>2, <1>13 DEF Park, IsMessage, MessageKinds
  <2>2. h \in Message /\ h.id \in 1 .. messages
    BY <1>6, <1>13, ControlKinds DEF Known
  <2>3. PICK bound2 \in Seq(Message) : bound2 = Append(boundary, h) /\ ToSet(bound2) = ToSet(boundary) \cup {h}
    <3>1. Append(boundary, h) \in Seq(Message)
      BY <1>1, <2>2
    <3>2. ToSet(Append(boundary, h)) = ToSet(boundary) \cup {h}
      BY <1>1, <1>6, Appended
    <3>. QED  BY <3>1, <3>2, Zenon
  <2>4. ~ Cancels(h) /\ def2 = t
    BY <1>4, <1>13 DEF IsMessage, Cancels, MessageKinds
  <2>5. Typed(ch, def2, parked, bound2, messages, prompts)
    BY <1>1, <1>5, <1>6, <2>3 DEF Typed
  <2>6. PICK ins2 : ins2 = inserts \cup {h.id}
    OBVIOUS
  <2>7. Order(ch, def2, parked, bound2, phase, active, mode, ins2)
    <3>1. IsMessage(active) /\ active.id \in Int
      BY <1>1 DEF Message, IsMessage
    <3>2. Order(ch, q, parked, boundary, "turn", active, "insert", inserts)
      BY <1>13
    <3>3. Order(ch, Tail(q), parked, Append(boundary, Head(q)), "turn", active, "insert",
                inserts \cup {Head(q).id})
      BY <1>1, <1>2, <1>13, <3>1, <3>2, InsertOrder
    <3>. QED  BY <1>2, <1>13, <2>3, <2>4, <2>6, <3>3
  <2>8. Revocation(ch, def2, parked, started, Firm')
    <3>1. def2 = IF Cancels(Head(q)) THEN Without(Tail(q), Head(q).id) ELSE Tail(q)
      BY <1>2, <1>4
    <3>2. ~ Cancels(Head(q))
      BY <1>2, <2>4
    <3>3. Revocation(ch, def2, parked, started, firm)
      BY <3>1, <3>2, HeadRevocation
    <3>4. Firm' \subseteq firm \cup {}
      BY <3>2
    <3>. QED  BY <1>5, <3>3, <3>4, OtherRevocation
  <2>11. Untouched(bound2, Firm')
    <3>1. h.id \notin firm
      BY <1>2, <1>13, HeadNotRevoked
    <3>. QED  BY <1>2, <2>3, <2>4, <3>1 DEF Untouched
  <2>9. ASSUME NEW key \in Keys
        PROVE  Chained(ch, def2, parked, key, setting[key], asked[key], ins2)
    <3>1. ~ Sets(h, key) /\ inserts \subseteq ins2
      BY <1>13, <2>6 DEF Sets, IsMessage, MessageKinds
    <3>2. PICK e, f : /\ Chain(parked, key, setting[key], e, inserts)
                      /\ Chain(def2, key, e, f, inserts)
                      /\ Chain(ch, key, f, asked[key], inserts)
      BY <1>7, <3>1
    <3>. QED  BY <3>1, <3>2, ChainMore DEF Chained
  <2>10. inserts \subseteq ins2 /\ ins2 \subseteq 1 .. messages
    BY <2>2, <2>6 DEF Bounded
  <2>. QED  BY <2>1, <2>3, <2>5, <2>6, <2>7, <2>8, <2>9, <2>10, <2>11
<1>14. CASE IsMessage(h) /\ mode # "insert"
  <2>1. mode = "queue"
    BY <1>14 DEF Bounded
  <2>2. parked' = Append(parked, h) /\ boundary' = boundary /\ inserts' = inserts
    BY <1>2, <1>14, <2>1 DEF Park, IsMessage, MessageKinds
  <2>3. PICK park2 \in Seq(Command) :
           /\ park2 = Append(parked, h) /\ ToSet(park2) = ToSet(parked) \cup {h}
           /\ Before(ToSet(parked), {h}) => Sorted(park2)
    <3>1. Append(parked, h) \in Seq(Command)
      BY <1>1
    <3>2. /\ ToSet(Append(parked, h)) = ToSet(parked) \cup {h}
          /\ Before(ToSet(parked), {h}) => Sorted(Append(parked, h))
      BY <1>1, <1>6, Appended
    <3>. QED  BY <3>1, <3>2, Zenon
  <2>4. ASSUME NEW key \in Keys, NEW d, NEW e, Chain(parked, key, d, e, inserts),
               IsMessage(h) /\ h.id \notin inserts => h.under[key] = e
        PROVE  Chain(park2, key, d, IF Sets(h, key) THEN h.value ELSE e, inserts)
    BY <1>1, <1>6, <2>3, <2>4, ChainAppend
  <2>5. ~ Cancels(h)
    BY <1>14 DEF IsMessage, Cancels, MessageKinds
  <2>. QED  BY <1>11, <1>14, <2>2, <2>3, <2>4, <2>5
<1>15. CASE h.kind = "set"
  <2>1. h \in Accepted
    BY <1>6, <1>15 DEF Accepted
  <2>2. parked' = Enqueue(parked, h) /\ boundary' = boundary /\ inserts' = inserts
    BY <1>2, <1>15 DEF Park, MessageKinds
  <2>3. Enqueue(parked, h) = Absorb(parked, h)
    BY <1>15 DEF Absorb
  <2>4. PICK park2 \in Seq(Command) :
           /\ park2 = Absorb(parked, h) /\ ToSet(park2) \subseteq ToSet(parked) \cup {h}
           /\ Before(ToSet(parked), {h}) => Sorted(park2)
    <3>1. Absorb(parked, h) \in Seq(Command)
      BY <1>1, <2>1, AbsorbType
    <3>2. /\ ToSet(Absorb(parked, h)) \subseteq ToSet(parked) \cup {h}
          /\ Before(ToSet(parked), {h}) => Sorted(Absorb(parked, h))
      BY <1>1, <2>1, AbsorbHolds
    <3>. QED  BY <3>1, <3>2, Zenon
  <2>5. ASSUME NEW key \in Keys, NEW d, NEW e, Chain(parked, key, d, e, inserts),
               IsMessage(h) /\ h.id \notin inserts => h.under[key] = e
        PROVE  Chain(park2, key, d, IF Sets(h, key) THEN h.value ELSE e, inserts)
    BY <1>1, <2>1, <2>4, <2>5, AbsorbChain
  <2>6. ~ Cancels(h) /\ ~ IsMessage(h)
    BY <1>15 DEF IsMessage, Cancels, MessageKinds
  <2>. QED  BY <1>11, <2>2, <2>3, <2>4, <2>5, <2>6
<1>16. CASE h.kind \in {"withdraw", "cancel"}
  <2>1. PICK id : id = h.id
    OBVIOUS
  <2>2. parked' = Without(parked, id) /\ boundary' = Without(boundary, id) /\ inserts' = inserts
    BY <1>2, <1>16, <2>1 DEF Park, MessageKinds
  <2>3. PICK park2 \in Seq(Command) :
           /\ park2 = Without(parked, id) /\ ToSet(park2) \subseteq ToSet(parked) /\ Sorted(park2)
           /\ \A c \in ToSet(park2) : c.kind = "prompt" => c.id # id
           /\ \A key, d, v, X : Chain(parked, key, d, v, X) => Chain(park2, key, d, v, X)
    BY <1>1, WithoutHolds
  <2>4. PICK bound2 \in Seq(Command) :
           /\ bound2 = Without(boundary, id) /\ ToSet(bound2) \subseteq ToSet(boundary) /\ Sorted(bound2)
           /\ \A c \in ToSet(bound2) : c.kind = "prompt" => c.id # id
    BY <1>1, WithoutHolds
  <2>5. parked = <<>> => park2 = <<>>
    <3>1. \A i \in 1 .. Len(park2) : park2[i] \in ToSet(parked)
      BY <2>3, InQueue
    <3>. QED  BY <3>1, EmptyQueue
  <2>6. ~ IsMessage(h) /\ h.kind # "set"
    BY <1>16 DEF IsMessage, MessageKinds
  <2>. QED  BY <1>12, <2>1, <2>2, <2>3, <2>4, <2>5, <2>6
<1>17. CASE h.kind = "compact"
  <2>1. parked' = parked /\ boundary' = boundary /\ inserts' = inserts
    BY <1>2, <1>17 DEF Park, MessageKinds
  <2>2. ~ IsMessage(h) /\ h.kind # "set" /\ ~ Cancels(h)
    BY <1>17 DEF IsMessage, MessageKinds, Cancels
  <2>. QED  BY <1>1, <1>12, <2>1, <2>2
<1>. QED  BY <1>9, <1>13, <1>14, <1>15, <1>16, <1>17 DEF IsMessage

LEMMA TurnCommandSound == Sound /\ TurnCommand => Sound'
<1>. SUFFICES ASSUME Sound, TurnCommand PROVE Sound'
  OBVIOUS
<1>1. /\ phase = "turn" /\ ~ Holds(channel, "shutdown") /\ ~ Holds(channel, "interrupt")
      /\ Drained # <<>> /\ channel' = <<>>
      /\ IF Head(Drained).kind = "cancel" /\ Head(Drained).id = active.id
         THEN EndTurn(Tail(Drained), parked, boundary)
         ELSE Park(Head(Drained), Tail(Drained))
  BY DEF TurnCommand, Cancels
<1>2. Bounded /\ parked \in Seq(Command) /\ boundary \in Seq(Message)
  BY DEF Sound, Typed
<1>3. PICK gone : /\ gone = IF Cancels(Head(Drained)) THEN {Head(Drained).id} ELSE {}
                  /\ Received(channel, gone)
  <2>1. Received(channel, IF Head(Drained).kind \in {"withdraw", "cancel"} THEN {Head(Drained).id} ELSE {})
    BY DEF TurnCommand
  <2>2. Cancels(Head(Drained)) <=> Head(Drained).kind \in {"withdraw", "cancel"}
    BY DEF Cancels
  <2>. QED  BY <2>1, <2>2
<1>4. /\ \A b \in ToSet(boundary) : b.id \in Firm' => b.id \in gone
      /\ started \cap Firm' = {}
      /\ \A x \in Firm' : \/ x \in gone
                          \/ x \in Firm
                          \/ Revokes(channel, deferred, parked, boundary, x)
  <2>1. channel \in Seq(Control)
    BY DEF Sound, Typed
  <2>. QED  BY <1>3, <2>1, ReceivedSpares
<1>5. PICK firm : firm = {x \in Firm' : x \in Firm \/ Revokes(channel, deferred, parked, boundary, x)}
  OBVIOUS
<1>6. PICK q \in Seq(Command) :
         /\ q = Drained
         /\ Typed(<<>>, q, parked, boundary, messages, prompts)
         /\ Order(<<>>, q, parked, boundary, phase, active, mode, inserts)
         /\ Revocation(<<>>, q, parked, started, firm)
         /\ InForce(<<>>, q, parked, phase, active, setting, asked, inserts)
         /\ revoked' \subseteq 1 .. messages /\ spared' \subseteq revoked'
  <2>1. /\ firm \subseteq Firm'
        /\ \A x \in firm : x \in Firm \/ Revokes(channel, deferred, parked, boundary, x)
    BY <1>5
  <2>2. /\ Drained \in Seq(Command)
        /\ Typed(<<>>, Drained, parked, boundary, messages, prompts)
        /\ Order(<<>>, Drained, parked, boundary, phase, active, mode, inserts)
        /\ Revocation(<<>>, Drained, parked, started, firm)
        /\ InForce(<<>>, Drained, parked, phase, active, setting, asked, inserts)
        /\ revoked' \subseteq 1 .. messages /\ spared' \subseteq revoked'
    BY <1>1, <1>2, <1>3, <2>1, DrainSound
  <2>. QED  BY <2>2
<1>7. CASE ~ (Head(q).kind = "cancel" /\ Head(q).id = active.id)
  <2>1. Park(Head(q), Tail(q)) /\ q # <<>>
    BY <1>1, <1>6, <1>7
  <2>2. \A x \in Firm' : x \in firm \/ (Cancels(Head(q)) /\ x = Head(q).id)
    BY <1>3, <1>4, <1>5, <1>6
  <2>3. \A b \in ToSet(boundary) : b.id \in Firm' => Cancels(Head(q)) /\ b.id = Head(q).id
    BY <1>3, <1>4, <1>6
  <2>. QED  BY <1>1, <1>2, <1>4, <1>6, <2>1, <2>2, <2>3, ParkSound
<1>8. CASE Head(q).kind = "cancel" /\ Head(q).id = active.id
  <2>1. EndTurn(Tail(q), parked, boundary) /\ q # <<>>
    BY <1>1, <1>6, <1>8
  <2>2. PICK t \in Seq(Command) :
           t = Tail(q) /\ ToSet(t) \subseteq ToSet(q) /\ Sorted(t)
    <3>1. Tail(q) \in Seq(Command)
      BY <2>1
    <3>2. Sorted(q)
      BY <1>6 DEF Order
    <3>3. ToSet(Tail(q)) \subseteq ToSet(q) /\ Sorted(Tail(q))
      BY <2>1, <3>2, HeadAndTail, QueuesHoldControls
    <3>. QED  BY <3>1, <3>3, Zenon
  <2>3. Typed(<<>>, t, parked, boundary, messages, prompts)
    BY <1>6, <2>2 DEF Typed
  <2>4. Order(<<>>, t, parked, boundary, phase, active, mode, inserts)
    <3>1. Sorted(<<>>) /\ Sorted(parked) /\ Sorted(boundary)
      BY <1>6 DEF Order
    <3>. QED  BY <1>6, <2>2, <3>1, OrderLess
  <2>5. ASSUME NEW c \in ToSet(t) \cup ToSet(parked), IsMessage(c)
        PROVE  c.id # active.id
    <3>1. IsMessage(c) /\ IsMessage(active) /\ active.id \in Int
      BY <1>1, <1>2, <2>5 DEF Bounded, IsMessage, MessageKinds, Message
    <3>2. active.id < c.id
      BY <1>1, <2>4, <2>5, <3>1 DEF Order, InTurn, Before
    <3>. QED  BY <3>1, <3>2
  <2>6. Revocation(<<>>, t, parked, started, Firm')
    <3>1. \A c \in ToSet(Tail(q)) \cup ToSet(parked) : c.kind = "prompt" => c.id # Head(q).id
      BY <1>8, <2>2, <2>5 DEF IsMessage, MessageKinds
    <3>2. Revocation(<<>>, t, parked, started, firm)
      BY <1>6, <2>1, <2>2, <3>1, ActiveRevocation
    <3>3. gone \subseteq {active.id} /\ Firm' \subseteq firm \cup {active.id}
      BY <1>3, <1>4, <1>5, <1>6, <1>8
    <3>4. \A c \in ToSet(<<>>) \cup ToSet(t) \cup ToSet(parked) : IsMessage(c) => c.id \notin {active.id}
      BY <2>5, EmptyQueue
    <3>. QED  BY <1>4, <3>2, <3>3, <3>4, OtherRevocation
  <2>9. Untouched(boundary, Firm')
    <3>1. ASSUME NEW b \in ToSet(boundary), b.id = active.id PROVE FALSE
      <4>1. active.id \in Int /\ b.id \in inserts /\ (active.id < b.id \/ active.id \notin inserts)
        BY <1>1, <1>2, <1>6 DEF Bounded, Message, Order, InTurn
      <4>. QED  BY <3>1, <4>1
    <3>. QED  BY <1>3, <1>4, <1>6, <1>8, <3>1 DEF Untouched
  <2>7. InForce(<<>>, t, parked, phase, active, setting, asked, inserts)
    <3>1. ASSUME NEW key \in Keys
          PROVE  Chained(<<>>, t, parked, key, setting[key], asked[key], inserts)
      <4>1. PICK e, f : /\ Chain(parked, key, setting[key], e, inserts)
                        /\ Chain(q, key, e, f, inserts)
                        /\ Chain(<<>>, key, f, asked[key], inserts)
        BY <1>1, <1>6 DEF InForce, Chained
      <4>2. ~ Sets(Head(q), key)
        BY <1>8 DEF Sets
      <4>3. Chain(t, key, e, f, inserts)
        BY <2>1, <2>2, <4>1, <4>2, ChainHead, QueuesHoldControls
      <4>. QED  BY <4>1, <4>3 DEF Chained
    <3>. QED  BY <1>6, <3>1 DEF InForce
  <2>8. EndTurn(t, parked, boundary)
    BY <2>1, <2>2
  <2>. QED  BY <1>1, <1>2, <1>6, <2>3, <2>4, <2>6, <2>7, <2>8, <2>9, EndTurnSound
<1>. QED  BY <1>7, <1>8

-------------------------------------------------------------------------------
(* The outside                                                             *)

LEMMA SendSound ==
    ASSUME Sound, NEW c \in Control, Send(c),
           messages' \in messages .. messages + 1,
           prompts \subseteq prompts' /\ prompts' \subseteq prompts \cup {messages'}
               /\ prompts' \subseteq 1 .. messages',
           messages' = messages => prompts' = prompts,
           IsMessage(c) => /\ c.id = messages + 1 /\ messages' = messages + 1 /\ c.under = asked
                           /\ c.kind = "prompt" <=> c.id \in prompts',
           Cancels(c) => c.id \in prompts,
           asked' \in Setting,
           \A key \in Keys : asked'[key] = IF Sets(c, key) THEN c.value ELSE asked[key]
    PROVE  Sound'
<1>1. /\ channel \in Seq(Control) /\ deferred \in Seq(Command) /\ parked \in Seq(Command)
      /\ boundary \in Seq(Message) /\ boundary \in Seq(Control)
      /\ deferred \in Seq(Control) /\ parked \in Seq(Control)
      /\ \A x \in ToSet(channel) \cup ToSet(deferred) \cup ToSet(parked) \cup ToSet(boundary) :
            Known(x, messages, prompts)
      /\ \A x \in ToSet(parked) : ~ Cancels(x)
  BY QueueTypes DEF Sound, Typed
<1>2. /\ messages \in Nat /\ messages \in 0 .. sent /\ sent \in Nat
      /\ started \subseteq 1 .. messages /\ revoked \subseteq 1 .. messages /\ spared \subseteq revoked
      /\ inserts \subseteq 1 .. messages /\ prompts \subseteq 1 .. messages
  BY SettingsAssumption DEF Sound, Bounded
<1>3. /\ phase # "stopped" /\ sent < MaxControls /\ sent' = sent + 1
      /\ channel' = Append(channel, c)
      /\ deferred' = deferred /\ parked' = parked /\ boundary' = boundary
      /\ phase' = phase /\ active' = active /\ setting' = setting /\ mode' = mode
      /\ started' = started /\ revoked' = revoked /\ spared' = spared /\ inserts' = inserts
  BY DEF Send, queues
<1>4. PICK ch \in Seq(Control) : ch = Append(channel, c) /\ ToSet(ch) = ToSet(channel) \cup {c}
  <2>1. Append(channel, c) \in Seq(Control)
    BY <1>1
  <2>2. ToSet(Append(channel, c)) = ToSet(channel) \cup {c}
    BY <1>1, Appended
  <2>. QED  BY <2>1, <2>2, Zenon
<1>5. 1 .. messages \subseteq 1 .. messages' /\ messages' \in 0 .. sent' /\ sent' \in 0 .. MaxControls
  BY <1>2, <1>3, SettingsAssumption
<1>6. Bounded'
  <2>1. /\ phase \in {"idle", "turn", "compaction", "stopped"}
        /\ active \in IF phase = "turn" THEN Message ELSE {None}
        /\ phase = "turn" => active.id \in 1 .. messages
        /\ setting \in Setting /\ mode \in {"queue", "insert"}
    BY DEF Sound, Bounded
  <2>. QED  BY <1>2, <1>3, <1>5, <2>1 DEF Bounded
<1>7. \A x : Known(x, messages, prompts) => Known(x, messages', prompts')
  <2>1. \A n \in 1 .. messages : n \in 1 .. messages' /\ (n \in prompts' <=> n \in prompts)
    BY <1>2, <1>5
  <2>. QED  BY <2>1 DEF Known
<1>8. Known(c, messages', prompts')
  BY <1>2 DEF Known
<1>9. Typed(ch, deferred, parked, boundary, messages', prompts')
  BY <1>1, <1>4, <1>7, <1>8 DEF Typed
<1>10. ASSUME NEW x, Known(x, messages, prompts), IsMessage(x), IsMessage(c) PROVE x.id < c.id
  BY <1>2, <1>10 DEF Known
<1>11. Order(ch, deferred, parked, boundary, phase, active, mode, inserts)
  <2>1. Before(ToSet(channel) \cup ToSet(deferred) \cup ToSet(parked) \cup ToSet(boundary), {c})
    BY <1>1, <1>10 DEF Before
  <2>2. phase = "turn" => Before({active}, {c})
    BY <1>2 DEF Sound, Bounded, Before
  <2>3. IsMessage(c) => c.id \notin inserts
    BY <1>2
  <2>4. Order(channel, deferred, parked, boundary, phase, active, mode, inserts)
    BY DEF Sound
  <2>. QED  BY <1>1, <1>4, <2>1, <2>2, <2>3, <2>4, SendOrder
<1>12. Revocation(ch, deferred, parked, started, Firm)
  <2>1. IsMessage(c) => c.id \notin Firm
    BY <1>2 DEF Firm
  <2>2. ASSUME IsMessage(c), NEW d \in ToSet(channel), Cancels(d) PROVE d.id # c.id
    BY <1>1, <1>2, <2>2 DEF Known
  <2>3. Revocation(channel, deferred, parked, started, Firm)
    BY DEF Sound
  <2>. QED  BY <1>1, <1>4, <2>1, <2>2, <2>3, SendRevocation
<1>13. InForce(ch, deferred, parked, phase, active, setting, asked', inserts)
  <2>1. ASSUME NEW key \in Keys
        PROVE  Chained(ch, deferred, parked, key, setting[key], asked'[key], inserts)
    <3>1. Chained(channel, deferred, parked, key, setting[key], asked[key], inserts)
      BY <1>3 DEF Sound, InForce
    <3>2. IsMessage(c) => c.under[key] = asked[key]
      OBVIOUS
    <3>. QED  BY <1>1, <1>4, <3>1, <3>2, SendChained
  <2>. QED  BY <2>1 DEF Sound, InForce
<1>14. Firm' = Firm
  BY <1>3 DEF Firm
<1>. QED  BY <1>3, <1>4, <1>6, <1>9, <1>11, <1>12, <1>13, <1>14 DEF Sound

LEMMA SendMessageSound == Sound /\ SendMessage => Sound'
<1>. SUFFICES ASSUME Sound, SendMessage PROVE Sound'
  OBVIOUS
<1>1. PICK kind \in MessageKinds :
         /\ Send([kind |-> kind, id |-> messages + 1, under |-> asked])
         /\ messages' = messages + 1
         /\ prompts' = IF kind = "prompt" THEN prompts \cup {messages'} ELSE prompts
         /\ asked' = asked
  BY DEF SendMessage
<1>2. /\ messages \in Nat /\ messages \in 0 .. sent /\ prompts \subseteq 1 .. messages
      /\ asked \in Setting /\ sent \in Nat
  BY SettingsAssumption DEF Sound, Bounded
<1>3. sent < MaxControls
  BY <1>1 DEF Send
<1>4. PICK c : c = [kind |-> kind, id |-> messages + 1, under |-> asked]
  OBVIOUS
<1>5. c \in Message /\ c \in Control /\ IsMessage(c) /\ c.id = messages + 1 /\ c.under = asked
      /\ c.kind = kind
  <2>1. messages + 1 \in 1 .. MaxControls
    BY <1>2, <1>3, SettingsAssumption
  <2>. QED  BY <1>2, <1>4, <2>1 DEF Message, Control, IsMessage
<1>6. ~ Cancels(c) /\ \A key : ~ Sets(c, key)
  BY <1>5 DEF Cancels, Sets, MessageKinds
<1>7. c.kind = "prompt" <=> c.id \in prompts'
  BY <1>1, <1>2, <1>5
<1>8. prompts' \subseteq 1 .. messages'
  BY <1>1, <1>2
<1>9. messages' \in messages .. messages + 1 /\ messages' # messages
  BY <1>1, <1>2
<1>. QED  BY <1>1, <1>2, <1>4, <1>5, <1>6, <1>7, <1>8, <1>9, SendSound

LEMMA SendSettingSound == Sound /\ SendSetting => Sound'
<1>. SUFFICES ASSUME Sound, SendSetting PROVE Sound'
  OBVIOUS
<1>1. PICK c \in Control :
         /\ c.kind = "set" /\ Send(c)
         /\ asked' = [asked EXCEPT ![c.key] = c.value]
         /\ messages' = messages /\ prompts' = prompts
  BY DEF SendSetting
<1>2. messages \in Nat /\ asked \in Setting /\ prompts \subseteq 1 .. messages
  BY SettingsAssumption DEF Sound, Bounded
<1>3. /\ c.key \in Keys
      /\ c.key = "model" => c.value \in Models
      /\ c.key = "effort" => c.value \in Efforts
  BY <1>1, ControlKinds DEF Sets
<1>4. asked' \in Setting
  BY <1>1, <1>2, <1>3 DEF Setting, Keys
<1>5. \A key \in Keys : asked'[key] = IF Sets(c, key) THEN c.value ELSE asked[key]
  BY <1>1, <1>2, <1>3 DEF Setting, Keys, Sets
<1>6. ~ IsMessage(c) /\ ~ Cancels(c)
  BY <1>1 DEF IsMessage, Cancels, MessageKinds
<1>7. messages' \in messages .. messages + 1
  BY <1>1, <1>2
<1>. QED  BY <1>1, <1>2, <1>4, <1>5, <1>6, <1>7, SendSound

LEMMA SendOtherSound == Sound /\ SendOther => Sound'
<1>. SUFFICES ASSUME Sound, SendOther PROVE Sound'
  OBVIOUS
<1>1. PICK c \in Control :
         /\ c.kind \notin MessageKinds \cup {"set"}
         /\ c.kind \in {"withdraw", "cancel"} => c.id \in prompts
         /\ Send(c)
         /\ asked' = asked /\ messages' = messages /\ prompts' = prompts
  BY DEF SendOther
<1>2. messages \in Nat /\ asked \in Setting /\ prompts \subseteq 1 .. messages
  BY SettingsAssumption DEF Sound, Bounded
<1>3. ~ IsMessage(c) /\ (\A key : ~ Sets(c, key)) /\ (Cancels(c) => c.id \in prompts)
  BY <1>1 DEF IsMessage, Sets, Cancels
<1>4. messages' \in messages .. messages + 1
  BY <1>1, <1>2
<1>. QED  BY <1>1, <1>2, <1>3, <1>4, SendSound

(* The mode changes between turns only.                                     *)
LEMMA ReloadSound == Sound /\ Reload => Sound'
<1>. SUFFICES ASSUME Sound, Reload PROVE Sound'
  OBVIOUS
<1>1. /\ phase = "idle" /\ sent < MaxControls /\ sent' = sent + 1
      /\ mode' \in {"queue", "insert"}
      /\ channel' = channel /\ deferred' = deferred /\ parked' = parked /\ boundary' = boundary
      /\ phase' = phase /\ active' = active /\ setting' = setting /\ asked' = asked
      /\ messages' = messages /\ prompts' = prompts /\ started' = started
      /\ revoked' = revoked /\ spared' = spared /\ inserts' = inserts
  BY DEF Reload, queues
<1>2. Bounded'
  <2>1. sent' \in 0 .. MaxControls /\ messages \in 0 .. sent'
    BY <1>1, SettingsAssumption DEF Sound, Bounded
  <2>. QED  BY <1>1, <2>1 DEF Sound, Bounded
<1>3. Order(channel, deferred, parked, boundary, phase, active, mode', inserts)
  BY <1>1, OrderIdle DEF Sound
<1>4. Firm' = Firm
  BY <1>1 DEF Firm
<1>. QED  BY <1>1, <1>2, <1>3, <1>4 DEF Sound

-------------------------------------------------------------------------------
(* The theorems                                                            *)

LEMMA NextSound == Sound /\ [Next]_vars => Sound'
<1>. SUFFICES ASSUME Sound, [Next]_vars PROVE Sound'
  OBVIOUS
<1>1. CASE Outside
  BY <1>1, SendMessageSound, SendSettingSound, SendOtherSound, ReloadSound DEF Outside
<1>2. CASE IdleReceive \/ IdleInterrupt \/ IdleCommand \/ IdleShutdown
  BY <1>2, IdleReceiveSound, IdleInterruptSound, IdleCommandSound, StopSound DEF IdleShutdown
<1>3. CASE TurnInterrupted \/ TurnCommand \/ TurnShutdown
  BY <1>3, TurnInterruptedSound, TurnCommandSound, StopSound DEF TurnShutdown
<1>4. CASE CompactionReceives \/ CompactionShutdown
  BY <1>4, CompactionReceivesSound, StopSound DEF CompactionShutdown
<1>5. CASE TurnCompletes \/ ToolBatchEnds \/ TurnUnrecorded
  BY <1>5, TurnCompletesSound, ToolBatchEndsSound, StopSound DEF TurnUnrecorded
<1>6. CASE CompactionEnds
  BY <1>6, CompactionEndsSound
<1>7. CASE UNCHANGED vars
  BY <1>7, StutterSound
<1>. QED  BY <1>1, <1>2, <1>3, <1>4, <1>5, <1>6, <1>7 DEF Next, Commands

LEMMA Invariant == Spec => []Sound
BY InitSound, NextSound, PTL DEF Spec

LEMMA SoundSettings == Sound => SettingsInForce
<1>. SUFFICES ASSUME Sound, phase = "turn", active.id \notin inserts
              PROVE  setting = active.under
  BY DEF SettingsInForce
<1>1. setting \in Setting /\ active.under \in Setting
  BY DEF Sound, Bounded, Message
<1>2. \A key \in Keys : setting[key] = active.under[key]
  BY DEF Sound, InForce
<1>. QED  BY <1>1, <1>2 DEF Setting, Keys

LEMMA SoundOrder == Sound => StartsInOrder
<1>. SUFFICES ASSUME Sound, phase = "turn", NEW id \in Waiting, id < active.id
              PROVE  (id \in inserts) # (active.id \in inserts)
  BY DEF StartsInOrder
<1>1. /\ channel \in Seq(Control) /\ deferred \in Seq(Control)
      /\ parked \in Seq(Control) /\ boundary \in Seq(Control)
  BY QueueTypes DEF Sound, Typed
<1>2. /\ InTurn(channel, deferred, parked, boundary, active, mode, inserts)
      /\ \A b \in ToSet(boundary) : IsMessage(b) /\ b.id \in inserts
  BY DEF Sound, Order
<1>3. IsMessage(active) /\ active.id \in Int
  BY DEF Sound, Bounded, Message, IsMessage
<1>4. ASSUME NEW q \in Seq(Control), NEW x \in MessagesOf(q)
      PROVE  \E c \in ToSet(q) : IsMessage(c) /\ c.id = x /\ c.id \in Int
  <2>1. PICK j \in 1 .. Len(q) : q[j].kind \in MessageKinds /\ q[j].id = x
    BY DEF MessagesOf
  <2>2. q[j] \in ToSet(q) /\ IsMessage(q[j])
    BY <2>1, InQueue DEF IsMessage
  <2>. QED  BY <2>1, <2>2, QueuedNumbers
<1>5. ASSUME NEW c \in ToSet(channel) \cup ToSet(deferred) \cup ToSet(parked), IsMessage(c), c.id = id,
             c.id \in Int
      PROVE  FALSE
  <2>1. active.id < c.id
    BY <1>2, <1>3, <1>5 DEF InTurn, Before
  <2>. QED  BY <1>3, <1>5, <2>1
<1>6. id \in MessagesOf(boundary)
  BY <1>1, <1>4, <1>5 DEF Waiting
<1>7. PICK b \in ToSet(boundary) : b.id = id /\ b.id \in Int
  BY <1>1, <1>4, <1>6
<1>8. id \in inserts /\ active.id \notin inserts
  BY <1>2, <1>3, <1>7 DEF InTurn
<1>. QED  BY <1>8

(* The loop's variables keep their types, whatever is sent: in particular   *)
(* what is parked or waits for the tools are commands that may be put back  *)
(* into the deferred queue, and never a signal.                             *)
THEOREM CommandsTypeCorrect ==
    Spec => [](Bounded /\ Typed(channel, deferred, parked, boundary, messages, prompts))
<1>1. Sound => Bounded /\ Typed(channel, deferred, parked, boundary, messages, prompts)
  BY DEF Sound
<1>. QED  BY <1>1, Invariant, PTL

(* However settings, prompts and interrupts are received, parked, merged    *)
(* and superseded, a turn runs under the settings that had been asked for   *)
(* before its message was sent, and none asked for after it.                *)
THEOREM TurnsRunUnderTheirSettings == Spec => []SettingsInForce
BY Invariant, SoundSettings, PTL

(* No message is overtaken by a later one, unless exactly one of the two    *)
(* was to interrupt a turn at its tool boundary.                            *)
THEOREM TurnsStartInOrder == Spec => []StartsInOrder
BY Invariant, SoundOrder, PTL

(* What the loop has been told to withdraw never starts, unless it waited   *)
(* in the boundary queue when the cancellation or the interrupt was         *)
(* received, and was not taken out of it.                                   *)
THEOREM RevokedStayUnstarted == Spec => []RevokedNeverStarts
<1>1. Sound => RevokedNeverStarts
  BY DEF Sound, Revocation, Firm, RevokedNeverStarts
<1>. QED  BY <1>1, Invariant, PTL
===============================================================================
