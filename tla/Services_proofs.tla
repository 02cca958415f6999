--------------------------- MODULE Services_proofs ---------------------------
(***************************************************************************)
(* Proofs about three services, for every value of their constants.          *)
(*                                                                         *)
(* OutputStream: no line of a command's output is lost, split or reordered.  *)
(* Flattening a sequence of batches and splitting bytes at newlines are      *)
(* defined by recursion on their argument; what they do for every argument   *)
(* is proved by induction on the length, from the fact that a set of natural *)
(* numbers has a smallest one.  The invariant adds to NothingLost that the   *)
(* bytes carried over are the last piece of the split of what was read, and  *)
(* that the buffer is never full between two callbacks.                      *)
(*                                                                         *)
(* Stage3Runner, for every set of concurrent requests and every set of       *)
(* target roots: what is unpacked has been verified, and only into a root    *)
(* that the guard accepts; an exit code of 0 means that it is unpacked, and  *)
(* a run that has announced its end leaves no work directory behind.         *)
(*                                                                         *)
(* Keyring: PromisesKept for any number of processes, ids, failing saves and *)
(* kills, when the vault is open in one process at a time (Alone).  The      *)
(* states a reply allows (owed) always include what the file holds and what  *)
(* the one process that has the vault open holds.  That is inductive only    *)
(* together with three facts: every object of a vault has an entry in owed   *)
(* (Known), nothing is owed for certain while there is no file (Unborn), and *)
(* a vault that is being created is still the fresh one (Fresh).  And        *)
(* ObjectsMatchVault, for any use of the file by other processes.            *)
(***************************************************************************)
EXTENDS OutputStream, Stage3Runner, Keyring, SequenceTheorems, WellFoundedInduction, TLAPS

-----------------------------------------------------------------------------
(* OUTPUT STREAM.  Induction *)


\* A set of natural numbers has a smallest one.
LEMMA Smallest ==
    ASSUME NEW T, T \subseteq Nat, T # {}
    PROVE  \E x \in T : \A y \in T : ~(y < x)
<1>1. PICK x \in T : \A y \in T : ~(<<y, x>> \in OpToRel(<, Nat))
  BY NatLessThanWellFounded, WFMin
<1>2. ASSUME NEW y \in T, y < x PROVE FALSE
  <2>1. <<y, x>> \in OpToRel(<, Nat)
    BY <1>2, Zenon DEF OpToRel
  <2> QED BY <2>1, <1>1
<1> QED BY <1>2

\* Induction up to n, on a set.
LEMMA UpTo ==
    ASSUME NEW n \in Nat, NEW Good, 0 \in Good,
           \A i \in 0..n : i < n /\ i \in Good => i + 1 \in Good
    PROVE  \A i \in 0..n : i \in Good
<1> DEFINE Bad == {i \in 0..n : i \notin Good}
<1> SUFFICES ASSUME Bad # {} PROVE FALSE
  OBVIOUS
<1>1. PICK x \in Bad : \A y \in Bad : ~(y < x)
  <2> Bad \subseteq Nat
    OBVIOUS
  <2> HIDE DEF Bad
  <2> QED BY Smallest
<1>2. x # 0 /\ x - 1 \in 0..n /\ x - 1 < n /\ (x - 1) + 1 = x
  OBVIOUS
<1>3. x - 1 \in Good
  BY <1>1, <1>2
<1> QED BY <1>2, <1>3

\* f goes from v0 to its n-th value, each by the step st from the one before.
Goes(f, n, V, v0, st) ==
    f \in [0..n -> V] /\ f[0] = v0 /\ \A i \in 1..n : f[i] = st[<<i, f[i - 1]>>]

\* What is defined step by step exists.
LEMMA Iterates ==
    ASSUME NEW n \in Nat, NEW V, NEW v0 \in V, NEW st \in [(1..n) \X V -> V]
    PROVE  \E f : Goes(f, n, V, v0, st)
<1> USE DEF Goes
<1> DEFINE Has(m) == \E f : Goes(f, m, V, v0, st)
           Good == {m \in 0..n : Has(m)}
<1>1. 0 \in Good
  <2>1. [i \in 0..0 |-> v0] \in [0..0 -> V]
    OBVIOUS
  <2>2. Has(0)
    <3> WITNESS [i \in 0..0 |-> v0]
    <3> QED BY <2>1
  <2> QED BY <2>2
<1>2. ASSUME NEW m \in 0..n, m < n, m \in Good PROVE m + 1 \in Good
  <2>1. PICK f : Goes(f, m, V, v0, st)
    BY <1>2
  <2> DEFINE w == st[<<m + 1, f[m]>>]
             g == [i \in 0..m + 1 |-> IF i = m + 1 THEN w ELSE f[i]]
  <2>2. w \in V
    BY <1>2, <2>1
  <2>3. g \in [0..m + 1 -> V]
    BY <2>1, <2>2
  <2>4. g[0] = v0
    BY <2>1
  <2>5. ASSUME NEW i \in 1..m + 1 PROVE g[i] = st[<<i, g[i - 1]>>]
    <3>1. CASE i = m + 1
      <4>1. i - 1 = m /\ m # m + 1 /\ m \in 0..m + 1
        BY <3>1
      <4>2. g[m] = f[m] /\ g[m + 1] = w
        BY <4>1
      <4>3. <<i, g[i - 1]>> = <<m + 1, f[m]>>
        BY <3>1, <4>1, <4>2
      <4> QED BY <3>1, <4>2, <4>3
    <3>2. CASE i # m + 1
      <4>1. i \in 1..m /\ i - 1 \in 0..m /\ i - 1 # m + 1
        BY <3>2
      <4>2. g[i] = f[i] /\ g[i - 1] = f[i - 1]
        BY <4>1, <3>2
      <4> QED BY <4>1, <4>2, <2>1
    <3> QED BY <3>1, <3>2
  <2>6. Has(m + 1)
    <3> WITNESS g
    <3> QED BY <2>3, <2>4, <2>5
  <2> QED BY <2>6, <1>2
<1>3. n \in Good
  <2> HIDE DEF Good
  <2> QED BY <1>1, <1>2, UpTo
<1> QED BY <1>3

-----------------------------------------------------------------------------
(* FlattenSeq *)

\* Flattening, as the sequence of the partial results.
LEMMA FlattenRuns ==
    ASSUME NEW S, NEW seqs \in Seq(Seq(S)), seqs # <<>>
    PROVE  \E f \in [0..Len(seqs) -> Seq(S)] :
              /\ f[0] = <<>>
              /\ \A i \in 1..Len(seqs) : f[i] = f[i - 1] \o seqs[i]
              /\ FlattenSeq(seqs) = f[Len(seqs)]
<1> DEFINE n == Len(seqs)
           st == [x \in (1..n) \X Seq(S) |-> x[2] \o seqs[x[1]]]
<1>0. n \in Nat /\ n > 0 /\ \A i \in 1..n : seqs[i] \in Seq(S)
  OBVIOUS
<1>1. st \in [(1..n) \X Seq(S) -> Seq(S)]
  BY <1>0
<1>2. PICK f : Goes(f, n, Seq(S), <<>>, st)
  <2>1. <<>> \in Seq(S) /\ n \in Nat
    BY <1>0
  <2> HIDE DEF st, n
  <2> QED BY <1>1, <2>1, Iterates
<1>3. ASSUME NEW i \in 1..n PROVE f[i] = f[i - 1] \o seqs[i]
  <2>0. i - 1 \in 0..n
    BY <1>0
  <2>1. f[i - 1] \in Seq(S)
    BY <2>0, <1>2 DEF Goes
  <2>2. st[<<i, f[i - 1]>>] = f[i - 1] \o seqs[i]
    BY <2>1
  <2> QED BY <1>2, <2>1, <2>2 DEF Goes
<1> DEFINE Eq(g) == g = [i \in 1..n |-> IF i = 1 THEN seqs[i] ELSE g[i - 1] \o seqs[i]]
           h == [i \in 1..n |-> f[i]]
<1>4. Eq(h)
  <2>1. ASSUME NEW i \in 1..n
        PROVE  h[i] = IF i = 1 THEN seqs[i] ELSE h[i - 1] \o seqs[i]
    <3>1. CASE i = 1
      <4>0. f[i] = f[i - 1] \o seqs[i]
        BY <1>3
      <4>1. f[1] = f[0] \o seqs[1]
        BY <3>1, <4>0
      <4>2. <<>> \o seqs[1] = seqs[1]
        BY <1>0
      <4> QED BY <4>1, <4>2, <3>1, <1>2 DEF Goes
    <3>2. CASE i # 1
      <4>1. i - 1 \in 1..n
        BY <3>2
      <4> QED BY <3>2, <4>1, <1>3
    <3> QED BY <3>1, <3>2
  <2> QED BY <2>1
<1>5. ASSUME NEW g, Eq(g) PROVE \A i \in 0..n : i # 0 => g[i] = f[i]
  <2> DEFINE Good == {i \in 0..n : i # 0 => g[i] = f[i]}
  <2>1. 0 \in Good
    BY <1>0
  <2>2. ASSUME NEW i \in 0..n, i < n, i \in Good PROVE i + 1 \in Good
    <3>1. i + 1 \in 1..n /\ (i + 1) - 1 = i /\ i + 1 \in 0..n
      BY <2>2, <1>0
    <3>2. g[i + 1] = IF i + 1 = 1 THEN seqs[i + 1] ELSE g[i] \o seqs[i + 1]
      <4> HIDE DEF n
      <4> QED BY <1>5, <3>1
    <3>3. f[i + 1] = f[i] \o seqs[i + 1]
      BY <3>1, <1>3
    <3>4. CASE i = 0
      <4>1. f[0] \o seqs[i + 1] = seqs[i + 1]
        BY <1>2, <1>0, <3>1 DEF Goes
      <4> QED BY <3>1, <3>2, <3>3, <3>4, <4>1
    <3>5. CASE i # 0
      <4>1. g[i] = f[i] /\ i + 1 # 1
        BY <2>2, <3>5
      <4> QED BY <4>1, <3>1, <3>2, <3>3
    <3> QED BY <3>4, <3>5
  <2>3. \A i \in 0..n : i \in Good
    <3> HIDE DEF Good
    <3> QED BY <2>1, <2>2, <1>0, UpTo
  <2> QED BY <2>3
<1>6. \E g : Eq(g) /\ FlattenSeq(seqs) = g[n]
  <2>1. Len(seqs) # 0 /\ \E g : Eq(g)
    <3> HIDE DEF Eq, h
    <3> QED BY <1>4, <1>0
  <2> QED BY <2>1, Zenon DEF FlattenSeq
<1>7. FlattenSeq(seqs) = f[n]
  <2>1. PICK g : Eq(g) /\ FlattenSeq(seqs) = g[n]
    BY <1>6
  <2>2. \A i \in 0..n : i # 0 => g[i] = f[i]
    <3>1. Eq(g)
      BY <2>1
    <3> HIDE DEF Eq
    <3> QED BY <3>1, <1>5
  <2>3. n \in 0..n /\ n # 0
    BY <1>0
  <2> QED
    <3> HIDE DEF Eq, n
    <3> QED BY <2>1, <2>2, <2>3
<1> QED BY <1>2, <1>3, <1>7 DEF Goes

LEMMA FlattenEmpty == FlattenSeq(<<>>) = <<>>
BY DEF FlattenSeq

\* Flattening one sequence more.
LEMMA FlattenAppend ==
    ASSUME NEW S, NEW seqs \in Seq(Seq(S)), NEW e \in Seq(S)
    PROVE  /\ FlattenSeq(seqs) \in Seq(S)
           /\ FlattenSeq(Append(seqs, e)) = FlattenSeq(seqs) \o e
<1> DEFINE t == Append(seqs, e)
           n == Len(seqs)
<1>0. /\ n \in Nat /\ t \in Seq(Seq(S)) /\ t # <<>> /\ Len(t) = n + 1 /\ t[n + 1] = e
      /\ \A i \in 1..n : t[i] = seqs[i]
  BY AppendProperties, LenProperties
<1>1. PICK g \in [0..n + 1 -> Seq(S)] :
         /\ g[0] = <<>>
         /\ \A i \in 1..n + 1 : g[i] = g[i - 1] \o t[i]
         /\ FlattenSeq(t) = g[n + 1]
  <2>1. t \in Seq(Seq(S)) /\ t # <<>> /\ Len(t) = n + 1
    BY <1>0
  <2> HIDE DEF t
  <2>2. \E g \in [0..Len(t) -> Seq(S)] :
         /\ g[0] = <<>>
         /\ \A i \in 1..Len(t) : g[i] = g[i - 1] \o t[i]
         /\ FlattenSeq(t) = g[Len(t)]
    BY <2>1, FlattenRuns
  <2> QED BY <2>1, <2>2
<1>2. g[n + 1] = g[n] \o e
  <2>1. n + 1 \in 1..n + 1 /\ (n + 1) - 1 = n
    BY <1>0
  <2> QED BY <2>1, <1>1, <1>0
<1>3. FlattenSeq(seqs) = g[n]
  <2>1. CASE seqs = <<>>
    BY <2>1, <1>1, FlattenEmpty
  <2>2. CASE seqs # <<>>
    <3>1. PICK f \in [0..n -> Seq(S)] :
             /\ f[0] = <<>>
             /\ \A i \in 1..n : f[i] = f[i - 1] \o seqs[i]
             /\ FlattenSeq(seqs) = f[n]
      BY <2>2, FlattenRuns
    <3> DEFINE Good == {i \in 0..n : f[i] = g[i]}
    <3>2. 0 \in Good
      BY <1>1, <3>1, <1>0
    <3>3. ASSUME NEW i \in 0..n, i < n, i \in Good PROVE i + 1 \in Good
      <4>1. i + 1 \in 1..n /\ i + 1 \in 1..n + 1 /\ (i + 1) - 1 = i
        BY <3>3, <1>0
      <4>2. f[i + 1] = f[(i + 1) - 1] \o seqs[i + 1]
        BY <4>1, <3>1
      <4>3. g[i + 1] = g[(i + 1) - 1] \o t[i + 1]
        BY <4>1, <1>1
      <4>4. t[i + 1] = seqs[i + 1] /\ f[i] = g[i] /\ i + 1 \in 0..n
        BY <4>1, <3>3, <1>0
      <4> HIDE DEF t, n
      <4> QED BY <4>1, <4>2, <4>3, <4>4
    <3>4. \A i \in 0..n : i \in Good
      <4> HIDE DEF Good
      <4> QED BY <3>2, <3>3, <1>0, UpTo
    <3> QED BY <3>4, <3>1, <1>0
  <2> QED BY <2>1, <2>2
<1>4. g[n] \in Seq(S)
  BY <1>0
<1> QED BY <1>1, <1>2, <1>3, <1>4

-----------------------------------------------------------------------------
(* Sequences that are not empty *)

LEMMA FrontLast ==
    ASSUME NEW S, NEW s \in Seq(S), s # <<>>
    PROVE  /\ Front(s) \in Seq(S) /\ Last(s) \in S
           /\ Len(Front(s)) = Len(s) - 1
           /\ \A i \in 1..Len(s) - 1 : Front(s)[i] = s[i]
           /\ s = Front(s) \o <<Last(s)>>
<1>1. Len(s) \in Nat /\ Len(s) > 0 /\ Last(s) \in S
  BY DEF Last
<1>2. /\ Front(s) \in Seq(S) /\ Len(Front(s)) = Len(s) - 1
      /\ \A i \in 1..Len(s) - 1 : Front(s)[i] = s[i]
  BY <1>1 DEF Front
<1>3. s = Front(s) \o <<Last(s)>>
  <2> DEFINE t == Front(s) \o <<Last(s)>>
  <2>1. t \in Seq(S) /\ Len(t) = Len(s)
    BY <1>1, <1>2
  <2>2. ASSUME NEW i \in 1..Len(s) PROVE s[i] = t[i]
    BY <1>1, <1>2 DEF Last
  <2> QED BY <2>1, <2>2, SeqEqual
<1> QED BY <1>1, <1>2, <1>3

LEMMA FrontLastOfAppend ==
    ASSUME NEW S, NEW s \in Seq(S), NEW e \in S
    PROVE  Front(Append(s, e)) = s /\ Last(Append(s, e)) = e
<1> DEFINE t == Append(s, e)
<1>1. /\ t \in Seq(S) /\ t # <<>> /\ Len(t) = Len(s) + 1 /\ t[Len(s) + 1] = e
      /\ \A i \in 1..Len(s) : t[i] = s[i]
  BY AppendProperties
<1>2. Len(s) \in Nat
  OBVIOUS
<1>3. Last(t) = e
  BY <1>1 DEF Last
<1>4. Front(t) = s
  <2> HIDE DEF t
  <2>1. /\ Front(t) \in Seq(S) /\ Len(Front(t)) = Len(s)
        /\ \A i \in 1..Len(s) : Front(t)[i] = s[i]
    <3>1. t \in Seq(S) /\ t # <<>> /\ Len(t) = Len(s) + 1 /\ Len(t) - 1 = Len(s)
      BY <1>1, <1>2
    <3>2. /\ Front(t) \in Seq(S) /\ Len(Front(t)) = Len(t) - 1
          /\ \A i \in 1..Len(t) - 1 : Front(t)[i] = t[i]
      BY <3>1, FrontLast, Zenon
    <3> QED BY <3>1, <3>2, <1>1
  <2> QED BY <2>1, SeqEqual
<1> QED BY <1>3, <1>4

LEMMA FrontLastOfConcat ==
    ASSUME NEW S, NEW f \in Seq(S), NEW s \in Seq(S), s # <<>>
    PROVE  /\ f \o s \in Seq(S) /\ f \o s # <<>>
           /\ Front(f \o s) = f \o Front(s) /\ Last(f \o s) = Last(s)
<1>1. Front(s) \in Seq(S) /\ Last(s) \in S /\ s = Append(Front(s), Last(s))
  <2>1. Front(s) \in Seq(S) /\ Last(s) \in S /\ s = Front(s) \o <<Last(s)>>
    BY FrontLast, Zenon
  <2>2. Append(Front(s), Last(s)) = Front(s) \o <<Last(s)>>
    BY <2>1, AppendIsConcat, Zenon
  <2> QED BY <2>1, <2>2
<1>2. f \o s = Append(f \o Front(s), Last(s)) /\ f \o Front(s) \in Seq(S)
  <2>1. f \o (Front(s) \o <<Last(s)>>) = (f \o Front(s)) \o <<Last(s)>>
    BY <1>1
  <2> QED BY <2>1, <1>1, AppendIsConcat, ConcatProperties
<1>3. f \o s \in Seq(S) /\ f \o s # <<>>
  BY <1>1, <1>2, AppendProperties
<1>4. Front(Append(f \o Front(s), Last(s))) = f \o Front(s)
      /\ Last(Append(f \o Front(s), Last(s))) = Last(s)
  BY <1>1, <1>2, FrontLastOfAppend, Zenon
<1> QED BY <1>2, <1>3, <1>4, Zenon
-----------------------------------------------------------------------------
(* Split *)

Byte == Bytes \cup {NL}
Line == Seq(Byte)
Pieces == Seq(Line) \ {<<>>}
Plain(line) == \A j \in 1..Len(line) : line[j] # NL

\* f is the run of a split over the bytes.
Splits(f, bytes) ==
    /\ f \in [0..Len(bytes) -> Pieces]
    /\ f[0] = << <<>> >>
    /\ \A i \in 1..Len(bytes) : f[i] = SplitByte(f[i - 1], bytes[i])

\* One byte more: what came before stays before, and the last piece is free
\* of newlines.
LEMMA SplitByteFacts ==
    ASSUME NEW ps \in Pieces, NEW c \in Byte
    PROVE  /\ SplitByte(ps, c) \in Pieces
           /\ \A f \in Seq(Line) : SplitByte(f \o ps, c) = f \o SplitByte(ps, c)
           /\ Plain(Last(ps)) => Plain(Last(SplitByte(ps, c)))
<1>1. ps \in Seq(Line) /\ ps # <<>> /\ <<>> \in Line
  BY DEF Pieces, Line
<1>2. Front(ps) \in Seq(Line) /\ Last(ps) \in Line
  BY <1>1, FrontLast, Zenon
<1>3. CASE c = NL
  <2>1. SplitByte(ps, c) = Append(ps, <<>>)
    BY <1>3 DEF SplitByte
  <2>2. Append(ps, <<>>) \in Pieces
    BY <1>1, AppendProperties DEF Pieces
  <2>3. ASSUME NEW f \in Seq(Line) PROVE SplitByte(f \o ps, c) = f \o SplitByte(ps, c)
    <3>1. SplitByte(f \o ps, c) = Append(f \o ps, <<>>)
      BY <1>3 DEF SplitByte
    <3>2. Append(f \o ps, <<>>) = f \o Append(ps, <<>>)
      BY <1>1
    <3> QED BY <3>1, <3>2, <2>1
  <2>4. Last(Append(ps, <<>>)) = <<>>
    BY SMT, <1>1, FrontLastOfAppend
  <2>5. Plain(<<>>)
    BY DEF Plain
  <2> QED BY <2>1, <2>2, <2>3, <2>4, <2>5
<1>4. CASE c # NL
  <2> DEFINE e == Append(Last(ps), c)
  <2>1. e \in Line
    BY <1>2 DEF Line
  <2>2. SplitByte(ps, c) = Append(Front(ps), e)
    BY <1>4 DEF SplitByte
  <2>3. Append(Front(ps), e) \in Pieces
    BY <1>2, <2>1, AppendProperties DEF Pieces
  <2>4. ASSUME NEW f \in Seq(Line) PROVE SplitByte(f \o ps, c) = f \o SplitByte(ps, c)
    <3>1. Front(f \o ps) = f \o Front(ps) /\ Last(f \o ps) = Last(ps)
      BY <1>1, FrontLastOfConcat, Zenon
    <3>2. SplitByte(f \o ps, c) = Append(f \o Front(ps), e)
      BY <1>4, <3>1 DEF SplitByte
    <3>3. Append(f \o Front(ps), e) = f \o Append(Front(ps), e)
      <4> HIDE DEF e
      <4> QED BY <1>2, <2>1
    <3> QED BY <3>2, <3>3, <2>2
  <2>5. Last(SplitByte(ps, c)) = e
    <3> HIDE DEF e
    <3>1. Last(Append(Front(ps), e)) = e
      BY <1>2, <2>1, FrontLastOfAppend, Zenon
    <3> QED BY <3>1, <2>2
  <2>6. Plain(Last(ps)) => Plain(e)
    <3>1. Last(ps) \in Seq(Byte)
      BY <1>2 DEF Line
    <3>2. /\ Len(e) = Len(Last(ps)) + 1 /\ e[Len(Last(ps)) + 1] = c
          /\ \A j \in 1..Len(Last(ps)) : e[j] = Last(ps)[j]
      BY <3>1, AppendProperties
    <3>3. Len(Last(ps)) \in Nat
      BY <3>1
    <3> HIDE DEF e
    <3> QED BY <3>2, <3>3, <1>4 DEF Plain
  <2> QED BY <2>2, <2>3, <2>4, <2>5, <2>6
<1> QED BY <1>3, <1>4

LEMMA SplitRuns ==
    ASSUME NEW bytes \in Line
    PROVE  \E f : Splits(f, bytes) /\ Split(bytes) = f[Len(bytes)]
<1> DEFINE n == Len(bytes)
           st == [x \in (1..n) \X Pieces |-> SplitByte(x[2], bytes[x[1]])]
           Eq(g) == g = [i \in 0..Len(bytes) |-> IF i = 0 THEN << <<>> >>
                                                 ELSE SplitByte(g[i - 1], bytes[i])]
<1>0. n \in Nat /\ \A i \in 1..n : bytes[i] \in Byte
  BY DEF Line
<1>1. st \in [(1..n) \X Pieces -> Pieces]
  BY <1>0, SplitByteFacts
<1>2. << <<>> >> \in Pieces
  <2>1. <<>> \in Line
    BY DEF Line
  <2> QED BY <2>1 DEF Pieces
<1>3. PICK f : Goes(f, n, Pieces, << <<>> >>, st)
  <2>1. n \in Nat
    BY <1>0
  <2> HIDE DEF st, n
  <2> QED BY <1>1, <1>2, <2>1, Iterates
<1>4. Splits(f, bytes)
  <2>1. f \in [0..n -> Pieces] /\ f[0] = << <<>> >>
    BY <1>3 DEF Goes
  <2>2. ASSUME NEW i \in 1..n PROVE f[i] = SplitByte(f[i - 1], bytes[i])
    <3>1. i - 1 \in 0..n
      BY <1>0
    <3>2. f[i - 1] \in Pieces
      BY <3>1, <2>1
    <3>3. st[<<i, f[i - 1]>>] = SplitByte(f[i - 1], bytes[i])
      BY <3>2
    <3> QED BY <3>3, <1>3 DEF Goes
  <2> QED BY <2>1, <2>2 DEF Splits
<1>5. Eq(f)
  <2>1. f = [i \in 0..n |-> f[i]]
    BY <1>4 DEF Splits
  <2>2. ASSUME NEW i \in 0..n
        PROVE  f[i] = IF i = 0 THEN << <<>> >> ELSE SplitByte(f[i - 1], bytes[i])
    <3>1. i # 0 => i \in 1..n
      BY <1>0
    <3> QED BY <3>1, <1>4 DEF Splits
  <2> QED BY <2>1, <2>2
<1>6. ASSUME NEW g, Eq(g) PROVE \A i \in 0..n : g[i] = f[i]
  <2> DEFINE Good == {i \in 0..n : g[i] = f[i]}
  <2>1. 0 \in Good
    <3>1. g[0] = << <<>> >>
      BY <1>6, <1>0
    <3> QED BY <3>1, <1>4, <1>0 DEF Splits
  <2>2. ASSUME NEW i \in 0..n, i < n, i \in Good PROVE i + 1 \in Good
    <3>1. i + 1 \in 1..n /\ (i + 1) - 1 = i /\ i + 1 \in 0..n /\ i + 1 # 0
      BY <2>2, <1>0
    <3>2. g[i + 1] = SplitByte(g[(i + 1) - 1], bytes[i + 1])
      BY <1>6, <3>1
    <3>3. f[i + 1] = SplitByte(f[(i + 1) - 1], bytes[i + 1])
      BY <1>4, <3>1 DEF Splits
    <3> QED BY <3>1, <3>2, <3>3, <2>2
  <2>3. \A i \in 0..n : i \in Good
    <3> HIDE DEF Good
    <3> QED BY <2>1, <2>2, <1>0, UpTo
  <2> QED BY <2>3
<1>7. \E g : Eq(g) /\ Split(bytes) = g[Len(bytes)]
  <2>1. \E g : Eq(g)
    <3> HIDE DEF Eq
    <3> QED BY <1>5
  <2> QED BY <2>1, Zenon DEF Split
<1>8. Split(bytes) = f[n]
  <2>1. PICK g : Eq(g) /\ Split(bytes) = g[n]
    BY <1>7
  <2>2. \A i \in 0..n : g[i] = f[i]
    <3>1. Eq(g)
      BY <2>1
    <3> HIDE DEF Eq
    <3> QED BY <3>1, <1>6
  <2>3. n \in 0..n
    BY <1>0
  <2> QED
    <3> HIDE DEF Eq, n
    <3> QED BY <2>1, <2>2, <2>3
<1> QED BY <1>4, <1>8

\* A split is never empty, and its last piece is the only one still open.
LEMMA SplitFacts ==
    ASSUME NEW bytes \in Line
    PROVE  Split(bytes) \in Pieces /\ Plain(Last(Split(bytes)))
<1> DEFINE n == Len(bytes)
<1>0. n \in Nat /\ \A i \in 1..n : bytes[i] \in Byte
  BY DEF Line
<1>1. PICK f : Splits(f, bytes) /\ Split(bytes) = f[n]
  BY SplitRuns
<1>2. f \in [0..n -> Pieces]
  BY <1>1 DEF Splits
<1> DEFINE Good == {i \in 0..n : Plain(Last(f[i]))}
<1>3. 0 \in Good
  <2>1. Last(f[0]) = <<>>
    BY <1>1 DEF Splits, Last
  <2> QED BY <2>1, <1>0 DEF Plain
<1>4. ASSUME NEW i \in 0..n, i < n, i \in Good PROVE i + 1 \in Good
  <2>1. i + 1 \in 1..n /\ (i + 1) - 1 = i /\ i + 1 \in 0..n
    BY <1>4, <1>0
  <2>2. f[i + 1] = SplitByte(f[(i + 1) - 1], bytes[i + 1])
    BY <1>1, <2>1 DEF Splits
  <2>3. f[i] \in Pieces /\ bytes[i + 1] \in Byte /\ Plain(Last(f[i]))
    BY <1>0, <1>2, <1>4, <2>1
  <2>4. Plain(Last(SplitByte(f[i], bytes[i + 1])))
    BY <2>3, SplitByteFacts
  <2> QED BY <2>1, <2>2, <2>4
<1>5. \A i \in 0..n : i \in Good
  <2> HIDE DEF Good
  <2> QED BY <1>3, <1>4, <1>0, UpTo
<1>6. n \in 0..n
  BY <1>0
<1> QED BY <1>1, <1>2, <1>5, <1>6
LEMMA SplitEmpty == Split(<<>>) = << <<>> >>
<1>1. <<>> \in Line /\ Len(<<>>) = 0
  BY DEF Line
<1>2. PICK f : Splits(f, <<>>) /\ Split(<<>>) = f[Len(<<>>)]
  BY <1>1, SplitRuns
<1> QED BY <1>1, <1>2 DEF Splits

\* Bytes without a newline are one piece.
LEMMA SplitPlain ==
    ASSUME NEW p \in Line, Plain(p), NEW d \in Line, NEW h, Splits(h, p \o d)
    PROVE  h[Len(p)] = <<p>>
<1> DEFINE n == Len(p)
<1>0. /\ n \in Nat /\ Len(d) \in Nat /\ Len(p \o d) = n + Len(d)
      /\ \A i \in 1..n : p[i] \in Byte /\ p[i] # NL /\ (p \o d)[i] = p[i]
  BY ConcatProperties DEF Line, Plain
<1> DEFINE Good == {i \in 0..n : h[i] = << SubSeq(p, 1, i) >>}
<1>1. 0 \in Good
  <2>1. SubSeq(p, 1, 0) = <<>>
    BY SubSeqEmpty
  <2>2. h[0] = << <<>> >> /\ 0 \in 0..n
    BY <1>0 DEF Splits
  <2> QED BY <2>1, <2>2
<1>2. ASSUME NEW i \in 0..n, i < n, i \in Good PROVE i + 1 \in Good
  <2>1. i + 1 \in 1..n /\ i + 1 \in 1..Len(p \o d) /\ (i + 1) - 1 = i /\ i + 1 \in 0..n
    BY <1>2, <1>0
  <2>2. h[i + 1] = SplitByte(h[(i + 1) - 1], (p \o d)[i + 1])
    BY <2>1 DEF Splits
  <2> DEFINE q == SubSeq(p, 1, i)
             e == Append(q, p[i + 1])
  <2>3. h[i] = <<q>> /\ (p \o d)[i + 1] = p[i + 1] /\ p[i + 1] # NL /\ p[i + 1] \in Byte
    BY <1>2, <1>0, <2>1
  <2>4. q \in Line /\ SubSeq(p, 1, i + 1) = e
    <3>1. p \in Seq(Byte) /\ i \in Nat /\ i + 1 <= Len(p)
      BY <1>2, <1>0 DEF Line
    <3>2. q \in Seq(Byte)
      BY <3>1
    <3>3. SubSeq(p, 1, i + 1) = SubSeq(p, 1, (i + 1) - 1) \o <<p[i + 1]>>
      BY <3>1, SubSeqRecursiveSecond
    <3>4. Append(q, p[i + 1]) = q \o <<p[i + 1]>>
      BY <3>2, <2>3, AppendIsConcat, Zenon
    <3> QED BY <3>2, <3>3, <3>4, <2>1 DEF Line
  <2>5. SplitByte(<<q>>, p[i + 1]) = <<e>>
    <3>1. Front(<<q>>) = <<>> /\ Last(<<q>>) = q
      BY <2>4 DEF Front, Last
    <3>2. Append(<<>>, e) = <<e>>
      OBVIOUS
    <3> QED BY <3>1, <3>2, <2>3 DEF SplitByte
  <2> HIDE DEF q, e
  <2>6. h[i + 1] = <<SubSeq(p, 1, i + 1)>>
    BY <2>1, <2>2, <2>3, <2>4, <2>5
  <2> QED BY <2>1, <2>6
<1>3. \A i \in 0..n : i \in Good
  <2> HIDE DEF Good
  <2> QED BY <1>1, <1>2, <1>0, UpTo
<1>4. SubSeq(p, 1, n) = p
  BY SubSeqFull DEF Line
<1> QED BY <1>0, <1>3, <1>4

\* Splitting the open piece with the new bytes gives what splitting everything
\* gives, after the pieces that were closed.
LEMMA SplitMore ==
    ASSUME NEW a \in Line, NEW d \in Line
    PROVE  Split(a \o d) = Front(Split(a)) \o Split(Last(Split(a)) \o d)
<1> DEFINE p == Last(Split(a))
           F == Front(Split(a))
<1>0. Split(a) \in Seq(Line) /\ Split(a) # <<>> /\ Plain(p)
  BY SplitFacts DEF Pieces
<1>1. F \in Seq(Line) /\ p \in Line /\ Split(a) = F \o <<p>>
  BY <1>0, FrontLast, Zenon
<1> HIDE DEF p, F
<1> DEFINE n == Len(a)
           m == Len(p)
           k == Len(d)
<1>2. /\ n \in Nat /\ m \in Nat /\ k \in Nat
      /\ a \o d \in Line /\ Len(a \o d) = n + k /\ p \o d \in Line /\ Len(p \o d) = m + k
      /\ \A i \in 1..n : (a \o d)[i] = a[i] /\ a[i] \in Byte
      /\ \A j \in 1..k : (a \o d)[n + j] = d[j] /\ (p \o d)[m + j] = d[j] /\ d[j] \in Byte
  <2>1. a \in Seq(Byte) /\ d \in Seq(Byte) /\ p \in Seq(Byte)
    BY <1>1 DEF Line
  <2> QED BY <2>1, ConcatProperties DEF Line
<1>3. PICK f : Splits(f, a \o d) /\ Split(a \o d) = f[n + k]
  BY <1>2, SplitRuns
<1>4. PICK g : Splits(g, a) /\ Split(a) = g[n]
  BY SplitRuns
<1>5. PICK h : Splits(h, p \o d) /\ Split(p \o d) = h[m + k]
  BY <1>2, SplitRuns
<1>6. f[n] = g[n]
  <2> DEFINE Good == {i \in 0..n : f[i] = g[i]}
  <2>1. 0 \in Good
    <3>1. f[0] = << <<>> >> /\ g[0] = << <<>> >>
      BY <1>3, <1>4 DEF Splits
    <3> QED BY <3>1, <1>2
  <2>2. ASSUME NEW i \in 0..n, i < n, i \in Good PROVE i + 1 \in Good
    <3>1. i + 1 \in 1..n /\ i + 1 \in 1..Len(a \o d) /\ (i + 1) - 1 = i /\ i + 1 \in 0..n
      BY <2>2, <1>2
    <3>2. f[i + 1] = SplitByte(f[(i + 1) - 1], (a \o d)[i + 1])
      BY <3>1, <1>3 DEF Splits
    <3>3. g[i + 1] = SplitByte(g[(i + 1) - 1], a[i + 1])
      BY <3>1, <1>4 DEF Splits
    <3>4. (a \o d)[i + 1] = a[i + 1]
      BY <3>1, <1>2
    <3> QED BY <3>1, <3>2, <3>3, <3>4, <2>2
  <2>3. \A i \in 0..n : i \in Good
    <3> HIDE DEF Good
    <3> QED BY <2>1, <2>2, <1>2, UpTo
  <2> QED BY <2>3, <1>2
<1>7. h[m] = <<p>>
  BY <1>0, <1>1, <1>5, SplitPlain
<1>8. f[n + k] = F \o h[m + k]
  <2> DEFINE Good == {j \in 0..k : f[n + j] = F \o h[m + j]}
  <2>1. 0 \in Good
    <3>1. n + 0 = n /\ m + 0 = m /\ 0 \in 0..k
      BY <1>2
    <3> QED BY <3>1, <1>1, <1>4, <1>6, <1>7
  <2>2. ASSUME NEW j \in 0..k, j < k, j \in Good PROVE j + 1 \in Good
    <3>1. /\ j + 1 \in 1..k /\ j + 1 \in 0..k
          /\ n + (j + 1) \in 1..Len(a \o d) /\ (n + (j + 1)) - 1 = n + j
          /\ m + (j + 1) \in 1..Len(p \o d) /\ (m + (j + 1)) - 1 = m + j
          /\ m + j \in 0..Len(p \o d)
      BY <2>2, <1>2
    <3>2. f[n + (j + 1)] = SplitByte(f[(n + (j + 1)) - 1], (a \o d)[n + (j + 1)])
      BY <3>1, <1>3 DEF Splits
    <3>3. h[m + (j + 1)] = SplitByte(h[(m + (j + 1)) - 1], (p \o d)[m + (j + 1)])
      BY <3>1, <1>5 DEF Splits
    <3>4. (a \o d)[n + (j + 1)] = d[j + 1] /\ (p \o d)[m + (j + 1)] = d[j + 1] /\ d[j + 1] \in Byte
      BY <3>1, <1>2
    <3>5. h[m + j] \in Pieces
      BY <3>1, <1>5 DEF Splits
    <3>6. SplitByte(F \o h[m + j], d[j + 1]) = F \o SplitByte(h[m + j], d[j + 1])
      BY <3>4, <3>5, <1>1, SplitByteFacts
    <3>7. f[n + j] = F \o h[m + j]
      BY <2>2
    <3>8. f[n + (j + 1)] = F \o h[m + (j + 1)]
      BY <3>1, <3>2, <3>3, <3>4, <3>6, <3>7
    <3> QED BY <3>1, <3>8
  <2>3. \A j \in 0..k : j \in Good
    <3> HIDE DEF Good
    <3> QED BY <2>1, <2>2, <1>2, UpTo
  <2> QED BY <2>3, <1>2
<1> QED BY <1>3, <1>5, <1>8 DEF p, F
-----------------------------------------------------------------------------
(* The batches *)

\* As many full batches as the lines fill.
LEMMA FullBatches ==
    ASSUME NEW L \in Nat, NEW B \in Nat \ {0}
    PROVE  /\ L \div B \in Nat
           /\ (L \div B) * B <= L /\ L < (L \div B) * B + B
           /\ L < B => L \div B = 0
OBVIOUS

\* queue_line for each of the lines: they follow what was sent and buffered,
\* in batches of BatchMax, and fewer than that stay behind.
LEMMA Queued ==
    ASSUME sent \in Seq(Seq(Line)), buf \in Seq(Line), NEW lines \in Seq(Line), QueueLines(lines),
           timer = (buf # <<>>)
    PROVE  /\ sent' \in Seq(Seq(Line)) /\ buf' \in Seq(Line)
           /\ FlattenSeq(sent') \o buf' = (FlattenSeq(sent) \o buf) \o lines
           /\ Len(buf') < BatchMax
           /\ \A k \in DOMAIN sent' : Len(sent'[k]) = BatchMax \/ (k \in DOMAIN sent /\ sent'[k] = sent[k])
           /\ timer' = (buf' # <<>>)
<1> DEFINE all == buf \o lines
           L == Len(all)
           full == L \div BatchMax
           Batch(k) == SubSeq(all, (k - 1) * BatchMax + 1, k * BatchMax)
           Grown(k) == sent \o [j \in 1..k |-> Batch(j)]
<1>0. /\ all \in Seq(Line) /\ L \in Nat /\ BatchMax \in Nat \ {0}
      /\ \A i \in 1..L : all[i] \in Line
  BY StreamAssumption
<1>1. full \in Nat /\ full * BatchMax <= L /\ L < full * BatchMax + BatchMax
      /\ (L < BatchMax => full = 0)
  <2> HIDE DEF L, all
  <2> QED BY <1>0, FullBatches
<1>2. /\ sent' = Grown(full)
      /\ buf' = SubSeq(all, full * BatchMax + 1, L)
      /\ timer' = IF full = 0 THEN timer \/ buf' # <<>> ELSE buf' # <<>>
  BY DEF QueueLines
<1> HIDE DEF L, full, all
<1>3. ASSUME NEW k \in 1..full
      PROVE  /\ (k - 1) * BatchMax \in Nat /\ k * BatchMax = (k - 1) * BatchMax + BatchMax
             /\ k * BatchMax <= L
             /\ Batch(k) \in Seq(Line) /\ Len(Batch(k)) = BatchMax
  <2>1. (k - 1) * BatchMax \in Nat /\ k * BatchMax = (k - 1) * BatchMax + BatchMax
    BY <1>0, <1>1
  <2>2. k * BatchMax <= L
    <3>1. k * BatchMax <= full * BatchMax
      BY <1>0, <1>1
    <3>2. k * BatchMax \in Int /\ full * BatchMax \in Int
      BY <1>0, <1>1
    <3> QED BY <3>1, <3>2, <1>0, <1>1
  <2> DEFINE c == (k - 1) * BatchMax
  <2>3. c \in Nat /\ c + BatchMax <= L /\ Batch(k) = SubSeq(all, c + 1, c + BatchMax)
    BY <2>1, <2>2
  <2> HIDE DEF c, Batch
  <2>4. \A i \in c + 1..c + BatchMax : all[i] \in Line
    BY <1>0, <2>3
  <2>5. SubSeq(all, c + 1, c + BatchMax) \in Seq(Line)
        /\ Len(SubSeq(all, c + 1, c + BatchMax)) = BatchMax
    BY <1>0, <2>3, <2>4, SubSeqProperties
  <2> QED BY <2>1, <2>2, <2>3, <2>5
<1>4. ASSUME NEW k \in 0..full
      PROVE  /\ Grown(k) \in Seq(Seq(Line)) /\ Len(Grown(k)) = Len(sent) + k
             /\ \A i \in 1..Len(sent) : Grown(k)[i] = sent[i]
             /\ \A i \in 1..k : Grown(k)[Len(sent) + i] = Batch(i)
  <2> DEFINE new == [j \in 1..k |-> Batch(j)]
  <2> HIDE DEF Batch
  <2>1. \A j \in 1..k : Batch(j) \in Seq(Line)
    BY <1>1, <1>3
  <2>2. new \in Seq(Seq(Line)) /\ Len(new) = k /\ \A j \in 1..k : new[j] = Batch(j)
    BY <1>1, <2>1
  <2> HIDE DEF new
  <2>3. Len(sent) \in Nat
    OBVIOUS
  <2> QED BY <2>2, <2>3, ConcatProperties, <1>1
<1>5. FlattenSeq(Grown(full)) = FlattenSeq(sent) \o SubSeq(all, 1, full * BatchMax)
  <2> DEFINE Good == {k \in 0..full : FlattenSeq(Grown(k)) = FlattenSeq(sent) \o SubSeq(all, 1, k * BatchMax)}
  <2>0. FlattenSeq(sent) \in Seq(Line)
    <3>1. <<>> \in Seq(Line)
      OBVIOUS
    <3> QED BY <3>1, FlattenAppend
  <2>1. 0 \in Good
    <3>1. Grown(0) = sent
      <4>1. 0 \in 0..full
        BY <1>1
      <4>2. Grown(0) \in Seq(Seq(Line)) /\ Len(Grown(0)) = Len(sent)
            /\ \A i \in 1..Len(sent) : Grown(0)[i] = sent[i]
        <5> HIDE DEF Grown
        <5>1. Len(sent) \in Nat /\ Len(sent) + 0 = Len(sent)
          OBVIOUS
        <5> QED BY <4>1, <5>1, <1>4
      <4> HIDE DEF Grown
      <4> QED BY <4>2, SeqEqual
    <3>2. 0 * BatchMax = 0 /\ 0 \in 0..full
      BY <1>0, <1>1
    <3>3. SubSeq(all, 1, 0) = <<>>
      BY SubSeqEmpty
    <3>4. FlattenSeq(sent) \o <<>> = FlattenSeq(sent)
      BY <2>0
    <3> HIDE DEF Grown
    <3> QED BY <3>1, <3>2, <3>3, <3>4
  <2>2. ASSUME NEW k \in 0..full, k < full, k \in Good PROVE k + 1 \in Good
    <3> DEFINE b == Batch(k + 1)
    <3>1. k + 1 \in 0..full /\ k + 1 \in 1..full /\ (k + 1) - 1 = k
      BY <2>2, <1>1
    <3>2. b \in Seq(Line) /\ k * BatchMax \in Nat /\ (k + 1) * BatchMax = k * BatchMax + BatchMax
          /\ (k + 1) * BatchMax <= L
      <4> HIDE DEF Batch
      <4> QED BY <3>1, <1>3
    <3>3. Grown(k + 1) = Append(Grown(k), b)
      <4> HIDE DEF Grown, Batch
      <4>1. /\ Grown(k + 1) \in Seq(Seq(Line)) /\ Len(Grown(k + 1)) = Len(sent) + (k + 1)
            /\ \A i \in 1..Len(sent) : Grown(k + 1)[i] = sent[i]
            /\ \A i \in 1..k + 1 : Grown(k + 1)[Len(sent) + i] = Batch(i)
        BY <3>1, <1>4
      <4>2. /\ Grown(k) \in Seq(Seq(Line)) /\ Len(Grown(k)) = Len(sent) + k
            /\ \A i \in 1..Len(sent) : Grown(k)[i] = sent[i]
            /\ \A i \in 1..k : Grown(k)[Len(sent) + i] = Batch(i)
        BY <1>4
      <4>3. Append(Grown(k), b) \in Seq(Seq(Line)) /\ Len(Append(Grown(k), b)) = Len(sent) + (k + 1)
        BY <4>2, <3>2, AppendProperties
      <4>4. ASSUME NEW i \in 1..Len(sent) + (k + 1)
            PROVE  Grown(k + 1)[i] = Append(Grown(k), b)[i]
        <5>0. Len(sent) \in Nat
          OBVIOUS
        <5>1. CASE i \in 1..Len(sent)
          BY <5>0, <5>1, <4>1, <4>2, <3>2, AppendProperties
        <5>2. CASE i \in Len(sent) + 1..Len(sent) + k
          <6>1. i - Len(sent) \in 1..k /\ Len(sent) + (i - Len(sent)) = i /\ i - Len(sent) \in 1..k + 1
            BY <5>0, <5>2
          <6>2. Grown(k + 1)[i] = Batch(i - Len(sent)) /\ Grown(k)[i] = Batch(i - Len(sent))
            BY <6>1, <4>1, <4>2
          <6> QED BY <6>2, <5>0, <5>2, <4>2, <3>2, AppendProperties
        <5>3. CASE i = Len(sent) + (k + 1)
          <6>1. Grown(k + 1)[i] = Batch(k + 1)
            BY <5>3, <4>1, <3>1
          <6>2. Append(Grown(k), b)[Len(Grown(k)) + 1] = b
            BY <4>2, <3>2, AppendProperties
          <6> QED BY <6>1, <6>2, <5>3, <4>2, <5>0
        <5>4. k \in Nat
          BY <1>1
        <5>5. \/ i \in 1..Len(sent) \/ i \in Len(sent) + 1..Len(sent) + k
              \/ i = Len(sent) + (k + 1)
          BY <5>0, <5>4
        <5> QED BY <5>1, <5>2, <5>3, <5>5
      <4> QED BY <4>1, <4>3, <4>4, SeqEqual
    <3>4. FlattenSeq(Grown(k + 1)) = FlattenSeq(Grown(k)) \o b
      <4>1. Grown(k) \in Seq(Seq(Line))
        <5> HIDE DEF Grown, Batch
        <5> QED BY <1>4
      <4> HIDE DEF Grown, Batch, b
      <4> QED BY <3>2, <3>3, <4>1, FlattenAppend
    <3>5. SubSeq(all, 1, k * BatchMax) \o b = SubSeq(all, 1, (k + 1) * BatchMax)
      <4> DEFINE c == k * BatchMax
      <4>1. c \in Nat /\ c + BatchMax <= L /\ b = SubSeq(all, c + 1, c + BatchMax)
            /\ (k + 1) * BatchMax = c + BatchMax
        BY <3>1, <3>2
      <4> HIDE DEF c, b, Batch
      <4>2. 1 \in 1..Len(all) + 1 /\ c \in 1 - 1..Len(all) /\ c + BatchMax \in c..Len(all)
        BY <4>1, <1>0 DEF L
      <4>3. SubSeq(all, 1, c) \o SubSeq(all, c + 1, c + BatchMax) = SubSeq(all, 1, c + BatchMax)
        BY <4>2, <1>0, ConcatAdjacentSubSeq
      <4> QED BY <4>1, <4>3 DEF c
    <3>6. SubSeq(all, 1, k * BatchMax) \in Seq(Line)
      <4> DEFINE c == k * BatchMax
      <4>1. c \in Nat /\ c <= L
        BY <3>2, <1>0
      <4> HIDE DEF c
      <4>2. \A i \in 1..c : all[i] \in Line
        BY <4>1, <1>0
      <4>3. SubSeq(all, 1, c) \in Seq(Line)
        BY <4>1, <4>2, SubSeqProperties
      <4> QED BY <4>3 DEF c
    <3>7. (FlattenSeq(sent) \o SubSeq(all, 1, k * BatchMax)) \o b
            = FlattenSeq(sent) \o (SubSeq(all, 1, k * BatchMax) \o b)
      <4> DEFINE x == FlattenSeq(sent)
                 y == SubSeq(all, 1, k * BatchMax)
      <4>1. x \in Seq(Line) /\ y \in Seq(Line) /\ b \in Seq(Line)
        BY <2>0, <3>2, <3>6
      <4> HIDE DEF b, x, y
      <4>2. (x \o y) \o b = x \o (y \o b)
        BY <4>1
      <4> QED BY <4>2 DEF x, y
    <3>8. FlattenSeq(Grown(k)) = FlattenSeq(sent) \o SubSeq(all, 1, k * BatchMax)
      BY <2>2
    <3> HIDE DEF Grown, b, Batch
    <3> QED BY <3>1, <3>4, <3>5, <3>7, <3>8
  <2>3. \A k \in 0..full : k \in Good
    <3> HIDE DEF Good
    <3> QED BY <2>1, <2>2, <1>1, UpTo
  <2>4. full \in 0..full
    BY <1>1
  <2> HIDE DEF Grown
  <2> QED BY <2>3, <2>4
<1>6. buf' \in Seq(Line) /\ Len(buf') = L - full * BatchMax /\ Len(buf') < BatchMax
      /\ SubSeq(all, 1, full * BatchMax) \o buf' = all
      /\ SubSeq(all, 1, full * BatchMax) \in Seq(Line)
  <2> DEFINE c == full * BatchMax
  <2>1. c \in Nat /\ c <= L /\ L < c + BatchMax /\ buf' = SubSeq(all, c + 1, L)
    BY <1>0, <1>1, <1>2
  <2> HIDE DEF c
  <2>2. \A i \in c + 1..L : all[i] \in Line
    BY <2>1, <1>0
  <2>3. buf' \in Seq(Line) /\ Len(buf') = IF c + 1 <= L THEN L - (c + 1) + 1 ELSE 0
    BY <2>1, <2>2, <1>0, SubSeqProperties
  <2>4. 1 \in 1..Len(all) + 1 /\ c \in 1 - 1..Len(all) /\ L \in c..Len(all)
    BY <2>1, <1>0 DEF L
  <2>5. SubSeq(all, 1, c) \o SubSeq(all, c + 1, L) = SubSeq(all, 1, L)
    BY <2>4, <1>0, ConcatAdjacentSubSeq
  <2>6. SubSeq(all, 1, L) = all
    BY <1>0, SubSeqFull DEF L
  <2>7. \A i \in 1..c : all[i] \in Line
    BY <2>1, <1>0
  <2>8. SubSeq(all, 1, c) \in Seq(Line)
    BY <2>1, <2>7, SubSeqProperties
  <2>9. /\ buf' \in Seq(Line) /\ Len(buf') = L - c /\ Len(buf') < BatchMax
        /\ SubSeq(all, 1, c) \o buf' = all
        /\ SubSeq(all, 1, c) \in Seq(Line)
    <3>1. SubSeq(all, 1, c) \o buf' = all
      BY <2>1, <2>5, <2>6
    <3>2. Len(buf') = L - c /\ Len(buf') < BatchMax
      BY <2>1, <2>3, <1>0
    <3> QED BY <3>1, <3>2, <2>3, <2>8
  <2> QED BY <2>9 DEF c
<1>7. FlattenSeq(sent') \o buf' = (FlattenSeq(sent) \o buf) \o lines
  <2>1. FlattenSeq(sent) \in Seq(Line)
    <3>1. <<>> \in Seq(Line)
      OBVIOUS
    <3> QED BY <3>1, FlattenAppend
  <2>2. FlattenSeq(sent') = FlattenSeq(sent) \o SubSeq(all, 1, full * BatchMax)
    <3> HIDE DEF Grown
    <3> QED BY <1>2, <1>5
  <2>3. (FlattenSeq(sent) \o SubSeq(all, 1, full * BatchMax)) \o buf'
          = FlattenSeq(sent) \o (SubSeq(all, 1, full * BatchMax) \o buf')
    <3> DEFINE x == FlattenSeq(sent)
               y == SubSeq(all, 1, full * BatchMax)
    <3>1. x \in Seq(Line) /\ y \in Seq(Line) /\ buf' \in Seq(Line)
      BY <2>1, <1>6
    <3> HIDE DEF x, y
    <3>2. (x \o y) \o buf' = x \o (y \o buf')
      BY <3>1
    <3> QED BY <3>2 DEF x, y
  <2>4. FlattenSeq(sent) \o (buf \o lines) = (FlattenSeq(sent) \o buf) \o lines
    BY SMTT(30), <2>1, ConcatAssociative
  <2> QED BY <2>2, <2>3, <2>4, <1>6 DEF all
<1>8. sent' \in Seq(Seq(Line))
      /\ \A k \in DOMAIN sent' : Len(sent'[k]) = BatchMax \/ (k \in DOMAIN sent /\ sent'[k] = sent[k])
  <2>1. full \in 0..full /\ Len(sent) \in Nat
    BY <1>1
  <2> HIDE DEF Grown, Batch
  <2>2. /\ sent' \in Seq(Seq(Line)) /\ Len(sent') = Len(sent) + full
        /\ \A i \in 1..Len(sent) : sent'[i] = sent[i]
        /\ \A i \in 1..full : sent'[Len(sent) + i] = Batch(i)
    BY <2>1, <1>2, <1>4
  <2>3. ASSUME NEW k \in DOMAIN sent'
        PROVE  Len(sent'[k]) = BatchMax \/ (k \in DOMAIN sent /\ sent'[k] = sent[k])
    <3>1. k \in 1..Len(sent) + full
      BY <2>2
    <3>2. CASE k \in 1..Len(sent)
      BY <3>2, <2>2
    <3>3. CASE k \notin 1..Len(sent)
      <4>1. k - Len(sent) \in 1..full /\ Len(sent) + (k - Len(sent)) = k
        BY <3>1, <3>3, <2>1
      <4>2. sent'[k] = Batch(k - Len(sent))
        BY <4>1, <2>2
      <4> QED BY <4>1, <4>2, <1>3
    <3> QED BY <3>2, <3>3
  <2> QED BY <2>2, <2>3
<1>9. timer' = (buf' # <<>>)
  <2>1. CASE full = 0
    <3>1. full * BatchMax = 0 /\ buf' = SubSeq(all, 1, L)
      BY <2>1, <1>0, <1>2
    <3>2. buf' = all
      BY <3>1, <1>0, SubSeqFull DEF L
    <3>3. buf # <<>> => all # <<>>
      BY DEF all
    <3> QED BY <2>1, <3>2, <3>3, <1>2
  <2>2. CASE full # 0
    BY <2>2, <1>2
  <2> QED BY <2>1, <2>2
<1> QED BY <1>6, <1>7, <1>8, <1>9
-----------------------------------------------------------------------------
(* The stream *)

StreamTypeOK ==
    /\ stage \in {"reading", "waiting", "finished"}
    /\ partial \in Line /\ buf \in Seq(Line) /\ sent \in Seq(Seq(Line))
    /\ read \in Line /\ earlier \in Seq(Line)

\* The bytes carried over are the open piece of what has been read, and the
\* buffer is never full between two callbacks.
StreamIInv ==
    /\ StreamTypeOK
    /\ stage = "reading" => partial = Last(Split(read))
    /\ Len(buf) < BatchMax
    /\ StreamInv

LEMMA StreamStart == StreamInit => StreamIInv
<1> SUFFICES ASSUME StreamInit PROVE StreamIInv
  OBVIOUS
<1> USE DEF StreamInit
<1>1. StreamTypeOK
  BY DEF StreamTypeOK, Line
<1>2. Split(<<>>) = << <<>> >> /\ Last(<< <<>> >>) = <<>> /\ Front(<< <<>> >>) = <<>>
  BY SplitEmpty DEF Last, Front
<1>3. NothingLost
  BY <1>2, FlattenEmpty DEF NothingLost
<1>4. Len(buf) < BatchMax
  <2>1. Len(<<>>) = 0
    OBVIOUS
  <2> QED BY <2>1, StreamAssumption
<1>5. BatchesSound
  <2>1. timer = (buf # <<>>)
    BY Zenon
  <2> QED BY <2>1 DEF BatchesSound
<1> QED BY <1>1, <1>2, <1>3, <1>4, <1>5 DEF StreamIInv, StreamInv

\* emit_buffered with these lines.
LEMMA Emitted ==
    ASSUME StreamIInv, NEW rest \in Seq(Line), Len(rest) <= BatchMax,
           NEW s, s = IF rest = <<>> THEN sent ELSE Append(sent, rest)
    PROVE  /\ s \in Seq(Seq(Line)) /\ FlattenSeq(s) = FlattenSeq(sent) \o rest
           /\ FlattenSeq(s) \in Seq(Line)
           /\ \A k \in DOMAIN s : Len(s[k]) \in 1..BatchMax
<1>0. sent \in Seq(Seq(Line)) /\ \A k \in DOMAIN sent : Len(sent[k]) \in 1..BatchMax
  BY DEF StreamIInv, StreamTypeOK, StreamInv, BatchesSound
<1>1. FlattenSeq(sent) \in Seq(Line)
  BY <1>0, FlattenAppend
<1>2. CASE rest = <<>>
  <2>1. FlattenSeq(sent) \o <<>> = FlattenSeq(sent)
    BY <1>1
  <2> QED BY <1>0, <1>1, <1>2, <2>1
<1>3. CASE rest # <<>>
  <2>1. s \in Seq(Seq(Line)) /\ s = Append(sent, rest)
    BY <1>0, <1>3
  <2>2. FlattenSeq(s) = FlattenSeq(sent) \o rest
    BY <1>0, <2>1, FlattenAppend
  <2>3. Len(rest) \in 1..BatchMax
    BY <1>3, StreamAssumption
  <2>4. \A k \in DOMAIN s : Len(s[k]) \in 1..BatchMax
    <3>1. /\ Len(s) = Len(sent) + 1 /\ s[Len(sent) + 1] = rest
          /\ \A k \in 1..Len(sent) : s[k] = sent[k]
      BY <1>0, <2>1, AppendProperties
    <3>2. Len(sent) \in Nat /\ DOMAIN s = 1..Len(sent) + 1 /\ DOMAIN sent = 1..Len(sent)
      BY <1>0, <2>1, <3>1, LenProperties
    <3>3. ASSUME NEW k \in DOMAIN s PROVE Len(s[k]) \in 1..BatchMax
      <4>1. CASE k \in 1..Len(sent)
        BY <4>1, <1>0, <3>1, <3>2
      <4>2. CASE k = Len(sent) + 1
        BY <4>2, <2>3, <3>1
      <4> QED BY <4>1, <4>2, <3>2
    <3> QED BY <3>3
  <2>5. FlattenSeq(s) \in Seq(Line)
    BY <2>1, FlattenAppend
  <2> QED BY <2>1, <2>2, <2>4, <2>5, Zenon
<1> QED BY <1>2, <1>3

LEMMA ChunkStep ==
    ASSUME StreamIInv, NEW data \in Chunks, Chunk(data) PROVE StreamIInv'
<1> DEFINE lines == Split(partial \o data)
           done == Front(Split(read))
<1>0. /\ stage = "reading" /\ partial = Last(Split(read)) /\ timer = (buf # <<>>)
      /\ partial \in Line /\ buf \in Seq(Line) /\ sent \in Seq(Seq(Line)) /\ read \in Line
      /\ earlier \in Seq(Line) /\ NothingLost /\ BatchesSound
  BY DEF StreamIInv, StreamTypeOK, StreamInv, BatchesSound, Chunk
<1>1. data \in Line /\ partial \o data \in Line /\ read \o data \in Line
  <2>1. data \in Line
    BY DEF Chunks, Line, Byte
  <2> QED BY <2>1, <1>0 DEF Line
<1>2. lines \in Seq(Line) /\ lines # <<>>
  BY <1>1, SplitFacts DEF Pieces
<1>3. Front(lines) \in Seq(Line) /\ Last(lines) \in Line
  BY <1>2, FrontLast, Zenon
<1>4. done \in Seq(Line)
  <2>1. Split(read) \in Seq(Line) /\ Split(read) # <<>>
    BY <1>0, SplitFacts DEF Pieces
  <2> QED BY <2>1, FrontLast, Zenon
<1>5. Split(read \o data) = done \o lines
  BY <1>0, <1>1, SplitMore
<1>6. Front(done \o lines) = done \o Front(lines) /\ Last(done \o lines) = Last(lines)
  <2> HIDE DEF done, lines
  <2> QED BY <1>2, <1>4, FrontLastOfConcat, Zenon
<1> HIDE DEF done, lines
<1>7. /\ partial' = Last(lines) /\ QueueLines(Front(lines)) /\ read' = read \o data
      /\ UNCHANGED <<stage, index, status, earlier>>
  BY DEF Chunk, lines
<1>8. /\ sent' \in Seq(Seq(Line)) /\ buf' \in Seq(Line)
      /\ FlattenSeq(sent') \o buf' = (FlattenSeq(sent) \o buf) \o Front(lines)
      /\ Len(buf') < BatchMax
      /\ \A k \in DOMAIN sent' : Len(sent'[k]) = BatchMax \/ (k \in DOMAIN sent /\ sent'[k] = sent[k])
      /\ timer' = (buf' # <<>>)
  BY <1>0, <1>3, <1>7, Queued
<1>9. StreamTypeOK'
  BY <1>0, <1>1, <1>3, <1>7, <1>8 DEF StreamTypeOK
<1>10. partial' = Last(Split(read'))
  BY <1>5, <1>6, <1>7
<1>11. NothingLost'
  <2>1. FlattenSeq(sent) \o buf = earlier \o done
    BY <1>0 DEF NothingLost, done
  <2>2. (earlier \o done) \o Front(lines) = earlier \o (done \o Front(lines))
    <3> DEFINE x == Front(lines)
    <3>1. x \in Seq(Line)
      BY <1>3
    <3> HIDE DEF x
    <3>2. (earlier \o done) \o x = earlier \o (done \o x)
      BY <1>0, <1>4, <3>1
    <3> QED BY <3>2 DEF x
  <2>3. Front(Split(read')) = done \o Front(lines)
    BY <1>5, <1>6, <1>7
  <2> QED BY <1>0, <1>7, <1>8, <2>1, <2>2, <2>3 DEF NothingLost
<1>12. BatchesSound'
  BY <1>0, <1>7, <1>8, StreamAssumption DEF BatchesSound
<1> QED BY <1>8, <1>9, <1>10, <1>11, <1>12 DEF StreamIInv, StreamInv

LEMMA EofStep == ASSUME StreamIInv, Eof PROVE StreamIInv'
<1> DEFINE rest == IF partial = <<>> THEN buf ELSE Append(buf, partial)
           done == Front(Split(read))
<1>0. /\ stage = "reading" /\ partial = Last(Split(read)) /\ Len(buf) < BatchMax
      /\ partial \in Line /\ buf \in Seq(Line) /\ sent \in Seq(Seq(Line)) /\ read \in Line
      /\ earlier \in Seq(Line) /\ NothingLost
  BY DEF StreamIInv, StreamTypeOK, StreamInv, Eof
<1>1. rest \in Seq(Line) /\ Len(rest) <= BatchMax
  BY <1>0, StreamAssumption
<1>2. /\ sent' = (IF rest = <<>> THEN sent ELSE Append(sent, rest))
      /\ partial' = <<>> /\ buf' = <<>> /\ timer' = FALSE /\ stage' = "waiting"
      /\ UNCHANGED <<index, status, read, earlier>>
  BY DEF Eof
<1> HIDE DEF rest
<1>3. /\ sent' \in Seq(Seq(Line)) /\ FlattenSeq(sent') = FlattenSeq(sent) \o rest
      /\ FlattenSeq(sent') \in Seq(Line)
      /\ \A k \in DOMAIN sent' : Len(sent'[k]) \in 1..BatchMax
  BY <1>1, <1>2, Emitted
<1>4. done \in Seq(Line) /\ Split(read) = done \o <<partial>>
  <2>1. Split(read) \in Seq(Line) /\ Split(read) # <<>>
    BY <1>0, SplitFacts DEF Pieces
  <2> QED BY <2>1, <1>0, FrontLast, Zenon
<1>5. FlattenSeq(sent) \in Seq(Line) /\ FlattenSeq(sent) \o buf = earlier \o done
  BY <1>0, FlattenAppend DEF NothingLost
<1> HIDE DEF done
<1>6. FlattenSeq(sent) \o rest = earlier \o OutputLines(read)
  <2>1. CASE partial = <<>>
    <3>1. OutputLines(read) = done /\ rest = buf
      BY <2>1, <1>0 DEF OutputLines, rest, done
    <3> QED BY <3>1, <1>5
  <2>2. CASE partial # <<>>
    <3>1. OutputLines(read) = done \o <<partial>> /\ rest = Append(buf, partial)
      BY <2>2, <1>0, <1>4 DEF OutputLines, rest
    <3> DEFINE x == FlattenSeq(sent)
    <3>2. x \in Seq(Line) /\ x \o buf = earlier \o done
      BY <1>5
    <3> HIDE DEF x
    <3>3. Append(buf, partial) = buf \o <<partial>>
      BY <1>0, AppendIsConcat, Zenon
    <3>4. x \o (buf \o <<partial>>) = (x \o buf) \o <<partial>>
      <4>1. x \in Seq(Line) /\ buf \in Seq(Line) /\ <<partial>> \in Seq(Line)
        BY <3>2, <1>0
      <4> QED BY <4>1
    <3>5. (earlier \o done) \o <<partial>> = earlier \o (done \o <<partial>>)
      BY <1>0, <1>4
    <3>6. x \o rest = earlier \o OutputLines(read)
      BY <3>1, <3>2, <3>3, <3>4, <3>5
    <3> QED BY <3>6 DEF x
  <2> QED BY <2>1, <2>2
<1>7. NothingLost'
  <2> DEFINE x == FlattenSeq(sent')
  <2>1. x \in Seq(Line)
    BY <1>3
  <2> HIDE DEF x
  <2>2. x \o <<>> = x
    BY <2>1
  <2>3. x = earlier \o OutputLines(read)
    BY <1>3, <1>6 DEF x
  <2> QED BY <2>2, <2>3, <1>2 DEF NothingLost, x
<1>8. BatchesSound' /\ StreamTypeOK'
  <2>1. timer' = (buf' # <<>>)
    BY <1>2, Zenon
  <2>2. StreamTypeOK'
    BY <1>0, <1>2, <1>3 DEF StreamTypeOK, Line
  <2> QED BY <1>0, <1>2, <1>3, <2>1, <2>2 DEF BatchesSound
<1>9. Len(buf') < BatchMax
  <2>1. Len(<<>>) = 0
    OBVIOUS
  <2> QED BY <2>1, <1>2, StreamAssumption
<1> QED BY <1>2, <1>7, <1>8, <1>9 DEF StreamIInv, StreamInv

LEMMA FlushStep == ASSUME StreamIInv, Flush PROVE StreamIInv'
<1>0. /\ Len(buf) < BatchMax /\ buf \in Seq(Line) /\ NothingLost /\ BatchesSound
      /\ StreamTypeOK /\ (stage = "reading" => partial = Last(Split(read)))
  BY DEF StreamIInv, StreamTypeOK, StreamInv
<1>1. /\ sent' = (IF buf = <<>> THEN sent ELSE Append(sent, buf))
      /\ buf' = <<>> /\ timer' = FALSE
      /\ UNCHANGED <<stage, index, partial, status, read, earlier>>
  BY DEF Flush
<1>2. Len(buf) <= BatchMax
  BY <1>0, StreamAssumption
<1>3. /\ sent' \in Seq(Seq(Line)) /\ FlattenSeq(sent') = FlattenSeq(sent) \o buf
      /\ FlattenSeq(sent') \in Seq(Line)
      /\ \A k \in DOMAIN sent' : Len(sent'[k]) \in 1..BatchMax
  BY <1>0, <1>1, <1>2, Emitted
<1>4. FlattenSeq(sent') \o <<>> = FlattenSeq(sent')
  BY <1>3
<1>5. NothingLost'
  BY <1>0, <1>1, <1>3, <1>4 DEF NothingLost
<1>6. BatchesSound' /\ StreamTypeOK'
  <2>1. timer' = (buf' # <<>>)
    BY <1>1, Zenon
  <2>2. StreamTypeOK'
    BY <1>0, <1>1, <1>3 DEF StreamTypeOK, Line
  <2> QED BY <1>0, <1>1, <1>3, <2>1, <2>2 DEF BatchesSound
<1>7. Len(buf') < BatchMax
  <2>1. Len(<<>>) = 0
    OBVIOUS
  <2> QED BY <2>1, <1>1, StreamAssumption
<1> QED BY <1>0, <1>1, <1>5, <1>6, <1>7 DEF StreamIInv, StreamInv

LEMMA DoneStep == ASSUME StreamIInv, Done PROVE StreamIInv'
<1>0. /\ stage = "waiting" /\ Len(buf) < BatchMax /\ NothingLost /\ BatchesSound /\ StreamTypeOK
      /\ UNCHANGED <<buf, timer, sent>>
  BY DEF StreamIInv, StreamInv, Done
<1>1. CASE stage' = "finished" /\ UNCHANGED <<index, partial, read, earlier>>
  BY <1>0, <1>1 DEF StreamIInv, StreamInv, NothingLost, BatchesSound, StreamTypeOK
<1>2. CASE /\ stage' = "reading" /\ partial' = <<>> /\ read' = <<>>
           /\ earlier' = earlier \o OutputLines(read)
  <2>1. OutputLines(read) \in Seq(Line)
    <3>1. Split(read) \in Seq(Line) /\ Split(read) # <<>>
      BY <1>0, SplitFacts DEF Pieces, StreamTypeOK
    <3>2. Front(Split(read)) \in Seq(Line)
      BY <3>1, FrontLast, Zenon
    <3> QED BY <3>1, <3>2 DEF OutputLines
  <2>2. Split(<<>>) = << <<>> >> /\ Last(<< <<>> >>) = <<>> /\ Front(<< <<>> >>) = <<>>
    BY SplitEmpty DEF Last, Front
  <2>3. earlier' \in Seq(Line) /\ earlier' \o <<>> = earlier'
    BY <1>0, <1>2, <2>1 DEF StreamTypeOK
  <2>4. NothingLost'
    BY <1>0, <1>2, <2>2, <2>3 DEF NothingLost
  <2>5. BatchesSound' /\ StreamTypeOK'
    BY <1>0, <1>2, <2>3 DEF BatchesSound, StreamTypeOK, Line
  <2> QED BY <1>0, <1>2, <2>2, <2>4, <2>5 DEF StreamIInv, StreamInv
<1> QED BY <1>1, <1>2 DEF Done

\* Every line a pipeline's commands print arrives, whole, once and in order,
\* in batches of one to BatchMax lines, however the output is cut into chunks
\* and whenever the timer fires; a line that waits has a flush pending, and
\* none waits when the exit status is sent (_spawn_streaming and the two other
\* streamers).
THEOREM NoLineLost == StreamSpec => []StreamInv
<1>1. StreamInit => StreamIInv
  BY StreamStart
<1>2. StreamIInv /\ [StreamNext]_streamVars => StreamIInv'
  <2>1. ASSUME StreamIInv, StreamNext PROVE StreamIInv'
    BY <2>1, ChunkStep, EofStep, FlushStep, DoneStep DEF StreamNext
  <2>2. ASSUME StreamIInv, UNCHANGED streamVars PROVE StreamIInv'
    BY <2>2 DEF StreamIInv, StreamTypeOK, StreamInv, NothingLost, BatchesSound, streamVars
  <2> QED BY <2>1, <2>2
<1>3. StreamIInv => StreamInv
  BY DEF StreamIInv
<1> QED BY <1>1, <1>2, <1>3, PTL DEF StreamSpec

-----------------------------------------------------------------------------
(* STAGE3 *)


\* A request that has got past the hash check holds a tarball that passed it;
\* one that has got past the call has a root that the guard accepted.
Gated ==
    \A r \in Requests :
        /\ phase[r] \in {"gpg", "unpack", "orphaned"} => Verified(r, tarball[r])
        /\ phase[r] \in Spawned \cup {"orphaned"} => root[r] \in SafeRoots

Inv == Stage3TypeOK /\ Gated /\ OnlyVerifiedUnpacked /\ OnlySafeRoots

\* Ending a run keeps the types, and leaves nothing to be gated.
LEMMA FinishKeeps ==
    ASSUME Stage3TypeOK, NEW r \in Requests, NEW c \in {0, 1}, Finish(r, c)
    PROVE  /\ phase' \in [Requests -> Phases]
           /\ workdir' \in [Requests -> BOOLEAN]
           /\ tarball' \in [Requests -> Contents]
           /\ code' \in [Requests -> {0, 1}]
           /\ finished' \in [Requests -> Nat]
           /\ phase'[r] = "done"
           /\ \A q \in Requests : q # r => phase'[q] = phase[q] /\ tarball'[q] = tarball[q]
<1> USE DEF Stage3TypeOK, Finish
<1>1. phase' \in [Requests -> Phases] /\ phase'[r] = "done"
  BY DEF Phases
<1>2. tarball' \in [Requests -> Contents]
  BY DEF Contents
<1>3. finished' \in [Requests -> Nat]
  <2>1. finished[r] + 1 \in Nat
    OBVIOUS
  <2> QED
    BY <2>1
<1> QED
  BY <1>1, <1>2, <1>3

\* A command is spawned, or the runner is lost.
LEMMA RunFacts ==
    ASSUME Stage3TypeOK, NEW r \in Requests, NEW command \in Spawned, Run(r, command)
    PROVE  /\ phase' \in [Requests -> Phases] /\ phase'[r] \in {command, "lost"}
           /\ phase'[r] # "done" /\ phase'[r] # "orphaned"
           /\ \A q \in Requests : q # r => phase'[q] = phase[q]
BY DEF Run, Stage3TypeOK, Phases, Spawned

\* A runner's step that leaves the requests' inputs and the targets alone.
LEMMA QuietStep ==
    ASSUME Inv, UNCHANGED <<inputs, target>>, NEW r \in Requests,
           phase' \in [Requests -> Phases],
           tarball' \in [Requests -> Contents],
           \A q \in Requests : q # r => phase'[q] = phase[q] /\ tarball'[q] = tarball[q],
           phase'[r] \in {"gpg", "unpack", "orphaned"} => Verified(r, tarball'[r]),
           phase'[r] \in Spawned \cup {"orphaned"} => root[r] \in SafeRoots
    PROVE  Gated' /\ OnlyVerifiedUnpacked' /\ OnlySafeRoots'
BY DEF Inv, Gated, OnlyVerifiedUnpacked, OnlySafeRoots, Verified, Expected, inputs

\* The hash check: either the run ends, or the tarball passed.
LEMMA VerifyKeeps ==
    ASSUME Inv, NEW r \in Requests, NEW content \in Contents, NEW s \in BOOLEAN,
           root[r] \in SafeRoots, VerifyHashes(r, content, s), UNCHANGED <<inputs, target>>
    PROVE  Inv'
<1> USE DEF Inv
<1>1. CASE Finish(r, 1) /\ UNCHANGED sig
  <2>1. Stage3TypeOK'
    BY <1>1, FinishKeeps DEF Stage3TypeOK, inputs
  <2> QED
    BY <1>1, <2>1, FinishKeeps, QuietStep DEF Phases
<1>2. CASE /\ Verified(r, content)
           /\ Run(r, IF s /\ HasGpg THEN "gpg" ELSE "unpack")
           /\ sig' = [sig EXCEPT ![r] = s]
           /\ tarball' = [tarball EXCEPT ![r] = content]
           /\ UNCHANGED <<workdir, code, finished>>
  <2>0. (IF s /\ HasGpg THEN "gpg" ELSE "unpack") \in Spawned
    BY DEF Spawned
  <2>1. /\ phase' \in [Requests -> Phases] /\ tarball' \in [Requests -> Contents]
        /\ \A q \in Requests : q # r => phase'[q] = phase[q]
    BY <1>2, <2>0, RunFacts DEF Stage3TypeOK
  <2>2. Stage3TypeOK'
    BY <1>2, <2>1 DEF Stage3TypeOK, inputs
  <2>3. /\ tarball'[r] = content
        /\ \A q \in Requests : q # r => phase'[q] = phase[q] /\ tarball'[q] = tarball[q]
    BY <1>2, <2>1 DEF Stage3TypeOK
  <2> QED
    BY <1>2, <2>1, <2>2, <2>3, QuietStep
<1> QED
  BY <1>1, <1>2 DEF VerifyHashes

\* Unpacking adds the verified tarball to a root the guard accepted.
LEMMA UnpackKeeps ==
    ASSUME Inv, NEW r \in Requests, phase[r] \in {"unpack", "orphaned"}, NEW b \in BOOLEAN,
           target' = [target EXCEPT ![root[r]] = @ \cup {<<tarball[r], b>>}],
           UNCHANGED inputs
    PROVE  /\ target' \in [Roots -> SUBSET (Contents \X BOOLEAN)]
           /\ OnlyVerifiedUnpacked' /\ OnlySafeRoots'
<1> USE DEF Inv, inputs
<1>1. root[r] \in Roots /\ root[r] \in SafeRoots /\ <<tarball[r], b>> \in Contents \X BOOLEAN
  BY DEF Stage3TypeOK, Gated, Spawned
<1>2. Verified(r, tarball[r])
  BY DEF Gated
<1>3. \A x \in Roots : \A e \in target'[x] :
        e \in target[x] \/ (x = root[r] /\ e = <<tarball[r], b>>)
  BY <1>1 DEF Stage3TypeOK
<1>4. target' \in [Roots -> SUBSET (Contents \X BOOLEAN)]
  BY <1>1 DEF Stage3TypeOK
<1>5. OnlyVerifiedUnpacked'
  <2> SUFFICES ASSUME NEW x \in Roots, NEW e \in target'[x]
               PROVE  \E q \in Requests :
                        /\ root[q] = x
                        /\ Expected(q) # {}
                        /\ \A a \in Expected(q) : digests[q][a] = e[1]
    BY DEF OnlyVerifiedUnpacked, Expected
  <2>1. CASE e \in target[x]
    BY <2>1 DEF OnlyVerifiedUnpacked
  <2>2. CASE x = root[r] /\ e = <<tarball[r], b>>
    BY <1>2, <2>2 DEF Verified
  <2> QED
    BY <1>3, <2>1, <2>2
<1>6. OnlySafeRoots'
  BY <1>1, <1>3 DEF OnlySafeRoots, Stage3TypeOK
<1> QED
  BY <1>4, <1>5, <1>6

\* Every step preserves the invariant.
LEMMA StepKeeps == Inv /\ [Stage3Next]_stage3Vars => Inv'
<1> SUFFICES ASSUME Inv, [Stage3Next]_stage3Vars PROVE Inv'
  OBVIOUS
<1> USE DEF Inv
<1>1. CASE UNCHANGED stage3Vars
  BY <1>1 DEF stage3Vars, Stage3TypeOK, Gated, OnlyVerifiedUnpacked, OnlySafeRoots, Verified, Expected
<1>2. ASSUME NEW r \in Requests, Step(r) PROVE Inv'
  <2>1. CASE Unpack(r)
    <3>1. /\ phase' \in [Requests -> Phases] /\ workdir' \in [Requests -> BOOLEAN]
          /\ \A q \in Requests : q # r => phase'[q] = phase[q]
          /\ \/ phase'[r] \in {"refused", "lost"}
             \/ phase'[r] = "download" /\ root[r] \in SafeRoots
      BY <2>1 DEF Unpack, Run, Stage3TypeOK, Phases, Spawned
    <3>2. Stage3TypeOK'
      BY <2>1, <3>1 DEF Unpack, Stage3TypeOK, inputs
    <3> QED
      BY <2>1, <3>1, <3>2, QuietStep DEF Unpack, Stage3TypeOK, Spawned
  <2>2. CASE AfterDownload(r)
    <3>1. root[r] \in SafeRoots
      BY <2>2 DEF AfterDownload, Gated, Spawned
    <3>2. PICK c \in {0, 1}, content \in Contents :
            \/ Finish(r, 1) /\ UNCHANGED sig
            \/ /\ Run(r, "sig")
               /\ tarball' = [tarball EXCEPT ![r] = content]
               /\ UNCHANGED <<sig, workdir, code, finished>>
            \/ VerifyHashes(r, content, FALSE)
      BY <2>2 DEF AfterDownload
    <3>3. UNCHANGED <<inputs, target>>
      BY <2>2 DEF AfterDownload
    <3>4. CASE Finish(r, 1) /\ UNCHANGED sig
      <4>1. Stage3TypeOK'
        BY <3>3, <3>4, FinishKeeps DEF Stage3TypeOK, inputs
      <4> QED
        BY <3>3, <3>4, <4>1, FinishKeeps, QuietStep DEF Phases, Spawned
    <3>5. CASE /\ Run(r, "sig")
               /\ tarball' = [tarball EXCEPT ![r] = content]
               /\ UNCHANGED <<sig, workdir, code, finished>>
      <4>1. phase' \in [Requests -> Phases] /\ tarball' \in [Requests -> Contents]
        BY <3>5, RunFacts DEF Stage3TypeOK, Spawned
      <4>2. Stage3TypeOK'
        BY <3>3, <3>5, <4>1 DEF Stage3TypeOK, inputs
      <4>3. /\ phase'[r] \in {"sig", "lost"}
            /\ \A q \in Requests : q # r => phase'[q] = phase[q] /\ tarball'[q] = tarball[q]
        BY <3>5, RunFacts DEF Stage3TypeOK, Spawned
      <4> QED
        BY <3>1, <3>3, <4>1, <4>2, <4>3, QuietStep
    <3>6. CASE VerifyHashes(r, content, FALSE)
      BY <3>1, <3>3, <3>6, VerifyKeeps
    <3> QED
      BY <3>2, <3>4, <3>5, <3>6
  <2>3. CASE AfterSig(r)
    <3>1. root[r] \in SafeRoots /\ tarball[r] \in Contents /\ UNCHANGED <<inputs, target>>
      BY <2>3 DEF AfterSig, Gated, Stage3TypeOK, Spawned
    <3>2. PICK s \in BOOLEAN : VerifyHashes(r, tarball[r], s)
      BY <2>3 DEF AfterSig
    <3> QED
      BY <3>1, <3>2, VerifyKeeps
  <2>4. CASE AfterGpg(r)
    <3>1. /\ phase' \in [Requests -> Phases] /\ phase'[r] \in {"unpack", "lost"}
          /\ \A q \in Requests : q # r => phase'[q] = phase[q]
      BY <2>4, RunFacts DEF AfterGpg, Spawned
    <3>2. Stage3TypeOK'
      BY <2>4, <3>1 DEF AfterGpg, Stage3TypeOK, inputs
    <3>3. Verified(r, tarball[r]) /\ root[r] \in SafeRoots
      BY <2>4 DEF AfterGpg, Gated, Spawned
    <3> QED
      BY <2>4, <3>1, <3>2, <3>3, QuietStep DEF AfterGpg, Stage3TypeOK
  <2>5. CASE Extract(r)
    <3>1. /\ target' \in [Roots -> SUBSET (Contents \X BOOLEAN)]
          /\ OnlyVerifiedUnpacked' /\ OnlySafeRoots'
      BY <2>5, UnpackKeeps DEF Extract
    <3>2. Stage3TypeOK'
      BY <2>5, <3>1 DEF Extract, Stage3TypeOK, inputs
    <3>3. Gated'
      BY <2>5 DEF Extract, Gated, Verified, Expected, inputs
    <3> QED
      BY <3>1, <3>2, <3>3
  <2>6. CASE AfterUnpack(r)
    <3>1. PICK c \in {0, 1} :
            /\ target' = [target EXCEPT ![root[r]] = @ \cup {<<tarball[r], c = 0>>}]
            /\ Finish(r, c)
      BY <2>6 DEF AfterUnpack
    <3>2. /\ target' \in [Roots -> SUBSET (Contents \X BOOLEAN)]
          /\ OnlyVerifiedUnpacked' /\ OnlySafeRoots'
      <4>1. (c = 0) \in BOOLEAN /\ phase[r] = "unpack" /\ UNCHANGED inputs
        BY <2>6 DEF AfterUnpack
      <4> QED
        BY <3>1, <4>1, UnpackKeeps
    <3>3. Stage3TypeOK'
      BY <2>6, <3>1, <3>2, FinishKeeps DEF AfterUnpack, Stage3TypeOK, inputs
    <3>4. Gated'
      BY <2>6, <3>1, FinishKeeps DEF AfterUnpack, Gated, Spawned, Verified, Expected,
                                     inputs
    <3> QED
      BY <3>2, <3>3, <3>4
  <2> QED
    BY <1>2, <2>1, <2>2, <2>3, <2>4, <2>5, <2>6 DEF Step
<1>3. CASE ServiceExits
  <2>1. /\ UNCHANGED <<inputs, tarball, sig, workdir, code, finished, target>>
        /\ phase' \in [Requests -> Phases]
        /\ \A r \in Requests : /\ phase'[r] = "orphaned" => phase[r] \in {"unpack", "orphaned"}
                              /\ phase'[r] \notin Spawned
    BY <1>3 DEF ServiceExits, Stage3TypeOK, Phases, Spawned
  <2>2. Stage3TypeOK'
    BY <2>1 DEF Stage3TypeOK, inputs
  <2>3. Gated'
    BY <2>1 DEF Gated, Verified, Expected, inputs, Spawned
  <2> QED
    BY <2>1, <2>2, <2>3 DEF OnlyVerifiedUnpacked, OnlySafeRoots, Expected, inputs
<1> QED
  BY <1>1, <1>2, <1>3 DEF Stage3Next

\* What the end of a run says: success only with the whole verified tarball in
\* the root, and no work directory left.
Ended == SuccessMeansUnpacked /\ NoLeftovers

\* A run that ends in one step says the truth when the others keep what they
\* have said and the targets only grow.
LEMMA EndsTruly ==
    ASSUME Stage3TypeOK, Ended, NEW r \in Requests, UNCHANGED inputs,
           \A x \in Roots : target[x] \subseteq target'[x],
           \A q \in Requests : q # r =>
               /\ phase'[q] = phase[q]
               /\ code'[q] = code[q]
               /\ workdir'[q] = workdir[q],
           \/ phase'[r] # "done"
           \/ /\ ~workdir'[r]
              /\ \/ code'[r] = 1
                 \/ \E e \in target'[root[r]] : e[2] /\ Verified(r, e[1])
    PROVE  Ended'
<1> USE DEF Ended, inputs
<1>1. \A q \in Requests : root[q] \in Roots
  BY DEF Stage3TypeOK
<1>2. NoLeftovers'
  BY DEF NoLeftovers
<1>3. ASSUME NEW q \in Requests, phase'[q] = "done", code'[q] = 0
      PROVE  \E e \in target'[root'[q]] : e[2] /\ Verified(q, e[1])'
  <2>1. \A e : Verified(q, e)' = Verified(q, e)
    BY DEF Verified, Expected
  <2>2. CASE q = r
    BY <1>3, <2>1, <2>2
  <2>3. CASE q # r
    <3>1. PICK e \in target[root[q]] : e[2] /\ Verified(q, e[1])
      BY <1>3, <2>3 DEF SuccessMeansUnpacked
    <3> QED
      BY <1>1, <2>1, <3>1
  <2> QED
    BY <2>2, <2>3
<1>4. SuccessMeansUnpacked'
  BY <1>3 DEF SuccessMeansUnpacked, Verified, Expected
<1> QED
  BY <1>2, <1>4

\* A run that ends with an error code.
LEMMA FailsTruly ==
    ASSUME Stage3TypeOK, Ended, NEW r \in Requests, UNCHANGED inputs,
           Finish(r, 1), UNCHANGED target
    PROVE  Ended'
BY EndsTruly DEF Finish, Stage3TypeOK

\* Every step keeps what the ends of the runs have said.
LEMMA EndedKeeps == Inv /\ Ended /\ [Stage3Next]_stage3Vars => Ended'
<1> SUFFICES ASSUME Inv, Ended, [Stage3Next]_stage3Vars PROVE Ended'
  OBVIOUS
<1>0. Stage3TypeOK /\ Gated
  BY DEF Inv
<1>1. CASE UNCHANGED stage3Vars
  BY <1>1 DEF stage3Vars, Ended, SuccessMeansUnpacked, NoLeftovers, Verified, Expected
<1>2. ASSUME NEW r \in Requests, Step(r) PROVE Ended'
  <2>a. ASSUME NEW c \in Contents, NEW s \in BOOLEAN, VerifyHashes(r, c, s),
               UNCHANGED <<inputs, target>>
        PROVE  Ended'
    <3>1. CASE Finish(r, 1)
      BY <1>0, <2>a, <3>1, FailsTruly
    <3>2. CASE /\ Run(r, IF s /\ HasGpg THEN "gpg" ELSE "unpack")
               /\ UNCHANGED <<workdir, code>>
      <4>0. (IF s /\ HasGpg THEN "gpg" ELSE "unpack") \in Spawned
        BY DEF Spawned
      <4>1. /\ phase'[r] # "done"
            /\ \A q \in Requests : q # r => phase'[q] = phase[q]
        BY <1>0, <3>2, <4>0, RunFacts
      <4> QED
        BY <1>0, <2>a, <3>2, <4>1, EndsTruly
    <3> QED
      BY <2>a, <3>1, <3>2 DEF VerifyHashes
  <2>1. CASE Unpack(r)
    <3>1. /\ phase'[r] # "done"
          /\ \A q \in Requests : q # r =>
                phase'[q] = phase[q] /\ workdir'[q] = workdir[q]
          /\ UNCHANGED <<inputs, code, target>>
      BY <1>0, <2>1 DEF Unpack, Run, Stage3TypeOK
    <3> QED
      BY <1>0, <3>1, EndsTruly
  <2>2. CASE AfterDownload(r)
    <3>1. PICK content \in Contents :
            \/ Finish(r, 1)
            \/ Run(r, "sig") /\ UNCHANGED <<workdir, code>>
            \/ VerifyHashes(r, content, FALSE)
      BY <2>2 DEF AfterDownload
    <3>2. UNCHANGED <<inputs, target>>
      BY <2>2 DEF AfterDownload
    <3>3. CASE Finish(r, 1)
      BY <1>0, <3>2, <3>3, FailsTruly
    <3>4. CASE Run(r, "sig") /\ UNCHANGED <<workdir, code>>
      <4>1. /\ phase'[r] # "done"
            /\ \A q \in Requests : q # r => phase'[q] = phase[q]
        BY <1>0, <3>4, RunFacts DEF Spawned
      <4> QED
        BY <1>0, <3>2, <3>4, <4>1, EndsTruly
    <3>5. CASE VerifyHashes(r, content, FALSE)
      BY <2>a, <3>2, <3>5
    <3> QED
      BY <3>1, <3>3, <3>4, <3>5
  <2>3. CASE AfterSig(r)
    <3>1. tarball[r] \in Contents /\ UNCHANGED <<inputs, target>>
      BY <1>0, <2>3 DEF AfterSig, Stage3TypeOK
    <3>2. PICK s \in BOOLEAN : VerifyHashes(r, tarball[r], s)
      BY <2>3 DEF AfterSig
    <3> QED
      BY <2>a, <3>1, <3>2
  <2>4. CASE AfterGpg(r)
    <3>1. /\ phase'[r] # "done"
          /\ \A q \in Requests : q # r => phase'[q] = phase[q]
          /\ UNCHANGED <<inputs, workdir, code, target>>
      BY <1>0, <2>4, RunFacts DEF AfterGpg, Spawned
    <3> QED
      BY <1>0, <3>1, EndsTruly
  <2>5. CASE Extract(r)
    <3>1. /\ \A x \in Roots : target[x] \subseteq target'[x]
          /\ phase'[r] # "done"
          /\ UNCHANGED <<inputs, phase, workdir, code>>
      BY <1>0, <2>5 DEF Extract, Stage3TypeOK
    <3> QED
      BY <1>0, <3>1, EndsTruly
  <2>6. CASE AfterUnpack(r)
    <3>1. PICK c \in {0, 1} :
            /\ target' = [target EXCEPT ![root[r]] = @ \cup {<<tarball[r], c = 0>>}]
            /\ Finish(r, c)
      BY <2>6 DEF AfterUnpack
    <3>2. Verified(r, tarball[r]) /\ root[r] \in Roots /\ UNCHANGED inputs
      BY <1>0, <2>6 DEF AfterUnpack, Gated, Stage3TypeOK
    <3>3. /\ \A x \in Roots : target[x] \subseteq target'[x]
          /\ <<tarball[r], c = 0>> \in target'[root[r]]
      BY <1>0, <3>1, <3>2 DEF Stage3TypeOK
    <3>4. /\ ~workdir'[r] /\ code'[r] = c
          /\ \A q \in Requests : q # r =>
               /\ phase'[q] = phase[q]
               /\ code'[q] = code[q]
               /\ workdir'[q] = workdir[q]
      BY <1>0, <3>1 DEF Finish, Stage3TypeOK
    <3>5. c = 1 \/ \E e \in target'[root[r]] : e[2] /\ Verified(r, e[1])
      <4>1. CASE c = 0
        <5> DEFINE e == <<tarball[r], c = 0>>
        <5>1. e \in target'[root[r]] /\ e[2] /\ e[1] = tarball[r]
          BY <3>3, <4>1
        <5> QED
          BY <3>2, <5>1
      <4> QED
        BY <4>1
    <3> QED
      BY <1>0, <3>2, <3>3, <3>4, <3>5, EndsTruly
  <2> QED
    BY <1>2, <2>1, <2>2, <2>3, <2>4, <2>5, <2>6 DEF Step
<1>3. CASE ServiceExits
  <2>1. /\ \A r \in Requests : phase'[r] = "done" => phase[r] = "done"
        /\ UNCHANGED <<inputs, workdir, code, target>>
    BY <1>0, <1>3 DEF ServiceExits, Stage3TypeOK
  <2> QED
    BY <2>1 DEF Ended, SuccessMeansUnpacked, NoLeftovers, Verified, Expected, inputs
<1> QED
  BY <1>1, <1>2, <1>3 DEF Stage3Next

\* The initial states satisfy the invariant.
LEMMA InitKeeps == Stage3Init => Inv /\ Ended
<1> SUFFICES ASSUME Stage3Init PROVE Inv /\ Ended
  OBVIOUS
<1> USE DEF Stage3Init
<1>1. Stage3TypeOK
  BY DEF Stage3TypeOK, Phases, Contents
<1>2. Gated /\ OnlyVerifiedUnpacked /\ OnlySafeRoots
  BY DEF Gated, OnlyVerifiedUnpacked, OnlySafeRoots, Spawned
<1>3. Ended
  BY DEF Ended, SuccessMeansUnpacked, NoLeftovers
<1> QED
  BY <1>1, <1>2, <1>3 DEF Inv

\* Whatever is unpacked into a root has passed the mandatory hash check of a
\* request for that root.
THEOREM VerifiedBeforeUnpack == Stage3Spec => []OnlyVerifiedUnpacked
<1>1. Inv => OnlyVerifiedUnpacked
  BY DEF Inv
<1> QED
  BY InitKeeps, StepKeeps, <1>1, PTL DEF Stage3Spec

\* A root that mount.guard_target_root refuses is never written, an exit code
\* of 0 means that the whole verified tarball is in the root that was asked
\* for, and a run that has announced its end leaves no work directory there.
THEOREM EndsTrue == Stage3Spec => []Stage3Inv
<1>1. Inv /\ Ended => Stage3Inv
  BY DEF Inv, Ended, Stage3Inv
<1> QED
  BY InitKeeps, StepKeeps, EndedKeeps, <1>1, PTL DEF Stage3Spec

-----------------------------------------------------------------------------
(* KEYRING *)


Partial(S, T) == UNION {[D -> T] : D \in SUBSET S}

ItemType == [col : Nat, attrs : Attrs, value : Values]

Vaults == [pass : Passphrases,
           cols : Partial(Nat, SUBSET Aliases),
           items : Partial(Nat, ItemType)]

Types ==
    /\ file \in Vaults \cup {NoVault}
    /\ mem \in [Procs -> Vaults \cup {NoVault}]
    /\ creating \subseteq Ctls
    /\ removing \in Nat \cup {None}
    /\ cols \in Nat
    /\ items \in Nat
    /\ owed = [k \in DOMAIN owed |-> owed[k]]
    /\ DOMAIN owed \subseteq Keys

\* One process at a time has the vault open.
OneOpen == \A p, q \in Procs : mem[p] # NoVault /\ mem[q] # NoVault => p = q

\* The objects of a vault.
Has(v) == {Pass} \cup {Col(c) : c \in DOMAIN v.cols} \cup {Item(i) : i \in DOMAIN v.items}

Sound(v) == v # NoVault => Has(v) \subseteq DOMAIN owed /\ Keeps(v, DOMAIN owed)

Unborn == file = NoVault => \A k \in DOMAIN owed : None \in owed[k]

Fresh ==
    \A p \in creating : file = NoVault /\ mem[p] # NoVault /\ DOMAIN mem[p].items = {}

IInv ==
    /\ Types
    /\ OneOpen
    /\ Sound(file)
    /\ \A p \in Procs \ creating : Sound(mem[p])
    /\ Unborn
    /\ Fresh

-----------------------------------------------------------------------------
LEMMA StateFacts ==
    ASSUME NEW v
    PROVE  /\ State(v, Pass) = v.pass
           /\ \A c : State(v, Col(c)) = IF c \in DOMAIN v.cols THEN v.cols[c] ELSE None
           /\ \A i : State(v, Item(i)) = IF i \in DOMAIN v.items THEN v.items[i].value ELSE None
  <1>1. State(v, Pass) = v.pass
    BY DEF State, Pass
  <1>2. ASSUME NEW c PROVE State(v, Col(c)) = IF c \in DOMAIN v.cols THEN v.cols[c] ELSE None
    BY DEF State, Col
  <1>3. ASSUME NEW i PROVE State(v, Item(i)) = IF i \in DOMAIN v.items THEN v.items[i].value ELSE None
    BY DEF State, Item
  <1> QED BY <1>1, <1>2, <1>3

LEMMA VaultIsOpen ==
    ASSUME NEW v \in Vaults
    PROVE  v # NoVault
  BY KeyringAssumption DEF Vaults, NoVault, EmptyVault

LEMMA KeysDiffer ==
    /\ \A c : Col(c) # Pass
    /\ \A i : Item(i) # Pass
    /\ \A c, i : Col(c) # Item(i)
    /\ \A c, d : Col(c) = Col(d) => c = d
    /\ \A i, j : Item(i) = Item(j) => i = j
  BY DEF Col, Item, Pass

\* Saving a copy v of the vault that differs from what is owed only in the
\* objects named by changed keeps the invariant, however the save ends.
LEMMA CommitSound ==
    ASSUME Alone, IInv,
           NEW p \in Procs, NEW v \in Vaults, NEW objects,
           NEW changed \in SUBSET Keys,
           mem[p] # NoVault,
           Has(v) \subseteq DOMAIN owed \cup changed,
           Pass \in DOMAIN owed \cup changed,
           \A k \in DOMAIN owed \ changed : State(v, k) \in owed[k],
           Commit(p, v, objects, changed),
           creating' = creating \ {p},
           cols' \in Nat, items' \in Nat, removing' \in Nat \cup {None}
    PROVE  IInv'
  <1> DEFINE promise == [k \in changed |-> {State(v, k)}]
             doubt == [k \in changed |->
                         promise[k] \cup (IF k \in DOMAIN owed THEN owed[k] ELSE {None})]
  <1>a. v # NoVault
    BY VaultIsOpen
  <1>b. \A q \in Procs : q # p => mem[q] = NoVault
    BY DEF IInv, OneOpen
  <1>c. \A q \in creating : q = p
    BY <1>b DEF IInv, Fresh, Types, Procs
  <1>d. creating' \subseteq Ctls /\ p \notin creating'
    BY <1>c DEF IInv, Types
  <1>e. creating' = {}
    BY <1>c, <1>d
  <1>1. CASE /\ file' = v
             /\ mem' = [mem EXCEPT ![p] = IF p = Daemon THEN v ELSE NoVault]
             /\ owed' = Updated(owed, promise)
    <2>1. DOMAIN owed' = DOMAIN owed \cup changed
      BY <1>1 DEF Updated
    <2>2. \A k \in DOMAIN owed' : State(v, k) \in owed'[k]
      <3> SUFFICES ASSUME NEW k \in DOMAIN owed' PROVE State(v, k) \in owed'[k]
        OBVIOUS
      <3>1. CASE k \in changed
        <4>1. owed'[k] = promise[k]
          BY <1>1, <3>1 DEF Updated
        <4> QED BY <4>1, <3>1
      <3>2. CASE k \notin changed
        <4>1. owed'[k] = owed[k]
          BY <1>1, <2>1, <3>2 DEF Updated
        <4> QED BY <4>1, <3>2, <2>1
      <3> QED BY <3>1, <3>2
    <2>3. Has(v) \subseteq DOMAIN owed'
      BY <2>1
    <2>4. Types'
      BY <1>1, <1>d, <2>1  DEF Updated, IInv, Types
    <2>5. OneOpen'
      BY <1>1, <1>b DEF IInv, Types, OneOpen
    <2>6. Sound(file)'
      BY <1>1, <2>1, <2>2, <2>3 DEF Sound, Keeps, Has
    <2>7. \A q \in Procs : Sound(mem[q])'
      <3> SUFFICES ASSUME NEW q \in Procs, mem'[q] # NoVault PROVE Sound(mem[q])'
        BY DEF Sound
      <3>1. mem'[q] = v
        BY <1>1, <1>b DEF IInv, Types
      <3> QED BY <3>1, <2>1, <2>2, <2>3 DEF Sound, Keeps, Has
    <2>8. Unborn' /\ Fresh'
      BY <1>1, <1>a, <1>e DEF Unborn, Fresh
    <2> QED BY <2>4, <2>5, <2>6, <2>7, <2>8 DEF IInv
  <1>2. CASE /\ file' \in {file, v}
             /\ mem' \in {[mem EXCEPT ![p] = IF p = Daemon THEN v ELSE NoVault], [mem EXCEPT ![p] = NoVault]}
             /\ owed' = Updated(owed, doubt)
    <2>1. DOMAIN owed' = DOMAIN owed \cup changed
      BY <1>2 DEF Updated
    <2>2. ASSUME NEW k \in DOMAIN owed'
          PROVE  /\ State(v, k) \in owed'[k]
                 /\ k \in DOMAIN owed => owed[k] \subseteq owed'[k]
                 /\ k \notin DOMAIN owed => None \in owed'[k]
      <3>1. CASE k \in changed
        <4>1. owed'[k] = doubt[k]
          BY <1>2, <3>1 DEF Updated
        <4>2. doubt[k] = {State(v, k)} \cup (IF k \in DOMAIN owed THEN owed[k] ELSE {None})
          BY <3>1
        <4> HIDE DEF doubt, promise
        <4> QED BY <4>1, <4>2, <3>1
      <3>2. CASE k \notin changed
        <4>1. owed'[k] = owed[k]
          BY <1>2, <2>1, <3>2 DEF Updated
        <4> QED BY <4>1, <3>2, <2>1
      <3> QED BY <3>1, <3>2
    <2>3. Has(v) \subseteq DOMAIN owed'
      BY <2>1
    <2>4. Types'
      BY <1>2, <1>d, <2>1  DEF Updated, IInv, Types
    <2>5. OneOpen'
      BY <1>2, <1>b DEF IInv, Types, OneOpen
    <2>6. file # NoVault => \A k \in DOMAIN owed' : State(file, k) \in owed'[k]
      <3> SUFFICES ASSUME file # NoVault, NEW k \in DOMAIN owed' PROVE State(file, k) \in owed'[k]
        OBVIOUS
      <3>1. CASE k \in DOMAIN owed
        BY <3>1, <2>2 DEF IInv, Sound, Keeps
      <3>2. CASE k \notin DOMAIN owed
        <4>1. k \in Keys /\ k \notin Has(file)
          BY <3>2, <2>1 DEF IInv, Sound, Types
        <4>2. State(file, k) = None
          <5>1. k # Pass
            BY <4>1 DEF Has
          <5>2. PICK n \in Nat : k = Col(n) \/ k = Item(n)
            BY <4>1, <5>1 DEF Keys
          <5>3. CASE k = Col(n)
            BY <5>3, <4>1, StateFacts DEF Has
          <5>4. CASE k = Item(n)
            BY <5>4, <4>1, StateFacts DEF Has
          <5> QED BY <5>2, <5>3, <5>4
        <4> QED BY <4>2, <3>2, <2>2
      <3> QED BY <3>1, <3>2
    <2>7. Sound(file)'
      <3>1. CASE file' = v
        BY <3>1, <2>1, <2>2, <2>3 DEF Sound, Keeps, Has
      <3>2. CASE file' = file
        BY <3>2, <2>1, <2>6 DEF Sound, Keeps, Has, IInv
      <3> QED BY <1>2, <3>1, <3>2
    <2>8. \A q \in Procs : Sound(mem[q])'
      <3> SUFFICES ASSUME NEW q \in Procs, mem'[q] # NoVault PROVE Sound(mem[q])'
        BY DEF Sound
      <3>1. mem'[q] = v
        BY <1>2, <1>b DEF IInv, Types
      <3> QED BY <3>1, <2>1, <2>2, <2>3 DEF Sound, Keeps, Has
    <2>9. Unborn'
      BY <1>2, <1>a, <2>1, <2>2 DEF Unborn, IInv
    <2>10. Fresh'
      BY <1>e DEF Fresh
    <2> QED BY <2>4, <2>5, <2>7, <2>8, <2>9, <2>10 DEF IInv
  <1> QED BY <1>1, <1>2 DEF Commit

-----------------------------------------------------------------------------
\* w differs from v at most in the objects K.
Differs(v, w, K) ==
    /\ w \in Vaults
    /\ Has(w) \subseteq Has(v) \cup K
    /\ \A k \in Keys \ K : State(w, k) = State(v, k)

LEMMA MinIn ==
    ASSUME NEW S \in SUBSET Nat, S # {}
    PROVE  Min(S) \in S
  <1> DEFINE R == OpToRel(<, Nat)
  <1>1. IsWellFoundedOn(R, Nat)
    BY NatLessThanWellFounded
  <1>2. \A x, y \in Nat : y < x => <<y, x>> \in R
    BY DEF OpToRel
  <1> HIDE DEF R
  <1>3. \E x \in S : \A y \in S : ~ (<<y, x>> \in R)
    BY <1>1, WFMin
  <1>4. PICK x \in S : \A y \in S : ~ (<<y, x>> \in R)
    BY <1>3
  <1>5. ASSUME NEW y \in S PROVE x =< y
    <2>1. x \in Nat /\ y \in Nat /\ ~(y < x)
      BY <1>2, <1>4
    <2> QED BY <2>1
  <1> QED BY <1>4, <1>5 DEF Min

LEMMA PartialFacts ==
    ASSUME NEW S, NEW T, NEW f \in Partial(S, T)
    PROVE  /\ DOMAIN f \in SUBSET S
           /\ f \in [DOMAIN f -> T]
           /\ \A x \in DOMAIN f : f[x] \in T
  BY DEF Partial

LEMMA PartialUpdated ==
    ASSUME NEW S, NEW T, NEW f \in Partial(S, T), NEW x \in S, NEW t \in T
    PROVE  Updated(f, [y \in {x} |-> t]) \in Partial(S, T)
  <1>1. Updated(f, [y \in {x} |-> t]) \in [DOMAIN f \cup {x} -> T]
    BY PartialFacts DEF Updated
  <1>2. DOMAIN f \cup {x} \in SUBSET S
    BY PartialFacts
  <1> QED BY <1>1, <1>2 DEF Partial

\* Two vaults with the same state outside K, shown part by part.
LEMMA DiffersByParts ==
    ASSUME NEW v \in Vaults, NEW w \in Vaults, NEW K,
           w.pass = v.pass \/ Pass \in K,
           \A c \in Nat : Col(c) \notin K =>
               /\ c \in DOMAIN w.cols <=> c \in DOMAIN v.cols
               /\ c \in DOMAIN v.cols => w.cols[c] = v.cols[c],
           \A i \in Nat : Item(i) \notin K =>
               /\ i \in DOMAIN w.items <=> i \in DOMAIN v.items
               /\ i \in DOMAIN v.items => w.items[i].value = v.items[i].value
    PROVE  Differs(v, w, K)
  <1>1. DOMAIN w.cols \subseteq Nat /\ DOMAIN w.items \subseteq Nat
    BY DEF Vaults, Partial
  <1>2. Has(w) \subseteq Has(v) \cup K
    BY <1>1 DEF Has
  <1>3. ASSUME NEW k \in Keys \ K PROVE State(w, k) = State(v, k)
    <2>1. CASE k = Pass
      BY <2>1, <1>3, StateFacts
    <2>2. CASE \E c \in Nat : k = Col(c)
      <3>1. PICK c \in Nat : k = Col(c)
        BY <2>2
      <3>2. Col(c) \notin K
        BY <3>1
      <3> QED BY <3>1, <3>2, StateFacts
    <2>3. CASE \E i \in Nat : k = Item(i)
      <3>1. PICK i \in Nat : k = Item(i)
        BY <2>3
      <3>2. Item(i) \notin K
        BY <3>1
      <3> QED BY <3>1, <3>2, StateFacts
    <2> QED BY <2>1, <2>2, <2>3 DEF Keys
  <1> QED BY <1>2, <1>3 DEF Differs

LEMMA AddCollectionDiffers ==
    ASSUME NEW v \in Vaults, NEW c \in Nat, NEW names \in SUBSET Aliases
    PROVE  Differs(v, AddCollection(v, c, names), {Col(c)})
  <1> DEFINE w == AddCollection(v, c, names)
  <1>1. w.pass = v.pass /\ w.items = v.items
    BY DEF AddCollection, Vaults
  <1>2. w.cols = Updated(v.cols, [x \in {c} |-> names])
    BY DEF AddCollection, Vaults
  <1>3. w \in Vaults
    BY DEF AddCollection, Vaults, Partial, Updated
  <1>4. \A d \in Nat : d # c =>
            /\ d \in DOMAIN w.cols <=> d \in DOMAIN v.cols
            /\ d \in DOMAIN v.cols => w.cols[d] = v.cols[d]
    BY <1>2 DEF Updated
  <1> HIDE DEF w
  <1>5. Differs(v, w, {Col(c)})
    BY <1>1, <1>3, <1>4, DiffersByParts, KeysDiffer
  <1> QED BY <1>5 DEF w

LEMMA AddItemDiffers ==
    ASSUME NEW v \in Vaults, NEW i \in Nat, NEW c \in Nat,
           NEW attrs \in Attrs, NEW value \in Values
    PROVE  Differs(v, AddItem(v, i, c, attrs, value), {Item(i)})
  <1> DEFINE w == AddItem(v, i, c, attrs, value)
             new == [col |-> c, attrs |-> attrs, value |-> value]
  <1>1. w.pass = v.pass /\ w.cols = v.cols
    BY DEF AddItem, Vaults
  <1>2. w.items = Updated(v.items, [x \in {i} |-> new])
    BY DEF AddItem, Vaults
  <1>3. w \in Vaults
    <2>1. new \in ItemType
      BY DEF ItemType
    <2> HIDE DEF new
    <2>2. Updated(v.items, [x \in {i} |-> new])
            \in Partial(Nat, ItemType)
      BY <2>1, PartialUpdated DEF Vaults
    <2> QED BY <2>2 DEF AddItem, Vaults, new
  <1>4. \A j \in Nat : j # i =>
            /\ j \in DOMAIN w.items <=> j \in DOMAIN v.items
            /\ j \in DOMAIN v.items => w.items[j] = v.items[j]
    BY <1>2 DEF Updated
  <1> HIDE DEF w
  <1>5. Differs(v, w, {Item(i)})
    BY <1>1, <1>3, <1>4, DiffersByParts, KeysDiffer
  <1> QED BY <1>5 DEF w

LEMMA RemoveItemsDiffers ==
    ASSUME NEW v \in Vaults, NEW i \in Nat
    PROVE  Differs(v, RemoveItems(v, {i}), {Item(i)})
  <1> DEFINE w == RemoveItems(v, {i})
  <1>1. w.pass = v.pass /\ w.cols = v.cols
    BY DEF RemoveItems, Vaults
  <1>2. w.items = Without(v.items, {i})
    BY DEF RemoveItems, Vaults
  <1>3. w \in Vaults
    BY DEF RemoveItems, Vaults, Partial, Without
  <1>4. \A j \in Nat : j # i =>
            /\ j \in DOMAIN w.items <=> j \in DOMAIN v.items
            /\ j \in DOMAIN v.items => w.items[j] = v.items[j]
    BY <1>2 DEF Without
  <1> HIDE DEF w
  <1>5. Differs(v, w, {Item(i)})
    BY <1>1, <1>3, <1>4, DiffersByParts, KeysDiffer
  <1> QED BY <1>5 DEF w

LEMMA RemoveColDiffers ==
    ASSUME NEW v \in Vaults, NEW c \in Nat
    PROVE  Differs(v, [v EXCEPT !.cols = Without(@, {c})], {Col(c)})
  <1> DEFINE w == [v EXCEPT !.cols = Without(@, {c})]
  <1>1. w.pass = v.pass /\ w.items = v.items
    BY DEF Vaults
  <1>2. w.cols = Without(v.cols, {c})
    BY DEF Vaults
  <1>3. w \in Vaults
    BY DEF Vaults, Partial, Without
  <1>4. \A d \in Nat : d # c =>
            /\ d \in DOMAIN w.cols <=> d \in DOMAIN v.cols
            /\ d \in DOMAIN v.cols => w.cols[d] = v.cols[d]
    BY <1>2 DEF Without
  <1> HIDE DEF w
  <1>5. Differs(v, w, {Col(c)})
    BY <1>1, <1>3, <1>4, DiffersByParts, KeysDiffer
  <1> QED BY <1>5 DEF w

LEMMA AliasDiffers ==
    ASSUME NEW v \in Vaults, NEW c \in DOMAIN v.cols, NEW name \in Aliases
    PROVE  Differs(v, [v EXCEPT !.cols[c] = @ \cup {name}], {Col(c)})
  <1> DEFINE w == [v EXCEPT !.cols[c] = @ \cup {name}]
  <1>0. c \in Nat
    BY DEF Vaults, Partial
  <1>1. w.pass = v.pass /\ w.items = v.items
    BY DEF Vaults
  <1>2. w.cols = [v.cols EXCEPT ![c] = @ \cup {name}]
    BY DEF Vaults
  <1>3. w \in Vaults
    BY DEF Vaults, Partial
  <1>4. \A d \in Nat : d # c =>
            /\ d \in DOMAIN w.cols <=> d \in DOMAIN v.cols
            /\ d \in DOMAIN v.cols => w.cols[d] = v.cols[d]
    BY <1>2
  <1> HIDE DEF w
  <1>5. Differs(v, w, {Col(c)})
    BY <1>1, <1>3, <1>4, DiffersByParts, KeysDiffer
  <1> QED BY <1>5 DEF w

LEMMA ValueDiffers ==
    ASSUME NEW v \in Vaults, NEW i \in DOMAIN v.items, NEW value \in Values
    PROVE  Differs(v, [v EXCEPT !.items[i].value = value], {Item(i)})
  <1> DEFINE w == [v EXCEPT !.items[i].value = value]
  <1>0. i \in Nat /\ v.items[i] \in ItemType
    <2>1. v.items \in Partial(Nat, ItemType)
      BY DEF Vaults
    <2> QED BY <2>1, PartialFacts
  <1>1. w.pass = v.pass /\ w.cols = v.cols
    BY DEF Vaults
  <1>2. w.items = [v.items EXCEPT ![i].value = value]
    BY DEF Vaults
  <1>3. w \in Vaults
    <2>1. [v.items[i] EXCEPT !.value = value] \in ItemType
      BY <1>0 DEF ItemType
    <2>2. [v.items EXCEPT ![i].value = value] \in Partial(Nat, ItemType)
      BY <2>1 DEF Vaults, Partial
    <2> QED BY <2>2 DEF Vaults
  <1>4. \A j \in Nat : j # i =>
            /\ j \in DOMAIN w.items <=> j \in DOMAIN v.items
            /\ j \in DOMAIN v.items => w.items[j] = v.items[j]
    BY <1>2
  <1> HIDE DEF w
  <1>5. Differs(v, w, {Item(i)})
    BY <1>1, <1>3, <1>4, DiffersByParts, KeysDiffer
  <1> QED BY <1>5 DEF w

LEMMA PassDiffers ==
    ASSUME NEW v \in Vaults, NEW pass \in Passphrases
    PROVE  Differs(v, [v EXCEPT !.pass = pass], {Pass})
  <1> DEFINE w == [v EXCEPT !.pass = pass]
  <1>1. w.cols = v.cols /\ w.items = v.items /\ w \in Vaults
    BY DEF Vaults
  <1> HIDE DEF w
  <1>2. Differs(v, w, {Pass})
    BY <1>1, DiffersByParts
  <1> QED BY <1>2 DEF w

\* An edit of the open vault, saved.
LEMMA EditSound ==
    ASSUME Alone, IInv,
           NEW p \in Procs \ creating, mem[p] # NoVault,
           NEW w, NEW objects, NEW K \in SUBSET Keys,
           Differs(mem[p], w, K),
           Commit(p, w, objects, K),
           creating' = creating, cols' \in Nat, items' \in Nat, removing' \in Nat \cup {None}
    PROVE  IInv'
  <1>1. Sound(mem[p])
    BY DEF IInv
  <1>2. Has(w) \subseteq DOMAIN owed \cup K /\ w \in Vaults
    BY <1>1 DEF Sound, Differs
  <1>3. Pass \in DOMAIN owed \cup K
    BY <1>1 DEF Sound, Has
  <1>4. \A k \in DOMAIN owed \ K : State(w, k) \in owed[k]
    BY <1>1 DEF Sound, Keeps, Differs, IInv, Types
  <1>5. creating' = creating \ {p}
    OBVIOUS
  <1> QED BY <1>2, <1>3, <1>4, <1>5, CommitSound

-----------------------------------------------------------------------------
LEMMA InitSound == KeyringInit => IInv
  <1> SUFFICES ASSUME KeyringInit PROVE IInv
    OBVIOUS
  <1>1. owed = <<>> /\ DOMAIN owed = {}
    BY DEF KeyringInit
  <1>2. Types
    BY <1>1 DEF KeyringInit, Types
  <1>3. OneOpen /\ Sound(file) /\ (\A p \in Procs : Sound(mem[p])) /\ Unborn /\ Fresh
    BY <1>1 DEF KeyringInit, OneOpen, Sound, Unborn, Fresh
  <1> QED BY <1>2, <1>3 DEF IInv

LEMMA StepSound == ASSUME Alone, IInv, [KeyringNext]_keyringVars PROVE IInv'
  <1>a. ASSUME NEW p, Editing(p), p \in Procs
        PROVE  p \in Procs \ creating /\ mem[p] # NoVault /\ mem[p] \in Vaults
    BY <1>a DEF Editing, IInv, Types
  <1>b. Daemon \in Procs /\ Daemon \notin creating
    BY KeyringAssumption DEF Procs, IInv, Types
  <1>c. cols \in Nat /\ items \in Nat /\ removing \in Nat \cup {None}
    BY DEF IInv, Types
  <1>e. removing' \in Nat \cup {None}
    <2>1. ASSUME NEW p, Open(p) \/ Close(p) \/ Edit(p) PROVE removing' \in {removing, None}
      BY <2>1 DEF Open, Close, Edit, CreateCollection, CreateItem, DeleteItem
    <2>2. ASSUME NEW p, NEW pass, CreateBegin(p, pass) \/ ChangePassphrase(p, pass) \/ CreateEnd(p)
          PROVE removing' = removing
      BY <2>2 DEF CreateBegin, ChangePassphrase, CreateEnd
    <2>3. ASSUME DaemonEdit PROVE removing' \in Nat \cup {None}
      <3>1. ASSUME NEW c \in 1..MaxCols, BeginDelete(c) PROVE removing' \in Nat \cup {None}
        BY <3>1, KeyringAssumption DEF BeginDelete
      <3>2. ASSUME NEW c, NEW name, NEW attrs, NEW value, NEW i, NEW s,
                   \/ SetAlias(name, c) \/ ReplaceItem(c, attrs, value) \/ SetSecret(i, value)
                   \/ DeleteGone(i) \/ OpenSession \/ CloseSession(s)
            PROVE removing' = removing
        BY <3>2 DEF SetAlias, ReplaceItem, SetSecret, DeleteGone, OpenSession, CloseSession
      <3>3. ASSUME DeleteNext \/ DeleteEnd PROVE removing' \in {removing, None}
        BY <3>3 DEF DeleteNext, DeleteEnd
      <3> QED BY <2>3, <3>1, <3>2, <3>3, <1>c DEF DaemonEdit
    <2> QED BY <2>1, <2>2, <2>3, <1>c DEF KeyringNext, keyringVars
  <1>d. /\ Pass \in Keys
        /\ \A c \in Nat : {Col(c)} \in SUBSET Keys
        /\ \A i \in Nat : {Item(i)} \in SUBSET Keys
    BY DEF Keys
  <1>1. ASSUME NEW p \in Procs, Open(p) PROVE IInv'
    <2>0. /\ mem' = [mem EXCEPT ![p] = file] /\ file # NoVault
          /\ UNCHANGED <<file, creating, cols, items, owed>>
          /\ \A q \in Procs : mem[q] = NoVault
      BY <1>1 DEF Open, MayOpen
    <2>1. Types'
      BY <2>0, <1>e DEF IInv, Types
    <2>2. OneOpen'
      BY <2>0 DEF IInv, Types, OneOpen
    <2>3. \A q \in Procs : mem'[q] \in {file, NoVault}
      BY <2>0 DEF IInv, Types
    <2>4. Sound(file)' /\ \A q \in Procs : Sound(mem[q])'
      BY <2>0, <2>3 DEF IInv, Sound, Keeps, Has
    <2>5. Unborn' /\ Fresh'
      BY <2>0 DEF IInv, Unborn, Fresh
    <2> QED BY <2>1, <2>2, <2>4, <2>5 DEF IInv
  <1>2. ASSUME NEW p \in Procs, Close(p) PROVE IInv'
    <2>0. /\ mem' = [mem EXCEPT ![p] = NoVault] /\ creating' = creating \ {p}
          /\ UNCHANGED <<file, cols, items, owed>>
      BY <1>2 DEF Close
    <2>1. Types'
      BY <2>0, <1>e DEF IInv, Types
    <2>2. OneOpen'
      BY <2>0 DEF IInv, Types, OneOpen
    <2>3. \A q \in Procs : mem'[q] = IF q = p THEN NoVault ELSE mem[q]
      BY <2>0 DEF IInv, Types
    <2>4. Sound(file)' /\ \A q \in Procs \ creating' : Sound(mem[q])'
      BY <2>0, <2>3 DEF IInv, Sound, Keeps, Has
    <2>5. Unborn' /\ Fresh'
      BY <2>0, <2>3 DEF IInv, Types, Unborn, Fresh, Procs
    <2> QED BY <2>1, <2>2, <2>4, <2>5 DEF IInv
  <1>3. ASSUME NEW p \in Procs, NEW names \in NewAliases(p),
               CreateCollection(p, names)
        PROVE  IInv'
    <2>1. Editing(p) /\ cols' = cols + 1 /\ creating' = creating /\ items' = items
      BY <1>3 DEF CreateCollection
    <2>2. names \in SUBSET Aliases /\ cols' \in Nat
      BY <2>1, <1>c DEF NewAliases
    <2>3. Differs(mem[p], AddCollection(mem[p], cols', names), {Col(cols')})
      BY <1>a, <2>1, <2>2, AddCollectionDiffers
    <2>4. Commit(p, AddCollection(mem[p], cols', names),
                 [exported EXCEPT !.cols = @ \cup {cols'}], {Col(cols')})
      BY <1>3 DEF CreateCollection
    <2> QED BY <2>1, <2>2, <2>3, <2>4, <1>a, <1>c, <1>d, <1>e, EditSound
  <1>4. ASSUME NEW p \in Procs, NEW c \in 1..MaxCols, NEW attrs \in Attrs, NEW value \in Values,
               CreateItem(p, c, attrs, value)
        PROVE  IInv'
    <2>1. Editing(p) /\ items' = items + 1 /\ creating' = creating /\ cols' = cols
      BY <1>4 DEF CreateItem
    <2>2. items' \in Nat /\ c \in Nat
      BY <2>1, <1>c
    <2>3. Differs(mem[p], AddItem(mem[p], items', c, attrs, value), {Item(items')})
      BY <1>a, <2>1, <2>2, AddItemDiffers
    <2>4. Commit(p, AddItem(mem[p], items', c, attrs, value),
                 [exported EXCEPT !.items = @ \cup {items'}], {Item(items')})
      BY <1>4 DEF CreateItem
    <2> QED BY <2>1, <2>2, <2>3, <2>4, <1>a, <1>c, <1>d, <1>e, EditSound
  <1>5. ASSUME NEW p \in Procs, NEW i \in 1..MaxItems, DeleteItem(p, i) PROVE IInv'
    <2>1. Editing(p) /\ creating' = creating /\ cols' = cols /\ items' = items
      BY <1>5 DEF DeleteItem
    <2>2. i \in Nat
      OBVIOUS
    <2>3. Differs(mem[p], RemoveItems(mem[p], {i}), {Item(i)})
      BY <1>a, <2>1, <2>2, RemoveItemsDiffers
    <2>4. Commit(p, RemoveItems(mem[p], {i}), [exported EXCEPT !.items = @ \ {i}], {Item(i)})
      BY <1>5 DEF DeleteItem
    <2> QED BY <2>1, <2>2, <2>3, <2>4, <1>a, <1>c, <1>d, <1>e, EditSound
  <1>6. ASSUME NEW name \in Aliases, NEW c \in 1..MaxCols, SetAlias(name, c) PROVE IInv'
    <2>1. /\ Editing(Daemon) /\ c \in DOMAIN mem[Daemon].cols
          /\ creating' = creating /\ cols' = cols /\ items' = items
      BY <1>6 DEF SetAlias
    <2>3. Differs(mem[Daemon], [mem[Daemon] EXCEPT !.cols[c] = @ \cup {name}], {Col(c)})
      BY <1>a, <1>b, <2>1, AliasDiffers
    <2>4. Commit(Daemon, [mem[Daemon] EXCEPT !.cols[c] = @ \cup {name}], exported, {Col(c)})
      BY <1>6 DEF SetAlias
    <2> QED BY <2>1, <2>3, <2>4, <1>a, <1>b, <1>c, <1>d, <1>e, EditSound
  <1>7. ASSUME NEW i \in DOMAIN mem[Daemon].items, NEW value \in Values, NEW objects,
               Editing(Daemon),
               Commit(Daemon, [mem[Daemon] EXCEPT !.items[i].value = value], objects, {Item(i)}),
               creating' = creating, cols' = cols, items' = items
        PROVE  IInv'
    <2>1. mem[Daemon] \in Vaults /\ mem[Daemon] # NoVault
      BY <1>a, <1>b, <1>7
    <2>2. i \in Nat
      BY <2>1, PartialFacts DEF Vaults
    <2>3. Differs(mem[Daemon], [mem[Daemon] EXCEPT !.items[i].value = value], {Item(i)})
      BY <2>1, ValueDiffers
    <2> QED BY <1>7, <2>1, <2>2, <2>3, <1>b, <1>c, <1>d, <1>e, EditSound
  <1>8. ASSUME NEW i \in 1..MaxItems, NEW value \in Values, SetSecret(i, value) PROVE IInv'
    BY <1>7, <1>8 DEF SetSecret
  <1>9. ASSUME NEW c \in 1..MaxCols, NEW attrs \in Attrs, NEW value \in Values,
               ReplaceItem(c, attrs, value)
        PROVE  IInv'
    <2> DEFINE i == Min(Replaced(mem[Daemon], c, attrs))
    <2>1. Editing(Daemon) /\ mem[Daemon] \in Vaults
      BY <1>9, <1>a, <1>b DEF ReplaceItem
    <2>2. Replaced(mem[Daemon], c, attrs) # {} /\ Replaced(mem[Daemon], c, attrs) \subseteq Nat
      BY <1>9, <2>1, PartialFacts DEF ReplaceItem, Replaced, ItemsOf, Vaults
    <2>3. i \in Replaced(mem[Daemon], c, attrs)
      BY <2>2, MinIn
    <2>4. i \in DOMAIN mem[Daemon].items
      BY <2>3 DEF Replaced, ItemsOf
    <2>5. /\ Commit(Daemon, [mem[Daemon] EXCEPT !.items[i].value = value],
                    [exported EXCEPT !.items = @ \cup {i}], {Item(i)})
          /\ creating' = creating /\ cols' = cols /\ items' = items
      BY <1>9 DEF ReplaceItem
    <2> HIDE DEF i
    <2> QED BY <2>1, <2>4, <2>5, <1>7
  <1>10. ASSUME DeleteNext PROVE IInv'
    <2> DEFINE i == Min(ItemsOf(mem[Daemon], removing))
    <2>1. mem[Daemon] # NoVault /\ mem[Daemon] \in Vaults
      BY <1>10, <1>b DEF DeleteNext, IInv, Types
    <2>2. ItemsOf(mem[Daemon], removing) # {} /\ ItemsOf(mem[Daemon], removing) \subseteq Nat
      BY <1>10, <2>1, PartialFacts DEF DeleteNext, ItemsOf, Vaults
    <2>3. i \in Nat
      BY <2>2, MinIn
    <2>4. /\ Commit(Daemon, RemoveItems(mem[Daemon], {i}),
                    [exported EXCEPT !.items = @ \ {i}], {Item(i)})
          /\ creating' = creating /\ cols' = cols /\ items' = items
      BY <1>10 DEF DeleteNext
    <2> HIDE DEF i
    <2>5. Differs(mem[Daemon], RemoveItems(mem[Daemon], {i}), {Item(i)})
      BY <2>1, <2>3, RemoveItemsDiffers
    <2> QED BY <2>1, <2>3, <2>4, <2>5, <1>b, <1>c, <1>d, <1>e, EditSound
  <1>11. ASSUME DeleteEnd PROVE IInv'
    <2>1. mem[Daemon] # NoVault /\ mem[Daemon] \in Vaults
      BY <1>11, <1>b DEF DeleteEnd, IInv, Types
    <2>2. removing \in Nat
      BY <1>11 DEF DeleteEnd, IInv, Types
    <2>3. Differs(mem[Daemon], [mem[Daemon] EXCEPT !.cols = Without(@, {removing})],
                  {Col(removing)})
      BY <2>1, <2>2, RemoveColDiffers
    <2>4. /\ Commit(Daemon, [mem[Daemon] EXCEPT !.cols = Without(@, {removing})],
                    [exported EXCEPT !.cols = @ \ {removing}], {Col(removing)})
          /\ creating' = creating /\ cols' = cols /\ items' = items
      BY <1>11 DEF DeleteEnd
    <2> QED BY <2>1, <2>2, <2>3, <2>4, <1>b, <1>c, <1>d, <1>e, EditSound
  <1>12. ASSUME NEW p \in Ctls, NEW pass \in Passphrases, ChangePassphrase(p, pass) PROVE IInv'
    <2>1. Editing(p) /\ creating' = creating /\ cols' = cols /\ items' = items /\ p \in Procs
      BY <1>12 DEF ChangePassphrase, Procs
    <2>2. Differs(mem[p], [mem[p] EXCEPT !.pass = pass], {Pass})
      BY <1>a, <2>1, PassDiffers
    <2>3. Commit(p, [mem[p] EXCEPT !.pass = pass], NoObjects, {Pass})
      BY <1>12 DEF ChangePassphrase
    <2> QED BY <2>1, <2>2, <2>3, <1>a, <1>c, <1>d, <1>e, EditSound
  <1>13. ASSUME NEW p \in Ctls, NEW pass \in Passphrases, CreateBegin(p, pass) PROVE IInv'
    <2> DEFINE v == AddCollection(EmptyVault(pass), cols', {Default})
    <2>0. /\ mem' = [mem EXCEPT ![p] = v] /\ creating' = creating \cup {p}
          /\ UNCHANGED <<file, items, owed>> /\ cols' = cols + 1
          /\ file = NoVault /\ p \in Procs
          /\ \A q \in Procs : mem[q] = NoVault
      BY <1>13 DEF CreateBegin, MayOpen, Procs
    <2>1. v \in Vaults /\ DOMAIN v.items = {}
      <3>1. EmptyVault(pass) \in Vaults
        <4>1. ASSUME NEW T PROVE <<>> \in Partial(Nat, T)
          <5>1. <<>> \in [{} -> T]
            OBVIOUS
          <5> QED BY <5>1 DEF Partial
        <4> QED BY <4>1 DEF EmptyVault, Vaults
      <3>2. v.items = EmptyVault(pass).items
        BY <3>1 DEF AddCollection, Vaults
      <3>3. Differs(EmptyVault(pass), v, {Col(cols')})
        BY <3>1, <2>0, <1>c, KeyringAssumption, AddCollectionDiffers
      <3>4. v \in Vaults
        BY <3>3 DEF Differs
      <3>5. DOMAIN EmptyVault(pass).items = {}
        BY DEF EmptyVault
      <3> QED BY <3>2, <3>4, <3>5
    <2>2. v # NoVault
      BY <2>1, VaultIsOpen
    <2> HIDE DEF v
    <2>3. Types'
      BY <2>0, <2>1, <1>c, <1>e DEF IInv, Types
    <2>4. \A q \in Procs : mem'[q] = IF q = p THEN v ELSE NoVault
      BY <2>0 DEF IInv, Types
    <2>5. OneOpen'
      BY <2>4 DEF OneOpen
    <2>6. Sound(file)' /\ \A q \in Procs \ creating' : Sound(mem[q])'
      BY <2>0, <2>4 DEF Sound
    <2>7. Unborn'
      BY <2>0 DEF IInv, Unborn
    <2>8. Fresh'
      BY <2>0, <2>1, <2>2, <2>4 DEF IInv, Fresh, Types, Procs
    <2> QED BY <2>3, <2>5, <2>6, <2>7, <2>8 DEF IInv
  <1>14. ASSUME NEW p \in Ctls, CreateEnd(p) PROVE IInv'
    <2> DEFINE K == {Pass} \cup {Col(c) : c \in DOMAIN mem[p].cols}
    <2>1. /\ p \in creating /\ Commit(p, mem[p], NoObjects, K)
          /\ creating' = creating \ {p} /\ cols' = cols /\ items' = items
      BY <1>14 DEF CreateEnd
    <2>2. /\ file = NoVault /\ mem[p] # NoVault /\ mem[p] \in Vaults
          /\ DOMAIN mem[p].items = {} /\ p \in Procs
      BY <2>1 DEF IInv, Fresh, Types, Procs
    <2>3. Has(mem[p]) \subseteq K
      BY <2>2 DEF Has
    <2>4. K \in SUBSET Keys
      <3>1. DOMAIN mem[p].cols \subseteq Nat
        BY <2>2, PartialFacts DEF Vaults
      <3> QED BY <3>1 DEF Keys
    <2>5. \A k \in DOMAIN owed \ K : State(mem[p], k) \in owed[k]
      <3> SUFFICES ASSUME NEW k \in DOMAIN owed \ K PROVE State(mem[p], k) \in owed[k]
        OBVIOUS
      <3>1. None \in owed[k]
        BY <2>2 DEF IInv, Unborn
      <3>2. PICK n \in Nat : k = Col(n) \/ k = Item(n)
        BY DEF IInv, Types, Keys
      <3>3. CASE k = Col(n)
        BY <3>1, <3>3, StateFacts
      <3>4. CASE k = Item(n)
        BY <3>1, <3>4, <2>2, StateFacts
      <3> QED BY <3>2, <3>3, <3>4
    <2>6. Pass \in K
      OBVIOUS
    <2> HIDE DEF K
    <2> QED BY <2>1, <2>2, <2>3, <2>4, <2>5, <2>6, <1>c, <1>e, CommitSound
  <1>15. ASSUME UNCHANGED <<file, mem, creating, cols, items, owed>> PROVE IInv'
    BY <1>15, <1>e DEF IInv, Types, OneOpen, Sound, Keeps, Has, Unborn, Fresh
  <1>16. ASSUME DaemonEdit PROVE IInv'
    <2>1. ASSUME NEW i, DeleteGone(i) PROVE IInv'
      BY <2>1, <1>15 DEF DeleteGone
    <2>2. ASSUME NEW c \in 1..MaxCols, BeginDelete(c) PROVE IInv'
      BY <2>2, <1>15 DEF BeginDelete
    <2>3. ASSUME OpenSession PROVE IInv'
      BY <2>3, <1>15 DEF OpenSession
    <2>4. ASSUME NEW x, CloseSession(x) PROVE IInv'
      BY <2>4, <1>15 DEF CloseSession
    <2> QED BY <1>16, <1>6, <1>8, <1>9, <1>10, <1>11, <2>1, <2>2, <2>3, <2>4 DEF DaemonEdit
  <1>17. ASSUME UNCHANGED keyringVars PROVE IInv'
    BY <1>15, <1>17 DEF keyringVars
  <1> QED BY <1>1, <1>2, <1>3, <1>4, <1>5, <1>12, <1>13, <1>14, <1>16, <1>17 DEF KeyringNext, Edit

\* What a caller was told is what a later reader of the file or of the daemon
\* finds, for any number of processes, objects, failed saves and kills, as long
\* as the vault is open in one process at a time.
THEOREM KeptWhenAlone == ASSUME Alone PROVE KeyringSpec => []PromisesKept
  <1>1. KeyringInit => IInv
    BY InitSound
  <1>2. IInv /\ [KeyringNext]_keyringVars => IInv'
    BY StepSound
  <1>3. IInv => PromisesKept
    <2> SUFFICES ASSUME IInv PROVE PromisesKept
      OBVIOUS
    <2>1. Daemon \in Procs \ creating
      BY KeyringAssumption DEF IInv, Types, Procs
    <2> QED BY <2>1 DEF IInv, Sound, Keeps, PromisesKept
  <1> QED BY <1>1, <1>2, <1>3, PTL DEF KeyringSpec

-----------------------------------------------------------------------------
(* The daemon's bus objects. *)

Buses == [cols : SUBSET Nat, items : SUBSET Nat, sessions : SUBSET Nat]

Serves(b, v) == b.cols = DOMAIN v.cols /\ b.items = DOMAIN v.items

BusTypes ==
    /\ file \in Vaults \cup {NoVault}
    /\ mem \in [Procs -> Vaults \cup {NoVault}]
    /\ exported \in Buses
    /\ cols \in Nat /\ items \in Nat /\ sessions \in Nat /\ faults \in Nat
    /\ removing \in Nat \cup {None}

BusInv == BusTypes /\ ObjectsMatchVault

\* A save by the daemon that brings the bus objects up to date with the copy
\* it saves, and any save by another process, keeps the two together.
LEMMA CommitServes ==
    ASSUME BusInv, NEW p \in Procs, NEW v \in Vaults \cup {NoVault}, NEW b \in Buses, NEW changed,
           Commit(p, v, b, changed),
           p = Daemon /\ faults = 0 => Serves(b, v),
           cols' \in Nat, items' \in Nat, sessions' \in Nat, removing' \in Nat \cup {None}
    PROVE  BusInv'
<1>a. Daemon \in Procs /\ NoObjects \in Buses
  BY DEF Procs, NoObjects, Buses
<1>1. /\ file' \in {file, v}
      /\ faults' \in {faults, faults + 1}
      /\ exported' \in {exported, b, NoObjects}
      /\ \/ mem' = [mem EXCEPT ![p] = v]
         \/ mem' = [mem EXCEPT ![p] = NoVault]
  BY DEF Commit
<1>2. mem' \in [Procs -> Vaults \cup {NoVault}]
  BY <1>1 DEF BusInv, BusTypes
<1>3. \A q \in Procs : q # p => mem'[q] = mem[q]
  BY <1>1 DEF BusInv, BusTypes
<1>4. BusTypes'
  BY <1>1, <1>2, <1>a DEF BusInv, BusTypes
<1>5. ObjectsMatchVault'
  <2> SUFFICES ASSUME mem'[Daemon] # NoVault, faults' = 0 PROVE Serves(exported', mem'[Daemon])
    BY DEF ObjectsMatchVault, Serves
  <2>1. faults = 0
    BY <1>1 DEF BusInv, BusTypes
  <2>2. CASE p # Daemon
    <3>1. mem'[Daemon] = mem[Daemon] /\ exported' = exported
      BY <1>3, <1>a, <2>2 DEF Commit
    <3> QED BY <2>1, <3>1 DEF BusInv, ObjectsMatchVault, Serves
  <2>3. CASE p = Daemon
    <3>1. faults' # faults + 1
      BY <2>1
    <3>2. /\ mem' = [mem EXCEPT ![p] = v] /\ exported' = b
          \/ mem' = [mem EXCEPT ![p] = NoVault]
      BY <2>3, <3>1 DEF Commit
    <3>3. mem'[Daemon] = v /\ exported' = b
      BY <1>a, <2>3, <3>2 DEF BusInv, BusTypes
    <3> QED BY <2>1, <2>3, <3>3
  <2> QED BY <2>2, <2>3
<1> QED BY <1>4, <1>5 DEF BusInv

\* Every step keeps the bus objects and the daemon's vault together.
LEMMA BusStep == BusInv /\ [KeyringNext]_keyringVars => BusInv'
<1> SUFFICES ASSUME BusInv, [KeyringNext]_keyringVars PROVE BusInv'
  OBVIOUS
<1>a. Daemon \in Procs /\ Ctls \subseteq Procs /\ Daemon \notin Ctls /\ NoObjects \in Buses
  BY KeyringAssumption DEF Procs, NoObjects, Buses
<1>b. /\ file \in Vaults \cup {NoVault} /\ mem \in [Procs -> Vaults \cup {NoVault}]
      /\ exported \in Buses /\ cols \in Nat /\ items \in Nat /\ sessions \in Nat
      /\ cols + 1 \in Nat /\ items + 1 \in Nat /\ sessions + 1 \in Nat
      /\ removing \in Nat \cup {None} /\ faults \in Nat
  BY DEF BusInv, BusTypes
<1>c. mem[Daemon] # NoVault /\ faults = 0 => Serves(exported, mem[Daemon])
  BY DEF BusInv, ObjectsMatchVault, Serves
<1>d. \A p \in Procs : mem[p] # NoVault => mem[p] \in Vaults
  BY <1>b
<1>e. 1..MaxCols \subseteq Nat /\ 1..MaxItems \subseteq Nat
  BY KeyringAssumption
<1>f. \A p \in Procs : Editing(p) => mem[p] # NoVault /\ mem[p] \in Vaults
  BY <1>d DEF Editing
<1>1. ASSUME NEW p \in Procs, Open(p) PROVE BusInv'
  <2>1. /\ mem' = [mem EXCEPT ![p] = file] /\ file \in Vaults
        /\ exported' = IF p = Daemon THEN Objects(file) ELSE exported
        /\ UNCHANGED <<file, removing, cols, items, sessions, faults>>
    BY <1>1, <1>b DEF Open
  <2>2. /\ mem' \in [Procs -> Vaults \cup {NoVault}]
        /\ \A q \in Procs : mem'[q] = IF q = p THEN file ELSE mem[q]
    BY <1>b, <2>1
  <2>3. Objects(file) \in Buses
    BY <2>1, PartialFacts DEF Buses, Objects, Vaults
  <2>4. ObjectsMatchVault'
    BY <1>a, <1>c, <2>1, <2>2 DEF ObjectsMatchVault, Objects, Serves
  <2> QED BY <1>b, <2>1, <2>2, <2>3, <2>4 DEF BusInv, BusTypes
<1>2. ASSUME NEW p \in Procs, Close(p) PROVE BusInv'
  <2>1. /\ mem' = [mem EXCEPT ![p] = NoVault] /\ removing' \in {removing, None}
        /\ exported' = IF p = Daemon THEN NoObjects ELSE exported
        /\ UNCHANGED <<file, cols, items, sessions, faults>>
    BY <1>2 DEF Close
  <2>2. /\ mem' \in [Procs -> Vaults \cup {NoVault}]
        /\ \A q \in Procs : mem'[q] = IF q = p THEN NoVault ELSE mem[q]
    BY <1>b, <2>1
  <2>3. ObjectsMatchVault'
    BY <1>a, <1>c, <2>1, <2>2 DEF ObjectsMatchVault, Serves
  <2> QED BY <1>a, <1>b, <2>1, <2>2, <2>3 DEF BusInv, BusTypes
<1>3. ASSUME NEW p \in Ctls, NEW pass \in Passphrases, CreateBegin(p, pass) PROVE BusInv'
  <2> DEFINE v == AddCollection(EmptyVault(pass), cols', {Default})
  <2>1. /\ mem' = [mem EXCEPT ![p] = v] /\ cols' = cols + 1
        /\ UNCHANGED <<file, removing, exported, items, sessions, faults>>
    BY <1>3 DEF CreateBegin
  <2>2. v \in Vaults
    <3>1. EmptyVault(pass) \in Vaults
      <4>1. ASSUME NEW T PROVE <<>> \in Partial(Nat, T)
        <5>1. <<>> \in [{} -> T]
          OBVIOUS
        <5> QED BY <5>1 DEF Partial
      <4> QED BY <4>1 DEF EmptyVault, Vaults
    <3> QED BY <3>1, <1>b, <2>1, KeyringAssumption, AddCollectionDiffers DEF Differs
  <2> HIDE DEF v
  <2>3. /\ mem' \in [Procs -> Vaults \cup {NoVault}]
        /\ \A q \in Procs : mem'[q] = IF q = p THEN v ELSE mem[q]
    BY <1>a, <1>b, <2>1, <2>2
  <2>4. ObjectsMatchVault'
    BY <1>a, <1>c, <2>1, <2>3 DEF ObjectsMatchVault, Serves
  <2> QED BY <1>b, <2>1, <2>3, <2>4 DEF BusInv, BusTypes
<1>4. ASSUME NEW p \in Ctls, CreateEnd(p) PROVE BusInv'
  <2>1. /\ Commit(p, mem[p], NoObjects, {Pass} \cup {Col(c) : c \in DOMAIN mem[p].cols})
        /\ UNCHANGED <<removing, cols, items, sessions>>
    BY <1>4 DEF CreateEnd
  <2>2. mem[p] \in Vaults \cup {NoVault} /\ p \in Procs /\ p # Daemon
    BY <1>a, <1>b
  <2> QED BY <1>a, <1>b, <2>1, <2>2, CommitServes
<1>5. ASSUME NEW p \in Ctls, NEW pass \in Passphrases, ChangePassphrase(p, pass) PROVE BusInv'
  <2>1. /\ Commit(p, [mem[p] EXCEPT !.pass = pass], NoObjects, {Pass}) /\ Editing(p)
        /\ UNCHANGED <<removing, cols, items, sessions>>
    BY <1>5 DEF ChangePassphrase
  <2>2. [mem[p] EXCEPT !.pass = pass] \in Vaults
    BY <1>a, <1>f, <2>1, PassDiffers DEF Differs
  <2> QED BY <1>a, <1>b, <2>1, <2>2, CommitServes
<1>6. ASSUME NEW p \in Procs, NEW names \in SUBSET Aliases, CreateCollection(p, names) PROVE BusInv'
  <2> DEFINE v == AddCollection(mem[p], cols', names)
             b == [exported EXCEPT !.cols = @ \cup {cols'}]
  <2>1. /\ Commit(p, v, b, {Col(cols')}) /\ Editing(p) /\ cols' = cols + 1
        /\ UNCHANGED <<removing, items, sessions>>
    BY <1>6 DEF CreateCollection
  <2>2. v \in Vaults
    BY <1>b, <1>f, <2>1, AddCollectionDiffers DEF Differs
  <2>3. b \in Buses /\ b.cols = exported.cols \cup {cols'} /\ b.items = exported.items
    BY <1>b, <2>1 DEF Buses
  <2>4. DOMAIN v.cols = DOMAIN mem[p].cols \cup {cols'} /\ v.items = mem[p].items
    BY <1>f, <2>1 DEF AddCollection, Vaults, Updated
  <2>5. p = Daemon /\ faults = 0 => Serves(b, v)
    BY <1>c, <1>f, <2>1, <2>3, <2>4 DEF Serves
  <2> HIDE DEF v, b
  <2> QED BY <1>b, <2>1, <2>2, <2>3, <2>5, CommitServes
<1>7. ASSUME NEW p \in Procs, NEW c \in Nat, NEW attrs \in Attrs, NEW value \in Values,
             CreateItem(p, c, attrs, value)
      PROVE  BusInv'
  <2> DEFINE v == AddItem(mem[p], items', c, attrs, value)
             b == [exported EXCEPT !.items = @ \cup {items'}]
  <2>1. /\ Commit(p, v, b, {Item(items')}) /\ Editing(p) /\ items' = items + 1
        /\ UNCHANGED <<removing, cols, sessions>>
    BY <1>7 DEF CreateItem
  <2>2. v \in Vaults
    BY <1>b, <1>f, <2>1, AddItemDiffers DEF Differs
  <2>3. b \in Buses /\ b.items = exported.items \cup {items'} /\ b.cols = exported.cols
    BY <1>b, <2>1 DEF Buses
  <2>4. DOMAIN v.items = DOMAIN mem[p].items \cup {items'} /\ v.cols = mem[p].cols
    BY <1>f, <2>1 DEF AddItem, Vaults, Updated
  <2>5. p = Daemon /\ faults = 0 => Serves(b, v)
    BY <1>c, <1>f, <2>1, <2>3, <2>4 DEF Serves
  <2> HIDE DEF v, b
  <2> QED BY <1>b, <2>1, <2>2, <2>3, <2>5, CommitServes
<1>8. ASSUME NEW p \in Procs, NEW i \in Nat, NEW changed, mem[p] # NoVault,
             Commit(p, RemoveItems(mem[p], {i}), [exported EXCEPT !.items = @ \ {i}], changed),
             UNCHANGED <<cols, items, sessions>>, removing' \in Nat \cup {None}
      PROVE  BusInv'
  <2> DEFINE v == RemoveItems(mem[p], {i})
             b == [exported EXCEPT !.items = @ \ {i}]
  <2>1. v \in Vaults
    BY <1>8, <1>d, RemoveItemsDiffers DEF Differs
  <2>2. b \in Buses /\ b.items = exported.items \ {i} /\ b.cols = exported.cols
    BY <1>b DEF Buses
  <2>3. DOMAIN v.items = DOMAIN mem[p].items \ {i} /\ v.cols = mem[p].cols
    BY <1>8, <1>d DEF RemoveItems, Vaults, Without
  <2>4. p = Daemon /\ faults = 0 => Serves(b, v)
    BY <1>c, <1>8, <2>2, <2>3 DEF Serves
  <2>5. Commit(p, v, b, changed)
    BY <1>8
  <2> HIDE DEF v, b
  <2> QED BY <1>8, <1>b, <2>1, <2>2, <2>4, <2>5, CommitServes
<1>9. ASSUME NEW p \in Procs, NEW i \in Nat, DeleteItem(p, i) PROVE BusInv'
  <2>1. /\ Editing(p) /\ UNCHANGED <<cols, items, sessions, removing>>
        /\ Commit(p, RemoveItems(mem[p], {i}), [exported EXCEPT !.items = @ \ {i}], {Item(i)})
    BY <1>9 DEF DeleteItem
  <2> QED BY <1>8, <1>b, <1>f, <2>1
<1>10. ASSUME DeleteNext PROVE BusInv'
  <2> DEFINE i == Min(ItemsOf(mem[Daemon], removing))
  <2>1. /\ mem[Daemon] # NoVault /\ UNCHANGED <<cols, items, sessions>>
        /\ removing' \in {removing, None}
        /\ Commit(Daemon, RemoveItems(mem[Daemon], {i}),
                  [exported EXCEPT !.items = @ \ {i}], {Item(i)})
    BY <1>10 DEF DeleteNext
  <2>2. ItemsOf(mem[Daemon], removing) # {} /\ ItemsOf(mem[Daemon], removing) \subseteq Nat
    BY <1>10, <1>a, <1>d, <2>1, PartialFacts DEF DeleteNext, ItemsOf, Vaults
  <2>3. i \in Nat
    BY <2>2, MinIn
  <2> HIDE DEF i
  <2> QED BY <1>8, <1>a, <1>b, <2>1, <2>3
<1>11. ASSUME DeleteEnd PROVE BusInv'
  <2> DEFINE v == [mem[Daemon] EXCEPT !.cols = Without(@, {removing})]
             b == [exported EXCEPT !.cols = @ \ {removing}]
  <2>1. /\ mem[Daemon] # NoVault /\ UNCHANGED <<cols, items, sessions>> /\ removing' = None
        /\ removing \in Nat /\ Commit(Daemon, v, b, {Col(removing)})
    BY <1>11, <1>b DEF DeleteEnd
  <2>2. v \in Vaults
    BY <1>a, <1>d, <2>1, RemoveColDiffers DEF Differs
  <2>3. b \in Buses /\ b.cols = exported.cols \ {removing} /\ b.items = exported.items
    BY <1>b DEF Buses
  <2>4. DOMAIN v.cols = DOMAIN mem[Daemon].cols \ {removing} /\ v.items = mem[Daemon].items
    BY <1>a, <1>d, <2>1 DEF Vaults, Without
  <2>5. faults = 0 => Serves(b, v)
    BY <1>c, <2>1, <2>3, <2>4 DEF Serves
  <2> HIDE DEF v, b
  <2> QED BY <1>a, <1>b, <2>1, <2>2, <2>3, <2>5, CommitServes
<1>12. ASSUME NEW name \in Aliases, NEW c, SetAlias(name, c) PROVE BusInv'
  <2> DEFINE v == [mem[Daemon] EXCEPT !.cols[c] = @ \cup {name}]
  <2>1. /\ Editing(Daemon) /\ UNCHANGED <<removing, cols, items, sessions>>
        /\ c \in DOMAIN mem[Daemon].cols /\ Commit(Daemon, v, exported, {Col(c)})
    BY <1>12 DEF SetAlias
  <2>2. v \in Vaults
    BY <1>a, <1>f, <2>1, AliasDiffers DEF Differs
  <2>3. DOMAIN v.cols = DOMAIN mem[Daemon].cols /\ v.items = mem[Daemon].items
    BY <1>a, <1>f, <2>1 DEF Vaults
  <2>4. faults = 0 => Serves(exported, v)
    BY <1>a, <1>c, <1>f, <2>1, <2>3 DEF Serves
  <2> HIDE DEF v
  <2> QED BY <1>a, <1>b, <2>1, <2>2, <2>4, CommitServes
\* A request that gives an item another value.
<1>13. ASSUME NEW i \in DOMAIN mem[Daemon].items, NEW value \in Values, NEW b \in Buses,
              mem[Daemon] # NoVault, faults = 0 => Serves(b, mem[Daemon]),
              Commit(Daemon, [mem[Daemon] EXCEPT !.items[i].value = value], b, {Item(i)}),
              UNCHANGED <<removing, cols, items, sessions>>
       PROVE  BusInv'
  <2> DEFINE v == [mem[Daemon] EXCEPT !.items[i].value = value]
  <2>1. v \in Vaults
    BY <1>13, <1>a, <1>d, ValueDiffers DEF Differs
  <2>2. DOMAIN v.items = DOMAIN mem[Daemon].items /\ v.cols = mem[Daemon].cols
    BY <1>13, <1>a, <1>d DEF Vaults
  <2>3. faults = 0 => Serves(b, v)
    BY <1>13, <2>2 DEF Serves
  <2>4. Commit(Daemon, v, b, {Item(i)})
    BY <1>13
  <2> HIDE DEF v
  <2> QED BY <1>13, <1>a, <1>b, <2>1, <2>3, <2>4, CommitServes
<1>14. ASSUME NEW i, NEW value \in Values, SetSecret(i, value) PROVE BusInv'
  <2>1. /\ i \in DOMAIN mem[Daemon].items /\ Editing(Daemon)
        /\ Commit(Daemon, [mem[Daemon] EXCEPT !.items[i].value = value], exported, {Item(i)})
        /\ UNCHANGED <<removing, cols, items, sessions>>
    BY <1>14 DEF SetSecret
  <2> QED BY <1>13, <1>a, <1>b, <1>c, <1>f, <2>1
<1>15. ASSUME NEW c, NEW attrs, NEW value \in Values, ReplaceItem(c, attrs, value) PROVE BusInv'
  <2> DEFINE i == Min(Replaced(mem[Daemon], c, attrs))
             b == [exported EXCEPT !.items = @ \cup {i}]
  <2>1. /\ Editing(Daemon) /\ UNCHANGED <<removing, cols, items, sessions>>
        /\ Commit(Daemon, [mem[Daemon] EXCEPT !.items[i].value = value], b, {Item(i)})
    BY <1>15 DEF ReplaceItem
  <2>2. mem[Daemon] # NoVault /\ mem[Daemon] \in Vaults
    BY <1>a, <1>f, <2>1
  <2>3. Replaced(mem[Daemon], c, attrs) # {} /\ Replaced(mem[Daemon], c, attrs) \subseteq Nat
    <3>1. Replaced(mem[Daemon], c, attrs) # {}
      BY <1>15 DEF ReplaceItem
    <3>2. DOMAIN mem[Daemon].items \subseteq Nat
      BY <2>2, PartialFacts DEF Vaults
    <3> QED BY <3>1, <3>2 DEF Replaced, ItemsOf
  <2>4. i \in DOMAIN mem[Daemon].items /\ i \in Nat
    <3>1. i \in Replaced(mem[Daemon], c, attrs)
      BY <2>3, MinIn
    <3> QED BY <2>3, <3>1 DEF Replaced, ItemsOf
  <2> HIDE DEF i
  <2>5. b \in Buses /\ b.items = exported.items \cup {i} /\ b.cols = exported.cols
    BY <1>b, <2>4 DEF Buses
  <2>6. faults = 0 => Serves(b, mem[Daemon])
    BY <1>c, <2>2, <2>4, <2>5 DEF Serves
  <2> HIDE DEF b
  <2> QED BY <1>13, <2>1, <2>2, <2>4, <2>5, <2>6
\* Steps that leave the vaults alone.
<1>16. ASSUME UNCHANGED <<file, mem, cols, items, faults>>, exported' \in Buses,
              sessions' \in Nat, removing' \in Nat \cup {None},
              exported'.cols = exported.cols,
              faults = 0 /\ mem[Daemon] # NoVault => exported'.items = exported.items
       PROVE  BusInv'
  <2>1. ObjectsMatchVault'
    BY <1>16, <1>c DEF ObjectsMatchVault, Serves
  <2> QED BY <1>16, <1>b, <2>1 DEF BusInv, BusTypes
<1>17. ASSUME NEW i, DeleteGone(i) PROVE BusInv'
  <2>1. /\ exported' = [exported EXCEPT !.items = @ \ {i}]
        /\ UNCHANGED <<file, mem, cols, items, sessions, faults, removing>>
        /\ i \in exported.items /\ i \notin DOMAIN mem[Daemon].items
    BY <1>17 DEF DeleteGone
  <2>2. faults = 0 /\ mem[Daemon] # NoVault => FALSE
    BY <1>c, <2>1 DEF Serves
  <2>3. exported' \in Buses /\ exported'.cols = exported.cols
    BY <1>b, <2>1 DEF Buses
  <2> QED BY <1>16, <1>b, <2>1, <2>2, <2>3
<1>18. ASSUME NEW s, OpenSession \/ CloseSession(s) PROVE BusInv'
  <2>1. /\ \/ sessions' = sessions + 1 /\ exported' = [exported EXCEPT !.sessions = @ \cup {sessions'}]
           \/ sessions' = sessions /\ exported' = [exported EXCEPT !.sessions = @ \ {s}]
        /\ UNCHANGED <<file, mem, cols, items, faults, removing>>
    BY <1>18 DEF OpenSession, CloseSession
  <2>2. /\ exported' \in Buses /\ exported'.cols = exported.cols
        /\ exported'.items = exported.items /\ sessions' \in Nat
    BY <1>b, <2>1 DEF Buses
  <2> QED BY <1>16, <1>b, <2>1, <2>2
<1>19. ASSUME UNCHANGED <<file, mem, cols, items, sessions, faults, exported>>,
              removing' \in Nat \cup {None}
       PROVE  BusInv'
  BY <1>16, <1>19, <1>b
<1>20. ASSUME DaemonEdit PROVE BusInv'
  <2>1. ASSUME NEW c \in 1..MaxCols, BeginDelete(c) PROVE BusInv'
    BY <1>19, <1>e, <2>1 DEF BeginDelete
  <2> QED BY <1>10, <1>11, <1>12, <1>14, <1>15, <1>17, <1>18, <1>20, <2>1 DEF DaemonEdit
<1>21. ASSUME NEW p \in Procs, Edit(p) PROVE BusInv'
  BY <1>6, <1>7, <1>9, <1>21, <1>e DEF Edit, NewAliases
<1>22. CASE UNCHANGED keyringVars
  BY <1>19, <1>22, <1>b DEF keyringVars
<1> QED
  BY <1>1, <1>2, <1>3, <1>4, <1>5, <1>20, <1>21, <1>22 DEF KeyringNext

\* The bus objects of the running daemon are those of its vault as long as no
\* save has failed, whatever the other processes do with the file and whoever
\* is killed, for any number of collections, items and sessions.
THEOREM ObjectsServed == KeyringSpec => []ObjectsMatchVault
<1>1. KeyringInit => BusInv
  <2> SUFFICES ASSUME KeyringInit PROVE BusInv
    OBVIOUS
  <2>1. NoObjects \in Buses /\ Daemon \in Procs
    BY DEF NoObjects, Buses, Procs
  <2>2. mem = [p \in Procs |-> NoVault] /\ mem[Daemon] = NoVault
    BY <2>1 DEF KeyringInit
  <2>3. BusTypes
    BY <2>1, <2>2 DEF KeyringInit, BusTypes
  <2>4. ObjectsMatchVault
    BY <2>2 DEF ObjectsMatchVault
  <2> QED BY <2>3, <2>4 DEF BusInv
<1>2. BusInv => ObjectsMatchVault
  BY DEF BusInv
<1> QED BY <1>1, <1>2, BusStep, PTL DEF KeyringSpec
=============================================================================
