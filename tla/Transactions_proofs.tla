-------------------------- MODULE Transactions_proofs --------------------------
(***************************************************************************)
(* Proofs about the two transactional screens, for every value of their      *)
(* constants and any number of changes, Accepts, applications and failures.   *)
(*                                                                           *)
(* Users: what is staged has been taken by a replay or staged since, as long  *)
(* as the screen is at the bottom of the stack (UsersIInv), so what a replay  *)
(* forgets it has tried (StagedTried).                                       *)
(*                                                                           *)
(* Repositories: an Accept that runs alone knows the two records phase by    *)
(* phase, and what it has gathered to write keeps every name (ReposIInv,     *)
(* Knows). From this every step keeps each name somewhere (NoneForgotten).   *)
(***************************************************************************)
EXTENDS UserChanges, RepoChanges, SequenceTheorems, FiniteSetTheorems, WellFoundedInduction, TLAPS

-----------------------------------------------------------------------------
(* Induction *)

\* A set of natural numbers has a smallest one.
LEMMA Smallest ==
    ASSUME NEW T, T \subseteq Nat, T # {}
    PROVE  \E x \in T : \A y \in T : ~(y < x)
<1>1. PICK x \in T : \A y \in T : ~(<<y, x>> \in OpToRel(<, Nat))
  BY NatLessThanWellFounded, WFMin
<1>2. ASSUME NEW y \in T, y < x PROVE FALSE
  <2>1. <<y, x>> \in OpToRel(<, Nat)
    BY <1>2, Zenon DEF OpToRel
  <2> QED BY <2>1, <1>1
<1> QED BY <1>2

\* Induction up to n, on a set.
LEMMA UpTo ==
    ASSUME NEW n \in Nat, NEW Good, 0 \in Good,
           \A i \in 0..n : i < n /\ i \in Good => i + 1 \in Good
    PROVE  \A i \in 0..n : i \in Good
<1> DEFINE Bad == {i \in 0..n : i \notin Good}
<1> SUFFICES ASSUME Bad # {} PROVE FALSE
  OBVIOUS
<1>1. PICK x \in Bad : \A y \in Bad : ~(y < x)
  <2> Bad \subseteq Nat
    OBVIOUS
  <2> HIDE DEF Bad
  <2> QED BY Smallest
<1>2. x # 0 /\ x - 1 \in 0..n /\ x - 1 < n /\ (x - 1) + 1 = x
  OBVIOUS
<1>3. x - 1 \in Good
  BY <1>1, <1>2
<1> QED BY <1>2, <1>3

\* f goes from v0 to its n-th value, each by the step st from the one before.
Goes(f, n, V, v0, st) ==
    f \in [0..n -> V] /\ f[0] = v0 /\ \A i \in 1..n : f[i] = st[<<i, f[i - 1]>>]

\* What is defined step by step exists.
LEMMA Iterates ==
    ASSUME NEW n \in Nat, NEW V, NEW v0 \in V, NEW st \in [(1..n) \X V -> V]
    PROVE  \E f : Goes(f, n, V, v0, st)
<1> USE DEF Goes
<1> DEFINE Has(m) == \E f : Goes(f, m, V, v0, st)
           Good == {m \in 0..n : Has(m)}
<1>1. 0 \in Good
  <2>1. [i \in 0..0 |-> v0] \in [0..0 -> V]
    OBVIOUS
  <2>2. Has(0)
    <3> WITNESS [i \in 0..0 |-> v0]
    <3> QED BY <2>1
  <2> QED BY <2>2
<1>2. ASSUME NEW m \in 0..n, m < n, m \in Good PROVE m + 1 \in Good
  <2>1. PICK f : Goes(f, m, V, v0, st)
    BY <1>2
  <2> DEFINE w == st[<<m + 1, f[m]>>]
             g == [i \in 0..m + 1 |-> IF i = m + 1 THEN w ELSE f[i]]
  <2>2. w \in V
    BY <1>2, <2>1
  <2>3. g \in [0..m + 1 -> V]
    BY <2>1, <2>2
  <2>4. g[0] = v0
    BY <2>1
  <2>5. ASSUME NEW i \in 1..m + 1 PROVE g[i] = st[<<i, g[i - 1]>>]
    <3>1. CASE i = m + 1
      <4>1. i - 1 = m /\ m # m + 1 /\ m \in 0..m + 1
        BY <3>1
      <4>2. g[m] = f[m] /\ g[m + 1] = w
        BY <4>1
      <4>3. <<i, g[i - 1]>> = <<m + 1, f[m]>>
        BY <3>1, <4>1, <4>2
      <4> QED BY <3>1, <4>2, <4>3
    <3>2. CASE i # m + 1
      <4>1. i \in 1..m /\ i - 1 \in 0..m /\ i - 1 # m + 1
        BY <3>2
      <4>2. g[i] = f[i] /\ g[i - 1] = f[i - 1]
        BY <4>1, <3>2
      <4> QED BY <4>1, <4>2, <2>1
    <3> QED BY <3>1, <3>2
  <2>6. Has(m + 1)
    <3> WITNESS g
    <3> QED BY <2>3, <2>4, <2>5
  <2> QED BY <2>6, <1>2
<1>3. n \in Good
  <2> HIDE DEF Good
  <2> QED BY <1>1, <1>2, UpTo
<1> QED BY <1>3

-----------------------------------------------------------------------------
(* FlattenSeq *)

\* Flattening, as the sequence of the partial results.
LEMMA FlattenRuns ==
    ASSUME NEW S, NEW seqs \in Seq(Seq(S)), seqs # <<>>
    PROVE  \E f \in [0..Len(seqs) -> Seq(S)] :
              /\ f[0] = <<>>
              /\ \A i \in 1..Len(seqs) : f[i] = f[i - 1] \o seqs[i]
              /\ FlattenSeq(seqs) = f[Len(seqs)]
<1> DEFINE n == Len(seqs)
           st == [x \in (1..n) \X Seq(S) |-> x[2] \o seqs[x[1]]]
<1>0. n \in Nat /\ n > 0 /\ \A i \in 1..n : seqs[i] \in Seq(S)
  OBVIOUS
<1>1. st \in [(1..n) \X Seq(S) -> Seq(S)]
  BY <1>0
<1>2. PICK f : Goes(f, n, Seq(S), <<>>, st)
  <2>1. <<>> \in Seq(S) /\ n \in Nat
    BY <1>0
  <2> HIDE DEF st, n
  <2> QED BY <1>1, <2>1, Iterates
<1>3. ASSUME NEW i \in 1..n PROVE f[i] = f[i - 1] \o seqs[i]
  <2>0. i - 1 \in 0..n
    BY <1>0
  <2>1. f[i - 1] \in Seq(S)
    BY <2>0, <1>2 DEF Goes
  <2>2. st[<<i, f[i - 1]>>] = f[i - 1] \o seqs[i]
    BY <2>1
  <2> QED BY <1>2, <2>1, <2>2 DEF Goes
<1> DEFINE Eq(g) == g = [i \in 1..n |-> IF i = 1 THEN seqs[i] ELSE g[i - 1] \o seqs[i]]
           h == [i \in 1..n |-> f[i]]
<1>4. Eq(h)
  <2>1. ASSUME NEW i \in 1..n
        PROVE  h[i] = IF i = 1 THEN seqs[i] ELSE h[i - 1] \o seqs[i]
    <3>1. CASE i = 1
      <4>0. f[i] = f[i - 1] \o seqs[i]
        BY <1>3
      <4>1. f[1] = f[0] \o seqs[1]
        BY <3>1, <4>0
      <4>2. <<>> \o seqs[1] = seqs[1]
        BY <1>0
      <4> QED BY <4>1, <4>2, <3>1, <1>2 DEF Goes
    <3>2. CASE i # 1
      <4>1. i - 1 \in 1..n
        BY <3>2
      <4> QED BY <3>2, <4>1, <1>3
    <3> QED BY <3>1, <3>2
  <2> QED BY <2>1
<1>5. ASSUME NEW g, Eq(g) PROVE \A i \in 0..n : i # 0 => g[i] = f[i]
  <2> DEFINE Good == {i \in 0..n : i # 0 => g[i] = f[i]}
  <2>1. 0 \in Good
    BY <1>0
  <2>2. ASSUME NEW i \in 0..n, i < n, i \in Good PROVE i + 1 \in Good
    <3>1. i + 1 \in 1..n /\ (i + 1) - 1 = i /\ i + 1 \in 0..n
      BY <2>2, <1>0
    <3>2. g[i + 1] = IF i + 1 = 1 THEN seqs[i + 1] ELSE g[i] \o seqs[i + 1]
      <4> HIDE DEF n
      <4> QED BY <1>5, <3>1
    <3>3. f[i + 1] = f[i] \o seqs[i + 1]
      BY <3>1, <1>3
    <3>4. CASE i = 0
      <4>1. f[0] \o seqs[i + 1] = seqs[i + 1]
        BY <1>2, <1>0, <3>1 DEF Goes
      <4> QED BY <3>1, <3>2, <3>3, <3>4, <4>1
    <3>5. CASE i # 0
      <4>1. g[i] = f[i] /\ i + 1 # 1
        BY <2>2, <3>5
      <4> QED BY <4>1, <3>1, <3>2, <3>3
    <3> QED BY <3>4, <3>5
  <2>3. \A i \in 0..n : i \in Good
    <3> HIDE DEF Good
    <3> QED BY <2>1, <2>2, <1>0, UpTo
  <2> QED BY <2>3
<1>6. \E g : Eq(g) /\ FlattenSeq(seqs) = g[n]
  <2>1. Len(seqs) # 0 /\ \E g : Eq(g)
    <3> HIDE DEF Eq, h
    <3> QED BY <1>4, <1>0
  <2> QED BY <2>1, Zenon DEF FlattenSeq
<1>7. FlattenSeq(seqs) = f[n]
  <2>1. PICK g : Eq(g) /\ FlattenSeq(seqs) = g[n]
    BY <1>6
  <2>2. \A i \in 0..n : i # 0 => g[i] = f[i]
    <3>1. Eq(g)
      BY <2>1
    <3> HIDE DEF Eq
    <3> QED BY <3>1, <1>5
  <2>3. n \in 0..n /\ n # 0
    BY <1>0
  <2> QED
    <3> HIDE DEF Eq, n
    <3> QED BY <2>1, <2>2, <2>3
<1> QED BY <1>2, <1>3, <1>7 DEF Goes

LEMMA ToSetConcat ==
    ASSUME NEW S, NEW s \in Seq(S), NEW t \in Seq(S)
    PROVE  ToSet(s \o t) = ToSet(s) \cup ToSet(t)
<1>1. /\ s \o t \in Seq(S) /\ Len(s \o t) = Len(s) + Len(t)
      /\ \A i \in 1..Len(s) : (s \o t)[i] = s[i]
      /\ \A i \in 1..Len(t) : (s \o t)[Len(s) + i] = t[i]
  OBVIOUS
<1>2. \A i \in 1..Len(s) + Len(t) : i \in 1..Len(s) \/ \E j \in 1..Len(t) : i = Len(s) + j
  <2>1. Len(s) \in Nat /\ Len(t) \in Nat
    OBVIOUS
  <2>2. ASSUME NEW i \in 1..Len(s) + Len(t), i \notin 1..Len(s)
        PROVE  i - Len(s) \in 1..Len(t) /\ i = Len(s) + (i - Len(s))
    BY <2>1, <2>2
  <2> QED BY <2>2
<1>3. DOMAIN (s \o t) = 1..Len(s) + Len(t) /\ DOMAIN s = 1..Len(s) /\ DOMAIN t = 1..Len(t)
  BY <1>1
<1>4. ToSet(s \o t) \subseteq ToSet(s) \cup ToSet(t)
  <2> SUFFICES ASSUME NEW i \in 1..Len(s) + Len(t)
               PROVE  (s \o t)[i] \in ToSet(s) \cup ToSet(t)
    BY <1>3 DEF ToSet
  <2>1. CASE i \in 1..Len(s)
    BY <2>1, <1>1, <1>3 DEF ToSet
  <2>2. ASSUME NEW j \in 1..Len(t), i = Len(s) + j PROVE (s \o t)[i] \in ToSet(t)
    BY <2>2, <1>1, <1>3 DEF ToSet
  <2> QED BY <2>1, <2>2, <1>2
<1>5. \A i \in 1..Len(s) : i \in 1..Len(s) + Len(t)
  OBVIOUS
<1>6. \A i \in 1..Len(t) : Len(s) + i \in 1..Len(s) + Len(t)
  OBVIOUS
<1>7. ToSet(s) \subseteq ToSet(s \o t) /\ ToSet(t) \subseteq ToSet(s \o t)
  BY <1>1, <1>3, <1>5, <1>6, Zenon DEF ToSet
<1> QED BY <1>4, <1>7

LEMMA FlattenEmpty == FlattenSeq(<<>>) = <<>>
BY DEF FlattenSeq

\* What is in a flattened sequence is what is in one of its parts.
LEMMA FlattenMembers ==
    ASSUME NEW S, NEW seqs \in Seq(Seq(S))
    PROVE  /\ FlattenSeq(seqs) \in Seq(S)
           /\ ToSet(FlattenSeq(seqs)) = {e \in S : \E i \in 1..Len(seqs) : e \in ToSet(seqs[i])}
<1>1. CASE seqs = <<>>
  <2>1. FlattenSeq(seqs) = <<>> /\ Len(seqs) = 0
    BY <1>1, FlattenEmpty
  <2> QED BY <2>1 DEF ToSet
<1>2. CASE seqs # <<>>
  <2> DEFINE n == Len(seqs)
             Parts(m) == {e \in S : \E i \in 1..m : e \in ToSet(seqs[i])}
  <2>0. n \in Nat /\ \A i \in 1..n : seqs[i] \in Seq(S)
    OBVIOUS
  <2>1. PICK f \in [0..n -> Seq(S)] :
           /\ f[0] = <<>>
           /\ \A i \in 1..n : f[i] = f[i - 1] \o seqs[i]
           /\ FlattenSeq(seqs) = f[n]
    BY <1>2, FlattenRuns
  <2> DEFINE Good == {m \in 0..n : ToSet(f[m]) = Parts(m)}
  <2>2. 0 \in Good
    <3>1. ToSet(f[0]) = {} /\ Parts(0) = {} /\ 0 \in 0..n
      BY <2>1, <2>0 DEF ToSet
    <3> QED BY <3>1
  <2>3. ASSUME NEW m \in 0..n, m < n, m \in Good PROVE m + 1 \in Good
    <3>1. m + 1 \in 1..n /\ (m + 1) - 1 = m /\ m + 1 \in 0..n
      BY <2>3, <2>0
    <3>2. f[m + 1] = f[m] \o seqs[m + 1]
      BY <3>1, <2>1
    <3>3. f[m] \in Seq(S) /\ seqs[m + 1] \in Seq(S)
      BY <2>0, <2>1, <3>1
    <3>4. ToSet(f[m] \o seqs[m + 1]) = ToSet(f[m]) \cup ToSet(seqs[m + 1])
      <4> HIDE DEF n
      <4> QED BY <3>3, ToSetConcat
    <3>5. ToSet(f[m]) = Parts(m)
      BY <2>3
    <3>6. ToSet(seqs[m + 1]) \subseteq S
      BY <3>3 DEF ToSet
    <3>7. Parts(m + 1) = Parts(m) \cup ToSet(seqs[m + 1])
      <4>1. \A i : i \in 1..m + 1 <=> i \in 1..m \/ i = m + 1
        BY <2>3, <2>0
      <4> QED BY <4>1, <3>6
    <3> QED BY <3>1, <3>2, <3>4, <3>5, <3>7
  <2>4. \A m \in 0..n : m \in Good
    <3> HIDE DEF Good
    <3> QED BY <2>2, <2>3, <2>0, UpTo
  <2> QED BY <2>4, <2>0, <2>1
<1> QED BY <1>1, <1>2

-----------------------------------------------------------------------------
(* The staged operations *)

LEMMA KeepMembers ==
    ASSUME NEW S, NEW ops \in Seq(S), NEW K
    PROVE  Keep(ops, K) \in Seq(S) /\ ToSet(Keep(ops, K)) = ToSet(ops) \cap K
<1> DEFINE parts == [i \in 1..Len(ops) |-> IF ops[i] \in K THEN <<ops[i]>> ELSE <<>>]
<1>1. parts \in Seq(Seq(S)) /\ Len(parts) = Len(ops)
  OBVIOUS
<1>2. FlattenSeq(parts) \in Seq(S)
      /\ ToSet(FlattenSeq(parts)) = {e \in S : \E i \in 1..Len(ops) : e \in ToSet(parts[i])}
  <2> HIDE DEF parts
  <2> QED BY <1>1, FlattenMembers
<1>3. \A i \in 1..Len(ops) : ToSet(parts[i]) = {ops[i]} \cap K
  BY DEF ToSet
<1>4. ToSet(ops) = {e \in S : \E i \in 1..Len(ops) : e = ops[i]}
  BY DEF ToSet
<1>5. {e \in S : \E i \in 1..Len(ops) : e \in ToSet(parts[i])} = ToSet(ops) \cap K
  <2> HIDE DEF parts
  <2>1. \A i \in 1..Len(ops) : \A e : e \in ToSet(parts[i]) <=> e = ops[i] /\ e \in K
    BY <1>3
  <2>2. {e \in S : \E i \in 1..Len(ops) : e \in ToSet(parts[i])}
          = {e \in S : \E i \in 1..Len(ops) : e = ops[i]} \cap K
    BY <2>1
  <2> QED BY <2>2, <1>4
<1> QED BY <1>2, <1>5 DEF Keep

LEMMA TheKinds ==
    /\ Len(Order) = 8
    /\ Kinds = {"add_group", "add_user", "mod_user", "set_member", "set_password",
                "set_defaults", "del_user", "del_group"}
    /\ \A k \in Kinds : \E i \in 1..8 : Order[i] = k
<1>1. Len(Order) = 8 /\ DOMAIN Order = 1..8
  <2>1. Len(Order) = 8
    BY DEF Order
  <2>2. DOMAIN Order = 1..8
    BY DEF Order
  <2> QED BY <2>1, <2>2
<1>2. 1..8 = {1, 2, 3, 4, 5, 6, 7, 8}
  OBVIOUS
<1>3. /\ Order[1] = "add_group" /\ Order[2] = "add_user" /\ Order[3] = "mod_user"
      /\ Order[4] = "set_member" /\ Order[5] = "set_password" /\ Order[6] = "set_defaults"
      /\ Order[7] = "del_user" /\ Order[8] = "del_group"
  BY DEF Order
<1>4. Kinds = {Order[i] : i \in {1, 2, 3, 4, 5, 6, 7, 8}}
  BY <1>1, <1>2 DEF Kinds, ToSet
<1> QED BY <1>1, <1>2, <1>3, <1>4

Names == Users \cup Groups \cup {NoName}
UserOps == [kind : Kinds, user : Names, group : Names, groups : SUBSET Groups, add : BOOLEAN]

\* The replay leaves no operation out.
LEMMA OrderedMembers ==
    ASSUME NEW ops \in Seq(UserOps)
    PROVE  Ordered(ops) \in Seq(UserOps) /\ ToSet(ops) \subseteq ToSet(Ordered(ops))
<1> DEFINE OfKind(k) == Keep(ops, {o \in ToSet(ops) : o.kind = Order[k]})
           parts == [k \in 1..Len(Order) |-> OfKind(k)]
<1>1. \A k \in 1..8 : /\ OfKind(k) \in Seq(UserOps)
                      /\ ToSet(OfKind(k)) = {o \in ToSet(ops) : o.kind = Order[k]}
  BY KeepMembers
<1>2. parts \in Seq(Seq(UserOps)) /\ Len(parts) = 8 /\ \A k \in 1..8 : parts[k] = OfKind(k)
  BY <1>1, TheKinds
<1>3. FlattenSeq(parts) \in Seq(UserOps)
      /\ ToSet(FlattenSeq(parts)) = {e \in UserOps : \E k \in 1..8 : e \in ToSet(parts[k])}
  <2>1. parts \in Seq(Seq(UserOps)) /\ Len(parts) = 8
    BY <1>2
  <2> HIDE DEF parts
  <2>2. FlattenSeq(parts) \in Seq(UserOps)
        /\ ToSet(FlattenSeq(parts)) = {e \in UserOps : \E k \in 1..Len(parts) : e \in ToSet(parts[k])}
    BY <2>1, FlattenMembers, Zenon
  <2> QED BY <2>1, <2>2
<1>4. ASSUME NEW o \in ToSet(ops) PROVE o \in ToSet(FlattenSeq(parts))
  <2>0. o \in UserOps
    BY <1>4 DEF ToSet
  <2>1. o \in UserOps /\ o.kind \in Kinds
    BY <2>0 DEF UserOps
  <2>2. PICK k \in 1..8 : Order[k] = o.kind
    BY <2>1, TheKinds
  <2>3. o \in ToSet(parts[k])
    BY <2>2, <1>1, <1>2
  <2> HIDE DEF parts
  <2> QED BY <2>1, <2>3, <1>3
<1>5. Ordered(ops) = FlattenSeq(parts)
  BY DEF Ordered
<1> QED BY <1>3, <1>4, <1>5

-----------------------------------------------------------------------------
(* USERS & GROUPS.  The invariant *)

Windows == {[is |-> "screen"], [is |-> "discard"]}
           \cup [is : {"guard"}, then : {"auth", "leave"}]
           \cup [is : {"form"}, kind : Kinds, name : Names]
Books == [users : SUBSET Names, groups : SUBSET Names,
          members : SUBSET (Names \X Names), changed : SUBSET Names]
Replays == [pc : {"start", "run", "proceed", "end"}, then : {"stay", "auth", "leave"},
            ops : Seq(UserOps), done : Nat, failed : Nat, base : Books \cup {<<>>},
            alone : BOOLEAN]

UsersTypeInv ==
    /\ accounts \in Books
    /\ pending \in Seq(UserOps)
    /\ uview \in Tabs
    /\ rows \in [of : {"users", "groups"}, names : SUBSET Names]
    /\ ustack \in Seq(Windows)
    /\ apply \in Seq(Replays)

\* The forms and dialogues are above the screen.
Bottom == ustack # <<>> => ustack[1].is = "screen"

\* While a replay is under way, and once it has met no failure, everything on
\* the list was taken by it or staged since.
Taken(t) ==
    /\ apply[t].pc = "run" => ToSet(pending) \subseteq meanwhile \cup ToSet(apply[t].ops)
    /\ apply[t].pc = "proceed" /\ apply[t].failed = 0 => ToSet(pending) \subseteq meanwhile
TakenInv == \A t \in 1..Len(apply) : Taken(t)

UsersIInv == UsersTypeInv /\ Bottom /\ TakenInv

-----------------------------------------------------------------------------
(* Types *)

LEMMA PushFacts ==
    ASSUME NEW s \in Seq(Windows), NEW w \in Windows, s # <<>>
    PROVE  Append(s, w) \in Seq(Windows) /\ Append(s, w) # <<>> /\ Append(s, w)[1] = s[1]
<1>1. Len(s) \in Nat /\ Len(s) > 0
  OBVIOUS
<1>2. /\ Append(s, w) \in Seq(Windows) /\ Append(s, w) # <<>>
      /\ \A i \in 1..Len(s) : Append(s, w)[i] = s[i]
  BY AppendProperties
<1> QED BY <1>1, <1>2

LEMMA PopFacts ==
    ASSUME NEW s \in Seq(Windows)
    PROVE  /\ Pop(s) \in Seq(Windows)
           /\ Pop(s) # <<>> => s # <<>> /\ Pop(s)[1] = s[1]
           /\ s # <<>> /\ Last(s) # s[1] => Pop(s) # <<>>
<1>1. CASE s = <<>>
  BY <1>1 DEF Pop
<1>2. CASE s # <<>>
  <2>1. Len(s) \in Nat /\ Len(s) > 0 /\ Pop(s) = SubSeq(s, 1, Len(s) - 1)
    BY <1>2 DEF Pop, Front
  <2>2. /\ Pop(s) \in Seq(Windows) /\ Len(Pop(s)) = Len(s) - 1
        /\ \A i \in 1..Len(s) - 1 : Pop(s)[i] = s[i]
    <3>1. /\ SubSeq(s, 1, Len(s) - 1) \in Seq(Windows)
          /\ Len(SubSeq(s, 1, Len(s) - 1)) = Len(s) - 1
          /\ \A i \in 1..Len(s) - 1 : SubSeq(s, 1, Len(s) - 1)[i] = s[i]
      <4> DEFINE m == Len(s) - 1
      <4>1. m \in Int /\ 1 \in Int /\ m >= 0 /\ \A i \in 1..m : s[i] \in Windows
        BY <2>1
      <4> HIDE DEF m
      <4>2. /\ SubSeq(s, 1, m) \in Seq(Windows)
            /\ Len(SubSeq(s, 1, m)) = IF 1 <= m THEN m - 1 + 1 ELSE 0
            /\ \A i \in 1..m - 1 + 1 : SubSeq(s, 1, m)[i] = s[1 + i - 1]
        BY <4>1, SubSeqProperties
      <4>3. Len(SubSeq(s, 1, m)) = m /\ \A i \in 1..m : SubSeq(s, 1, m)[i] = s[i]
        BY <4>1, <4>2
      <4> QED BY <4>2, <4>3 DEF m
    <3> QED BY <3>1, <2>1
  <2>3. Last(s) # s[1] => Len(s) # 1
    BY DEF Last
  <2>4. Pop(s) # <<>> => Len(Pop(s)) > 0
    BY <2>2
  <2>5. Len(Pop(s)) > 0 => Pop(s) # <<>>
    OBVIOUS
  <2> HIDE DEF Pop
  <2> QED BY <1>2, <2>1, <2>2, <2>3, <2>4, <2>5
<1> QED BY <1>1, <1>2

LEMMA LastWindow ==
    ASSUME NEW s \in Seq(Windows), s # <<>>
    PROVE  /\ Last(s) \in Windows
           /\ Last(s).is = "guard" => Last(s).then \in {"auth", "leave"}
           /\ Last(s).is = "form" => Last(s).kind \in Kinds /\ Last(s).name \in Names
<1>1. Last(s) \in Windows
  BY DEF Last
<1> QED BY <1>1 DEF Windows

LEMMA EffectType ==
    ASSUME NEW a \in Books, NEW o \in UserOps
    PROVE  Effect(a, o) \in Books
<1>1. /\ o.kind \in Kinds /\ o.user \in Names /\ o.group \in Names
      /\ o.groups \subseteq Names
  BY DEF UserOps, Names
<1>2. /\ a.users \subseteq Names /\ a.groups \subseteq Names
      /\ a.members \subseteq Names \X Names /\ a.changed \subseteq Names
  BY DEF Books
<1>3. NoName \in Names /\ o.groups \X {o.user} \subseteq Names \X Names
      /\ <<o.group, o.user>> \in Names \X Names
  BY <1>1 DEF Names
<1>4. CASE o.kind = "add_user"
  <2>1. Effect(a, o) = [a EXCEPT !.users = a.users \cup {o.user},
                                 !.members = a.members \cup (o.groups \X {o.user})]
    BY <1>4 DEF Effect
  <2>2. a.users \cup {o.user} \subseteq Names
        /\ a.members \cup (o.groups \X {o.user}) \subseteq Names \X Names
    BY <1>1, <1>2, <1>3
  <2> QED BY <2>1, <2>2 DEF Books
<1>5. CASE o.kind = "mod_user"
  <2> DEFINE m == IF o.groups = {} THEN a.members
                  ELSE {x \in a.members : x[2] # o.user} \cup (o.groups \X {o.user})
  <2>1. Effect(a, o) = [a EXCEPT !.members = m]
    BY <1>5 DEF Effect
  <2>2. m \subseteq Names \X Names
    BY <1>2, <1>3
  <2> HIDE DEF m
  <2> QED BY <2>1, <2>2 DEF Books
<1>6. CASE o.kind = "set_member"
  <2> DEFINE m == IF o.add THEN a.members \cup {<<o.group, o.user>>}
                  ELSE a.members \ {<<o.group, o.user>>}
  <2>1. Effect(a, o) = [a EXCEPT !.members = m]
    BY <1>6 DEF Effect
  <2>2. m \subseteq Names \X Names
    BY <1>2, <1>3
  <2> HIDE DEF m
  <2> QED BY <2>1, <2>2 DEF Books
<1>7. CASE o.kind \in {"set_password", "set_defaults"}
  <2>1. \E n \in Names : Effect(a, o) = [a EXCEPT !.changed = a.changed \cup {n}]
    BY <1>1, <1>3, <1>7 DEF Effect
  <2> QED BY <2>1, <1>2 DEF Books
<1>8. CASE o.kind = "add_group"
  <2>1. Effect(a, o) = [a EXCEPT !.groups = a.groups \cup {o.group}]
    BY <1>8 DEF Effect
  <2> QED BY <2>1, <1>1, <1>2 DEF Books
<1>9. CASE o.kind = "del_group"
  <2> DEFINE m == {x \in a.members : x[1] # o.group}
  <2>1. Effect(a, o) = [a EXCEPT !.groups = a.groups \ {o.group}, !.members = m]
    BY <1>9 DEF Effect
  <2>2. m \subseteq Names \X Names
    BY <1>2
  <2> HIDE DEF m
  <2> QED BY <2>1, <2>2, <1>2 DEF Books
<1>10. CASE o.kind = "del_user"
  <2> DEFINE m == {x \in a.members : x[2] # o.user}
  <2>1. Effect(a, o) = [a EXCEPT !.users = a.users \ {o.user},
                                 !.changed = a.changed \ {o.user}, !.members = m]
    BY <1>10 DEF Effect
  <2>2. m \subseteq Names \X Names
    BY <1>2
  <2> HIDE DEF m
  <2> QED BY <2>1, <2>2, <1>2 DEF Books
<1> QED BY <1>1, <1>4, <1>5, <1>6, <1>7, <1>8, <1>9, <1>10, TheKinds

LEMMA FormOps ==
    ASSUME NEW f \in Windows, f.is = "form"
    PROVE  Ops(f) \subseteq UserOps
<1>1. f.kind \in Kinds /\ f.name \in Names
  BY DEF Windows
<1>2. ASSUME NEW k \in Kinds, NEW n \in Names, NEW gs \in SUBSET Groups
      PROVE  UserOp(k, n, gs) \in UserOps
  BY DEF UserOp, UserOps, Names
<1>3. ASSUME NEW k \in Kinds, NEW n \in Names PROVE GroupOp(k, n) \in UserOps
  BY DEF GroupOp, UserOps, Names
<1>4. ASSUME NEW n \in Names, NEW u \in Users, NEW a \in BOOLEAN
      PROVE  MemberOp(n, u, a) \in UserOps
  BY TheKinds DEF MemberOp, UserOps, Names
<1>5. /\ {"add_user", "mod_user", "add_group", "set_defaults"} \subseteq Kinds
      /\ Users \subseteq Names /\ Groups \subseteq Names /\ NoName \in Names
  BY TheKinds DEF Names
<1>6. CASE f.kind = "add_user"
  BY <1>6, <1>2, <1>5 DEF Ops
<1>7. CASE f.kind = "mod_user"
  <2> DEFINE k == IF \E o \in Staged("add_user") : o.user = f.name
                  THEN "add_user" ELSE "mod_user"
  <2>1. k \in Kinds
    BY <1>5
  <2>2. Ops(f) = {UserOp(k, f.name, gs) : gs \in SUBSET Groups}
    BY <1>7 DEF Ops
  <2> HIDE DEF k
  <2> QED BY <2>1, <2>2, <1>1, <1>2
<1>8. CASE f.kind = "add_group"
  <2>1. Ops(f) = {GroupOp("add_group", g) : g \in Groups}
    BY <1>8 DEF Ops
  <2> QED BY <2>1, <1>3, <1>5
<1>9. CASE f.kind = "set_member"
  <2>1. Ops(f) = {MemberOp(f.name, u, a) : u \in Users, a \in BOOLEAN}
    BY <1>9 DEF Ops
  <2> QED BY <2>1, <1>1, <1>4
<1>10. CASE f.kind = "del_group"
  BY <1>10, <1>1, <1>3 DEF Ops
<1>11. CASE f.kind = "set_defaults"
  BY <1>11, <1>3, <1>5 DEF Ops, DefaultsOp
<1>12. CASE f.kind \notin {"add_user", "mod_user", "add_group", "set_member", "del_group",
                          "set_defaults"}
  <2>1. Ops(f) = {UserOp(f.kind, f.name, {})}
    BY <1>12 DEF Ops
  <2> QED BY <2>1, <1>1, <1>2
<1> QED BY <1>6, <1>7, <1>8, <1>9, <1>10, <1>11, <1>12

-----------------------------------------------------------------------------
(* Steps *)

StackMove ==
    \/ ustack' = ustack
    \/ \E w \in Windows : ustack # <<>> /\ ustack' = Append(ustack, w)
    \/ ustack' = Pop(ustack)
    \/ ustack' = Pop(Pop(ustack))

LEMMA StackStep ==
    ASSUME ustack \in Seq(Windows), Bottom, StackMove
    PROVE  ustack' \in Seq(Windows) /\ Bottom'
<1>1. CASE ustack' = ustack
  BY <1>1 DEF Bottom
<1>2. ASSUME NEW w \in Windows, ustack # <<>>, ustack' = Append(ustack, w)
      PROVE  ustack' \in Seq(Windows) /\ Bottom'
  BY <1>2, PushFacts DEF Bottom
<1>3. CASE ustack' = Pop(ustack)
  BY <1>3, PopFacts DEF Bottom
<1>4. CASE ustack' = Pop(Pop(ustack))
  <2>1. Pop(ustack) \in Seq(Windows) /\ (Pop(ustack) # <<>> => ustack # <<>> /\ Pop(ustack)[1] = ustack[1])
    BY PopFacts
  <2>2. Pop(Pop(ustack)) \in Seq(Windows)
        /\ (Pop(Pop(ustack)) # <<>> => Pop(ustack) # <<>> /\ Pop(Pop(ustack))[1] = Pop(ustack)[1])
    BY <2>1, PopFacts
  <2> QED BY <2>1, <2>2, <1>4 DEF Bottom
<1> QED BY <1>1, <1>2, <1>3, <1>4 DEF StackMove

LEMMA TheWindows ==
    /\ [is |-> "discard"] \in Windows
    /\ \A a \in {"auth", "leave"} : [is |-> "guard", then |-> a] \in Windows
    /\ \A k \in Kinds, n \in Names : [is |-> "form", kind |-> k, name |-> n] \in Windows
BY DEF Windows

\* The list is what was on it, or less.
LEMMA LessPending ==
    ASSUME pending \in Seq(UserOps), NEW K
    PROVE  Keep(pending, K) \in Seq(UserOps) /\ ToSet(Keep(pending, K)) \subseteq ToSet(pending)
BY KeepMembers

LEMMA StageFacts ==
    ASSUME pending \in Seq(UserOps), NEW op \in UserOps
    PROVE  Stage(op) \in Seq(UserOps) /\ ToSet(Stage(op)) \subseteq ToSet(pending) \cup {op}
<1> DEFINE kept == Keep(pending, {o \in ToSet(pending) : ~SameKey(o, op)})
<1>1. kept \in Seq(UserOps) /\ ToSet(kept) \subseteq ToSet(pending)
  BY LessPending
<1>2. Stage(op) = Append(kept, op)
  BY DEF Stage
<1> HIDE DEF kept
<1>3. /\ Append(kept, op) \in Seq(UserOps) /\ Len(Append(kept, op)) = Len(kept) + 1
      /\ \A i \in 1..Len(kept) : Append(kept, op)[i] = kept[i]
      /\ Append(kept, op)[Len(kept) + 1] = op
  BY <1>1, AppendProperties
<1>4. Len(kept) \in Nat /\ DOMAIN kept = 1..Len(kept)
      /\ DOMAIN Append(kept, op) = 1..Len(kept) + 1
  BY <1>1, <1>3
<1>5. ASSUME NEW i \in 1..Len(kept) + 1
      PROVE  Append(kept, op)[i] \in ToSet(kept) \cup {op}
  <2>1. CASE i = Len(kept) + 1
    BY <2>1, <1>3
  <2>2. CASE i # Len(kept) + 1
    <3>1. i \in 1..Len(kept)
      BY <2>2, <1>4
    <3> QED BY <3>1, <1>3, <1>4 DEF ToSet
  <2> QED BY <2>1, <2>2
<1>6. ToSet(Append(kept, op)) \subseteq ToSet(kept) \cup {op}
  BY <1>4, <1>5 DEF ToSet
<1> QED BY <1>1, <1>2, <1>3, <1>6

\* A key or a load: the replays and the system stay as they are.
LEMMA KeyTypes ==
    ASSUME UsersTypeInv,
           \/ OpenForm \/ SaveForm \/ Cancel \/ Unstage \/ Leave \/ AskDiscard \/ Discard
           \/ GuardDiscard \/ (\E v \in Tabs : Switch(v))
           \/ (\E l \in {"users", "groups"} : ShowRows(l))
    PROVE  /\ accounts' = accounts /\ apply' = apply
           /\ pending' \in Seq(UserOps) /\ uview' \in Tabs
           /\ rows' \in [of : {"users", "groups"}, names : SUBSET Names]
           /\ StackMove
<1> USE DEF UsersTypeInv
<1>0. <<>> \in Seq(UserOps) /\ {"users", "groups", "defaults", "auth"} = Tabs
  BY DEF Tabs
<1>1. CASE OpenForm
  <2>1. PICK f \in Forms : Push(f)
    BY <1>1 DEF OpenForm
  <2>2. Current \subseteq Names /\ NoName \in Names
    BY DEF Current, Names
  <2>3. f \in Windows
    <3>1. \E k \in Kinds, n \in Names : f = [is |-> "form", kind |-> k, name |-> n]
      BY <2>2, TheKinds DEF Forms
    <3> QED BY <3>1, TheWindows
  <2>4. ustack # <<>> /\ ustack' = Append(ustack, f)
    BY <1>1, <2>1 DEF OpenForm, OnTop, Push
  <2>5. StackMove
    BY <2>3, <2>4 DEF StackMove
  <2> QED BY <1>1, <2>5 DEF OpenForm
<1>2. CASE SaveForm
  <2>1. PICK op \in Ops(Last(ustack)) : pending' = Stage(op)
    BY <1>2 DEF SaveForm
  <2>2. op \in UserOps
    <3>1. ustack # <<>> /\ Last(ustack).is = "form"
      BY <1>2 DEF SaveForm, OnTop
    <3>2. Last(ustack) \in Windows
      BY <3>1, LastWindow
    <3> QED BY <3>1, <3>2, <2>1, FormOps
  <2>3. pending' \in Seq(UserOps)
    BY <2>1, <2>2, StageFacts
  <2> QED BY <1>2, <2>3 DEF SaveForm, StackMove
<1>3. CASE Cancel
  BY <1>3 DEF Cancel, StackMove
<1>4. CASE Unstage
  <2>1. \E K : pending' = Keep(pending, K)
    BY <1>4 DEF Unstage, Without
  <2>2. pending' \in Seq(UserOps)
    BY <2>1, LessPending
  <2> QED BY <1>4, <2>2 DEF Unstage, StackMove
<1>5. CASE Leave
  <2>1. StackMove
    BY <1>5, TheWindows DEF Leave, OnTop, StackMove
  <2> QED BY <1>5, <2>1 DEF Leave
<1>6. CASE AskDiscard
  <2>1. StackMove
    BY <1>6, TheWindows DEF AskDiscard, OnTop, Push, StackMove
  <2> QED BY <1>6, <2>1 DEF AskDiscard
<1>7. CASE Discard
  BY <1>7, <1>0 DEF Discard, StackMove
<1>8. CASE GuardDiscard
  <2>1. StackMove /\ uview' \in Tabs
    BY <1>8, <1>0 DEF GuardDiscard, DoSwitch, StackMove
  <2> QED BY <1>8, <1>0, <2>1 DEF GuardDiscard
<1>9. ASSUME NEW v \in Tabs, Switch(v)
      PROVE  /\ accounts' = accounts /\ apply' = apply
             /\ pending' \in Seq(UserOps) /\ uview' \in Tabs
             /\ rows' \in [of : {"users", "groups"}, names : SUBSET Names]
             /\ StackMove
  <2>1. StackMove /\ uview' \in Tabs
    BY <1>9, TheWindows DEF Switch, OnTop, Push, DoSwitch, StackMove
  <2> QED BY <1>9, <2>1 DEF Switch
<1>10. ASSUME NEW l \in {"users", "groups"}, ShowRows(l)
       PROVE  /\ accounts' = accounts /\ apply' = apply
              /\ pending' \in Seq(UserOps) /\ uview' \in Tabs
              /\ rows' \in [of : {"users", "groups"}, names : SUBSET Names]
              /\ StackMove
  <2>1. Shown(l) \subseteq Names
    <3>1. accounts.users \subseteq Names /\ accounts.groups \subseteq Names
      BY DEF Books
    <3>2. \A o \in ToSet(pending) : o \in UserOps
      BY DEF ToSet
    <3>3. \A o \in UserOps : o.user \in Names /\ o.group \in Names
      BY DEF UserOps
    <3> QED BY <3>1, <3>2, <3>3 DEF Shown, Staged
  <2> QED BY <1>10, <2>1 DEF ShowRows, StackMove
<1> QED BY <1>1, <1>2, <1>3, <1>4, <1>5, <1>6, <1>7, <1>8, <1>9, <1>10

LEMMA OneReplay ==
    ASSUME apply \in Seq(Replays), NEW t \in 1..Len(apply), NEW r \in Replays,
           apply' = [apply EXCEPT ![t] = r]
    PROVE  /\ apply' \in Seq(Replays) /\ Len(apply') = Len(apply) /\ apply'[t] = r
           /\ \A u \in 1..Len(apply) : u # t => apply'[u] = apply[u]
OBVIOUS

LEMMA Scheduled ==
    ASSUME apply \in Seq(Replays), accounts \in Books,
           NEW then \in {"stay", "auth", "leave"}, Schedule(then)
    PROVE  /\ apply' \in Seq(Replays) /\ Len(apply') = Len(apply) + 1
           /\ \A u \in 1..Len(apply) : /\ apply'[u].pc = apply[u].pc
                                       /\ apply'[u].ops = apply[u].ops
                                       /\ apply'[u].failed = apply[u].failed
           /\ apply'[Len(apply) + 1].pc = "start"
<1> DEFINE old == [u \in 1..Len(apply) |-> [apply[u] EXCEPT !.alone = FALSE]]
           new == [pc |-> "start", then |-> then, ops |-> <<>>, done |-> 0,
                   failed |-> 0, base |-> accounts, alone |-> Active = {}]
<1>1. \A u \in 1..Len(apply) : apply[u] \in Replays
  OBVIOUS
<1>2. \A r \in Replays : /\ [r EXCEPT !.alone = FALSE] \in Replays
                         /\ [r EXCEPT !.alone = FALSE].pc = r.pc
                         /\ [r EXCEPT !.alone = FALSE].ops = r.ops
                         /\ [r EXCEPT !.alone = FALSE].failed = r.failed
  BY DEF Replays
<1>3. old \in Seq(Replays) /\ Len(old) = Len(apply)
  BY <1>1, <1>2
<1>4. new \in Replays /\ new.pc = "start"
  <2>1. (Active = {}) \in BOOLEAN /\ <<>> \in Seq(UserOps)
    OBVIOUS
  <2> QED BY <2>1 DEF Replays
<1>5. apply' = Append(old, new)
  BY DEF Schedule
<1>6. \A u \in 1..Len(apply) : /\ old[u].pc = apply[u].pc /\ old[u].ops = apply[u].ops
                               /\ old[u].failed = apply[u].failed
  BY <1>1, <1>2
<1> HIDE DEF old, new
<1>7. /\ apply' \in Seq(Replays) /\ Len(apply') = Len(old) + 1
      /\ \A u \in 1..Len(old) : apply'[u] = old[u]
      /\ apply'[Len(old) + 1] = new
  BY <1>3, <1>4, <1>5, AppendProperties
<1> QED BY <1>3, <1>4, <1>6, <1>7

\* An OK, or a step of a replay: what is left to show of it.
LEMMA ReplayFacts ==
    ASSUME UsersTypeInv, NEW t \in 1..Len(apply)
    PROVE  /\ Connect(t) =>
                \E r \in Replays :
                    /\ apply' = [apply EXCEPT ![t] = r]
                    /\ \/ r.pc = "proceed" /\ r.failed = 1
                       \/ r.pc = "run" /\ ToSet(pending) \subseteq ToSet(r.ops)
           /\ ApplyOp(t) =>
                \E r \in Replays :
                    /\ apply' = [apply EXCEPT ![t] = r] /\ accounts' \in Books
                    /\ apply[t].pc = "run" /\ r.pc = "run" /\ r.ops = apply[t].ops
           /\ Report(t) =>
                \E r \in Replays : apply' = [apply EXCEPT ![t] = r] /\ r.pc = "proceed"
           /\ Proceed(t) =>
                \E r \in Replays : apply' = [apply EXCEPT ![t] = r] /\ r.pc = "end"
<1> DEFINE a == apply[t]
<1>0. /\ a \in Replays /\ a.done \in Nat /\ a.failed \in Nat /\ a.ops \in Seq(UserOps)
      /\ a.alone \in BOOLEAN
  <2>1. a \in Replays
    BY DEF UsersTypeInv
  <2> HIDE DEF a
  <2> QED BY <2>1 DEF Replays
<1>1. ASSUME Connect(t)
      PROVE  \E r \in Replays :
                    /\ apply' = [apply EXCEPT ![t] = r]
                    /\ \/ r.pc = "proceed" /\ r.failed = 1
                       \/ r.pc = "run" /\ ToSet(pending) \subseteq ToSet(r.ops)
  <2>1. CASE apply' = [apply EXCEPT ![t].pc = "proceed", ![t].failed = 1]
    <3> DEFINE r == [a EXCEPT !.pc = "proceed", !.failed = 1]
    <3>1. r \in Replays /\ r.pc = "proceed" /\ r.failed = 1
      BY <1>0 DEF Replays
    <3>2. apply' = [apply EXCEPT ![t] = r]
      BY <2>1, <1>0 DEF UsersTypeInv
    <3> QED BY <3>1, <3>2
  <2>2. CASE apply' = [apply EXCEPT ![t].pc = "run", ![t].ops = Ordered(pending),
                                    ![t].base = accounts]
    <3> DEFINE r == [a EXCEPT !.pc = "run", !.ops = Ordered(pending), !.base = accounts]
    <3>0. Ordered(pending) \in Seq(UserOps) /\ ToSet(pending) \subseteq ToSet(Ordered(pending))
      BY OrderedMembers DEF UsersTypeInv
    <3>1. r \in Replays /\ r.pc = "run" /\ r.ops = Ordered(pending)
      BY <1>0, <3>0 DEF Replays, UsersTypeInv
    <3>2. apply' = [apply EXCEPT ![t] = r]
      BY <2>2, <1>0 DEF UsersTypeInv
    <3> QED BY <3>0, <3>1, <3>2
  <2> QED BY <1>1, <2>1, <2>2 DEF Connect
<1>2. ASSUME ApplyOp(t)
      PROVE  \E r \in Replays :
                    /\ apply' = [apply EXCEPT ![t] = r] /\ accounts' \in Books
                    /\ apply[t].pc = "run" /\ r.pc = "run" /\ r.ops = apply[t].ops
  <2> DEFINE o == a.ops[a.done + 1]
  <2>1. a.pc = "run" /\ a.done < Len(a.ops)
    BY <1>2 DEF ApplyOp, At
  <2>2. o \in UserOps
    BY <1>0, <2>1
  <2>3. CASE apply' = [apply EXCEPT ![t].done = @ + 1] /\ accounts' = Effect(accounts, o)
    <3> DEFINE r == [a EXCEPT !.done = a.done + 1]
    <3>1. r \in Replays /\ r.pc = "run" /\ r.ops = a.ops
      BY <1>0, <2>1 DEF Replays
    <3>2. apply' = [apply EXCEPT ![t] = r]
      BY <2>3, <1>0 DEF UsersTypeInv
    <3>3. accounts' \in Books
      <4> HIDE DEF o
      <4> QED BY <2>3, <2>2, EffectType DEF UsersTypeInv
    <3> QED BY <3>1, <3>2, <3>3, <2>1
  <2>4. CASE /\ apply' = [apply EXCEPT ![t].done = @ + 1, ![t].failed = @ + 1,
                                      ![t].alone = @ /\ ~Accepts(accounts, o)]
             /\ accounts' = accounts
    <3> DEFINE b == a.alone /\ ~Accepts(accounts, o)
               r == [a EXCEPT !.done = a.done + 1, !.failed = a.failed + 1, !.alone = b]
    <3>0. b \in BOOLEAN
      OBVIOUS
    <3>1. r \in Replays /\ r.pc = "run" /\ r.ops = a.ops
      <4> DEFINE c == [a EXCEPT !.done = a.done + 1, !.failed = a.failed + 1]
      <4>1. c \in Replays /\ c.pc = "run" /\ c.ops = a.ops
        <5>1. \A q \in Replays : \A d, f \in Nat :
                 /\ [q EXCEPT !.done = d, !.failed = f] \in Replays
                 /\ [q EXCEPT !.done = d, !.failed = f].pc = q.pc
                 /\ [q EXCEPT !.done = d, !.failed = f].ops = q.ops
          BY DEF Replays
        <5>2. a.done + 1 \in Nat /\ a.failed + 1 \in Nat
          BY <1>0
        <5> HIDE DEF a
        <5> QED BY <1>0, <2>1, <5>1, <5>2
      <4>2. \A v \in BOOLEAN : /\ [c EXCEPT !.alone = v] \in Replays
                               /\ [c EXCEPT !.alone = v].pc = c.pc
                               /\ [c EXCEPT !.alone = v].ops = c.ops
        <5> HIDE DEF c
        <5> QED BY <4>1 DEF Replays
      <4>3. r = [c EXCEPT !.alone = b]
        <5> HIDE DEF b
        <5> QED BY <1>0 DEF Replays
      <4> HIDE DEF b, c, r
      <4> QED BY <3>0, <4>1, <4>2, <4>3
    <3>2. apply' = [apply EXCEPT ![t] = r]
      BY <2>4, <1>0 DEF UsersTypeInv
    <3> QED BY <3>1, <3>2, <2>1, <2>4 DEF UsersTypeInv
  <2> QED BY <1>2, <2>3, <2>4 DEF ApplyOp
<1>3. ASSUME Report(t)
      PROVE  \E r \in Replays : apply' = [apply EXCEPT ![t] = r] /\ r.pc = "proceed"
  <2> DEFINE r == [a EXCEPT !.pc = "proceed"]
  <2>1. r \in Replays /\ r.pc = "proceed"
    BY <1>0 DEF Replays
  <2>2. apply' = [apply EXCEPT ![t] = r]
    BY <1>3, <1>0 DEF UsersTypeInv, Report
  <2> QED BY <2>1, <2>2
<1>4. ASSUME Proceed(t)
      PROVE  \E r \in Replays : apply' = [apply EXCEPT ![t] = r] /\ r.pc = "end"
  <2>1. Done \in Replays /\ Done.pc = "end"
    <3>1. <<>> \in Seq(UserOps)
      OBVIOUS
    <3> QED BY <3>1 DEF Done, Replays
  <2> QED BY <2>1, <1>4 DEF Proceed
<1> QED BY <1>1, <1>2, <1>3, <1>4

LEMMA UsersTypeStep ==
    ASSUME UsersTypeInv, Bottom, UsersNext
    PROVE  UsersTypeInv' /\ Bottom' /\ StackMove
<1> DEFINE Holds == UsersTypeInv' /\ StackMove
<1> SUFFICES Holds
  BY StackStep DEF UsersTypeInv
<1>1. CASE \/ OpenForm \/ SaveForm \/ Cancel \/ Unstage \/ Leave \/ AskDiscard \/ Discard
           \/ GuardDiscard \/ (\E v \in Tabs : Switch(v))
           \/ (\E l \in {"users", "groups"} : ShowRows(l))
  <2>1. /\ accounts' = accounts /\ apply' = apply
        /\ pending' \in Seq(UserOps) /\ uview' \in Tabs
        /\ rows' \in [of : {"users", "groups"}, names : SUBSET Names]
        /\ StackMove
    BY <1>1, KeyTypes
  <2>2. ustack' \in Seq(Windows)
    BY <2>1, StackStep DEF UsersTypeInv
  <2>3. accounts' \in Books /\ apply' \in Seq(Replays)
    BY <2>1 DEF UsersTypeInv
  <2>4. UsersTypeInv'
    BY <2>1, <2>2, <2>3, Zenon DEF UsersTypeInv
  <2> QED BY <2>1, <2>4
<1>2. CASE Accept \/ GuardSave
  <2>1. \E then \in {"stay", "auth", "leave"} : Schedule(then)
    <3>1. CASE GuardSave
      BY <3>1, LastWindow DEF GuardSave, OnTop, UsersTypeInv
    <3>2. CASE Accept
      BY <3>2 DEF Accept
    <3> QED BY <1>2, <3>1, <3>2
  <2>2. apply' \in Seq(Replays)
    BY <2>1, Scheduled DEF UsersTypeInv
  <2>3. StackMove
    BY <1>2 DEF Accept, GuardSave, StackMove
  <2>4. ustack' \in Seq(Windows)
    BY <2>3, StackStep DEF UsersTypeInv
  <2>5. /\ accounts' \in Books /\ pending' \in Seq(UserOps) /\ uview' \in Tabs
        /\ rows' \in [of : {"users", "groups"}, names : SUBSET Names]
    BY <1>2 DEF Accept, GuardSave, UsersTypeInv
  <2>6. UsersTypeInv'
    BY <2>2, <2>4, <2>5, Zenon DEF UsersTypeInv
  <2> QED BY <2>3, <2>6
<1>3. ASSUME NEW t \in 1..Len(apply), Connect(t) \/ ApplyOp(t) \/ Report(t) \/ Proceed(t)
      PROVE  Holds
  <2>1. PICK r \in Replays : apply' = [apply EXCEPT ![t] = r]
    BY <1>3, ReplayFacts
  <2>2. apply' \in Seq(Replays)
    BY <2>1, OneReplay DEF UsersTypeInv
  <2>3. StackMove
    BY <1>3 DEF Connect, ApplyOp, Report, Proceed, StackMove
  <2>4. ustack' \in Seq(Windows)
    BY <2>3, StackStep DEF UsersTypeInv
  <2>5. accounts' \in Books
    BY <1>3, ReplayFacts DEF Connect, Report, Proceed, UsersTypeInv
  <2>6. pending' \in Seq(UserOps) /\ rows' = rows
    <3>1. <<>> \in Seq(UserOps)
      OBVIOUS
    <3> QED BY <1>3, <3>1, Zenon DEF Connect, ApplyOp, Report, Proceed, UsersTypeInv
  <2>7. uview' \in Tabs
    BY <1>3 DEF Connect, ApplyOp, Report, Proceed, DoSwitch, Tabs, UsersTypeInv
  <2> QED BY <2>2, <2>3, <2>4, <2>5, <2>6, <2>7 DEF UsersTypeInv
<1> QED BY <1>1, <1>2, <1>3 DEF UsersNext

\* What a key does to the list: less on it, or one operation more, which is
\* noted while a replay is under way.
LEMMA KeyList ==
    ASSUME UsersTypeInv,
           \/ OpenForm \/ SaveForm \/ Cancel \/ Unstage \/ Leave \/ AskDiscard \/ Discard
           \/ GuardDiscard \/ (\E v \in Tabs : Switch(v))
           \/ (\E l \in {"users", "groups"} : ShowRows(l))
    PROVE  \/ ToSet(pending') \subseteq ToSet(pending) /\ meanwhile' = meanwhile
           \/ Active = {}
           \/ \E op : /\ ToSet(pending') \subseteq ToSet(pending) \cup {op}
                      /\ meanwhile' = meanwhile \cup {op}
<1>0. ToSet(<<>>) = {}
  BY DEF ToSet
<1>1. CASE SaveForm
  <2>1. PICK op \in Ops(Last(ustack)) :
           /\ pending' = Stage(op)
           /\ meanwhile' = IF Active = {} THEN meanwhile \ {op} ELSE meanwhile \cup {op}
    BY <1>1 DEF SaveForm
  <2>2. op \in UserOps
    <3>1. ustack # <<>> /\ Last(ustack).is = "form"
      BY <1>1 DEF SaveForm, OnTop
    <3>2. Last(ustack) \in Windows
      BY <3>1, LastWindow DEF UsersTypeInv
    <3> QED BY <3>1, <3>2, <2>1, FormOps
  <2>3. ToSet(pending') \subseteq ToSet(pending) \cup {op}
    BY <2>1, <2>2, StageFacts DEF UsersTypeInv
  <2> QED BY <2>1, <2>3
<1>2. CASE Unstage
  <2>1. \E K : pending' = Keep(pending, K)
    BY <1>2 DEF Unstage, Without
  <2> QED BY <2>1, <1>2, LessPending DEF Unstage, UsersTypeInv
<1>3. CASE Discard \/ GuardDiscard
  BY <1>0, <1>3 DEF Discard, GuardDiscard
<1>4. CASE OpenForm \/ Cancel \/ Leave \/ AskDiscard
  BY <1>4 DEF OpenForm, Cancel, Leave, AskDiscard
<1>5. CASE (\E v \in Tabs : Switch(v)) \/ \E l \in {"users", "groups"} : ShowRows(l)
  BY <1>5 DEF Switch, ShowRows
<1> QED BY <1>1, <1>2, <1>3, <1>4, <1>5

LEMMA TakenStep ==
    ASSUME UsersTypeInv, TakenInv, UsersNext
    PROVE  TakenInv'
<1>0. Len(apply) \in Nat /\ \A u \in 1..Len(apply) : Taken(u)
  BY DEF UsersTypeInv, TakenInv
<1>1. CASE \/ OpenForm \/ SaveForm \/ Cancel \/ Unstage \/ Leave \/ AskDiscard \/ Discard
           \/ GuardDiscard \/ (\E v \in Tabs : Switch(v))
           \/ (\E l \in {"users", "groups"} : ShowRows(l))
  <2>1. apply' = apply
    BY <1>1, KeyTypes
  <2>2. CASE ToSet(pending') \subseteq ToSet(pending) /\ meanwhile' = meanwhile
    BY <1>0, <2>1, <2>2 DEF TakenInv, Taken
  <2>3. CASE Active = {}
    <3>1. \A u \in 1..Len(apply) : apply[u].pc = "end"
      BY <2>3 DEF Active
    <3> QED BY <2>1, <3>1 DEF TakenInv, Taken
  <2>4. ASSUME NEW op, ToSet(pending') \subseteq ToSet(pending) \cup {op},
               meanwhile' = meanwhile \cup {op}
        PROVE  TakenInv'
    BY <1>0, <2>1, <2>4 DEF TakenInv, Taken
  <2> QED BY <1>1, <2>2, <2>3, <2>4, KeyList
<1>2. CASE Accept \/ GuardSave
  <2>1. \E then \in {"stay", "auth", "leave"} : Schedule(then)
    <3>1. CASE GuardSave
      BY <3>1, LastWindow DEF GuardSave, OnTop, UsersTypeInv
    <3>2. CASE Accept
      BY <3>2 DEF Accept
    <3> QED BY <1>2, <3>1, <3>2
  <2>2. /\ Len(apply') = Len(apply) + 1
        /\ \A u \in 1..Len(apply) : /\ apply'[u].pc = apply[u].pc
                                    /\ apply'[u].ops = apply[u].ops
                                    /\ apply'[u].failed = apply[u].failed
        /\ apply'[Len(apply) + 1].pc = "start"
    BY <2>1, Scheduled DEF UsersTypeInv
  <2>3. pending' = pending /\ meanwhile' = meanwhile
    BY <1>2 DEF Accept, GuardSave
  <2>4. ASSUME NEW u \in 1..Len(apply') PROVE Taken(u)'
    <3>1. u \in 1..Len(apply) \/ u = Len(apply) + 1
      BY <2>2, <1>0
    <3> QED BY <3>1, <2>2, <2>3, <1>0 DEF Taken
  <2> QED BY <2>4 DEF TakenInv
<1>3. ASSUME NEW t \in 1..Len(apply), Connect(t) \/ ApplyOp(t) \/ Report(t) \/ Proceed(t)
      PROVE  TakenInv'
  <2>0. meanwhile' = meanwhile /\ (pending' = pending \/ pending' = <<>>)
    BY <1>3 DEF Connect, ApplyOp, Report, Proceed
  <2>1. ToSet(pending') \subseteq ToSet(pending)
    BY <2>0 DEF ToSet
  <2>2. PICK r \in Replays :
           /\ apply' = [apply EXCEPT ![t] = r]
           /\ \/ r.pc = "proceed" /\ (r.failed = 1 \/ pending' = <<>>)
              \/ r.pc = "run" /\ ToSet(pending') \subseteq meanwhile \cup ToSet(r.ops)
              \/ r.pc = "end"
    <3>1. CASE Connect(t)
      BY <3>1, <2>1, ReplayFacts
    <3>2. CASE ApplyOp(t)
      BY <3>2, <2>1, <1>0, ReplayFacts DEF Taken
    <3>3. CASE Report(t)
      <4>1. pending' = <<>>
        BY <3>3 DEF Report
      <4> QED BY <3>3, <4>1, ReplayFacts
    <3>4. CASE Proceed(t)
      BY <3>4, ReplayFacts
    <3> QED BY <1>3, <3>1, <3>2, <3>3, <3>4
  <2>3. /\ Len(apply') = Len(apply) /\ apply'[t] = r
        /\ \A u \in 1..Len(apply) : u # t => apply'[u] = apply[u]
    BY <2>2, OneReplay DEF UsersTypeInv
  <2>4. pending' = <<>> => ToSet(pending') = {}
    BY DEF ToSet
  <2>5. Taken(t)'
    BY <2>0, <2>2, <2>3, <2>4 DEF Taken
  <2>6. ASSUME NEW u \in 1..Len(apply), u # t PROVE Taken(u)'
    BY <2>6, <2>0, <2>1, <2>3, <1>0 DEF Taken
  <2> QED BY <2>3, <2>5, <2>6 DEF TakenInv
<1> QED BY <1>1, <1>2, <1>3 DEF UsersNext

LEMMA UsersStart == UsersInit => UsersIInv
<1> SUFFICES ASSUME UsersInit PROVE UsersIInv
  OBVIOUS
<1> USE DEF UsersInit
<1>1. accounts \in Books
  BY DEF Books, Names
<1>2. pending \in Seq(UserOps) /\ apply \in Seq(Replays) /\ Len(apply) = 0
  OBVIOUS
<1>3. ustack \in Seq(Windows) /\ Bottom
  <2>1. [is |-> "screen"] \in Windows
    BY DEF Windows
  <2> QED BY <2>1 DEF Bottom
<1>4. uview \in Tabs /\ rows \in [of : {"users", "groups"}, names : SUBSET Names]
  BY DEF Tabs
<1>5. TakenInv
  BY <1>2 DEF TakenInv
<1> QED BY <1>1, <1>2, <1>3, <1>4, <1>5 DEF UsersIInv, UsersTypeInv

LEMMA UsersStep == UsersIInv /\ [UsersNext]_userVars => UsersIInv'
<1> SUFFICES ASSUME UsersIInv, [UsersNext]_userVars PROVE UsersIInv'
  OBVIOUS
<1>1. CASE UsersNext
  BY <1>1, UsersTypeStep, TakenStep DEF UsersIInv
<1>2. CASE UNCHANGED userVars
  BY <1>2 DEF UsersIInv, UsersTypeInv, Bottom, TakenInv, Taken, userVars
<1> QED BY <1>1, <1>2

-----------------------------------------------------------------------------
(* Staged changes *)

\* Only the report of a replay drops staged changes while it changes the tasks.
LEMMA TriedStep == UsersIInv /\ UsersNext => TriedOrKept
<1> SUFFICES ASSUME UsersIInv, UsersNext, apply' # apply,
                    NEW o \in ToSet(pending) \ ToSet(pending')
             PROVE  \/ o \in meanwhile
                    \/ \E t \in Active : /\ o \in ToSet(apply[t].ops)
                                         /\ apply[t].done = Len(apply[t].ops)
  BY DEF TriedOrKept
<1>0. pending' # pending
  OBVIOUS
<1>1. ~(\/ OpenForm \/ SaveForm \/ Cancel \/ Unstage \/ Leave \/ AskDiscard \/ Discard
        \/ GuardDiscard \/ (\E v \in Tabs : Switch(v))
        \/ (\E l \in {"users", "groups"} : ShowRows(l)))
  BY KeyTypes DEF UsersIInv
<1>2. PICK t \in 1..Len(apply) : Report(t)
  <2>1. ~(Accept \/ GuardSave)
    BY <1>0 DEF Accept, GuardSave
  <2>2. \A t \in 1..Len(apply) : ~(Connect(t) \/ ApplyOp(t) \/ Proceed(t))
    BY <1>0 DEF Connect, ApplyOp, Proceed
  <2> QED BY <1>1, <2>1, <2>2 DEF UsersNext
<1>3. apply[t].pc = "run" /\ apply[t].done = Len(apply[t].ops) /\ t \in Active
  BY <1>2 DEF Report, At, Active
<1>4. ToSet(pending) \subseteq meanwhile \cup ToSet(apply[t].ops)
  BY <1>3 DEF UsersIInv, TakenInv, Taken
<1> QED BY <1>3, <1>4

\* Only the continuation of a Save closes the screen over staged changes.
LEMMA LeaveStep == UsersIInv /\ UsersNext => NotDroppedOnLeave
<1> SUFFICES ASSUME UsersIInv, UsersNext, ustack # <<>>, ustack' = <<>>, pending' # <<>>
             PROVE  \E t \in Active : apply[t].then = "leave"
                                      /\ (apply[t].failed > 0 \/ meanwhile # {})
  BY DEF NotDroppedOnLeave
<1>0. /\ ustack \in Seq(Windows) /\ ustack[1].is = "screen"
      /\ apply \in Seq(Replays) /\ pending \in Seq(UserOps)
  BY DEF UsersIInv, UsersTypeInv, Bottom
<1>1. \A w \in Windows : ustack' # Append(ustack, w)
  BY <1>0, PushFacts
<1>2. ASSUME ustack' = Pop(ustack) PROVE Last(ustack).is = "screen"
  <2>1. Last(ustack) = ustack[1]
    BY <1>2, <1>0, PopFacts
  <2> QED BY <2>1, <1>0
<1>3. ustack' # ustack
  OBVIOUS
<1>4. ~(OpenForm \/ AskDiscard)
  <2>1. ~AskDiscard
    BY <1>1, TheWindows DEF AskDiscard, Push
  <2>2. ~OpenForm
    <3> SUFFICES ASSUME OpenForm PROVE FALSE
      OBVIOUS
    <3>1. PICK f \in Forms : ustack' = Append(ustack, f)
      BY DEF OpenForm, Push
    <3>2. Len(Append(ustack, f)) = Len(ustack) + 1 /\ Len(ustack) \in Nat
      <4>1. ustack \in Seq(Windows \cup {f}) /\ f \in Windows \cup {f}
        BY <1>0
      <4> QED BY <4>1, AppendProperties
    <3> QED BY <3>1, <3>2
  <2> QED BY <2>1, <2>2
<1>5. ~(SaveForm \/ Cancel \/ GuardSave)
  BY <1>2 DEF SaveForm, Cancel, GuardSave, OnTop
<1>6. ~(Discard \/ GuardDiscard)
  BY DEF Discard, GuardDiscard
<1>7. ~Leave
  <2>1. ~(pending = <<>>) => [is |-> "guard", then |-> "leave"] \in Windows
    BY TheWindows
  <2> QED BY <2>1, <1>1 DEF Leave
<1>8. ~(Unstage \/ Accept \/ \E l \in {"users", "groups"} : ShowRows(l))
  BY <1>3 DEF Unstage, Accept, ShowRows
<1>9. ~(\E v \in Tabs : Switch(v))
  BY <1>1, <1>3, TheWindows DEF Switch, Push
<1>10. PICK t \in 1..Len(apply) : Proceed(t) /\ apply[t].then = "leave"
  <2>1. PICK t \in 1..Len(apply) : Connect(t) \/ ApplyOp(t) \/ Report(t) \/ Proceed(t)
    BY <1>4, <1>5, <1>6, <1>7, <1>8, <1>9 DEF UsersNext
  <2> QED BY <2>1, <1>3 DEF Connect, ApplyOp, Report, Proceed
<1>11. apply[t].pc = "proceed" /\ t \in Active /\ pending' = pending
  BY <1>10 DEF Proceed, At, Active
<1>12. apply[t].failed \in Nat
  <2>1. apply[t] \in Replays
    BY <1>0
  <2> QED BY <2>1 DEF Replays
<1>13. ASSUME apply[t].failed = 0 PROVE meanwhile # {}
  <2>1. ToSet(pending) \subseteq meanwhile
    BY <1>11, <1>13 DEF UsersIInv, TakenInv, Taken
  <2>2. pending # <<>>
    BY <1>11
  <2>3. 1 \in DOMAIN pending
    BY <2>2, <1>0
  <2>4. pending[1] \in ToSet(pending)
    BY <2>3 DEF ToSet
  <2> QED BY <2>1, <2>4
<1> QED BY <1>10, <1>11, <1>12, <1>13

\* Whatever is staged, saved and discarded, with any faults and any number of
\* replays: a replay takes a change off the list only after it has tried it,
\* or when it was staged behind the replay's back; and the screen closes over
\* staged changes only after a Save that met a failure or was overtaken
\* (UsersScreen._apply, _guard and save_then).
THEOREM StagedTried == UsersSpec => StagedSafe
<1>1. UsersIInv /\ [UsersNext]_userVars => [TriedOrKept /\ NotDroppedOnLeave]_userVars
  BY TriedStep, LeaveStep
<1> QED BY <1>1, UsersStart, UsersStep, PTL DEF UsersSpec, StagedSafe

-----------------------------------------------------------------------------
(* REPOSITORIES.  Types *)

Uris == {"old", "new", "list"}
ConfFiles == Repos \cup {"eselect"}
Entries == [file : ConfFiles, uri : Uris]
\* Functions on some of the names.
PMap(V) == UNION {[D -> V] : D \in SUBSET Repos}
StateOps == {"enable", "disable", "remove"}
MarkSets == [state : PMap(StateOps), adds : PMap(Uris), edits : PMap(Uris),
             refresh : PMap(BOOLEAN)]
Lists == [enabled : PMap(Uris), disabled : PMap(Uris), refresh : SUBSET Repos]
RepoOps == [kind : {"add"} \cup StateOps, name : Repos]
FileWrites == [file : ConfFiles \cup {"disabled"}, text : PMap(Uris)]
              \cup [file : {"refresh"}, text : SUBSET Repos]
Disks == [conf : PMap(Entries), disabled : PMap(Uris), refresh : SUBSET Repos]
AcceptTasks ==
    [pc : {"connect", "run", "records", "edits", "write", "report", "end"}, ops : Seq(RepoOps), done : Nat,
     adds : PMap(Uris), listed : Lists \cup {NoMap}, final : PMap(Uris), ok : BOOLEAN,
     alone : BOOLEAN, steady : BOOLEAN, staged : MarkSets, files : Seq(FileWrites),
     names : SUBSET Repos, seen : SUBSET Repos, taken : PMap(Uris), resized : BOOLEAN]

\* What a task works on: it knows a list, and what it adds.
Informed(a) ==
    a.pc # "end" => /\ a.listed \in Lists
                    /\ \A op \in ToSet(a.ops) : op.kind = "add" => op.name \in DOMAIN a.adds
                    /\ a.pc = "edits" => DOMAIN a.taken # {}

ReposTypeInv ==
    /\ conf \in PMap(Entries) /\ disabledFile \in PMap(Uris) /\ refreshFile \subseteq Repos
    /\ marks \in MarkSets /\ listed \in Lists
    /\ loading \in BOOLEAN /\ open \in BOOLEAN
    /\ accept \in Seq(AcceptTasks)
    /\ \A t \in 1..Len(accept) : Informed(accept[t])

LEMMA MapFacts ==
    ASSUME NEW V, NEW f \in PMap(V)
    PROVE  /\ DOMAIN f \in SUBSET Repos /\ \A n \in DOMAIN f : f[n] \in V
           /\ f = [n \in DOMAIN f |-> f[n]]
BY DEF PMap

LEMMA MapOf ==
    ASSUME NEW V, NEW D \in SUBSET Repos, NEW f \in [D -> V]
    PROVE  f \in PMap(V) /\ DOMAIN f = D
BY DEF PMap

LEMMA NoMapFacts ==
    ASSUME NEW V
    PROVE  NoMap \in PMap(V) /\ DOMAIN NoMap = {}
<1>1. NoMap \in [{} -> V] /\ {} \in SUBSET Repos
  BY DEF NoMap
<1> QED BY <1>1, MapOf

LEMMA PutFacts ==
    ASSUME NEW V, NEW f \in PMap(V), NEW n \in Repos, NEW v \in V
    PROVE  /\ Put(f, n, v) \in PMap(V) /\ DOMAIN Put(f, n, v) = DOMAIN f \cup {n}
           /\ Put(f, n, v)[n] = v
           /\ \A m \in DOMAIN f : m # n => Put(f, n, v)[m] = f[m]
<1>1. DOMAIN f \in SUBSET Repos /\ \A m \in DOMAIN f : f[m] \in V
  BY MapFacts
<1>2. Put(f, n, v) \in [DOMAIN f \cup {n} -> V] /\ DOMAIN f \cup {n} \in SUBSET Repos
  BY <1>1 DEF Put
<1>3. Put(f, n, v) \in PMap(V) /\ DOMAIN Put(f, n, v) = DOMAIN f \cup {n}
  BY <1>2, MapOf
<1> QED BY <1>3 DEF Put

LEMMA DropFacts ==
    ASSUME NEW V, NEW f \in PMap(V), NEW n
    PROVE  /\ Drop(f, n) \in PMap(V) /\ DOMAIN Drop(f, n) = DOMAIN f \ {n}
           /\ \A m \in DOMAIN f : m # n => Drop(f, n)[m] = f[m]
<1>1. DOMAIN f \in SUBSET Repos /\ \A m \in DOMAIN f : f[m] \in V
  BY MapFacts
<1>2. Drop(f, n) \in [DOMAIN f \ {n} -> V] /\ DOMAIN f \ {n} \in SUBSET Repos
  BY <1>1 DEF Drop, Restrict
<1>3. Drop(f, n) \in PMap(V) /\ DOMAIN Drop(f, n) = DOMAIN f \ {n}
  BY <1>2, MapOf
<1> QED BY <1>3 DEF Drop, Restrict

LEMMA ImageFinite ==
    ASSUME NEW f, IsFiniteSet(DOMAIN f)
    PROVE  IsFiniteSet({f[x] : x \in DOMAIN f})
<1> DEFINE D == DOMAIN f
           T == {f[x] : x \in DOMAIN f}
           g == [x \in D |-> f[x]]
<1>1. g \in Surjection(D, T)
  BY DEF Surjection
<1>2. IsFiniteSet(D)
  OBVIOUS
<1>3. ASSUME NEW h \in Surjection(D, T) PROVE IsFiniteSet(T)
  <2> HIDE DEF D, T
  <2> QED BY <1>2, FS_Surjection, Zenon
<1>4. IsFiniteSet(T)
  <2> HIDE DEF g, T, D
  <2> QED BY <1>1, <1>3
<1> QED BY <1>4

LEMMA InSequence ==
    ASSUME NEW S, IsFiniteSet(S)
    PROVE  SetToSeq(S) \in Seq(S)
<1>1. Cardinality(S) \in Nat /\ ExistsBijection(1..Cardinality(S), S)
  BY FS_CardinalityType
<1>2. \E f \in [1..Cardinality(S) -> S] : IsInjective(f)
  BY <1>1 DEF ExistsBijection, Bijection, Injection
<1>3. SetToSeq(S) \in [1..Cardinality(S) -> S]
  BY <1>2 DEF SetToSeq
<1> QED BY <1>1, <1>3

LEMMA SomeOps ==
    ASSUME NEW kind \in {"add"} \cup StateOps, NEW names \in SUBSET Repos
    PROVE  /\ SetToSeq({[kind |-> kind, name |-> n] : n \in names}) \in Seq(RepoOps)
           /\ \A op \in ToSet(SetToSeq({[kind |-> kind, name |-> n] : n \in names})) :
                 op.kind = kind /\ op.name \in names
<1> DEFINE f == [n \in names |-> [kind |-> kind, name |-> n]]
           S == {[kind |-> kind, name |-> n] : n \in names}
<1>1. IsFiniteSet(names)
  BY ReposAssumption, FS_Subset
<1>2. S = {f[n] : n \in DOMAIN f} /\ DOMAIN f = names
  OBVIOUS
<1>3. IsFiniteSet(S)
  <2> HIDE DEF f, S
  <2> QED BY <1>1, <1>2, ImageFinite
<1>4. SetToSeq(S) \in Seq(S)
  <2> HIDE DEF S
  <2> QED BY <1>3, InSequence
<1>5. S \subseteq RepoOps
  BY DEF RepoOps
<1>6. \A op \in S : op.kind = kind /\ op.name \in names
  OBVIOUS
<1>7. SetToSeq(S) \in Seq(RepoOps) /\ ToSet(SetToSeq(S)) \subseteq S
  <2> HIDE DEF S
  <2> QED BY <1>4, <1>5 DEF ToSet
<1> QED BY <1>6, <1>7

\* The operations of an Accept are those that are staged.
LEMMA OpsFacts ==
    ASSUME marks \in MarkSets
    PROVE  /\ OrderedOps \in Seq(RepoOps)
           /\ \A op \in ToSet(OrderedOps) :
                 \/ op.kind = "add" /\ op.name \in DOMAIN marks.adds
                 \/ /\ op.name \in DOMAIN marks.state /\ op.kind = marks.state[op.name]
                    /\ op.kind \in StateOps
<1> DEFINE Some(kind, names) == SetToSeq({[kind |-> kind, name |-> n] : n \in names})
           Of(op) == {n \in DOMAIN marks.state : marks.state[n] = op}
           A == Some("add", DOMAIN marks.adds)
           E == Some("enable", Of("enable"))
           D == Some("disable", Of("disable"))
           R == Some("remove", Of("remove"))
<1>1. marks.adds \in PMap(Uris) /\ marks.state \in PMap(StateOps)
  BY DEF MarkSets
<1>2. DOMAIN marks.adds \in SUBSET Repos /\ DOMAIN marks.state \in SUBSET Repos
  BY <1>1, MapFacts
<1>3. A \in Seq(RepoOps) /\ \A op \in ToSet(A) : op.kind = "add" /\ op.name \in DOMAIN marks.adds
  <2>1. "add" \in {"add"} \cup StateOps
    OBVIOUS
  <2> DEFINE N == DOMAIN marks.adds
  <2>2. N \in SUBSET Repos
    BY <1>2
  <2> HIDE DEF N
  <2>3. /\ SetToSeq({[kind |-> "add", name |-> n] : n \in N}) \in Seq(RepoOps)
        /\ \A op \in ToSet(SetToSeq({[kind |-> "add", name |-> n] : n \in N})) :
              op.kind = "add" /\ op.name \in N
    BY <2>1, <2>2, SomeOps
  <2> QED BY <2>3 DEF N
<1>4. ASSUME NEW k \in StateOps
      PROVE  /\ Some(k, Of(k)) \in Seq(RepoOps)
             /\ \A op \in ToSet(Some(k, Of(k))) : op.kind = k /\ op.name \in Of(k)
  <2>1. Of(k) \in SUBSET Repos /\ k \in {"add"} \cup StateOps
    BY <1>2
  <2> HIDE DEF Of
  <2> QED BY <2>1, SomeOps
<1>5. /\ E \in Seq(RepoOps) /\ \A op \in ToSet(E) : op.kind = "enable" /\ op.name \in Of("enable")
      /\ D \in Seq(RepoOps) /\ \A op \in ToSet(D) : op.kind = "disable" /\ op.name \in Of("disable")
      /\ R \in Seq(RepoOps) /\ \A op \in ToSet(R) : op.kind = "remove" /\ op.name \in Of("remove")
  <2>1. {"enable", "disable", "remove"} = StateOps
    BY DEF StateOps
  <2> HIDE DEF Of, Some
  <2> QED BY <2>1, <1>4
<1>6. OrderedOps = A \o E \o D \o R
  BY DEF OrderedOps
<1>7. /\ A \o E \o D \o R \in Seq(RepoOps)
      /\ ToSet(A \o E \o D \o R) = ToSet(A) \cup ToSet(E) \cup ToSet(D) \cup ToSet(R)
  <2>1. A \in Seq(RepoOps) /\ E \in Seq(RepoOps) /\ D \in Seq(RepoOps) /\ R \in Seq(RepoOps)
    BY <1>3, <1>5
  <2> HIDE DEF A, E, D, R
  <2>2. A \o E \in Seq(RepoOps) /\ ToSet(A \o E) = ToSet(A) \cup ToSet(E)
    BY <2>1, ToSetConcat
  <2> DEFINE AE == A \o E
             AED == AE \o D
  <2>3. AED \in Seq(RepoOps) /\ ToSet(AED) = ToSet(AE) \cup ToSet(D)
    <3>1. AE \in Seq(RepoOps)
      BY <2>2
    <3> HIDE DEF AE
    <3> QED BY <2>1, <3>1, ToSetConcat
  <2>4. AED \o R \in Seq(RepoOps) /\ ToSet(AED \o R) = ToSet(AED) \cup ToSet(R)
    <3> HIDE DEF AED
    <3> QED BY <2>1, <2>3, ToSetConcat
  <2> QED BY <2>2, <2>3, <2>4
<1>8. \A op \in ToSet(E) \cup ToSet(D) \cup ToSet(R) :
         op.name \in DOMAIN marks.state /\ op.kind = marks.state[op.name] /\ op.kind \in StateOps
  <2> HIDE DEF E, D, R
  <2> QED BY <1>5 DEF StateOps
<1> QED
  <2> HIDE DEF A, E, D, R
  <2> QED BY <1>3, <1>6, <1>7, <1>8

-----------------------------------------------------------------------------
(* Writing the files *)

Base == [conf |-> conf, disabled |-> disabledFile, refresh |-> refreshFile]

LEMMA WriteOneFacts ==
    ASSUME NEW s \in Disks, NEW w \in FileWrites
    PROVE  /\ WriteOne(s, w) \in Disks
           /\ w.file = "disabled" =>
                WriteOne(s, w).conf = s.conf /\ WriteOne(s, w).disabled = w.text
           /\ w.file = "refresh" =>
                WriteOne(s, w).conf = s.conf /\ WriteOne(s, w).disabled = s.disabled
           /\ w.file \notin {"disabled", "refresh"} =>
                /\ WriteOne(s, w).disabled = s.disabled
                /\ \A n \in DOMAIN s.conf :
                      s.conf[n].file # w.file \/ n \in DOMAIN w.text
                         => /\ n \in DOMAIN WriteOne(s, w).conf
                            /\ WriteOne(s, w).conf[n].file =
                                 IF n \in DOMAIN w.text THEN w.file ELSE s.conf[n].file
<1>0. s.conf \in PMap(Entries) /\ s.disabled \in PMap(Uris) /\ s.refresh \in SUBSET Repos
  BY DEF Disks
<1>1. CASE w.file = "disabled"
  <2>1. w.text \in PMap(Uris)
    BY <1>1 DEF FileWrites
  <2>2. WriteOne(s, w) = [s EXCEPT !.disabled = w.text]
    BY <1>1 DEF WriteOne
  <2> QED BY <2>1, <2>2, <1>1 DEF Disks
<1>2. CASE w.file = "refresh"
  <2>1. w.text \in SUBSET Repos
    BY <1>2, ReposAssumption DEF FileWrites, ConfFiles
  <2>2. WriteOne(s, w) = [s EXCEPT !.refresh = w.text]
    BY <1>2 DEF WriteOne
  <2> QED BY <2>1, <2>2, <1>2 DEF Disks
<1>3. CASE w.file \notin {"disabled", "refresh"}
  <2> DEFINE others == {n \in DOMAIN s.conf : s.conf[n].file # w.file}
             D == others \cup DOMAIN w.text
             c == [n \in D |-> IF n \in DOMAIN w.text THEN [file |-> w.file, uri |-> w.text[n]]
                               ELSE s.conf[n]]
  <2>1. w.text \in PMap(Uris) /\ w.file \in ConfFiles
    BY <1>3 DEF FileWrites
  <2>2. DOMAIN w.text \in SUBSET Repos /\ \A n \in DOMAIN w.text : w.text[n] \in Uris
    BY <2>1, MapFacts
  <2>3. DOMAIN s.conf \in SUBSET Repos /\ \A n \in DOMAIN s.conf : s.conf[n] \in Entries
    BY <1>0, MapFacts
  <2>4. D \in SUBSET Repos
    BY <2>2, <2>3
  <2>5. c \in [D -> Entries]
    BY <2>1, <2>2, <2>3 DEF Entries
  <2>6. c \in PMap(Entries) /\ DOMAIN c = D
    <3> HIDE DEF c, D
    <3> QED BY <2>4, <2>5, MapOf
  <2>7. WriteOne(s, w) = [s EXCEPT !.conf = c]
    BY <1>3, <1>0 DEF WriteOne, Disks
  <2>8. ASSUME NEW n \in DOMAIN s.conf, s.conf[n].file # w.file \/ n \in DOMAIN w.text
        PROVE  n \in D /\ c[n].file = IF n \in DOMAIN w.text THEN w.file ELSE s.conf[n].file
    BY <2>8
  <2>9. [s EXCEPT !.conf = c] \in Disks /\ [s EXCEPT !.conf = c].conf = c
        /\ [s EXCEPT !.conf = c].disabled = s.disabled
    <3> HIDE DEF c
    <3> QED BY <2>6 DEF Disks
  <2> HIDE DEF c, D
  <2> QED BY <2>6, <2>7, <2>8, <2>9, <1>3
<1> QED BY <1>1, <1>2, <1>3

\* The files one after the other.
LEMMA WrittenRuns ==
    ASSUME Base \in Disks, NEW files \in Seq(FileWrites)
    PROVE  \E f \in [0..Len(files) -> Disks] :
              /\ f[0] = Base
              /\ \A i \in 1..Len(files) : f[i] = WriteOne(f[i - 1], files[i])
              /\ Written(files) = f[Len(files)]
<1> DEFINE n == Len(files)
           st == [x \in (1..n) \X Disks |-> WriteOne(x[2], files[x[1]])]
<1>0. n \in Nat /\ \A i \in 1..n : files[i] \in FileWrites
  OBVIOUS
<1>1. st \in [(1..n) \X Disks -> Disks]
  BY <1>0, WriteOneFacts
<1>2. PICK f : Goes(f, n, Disks, Base, st)
  <2> HIDE DEF st, n
  <2> QED BY <1>0, <1>1, Iterates
<1>3. f \in [0..n -> Disks] /\ f[0] = Base
  BY <1>2 DEF Goes
<1>4. ASSUME NEW i \in 1..n PROVE f[i] = WriteOne(f[i - 1], files[i])
  <2>1. i - 1 \in 0..n
    BY <1>0
  <2>2. f[i - 1] \in Disks
    BY <2>1, <1>3
  <2>3. st[<<i, f[i - 1]>>] = WriteOne(f[i - 1], files[i])
    BY <2>2
  <2> QED BY <1>2, <2>3 DEF Goes
<1> DEFINE Eq(g) == g = [k \in 0..n |-> IF k = 0 THEN Base ELSE WriteOne(g[k - 1], files[k])]
<1>5. Eq(f)
  <2>1. \A k \in 0..n : f[k] = IF k = 0 THEN Base ELSE WriteOne(f[k - 1], files[k])
    BY <1>0, <1>3, <1>4
  <2> QED BY <2>1, <1>3
<1>6. ASSUME NEW g, Eq(g) PROVE \A i \in 0..n : g[i] = f[i]
  <2> DEFINE Good == {i \in 0..n : g[i] = f[i]}
  <2>1. 0 \in Good
    BY <1>6, <1>0, <1>3
  <2>2. ASSUME NEW i \in 0..n, i < n, i \in Good PROVE i + 1 \in Good
    <3>1. i + 1 \in 1..n /\ (i + 1) - 1 = i /\ i + 1 \in 0..n /\ i + 1 # 0
      BY <2>2, <1>0
    <3>2. g[i + 1] = WriteOne(g[i], files[i + 1])
      <4> HIDE DEF n
      <4> QED BY <1>6, <3>1
    <3>3. f[i + 1] = WriteOne(f[i], files[i + 1])
      BY <3>1, <1>4
    <3> QED BY <3>1, <3>2, <3>3, <2>2
  <2>3. \A i \in 0..n : i \in Good
    <3> HIDE DEF Good
    <3> QED BY <2>1, <2>2, <1>0, UpTo
  <2> QED BY <2>3
<1>7. \E g : Eq(g) /\ Written(files) = g[n]
  <2>1. \E g : Eq(g)
    <3> HIDE DEF Eq
    <3> QED BY <1>5
  <2> QED BY <2>1, Zenon DEF Written, Base
<1>8. Written(files) = f[n]
  <2>1. PICK g : Eq(g) /\ Written(files) = g[n]
    BY <1>7
  <2>2. \A i \in 0..n : g[i] = f[i]
    <3> HIDE DEF Eq
    <3> QED BY <2>1, <1>6
  <2> QED BY <2>1, <2>2, <1>0
<1> QED BY <1>3, <1>4, <1>8

\* The files are written so that the record becomes final and no name leaves
\* repos.conf.
Lossless(files, final) ==
    \A w \in ToSet(files) :
        /\ w.file = "disabled" => w.text = final
        /\ w.file \notin {"disabled", "refresh"} =>
              \A n \in DOMAIN conf : conf[n].file = w.file <=> n \in DOMAIN w.text

LEMMA WrittenFacts ==
    ASSUME Base \in Disks, NEW files \in Seq(FileWrites), NEW final
    PROVE  /\ Written(files) \in Disks
           /\ Lossless(files, final) =>
                /\ DOMAIN conf \subseteq DOMAIN Written(files).conf
                /\ Written(files).disabled \in {disabledFile, final}
                /\ (\E w \in ToSet(files) : w.file = "disabled") => Written(files).disabled = final
<1> DEFINE n == Len(files)
<1>0. n \in Nat /\ DOMAIN files = 1..n /\ \A i \in 1..n : files[i] \in FileWrites
  OBVIOUS
<1>1. PICK f \in [0..n -> Disks] :
         /\ f[0] = Base
         /\ \A i \in 1..n : f[i] = WriteOne(f[i - 1], files[i])
         /\ Written(files) = f[n]
  BY WrittenRuns
<1>2. ASSUME Lossless(files, final)
      PROVE  /\ DOMAIN conf \subseteq DOMAIN f[n].conf
             /\ f[n].disabled \in {disabledFile, final}
             /\ (\E w \in ToSet(files) : w.file = "disabled") => f[n].disabled = final
  <2> DEFINE Fine(i) ==
                /\ \A m \in DOMAIN conf : m \in DOMAIN f[i].conf /\ f[i].conf[m].file = conf[m].file
                /\ f[i].disabled \in {disabledFile, final}
                /\ \A j \in 1..i : files[j].file = "disabled" => f[i].disabled = final
             Good == {i \in 0..n : Fine(i)}
  <2>1. 0 \in Good
    <3>1. f[0].conf = conf /\ f[0].disabled = disabledFile
      BY <1>1 DEF Base
    <3>2. Fine(0)
      BY <3>1
    <3> QED BY <3>2, <1>0
  <2>2. ASSUME NEW i \in 0..n, i < n, i \in Good PROVE i + 1 \in Good
    <3> DEFINE w == files[i + 1]
               s == f[i]
    <3>1. i + 1 \in 1..n /\ (i + 1) - 1 = i /\ i + 1 \in 0..n
      BY <2>2, <1>0
    <3>2. f[i + 1] = WriteOne(s, w)
      BY <3>1, <1>1
    <3>3. s \in Disks /\ w \in FileWrites /\ w \in ToSet(files)
      BY <3>1, <1>0, <1>1 DEF ToSet
    <3>4. /\ w.file = "disabled" => w.text = final
          /\ w.file \notin {"disabled", "refresh"} =>
                \A m \in DOMAIN conf : conf[m].file = w.file <=> m \in DOMAIN w.text
      BY <1>2, <3>3 DEF Lossless
    <3>5. Fine(i)
      BY <2>2
    <3>6. \A j \in 1..i + 1 : j \in 1..i \/ j = i + 1
      BY <3>1, <1>0
    <3> HIDE DEF s
    <3>7. \A m \in DOMAIN conf : m \in DOMAIN s.conf /\ s.conf[m].file = conf[m].file
      BY <3>5 DEF s
    <3>8. /\ s.disabled \in {disabledFile, final}
          /\ \A j \in 1..i : files[j].file = "disabled" => s.disabled = final
      BY <3>5 DEF s
    <3> HIDE DEF w
    <3>9. CASE w.file = "disabled"
      <4>1. f[i + 1].conf = s.conf /\ f[i + 1].disabled = final
        BY <3>9, <3>2, <3>3, <3>4, WriteOneFacts
      <4>2. Fine(i + 1)
        BY <4>1, <3>7
      <4> QED BY <4>2, <3>1
    <3>10. CASE w.file = "refresh"
      <4>1. f[i + 1].conf = s.conf /\ f[i + 1].disabled = s.disabled
        BY <3>10, <3>2, <3>3, WriteOneFacts
      <4>2. files[i + 1].file # "disabled"
        BY <3>10 DEF w
      <4>3. Fine(i + 1)
        BY <4>1, <4>2, <3>6, <3>7, <3>8
      <4> QED BY <4>3, <3>1
    <3>11. CASE w.file \notin {"disabled", "refresh"}
      <4>1. f[i + 1].disabled = s.disabled
        BY <3>11, <3>2, <3>3, WriteOneFacts
      <4>2. files[i + 1].file # "disabled"
        BY <3>11 DEF w
      <4>3. ASSUME NEW m \in DOMAIN conf
            PROVE  m \in DOMAIN f[i + 1].conf /\ f[i + 1].conf[m].file = conf[m].file
        <5>1. m \in DOMAIN s.conf /\ s.conf[m].file = conf[m].file
          BY <3>7
        <5>2. s.conf[m].file # w.file \/ m \in DOMAIN w.text
          BY <5>1, <3>4, <3>11
        <5>3. /\ m \in DOMAIN WriteOne(s, w).conf
              /\ WriteOne(s, w).conf[m].file = IF m \in DOMAIN w.text THEN w.file ELSE s.conf[m].file
          BY <5>1, <5>2, <3>3, <3>11, WriteOneFacts
        <5>4. m \in DOMAIN w.text => conf[m].file = w.file
          BY <3>4, <3>11
        <5> QED BY <5>1, <5>3, <5>4, <3>2
      <4>4. Fine(i + 1)
        BY <4>1, <4>2, <4>3, <3>6, <3>8
      <4> QED BY <4>4, <3>1
    <3> QED BY <3>9, <3>10, <3>11
  <2>3. \A i \in 0..n : i \in Good
    <3> HIDE DEF Good
    <3> QED BY <2>1, <2>2, <1>0, UpTo
  <2>4. Fine(n)
    BY <2>3, <1>0
  <2>5. \A w \in ToSet(files) : \E j \in 1..n : w = files[j]
    BY <1>0 DEF ToSet
  <2> QED BY <2>4, <2>5
<1> QED BY <1>0, <1>1, <1>2

-----------------------------------------------------------------------------
(* The invariant *)

RepoOp(kind, n) == [kind |-> kind, name |-> n]

\* What a task that runs alone knows of the two records, phase by phase.
Knows(a) ==
    /\ a.pc \in {"connect", "run", "records", "edits", "write"} =>
          a.listed.disabled = disabledFile
    /\ a.pc = "connect" => a.final = disabledFile
    /\ a.ok /\ a.pc \in {"connect", "run"} =>
          \A n \in Repos : /\ Asks(a, "disable", n) /\ ~Asks(a, "add", n)
                          /\ n \notin DOMAIN a.listed.enabled =>
              n \notin DOMAIN conf /\ ~Asks(a, "enable", n)
    /\ a.ok /\ a.pc \in {"connect", "run", "records", "edits", "write"} =>
          \A n \in DOMAIN disabledFile :
              n \in DOMAIN a.final \/ n \in DOMAIN conf \/ Excused(a, n)
    /\ a.ok /\ a.pc \in {"records", "edits", "write"} =>
          /\ Lossless(a.files, a.final)
          /\ a.final = disabledFile \/ \E w \in ToSet(a.files) : w.file = "disabled"
    /\ a.ok /\ a.pc = "report" => DOMAIN a.final \subseteq DOMAIN disabledFile
Lone(t) == accept[t].alone /\ accept[t].pc # "end"
Faithful(t) == Lone(t) => Running = {t} /\ Knows(accept[t])

RecordInv == \A t \in 1..Len(accept) : Faithful(t)
ReposIInv == ReposTypeInv /\ RecordInv

-----------------------------------------------------------------------------
(* Tasks *)

LEMMA DisturbFacts ==
    ASSUME accept \in Seq(AcceptTasks), Disturb
    PROVE  /\ accept' \in Seq(AcceptTasks) /\ Len(accept') = Len(accept)
           /\ \A t \in 1..Len(accept) :
                /\ accept'[t].pc = accept[t].pc /\ accept'[t].ops = accept[t].ops
                /\ accept'[t].adds = accept[t].adds /\ accept'[t].listed = accept[t].listed
                /\ accept'[t].final = accept[t].final /\ accept'[t].ok = accept[t].ok
                /\ accept'[t].alone = accept[t].alone /\ accept'[t].files = accept[t].files
                /\ accept'[t].taken = accept[t].taken
<1> DEFINE New == DOMAIN marks'.edits # DOMAIN marks.edits
<1>1. \A t \in 1..Len(accept) : accept[t] \in AcceptTasks
  OBVIOUS
<1>0. New \in BOOLEAN
  OBVIOUS
<1>3. accept' = [t \in 1..Len(accept) |-> [accept[t] EXCEPT !.steady = FALSE, !.resized = @ \/ New]]
  BY DEF Disturb
<1> HIDE DEF New
<1>2. ASSUME NEW a \in AcceptTasks
      PROVE  LET b == [a EXCEPT !.steady = FALSE, !.resized = @ \/ New]
             IN  /\ b \in AcceptTasks /\ b.pc = a.pc /\ b.ops = a.ops /\ b.adds = a.adds
                 /\ b.listed = a.listed /\ b.final = a.final /\ b.ok = a.ok
                 /\ b.alone = a.alone /\ b.files = a.files /\ b.taken = a.taken
  BY <1>0 DEF AcceptTasks
<1>4. \A t \in 1..Len(accept) : accept'[t] = [accept[t] EXCEPT !.steady = FALSE, !.resized = @ \/ New]
  BY <1>3
<1>5. accept' \in Seq(AcceptTasks) /\ Len(accept') = Len(accept)
  <2> DEFINE b(t) == [accept[t] EXCEPT !.steady = FALSE, !.resized = @ \/ New]
  <2>1. \A t \in 1..Len(accept) : b(t) \in AcceptTasks
    BY <1>1, <1>2
  <2>2. accept' = [t \in 1..Len(accept) |-> b(t)]
    BY <1>3
  <2> HIDE DEF b
  <2> QED BY <2>1, <2>2
<1>6. ASSUME NEW t \in 1..Len(accept)
      PROVE  /\ accept'[t].pc = accept[t].pc /\ accept'[t].ops = accept[t].ops
             /\ accept'[t].adds = accept[t].adds /\ accept'[t].listed = accept[t].listed
             /\ accept'[t].final = accept[t].final /\ accept'[t].ok = accept[t].ok
             /\ accept'[t].alone = accept[t].alone /\ accept'[t].files = accept[t].files
             /\ accept'[t].taken = accept[t].taken
  <2> PICK a, b : /\ a \in AcceptTasks /\ a = accept[t]
                  /\ b = [a EXCEPT !.steady = FALSE, !.resized = @ \/ New]
    BY <1>1
  <2>1. accept'[t] = b
    BY <1>4
  <2>2. /\ b.pc = a.pc /\ b.ops = a.ops /\ b.adds = a.adds /\ b.listed = a.listed
        /\ b.final = a.final /\ b.ok = a.ok /\ b.alone = a.alone /\ b.files = a.files
        /\ b.taken = a.taken
    BY <1>2
  <2> QED BY <2>1, <2>2
<1> QED BY <1>5, <1>6

\* Nothing of a task that matters here changes.
SameTask(t) ==
    /\ accept'[t].pc = accept[t].pc /\ accept'[t].ops = accept[t].ops
    /\ accept'[t].adds = accept[t].adds /\ accept'[t].listed = accept[t].listed
    /\ accept'[t].final = accept[t].final /\ accept'[t].ok = accept[t].ok
    /\ accept'[t].alone = accept[t].alone /\ accept'[t].files = accept[t].files
    /\ accept'[t].taken = accept[t].taken

LEMMA OneAccept ==
    ASSUME accept \in Seq(AcceptTasks), NEW t \in 1..Len(accept), NEW r \in AcceptTasks,
           accept' = [accept EXCEPT ![t] = r]
    PROVE  /\ accept' \in Seq(AcceptTasks) /\ Len(accept') = Len(accept) /\ accept'[t] = r
           /\ \A u \in 1..Len(accept) : u # t => SameTask(u)
BY DEF SameTask

LEMMA EndedTask == Ended \in AcceptTasks /\ Ended.pc = "end"
<1>1. NoMarks \in MarkSets
  BY NoMapFacts DEF NoMarks, MarkSets
<1>2. NoMap \in PMap(Uris) /\ <<>> \in Seq(RepoOps) /\ <<>> \in Seq(FileWrites)
  BY NoMapFacts
<1> QED BY <1>1, <1>2 DEF Ended, AcceptTasks

LEMMA CallFacts ==
    ASSUME conf \in PMap(Entries), NEW a \in AcceptTasks, a.listed \in Lists, NEW op \in RepoOps,
           op.kind = "add" => op.name \in DOMAIN a.adds
    PROVE  /\ Call(a, op).conf \in PMap(Entries)
           /\ op.kind \in {"add", "enable"} =>
                DOMAIN Call(a, op).conf = DOMAIN conf \cup {op.name}
           /\ op.kind \notin {"add", "enable"} =>
                /\ DOMAIN Call(a, op).conf = DOMAIN conf \ {op.name}
                /\ Call(a, op).can <=> op.name \in DOMAIN conf
<1> DEFINE uri == IF op.kind = "add" THEN a.adds[op.name]
                  ELSE IF NotEnabled(a, op.name) THEN a.listed.disabled[op.name] ELSE "list"
           e == [file |-> "eselect", uri |-> uri]
<1>1. a.adds \in PMap(Uris) /\ a.listed.disabled \in PMap(Uris) /\ op.name \in Repos
  BY DEF AcceptTasks, Lists, RepoOps
<1>2. uri \in Uris
  <2>1. op.kind = "add" => a.adds[op.name] \in Uris
    BY <1>1, MapFacts
  <2>2. NotEnabled(a, op.name) => a.listed.disabled[op.name] \in Uris
    BY <1>1, MapFacts DEF NotEnabled
  <2> QED BY <2>1, <2>2 DEF Uris
<1>3. e \in Entries
  <2> HIDE DEF uri
  <2> QED BY <1>2 DEF Entries, ConfFiles
<1>4. Call(a, op) = IF op.kind \in {"add", "enable"}
                    THEN [can |-> op.name \notin DOMAIN conf, conf |-> Put(conf, op.name, e)]
                    ELSE [can |-> op.name \in DOMAIN conf, conf |-> Drop(conf, op.name)]
  BY DEF Call, Eselect
<1> HIDE DEF e
<1>5. /\ Put(conf, op.name, e) \in PMap(Entries)
      /\ DOMAIN Put(conf, op.name, e) = DOMAIN conf \cup {op.name}
  BY <1>1, <1>3, PutFacts
<1>6. /\ Drop(conf, op.name) \in PMap(Entries)
      /\ DOMAIN Drop(conf, op.name) = DOMAIN conf \ {op.name}
  <2>1. \A n : Drop(conf, n) \in PMap(Entries) /\ DOMAIN Drop(conf, n) = DOMAIN conf \ {n}
    BY DropFacts
  <2> QED BY <2>1, Zenon
<1>7. CASE op.kind \in {"add", "enable"}
  BY <1>7, <1>4, <1>5
<1>8. CASE op.kind \notin {"add", "enable"}
  <2> HIDE DEF uri
  <2> DEFINE d == Drop(conf, op.name)
  <2>1. Call(a, op) = [can |-> op.name \in DOMAIN conf, conf |-> d]
    BY <1>8, <1>4
  <2>2. d \in PMap(Entries) /\ DOMAIN d = DOMAIN conf \ {op.name}
    BY <1>6
  <2> HIDE DEF d
  <2>3. Call(a, op).conf = d
    BY <2>1
  <2> DEFINE there == op.name \in DOMAIN conf
  <2>4. there \in BOOLEAN
    OBVIOUS
  <2>5. Call(a, op).can = there
    <3>1. Call(a, op) = [can |-> there, conf |-> d]
      BY <2>1
    <3> HIDE DEF there
    <3> QED BY <3>1, <2>4
  <2> QED BY <1>8, <2>2, <2>3, <2>5, Zenon
<1> QED BY <1>7, <1>8

\* The record gains what is disabled, and loses only what is enabled or removed.
LEMMA KeptFacts ==
    ASSUME NEW a \in AcceptTasks, a.listed \in Lists, NEW op \in RepoOps
    PROVE  /\ Kept(a, op) \in PMap(Uris)
           /\ op.kind \in {"add", "disable"} => DOMAIN a.final \subseteq DOMAIN Kept(a, op)
           /\ op.kind = "disable" /\ op.name \in DOMAIN a.listed.enabled =>
                op.name \in DOMAIN Kept(a, op)
           /\ \A n \in DOMAIN a.final : n # op.name => n \in DOMAIN Kept(a, op)
<1>1. /\ a.final \in PMap(Uris) /\ a.listed.enabled \in PMap(Uris) /\ op.name \in Repos
      /\ op.kind \in {"add", "enable", "disable", "remove"}
  BY DEF AcceptTasks, Lists, RepoOps, StateOps
<1>2. op.name \in DOMAIN a.listed.enabled => a.listed.enabled[op.name] \in Uris
  BY <1>1, MapFacts
<1>3. CASE op.kind = "disable" /\ op.name \in DOMAIN a.listed.enabled
  <2> DEFINE v == a.listed.enabled[op.name]
  <2>1. Kept(a, op) = Put(a.final, op.name, v)
    BY <1>3 DEF Kept
  <2>2. v \in Uris
    BY <1>2, <1>3
  <2> HIDE DEF v
  <2>3. /\ Put(a.final, op.name, v) \in PMap(Uris)
        /\ DOMAIN Put(a.final, op.name, v) = DOMAIN a.final \cup {op.name}
    <3>1. ASSUME NEW n \in Repos, NEW w \in Uris
          PROVE  /\ Put(a.final, n, w) \in PMap(Uris)
                 /\ DOMAIN Put(a.final, n, w) = DOMAIN a.final \cup {n}
      <4> DEFINE f == a.final
      <4>1. f \in PMap(Uris)
        BY <1>1
      <4> HIDE DEF f
      <4>2. Put(f, n, w) \in PMap(Uris) /\ DOMAIN Put(f, n, w) = DOMAIN f \cup {n}
        <5>1. n \in Repos /\ w \in Uris
          BY <3>1
        <5>2. Put(f, n, w) \in PMap(Uris)
          BY <4>1, <5>1, PutFacts
        <5>3. DOMAIN Put(f, n, w) = DOMAIN f \cup {n}
          BY <4>1, <5>1, PutFacts
        <5> QED BY <5>2, <5>3
      <4> QED BY <4>2 DEF f
    <3> QED BY <1>1, <2>2, <3>1, Zenon
  <2> QED BY <2>1, <2>3
<1>4. CASE Kept(a, op) = a.final /\ ~(op.kind = "disable" /\ op.name \in DOMAIN a.listed.enabled)
  BY <1>4, <1>1
<1>5. CASE Kept(a, op) = Drop(a.final, op.name) /\ op.kind \notin {"add", "disable"}
  <2>1. /\ Drop(a.final, op.name) \in PMap(Uris)
        /\ DOMAIN Drop(a.final, op.name) = DOMAIN a.final \ {op.name}
    <3>1. \A n : /\ Drop(a.final, n) \in PMap(Uris)
                 /\ DOMAIN Drop(a.final, n) = DOMAIN a.final \ {n}
      BY <1>1, DropFacts
    <3> QED BY <3>1, Zenon
  <2> QED BY <2>1, <1>5
<1> QED BY <1>3, <1>4, <1>5 DEF Kept

LEMMA FragmentFacts ==
    ASSUME conf \in PMap(Entries), NEW edit \in PMap(Uris), DOMAIN edit # {}
    PROVE  LET w == Fragment(edit)
           IN  /\ w \in FileWrites /\ w.file \notin {"disabled", "refresh"}
               /\ \A m \in DOMAIN conf : conf[m].file = w.file <=> m \in DOMAIN w.text
<1> DEFINE n == CHOOSE m \in DOMAIN edit : TRUE
           file == IF n \in DOMAIN conf THEN conf[n].file ELSE n
           there == {m \in DOMAIN conf : conf[m].file = file}
           text == [m \in there \cup {n} |-> IF m = n THEN edit[n] ELSE conf[m].uri]
<1>0. n \in DOMAIN edit
  OBVIOUS
<1>8. Fragment(edit) = [file |-> file, text |-> text]
  BY DEF Fragment
<1> HIDE DEF n
<1>2. n \in Repos /\ edit[n] \in Uris
  BY <1>0, MapFacts
<1>3. DOMAIN conf \in SUBSET Repos /\ \A m \in DOMAIN conf : conf[m] \in Entries
  BY MapFacts
<1>4. \A m \in DOMAIN conf : conf[m].file \in ConfFiles /\ conf[m].uri \in Uris
  BY <1>3 DEF Entries
<1>5. file \in ConfFiles /\ file \notin {"disabled", "refresh"}
  BY <1>2, <1>3, <1>4, ReposAssumption DEF ConfFiles
<1>6. there \cup {n} \in SUBSET Repos /\ text \in [there \cup {n} -> Uris]
  BY <1>2, <1>3, <1>4
<1>7. text \in PMap(Uris) /\ DOMAIN text = there \cup {n}
  <2> DEFINE D == there \cup {n}
  <2>1. D \in SUBSET Repos /\ text \in [D -> Uris]
    BY <1>6
  <2> HIDE DEF text, D
  <2>2. text \in PMap(Uris) /\ DOMAIN text = D
    BY <2>1, MapOf
  <2> QED BY <2>2 DEF D
<1>9. \A m \in DOMAIN conf : conf[m].file = file <=> m \in there \cup {n}
  OBVIOUS
<1> HIDE DEF file, there, text
<1>10. [file |-> file, text |-> text] \in FileWrites
  BY <1>5, <1>7 DEF FileWrites
<1> QED BY <1>5, <1>7, <1>8, <1>9, <1>10

-----------------------------------------------------------------------------
(* What is staged *)

LEMMA MarkParts ==
    ASSUME marks \in MarkSets
    PROVE  /\ marks.state \in PMap(StateOps) /\ marks.adds \in PMap(Uris)
           /\ marks.edits \in PMap(Uris) /\ marks.refresh \in PMap(BOOLEAN)
           /\ \A s \in PMap(Uris) :
                /\ [marks EXCEPT !.adds = s] \in MarkSets
                /\ [marks EXCEPT !.adds = s].adds = s
                /\ [marks EXCEPT !.adds = s].state = marks.state
                /\ [marks EXCEPT !.edits = s] \in MarkSets
                /\ [marks EXCEPT !.edits = s].adds = marks.adds
                /\ [marks EXCEPT !.edits = s].state = marks.state
           /\ \A s \in PMap(BOOLEAN) :
                /\ [marks EXCEPT !.refresh = s] \in MarkSets
                /\ [marks EXCEPT !.refresh = s].adds = marks.adds
                /\ [marks EXCEPT !.refresh = s].state = marks.state
           /\ \A s \in PMap(StateOps) :
                /\ [marks EXCEPT !.state = s] \in MarkSets
                /\ [marks EXCEPT !.state = s].adds = marks.adds
                /\ [marks EXCEPT !.state = s].state = s
           /\ \A s \in PMap(StateOps), r \in PMap(BOOLEAN), e \in PMap(Uris) :
                /\ [marks EXCEPT !.state = s, !.refresh = r, !.edits = e] \in MarkSets
                /\ [marks EXCEPT !.state = s, !.refresh = r, !.edits = e].adds = marks.adds
                /\ [marks EXCEPT !.state = s, !.refresh = r, !.edits = e].state = s
BY DEF MarkSets

LEMMA PutState ==
    ASSUME marks \in MarkSets, NEW n \in Repos, NEW op \in StateOps
    PROVE  /\ MarkState(n, op) \in MarkSets /\ MarkState(n, op).adds = marks.adds
           /\ \A x \in DOMAIN MarkState(n, op).state :
                 (x # n \/ op # "disable") /\ MarkState(n, op).state[x] = "disable" =>
                    x \in DOMAIN marks.state /\ marks.state[x] = "disable"
<1> DEFINE st == marks.state
           put == Put(st, n, op)
           drop == Drop(st, n)
           r == Drop(marks.refresh, n)
           e == Drop(marks.edits, n)
           m == MarkState(n, op)
<1>1. /\ st \in PMap(StateOps) /\ marks.refresh \in PMap(BOOLEAN)
      /\ marks.edits \in PMap(Uris)
  BY MarkParts
<1>2. m \in {[marks EXCEPT !.state = drop], [marks EXCEPT !.state = put],
              [marks EXCEPT !.state = put, !.refresh = r, !.edits = e]}
  BY DEF MarkState
<1> HIDE DEF st, m
<1>3. r \in PMap(BOOLEAN)
  BY <1>1, DropFacts
<1>4. e \in PMap(Uris)
  BY <1>1, DropFacts
<1>5. drop \in PMap(StateOps) /\ DOMAIN drop = DOMAIN st \ {n} /\ \A x \in DOMAIN st : x # n => drop[x] = st[x]
  BY <1>1, DropFacts
<1>6. /\ put \in PMap(StateOps) /\ DOMAIN put = DOMAIN st \cup {n} /\ put[n] = op
      /\ \A x \in DOMAIN st : x # n => put[x] = st[x]
  <2>1. Put(st, n, op) \in PMap(StateOps)
    BY <1>1, PutFacts
  <2>2. DOMAIN Put(st, n, op) = DOMAIN st \cup {n} /\ Put(st, n, op)[n] = op
    BY DEF Put
  <2>3. \A x \in DOMAIN st : x # n => Put(st, n, op)[x] = st[x]
    BY DEF Put
  <2> QED BY <2>1, <2>2, <2>3
<1> HIDE DEF put, drop, r, e
<1>7. m \in MarkSets /\ m.adds = marks.adds /\ m.state \in {drop, put}
  <2>1. CASE m = [marks EXCEPT !.state = drop]
    BY <2>1, <1>5, MarkParts
  <2>2. CASE m = [marks EXCEPT !.state = put]
    BY <2>2, <1>6, MarkParts
  <2>3. CASE m = [marks EXCEPT !.state = put, !.refresh = r, !.edits = e]
    <3>1. /\ [marks EXCEPT !.state = put, !.refresh = r, !.edits = e] \in MarkSets
          /\ [marks EXCEPT !.state = put, !.refresh = r, !.edits = e].adds = marks.adds
          /\ [marks EXCEPT !.state = put, !.refresh = r, !.edits = e].state = put
      <4>1. put \in PMap(StateOps) /\ r \in PMap(BOOLEAN) /\ e \in PMap(Uris)
        BY <1>3, <1>4, <1>6
      <4> QED BY <4>1 DEF MarkSets
    <3> QED BY <2>3, <3>1, Zenon
  <2> QED BY <1>2, <2>1, <2>2, <2>3
<1>8. ASSUME NEW s \in {drop, put}, NEW x \in DOMAIN s, x # n \/ op # "disable", s[x] = "disable"
      PROVE  x \in DOMAIN st /\ st[x] = "disable"
  <2>1. x \in DOMAIN st /\ x # n
    BY <1>5, <1>6, <1>8
  <2> QED BY <1>5, <1>6, <1>8, <2>1
<1>9. \A x \in DOMAIN m.state : (x # n \/ op # "disable") /\ m.state[x] = "disable" =>
         x \in DOMAIN st /\ st[x] = "disable"
  BY <1>7, <1>8
<1> QED BY <1>7, <1>9 DEF m, st

\* Every way to stage something keeps to names.
LEMMA StagingFacts ==
    ASSUME marks \in MarkSets, listed \in Lists, NEW n \in Repos,
           Mark(n) \/ EnableNew(n) \/ Add(n) \/ Edit(n)
    PROVE  /\ marks' \in MarkSets /\ Disturb
           /\ UNCHANGED <<conf, disabledFile, refreshFile, listed, loading, open>>
<1> DEFINE Right(m) == m \in MarkSets
<1>0. SUFFICES ASSUME NEW m, Right(m), Stages(m)
               PROVE  /\ marks' \in MarkSets /\ Disturb
                      /\ UNCHANGED <<conf, disabledFile, refreshFile, listed, loading, open>>
  <2>1. "enable" \in StateOps /\ "disable" \in StateOps /\ "remove" \in StateOps
    BY DEF StateOps
  <2>2. ASSUME NEW op \in StateOps PROVE Right(MarkState(n, op))
    BY PutState
  <2>3. ASSUME NEW now PROVE Right(ToggleRefresh(n, now))
    <3> DEFINE r == marks.refresh
               want == ~(IF n \in DOMAIN r THEN r[n] ELSE now)
               s == IF want = now THEN Drop(r, n) ELSE Put(r, n, want)
               m == ToggleRefresh(n, now)
    <3>1. r \in PMap(BOOLEAN)
      BY MarkParts
    <3>2. want \in BOOLEAN
      OBVIOUS
    <3>3. Drop(r, n) \in PMap(BOOLEAN)
      <4> HIDE DEF r
      <4> QED BY <3>1, DropFacts
    <3>4. Put(r, n, want) \in PMap(BOOLEAN)
      <4> HIDE DEF r, want
      <4> QED BY <3>1, <3>2, PutFacts
    <3>5. s \in PMap(BOOLEAN)
      BY <3>3, <3>4
    <3>6. m = [marks EXCEPT !.refresh = s]
      BY DEF ToggleRefresh
    <3> HIDE DEF s
    <3>7. m \in MarkSets /\ m.adds = marks.adds /\ m.state = marks.state
      <4>1. /\ [marks EXCEPT !.refresh = s] \in MarkSets
            /\ [marks EXCEPT !.refresh = s].adds = marks.adds
            /\ [marks EXCEPT !.refresh = s].state = marks.state
        BY <3>5, MarkParts, Zenon
      <4> QED BY <3>6, <4>1, Zenon
    <3> HIDE DEF m
    <3> QED BY <3>7 DEF m
  <2>4. Right(CancelNew(n))
    <3> DEFINE st == marks.state
               ad == marks.adds
               ed == marks.edits
               re == marks.refresh
    <3>1. st \in PMap(StateOps) /\ ad \in PMap(Uris) /\ ed \in PMap(Uris) /\ re \in PMap(BOOLEAN)
      BY MarkParts
    <3>2. CancelNew(n) = [state |-> Drop(st, n), adds |-> Drop(ad, n),
                          edits |-> Drop(ed, n), refresh |-> Drop(re, n)]
      BY DEF CancelNew
    <3> HIDE DEF st, ad, ed, re
    <3>3. Drop(st, n) \in PMap(StateOps) /\ DOMAIN Drop(st, n) = DOMAIN st \ {n}
          /\ \A x \in DOMAIN st : x # n => Drop(st, n)[x] = st[x]
      BY <3>1, DropFacts
    <3>4. Drop(ad, n) \in PMap(Uris) /\ DOMAIN Drop(ad, n) = DOMAIN ad \ {n}
      BY <3>1, DropFacts
    <3>5. Drop(ed, n) \in PMap(Uris)
      BY <3>1, DropFacts
    <3>6. Drop(re, n) \in PMap(BOOLEAN)
      BY <3>1, DropFacts
    <3>7. CancelNew(n) \in MarkSets
      BY <3>2, <3>3, <3>4, <3>5, <3>6 DEF MarkSets
    <3> QED BY <3>7
  <2>5. ~Known(n) => Right([marks EXCEPT !.adds = Put(@, n, "new")])
    <3> DEFINE ad == marks.adds
               s == Put(ad, n, "new")
               m == [marks EXCEPT !.adds = s]
    <3>1. ad \in PMap(Uris) /\ "new" \in Uris
      BY MarkParts DEF Uris
    <3>2. s \in PMap(Uris)
      <4> HIDE DEF ad
      <4> QED BY <3>1, PutFacts
    <3>3. m \in MarkSets /\ m.adds = s /\ m.state = marks.state
      <4> HIDE DEF s
      <4> QED BY <3>2, MarkParts
    <3> HIDE DEF m, s
    <3> QED BY <3>3 DEF m, s
  <2>6. Right([marks EXCEPT !.edits = Put(@, n, "new")])
    <3> DEFINE ed == marks.edits
               s == Put(ed, n, "new")
               m == [marks EXCEPT !.edits = s]
    <3>1. ed \in PMap(Uris) /\ "new" \in Uris
      BY MarkParts DEF Uris
    <3>2. s \in PMap(Uris)
      <4> HIDE DEF ed
      <4> QED BY <3>1, PutFacts
    <3>3. m \in MarkSets /\ m.adds = marks.adds /\ m.state = marks.state
      <4> HIDE DEF s
      <4> QED BY <3>2, MarkParts
    <3> HIDE DEF m, s
    <3> QED BY <3>3 DEF m, s
  <2>7. \E m : Right(m) /\ Stages(m)
    <3> HIDE DEF Right
    <3>1. CASE Mark(n)
      BY <3>1, <2>1, <2>2, <2>3, <2>4, Zenon DEF Mark
    <3>2. CASE EnableNew(n)
      BY <3>2, <2>1, <2>2 DEF EnableNew
    <3>3. CASE Add(n)
      BY <3>3, <2>5, Zenon DEF Add
    <3>4. CASE Edit(n)
      BY <3>4, <2>6, Zenon DEF Edit
    <3> QED BY <3>1, <3>2, <3>3, <3>4
  <2> HIDE DEF Right
  <2> QED BY <1>0, <2>7
<1> QED BY <1>0 DEF Stages

-----------------------------------------------------------------------------
(* The steps *)

\* What an Accept may lose a name by.
Forgiven(t, n) ==
    \/ ~accept[t].alone \/ ~accept[t].ok \/ ~accept'[t].ok
    \/ accept[t].pc = "edits" /\ accept[t].resized
    \/ Excused(accept[t], n)
\* A step keeps the invariant, and loses a name only so.
Held == \A n \in Repos : Remembered(n) => Remembered(n)' \/ \E t \in Running : Forgiven(t, n)
Sound == ReposIInv' /\ Held

\* Steps that are not of an Accept: the two files stay, the tasks go on.
LEMMA SameTasks ==
    ASSUME ReposIInv, UNCHANGED <<conf, disabledFile>>, accept' \in Seq(AcceptTasks),
           Len(accept') = Len(accept), \A t \in 1..Len(accept) : SameTask(t)
    PROVE  /\ Running' = Running
           /\ \A t \in 1..Len(accept') : Informed(accept[t])' /\ Faithful(t)'
           /\ Held
<1>1. \A t \in 1..Len(accept) : Informed(accept[t]) /\ Faithful(t)
  BY DEF ReposIInv, ReposTypeInv, RecordInv
<1>2. Running' = Running
  BY DEF Running, SameTask
<1>3. ASSUME NEW t \in 1..Len(accept) PROVE Informed(accept[t])'
  BY <1>1 DEF Informed, SameTask
<1>4. ASSUME NEW t \in 1..Len(accept) PROVE Faithful(t)'
  <2>1. Lone(t)' <=> Lone(t)
    BY DEF Lone, SameTask
  <2>2. Knows(accept[t])' <=> Knows(accept[t])
    BY DEF Knows, Lossless, Excused, Asks, SameTask
  <2> QED BY <1>1, <1>2, <2>1, <2>2 DEF Faithful
<1>5. Held
  <2>1. \A n : Remembered(n)' <=> Remembered(n)
    <3>1. \A t \in Running : t \in 1..Len(accept) /\ accept'[t].final = accept[t].final
      BY DEF Running, SameTask
    <3> QED BY <1>2, <3>1 DEF Remembered
  <2> QED BY <2>1 DEF Held
<1> QED BY <1>2, <1>3, <1>4, <1>5

LEMMA LoadGood == ASSUME ReposIInv, Load PROVE Sound
<1>1. /\ UNCHANGED <<conf, disabledFile, refreshFile, marks, open, accept>>
      /\ listed' = Listed /\ loading' = FALSE
  BY DEF Load
<1>2. ReposTypeInv /\ accept \in Seq(AcceptTasks)
  BY DEF ReposIInv, ReposTypeInv
<1>3. /\ Running' = Running
      /\ \A t \in 1..Len(accept') : Informed(accept[t])' /\ Faithful(t)'
      /\ Held
  <2>1. \A t \in 1..Len(accept) : SameTask(t)
    BY <1>1 DEF SameTask
  <2> QED BY <1>1, <1>2, <2>1, SameTasks
<1>4. Listed \in Lists /\ DOMAIN Listed.enabled = DOMAIN conf
  <2> DEFINE en == [n \in DOMAIN conf |-> conf[n].uri]
             D == DOMAIN disabledFile \ DOMAIN conf
             dis == Restrict(disabledFile, D)
  <2>1. conf \in PMap(Entries) /\ disabledFile \in PMap(Uris) /\ refreshFile \subseteq Repos
    BY <1>2 DEF ReposTypeInv
  <2>2. DOMAIN conf \in SUBSET Repos /\ \A n \in DOMAIN conf : conf[n] \in Entries
    BY <2>1, MapFacts
  <2>3. en \in PMap(Uris) /\ DOMAIN en = DOMAIN conf
    <3>1. en \in [DOMAIN conf -> Uris]
      BY <2>2 DEF Entries
    <3> HIDE DEF en
    <3> QED BY <2>2, <3>1, MapOf
  <2>4. DOMAIN disabledFile \in SUBSET Repos /\ \A n \in DOMAIN disabledFile : disabledFile[n] \in Uris
    BY <2>1, MapFacts
  <2>5. dis \in PMap(Uris)
    <3>1. D \in SUBSET Repos /\ dis \in [D -> Uris]
      BY <2>4 DEF Restrict
    <3> HIDE DEF D, dis
    <3> QED BY <3>1, MapOf
  <2>6. Listed = [enabled |-> en, disabled |-> dis, refresh |-> refreshFile \cap DOMAIN conf]
    BY DEF Listed
  <2> HIDE DEF en, dis
  <2> QED BY <2>1, <2>3, <2>5, <2>6 DEF Lists
<1>5. ReposTypeInv'
  BY <1>1, <1>2, <1>3, <1>4 DEF ReposTypeInv
<1> QED BY <1>3, <1>5 DEF Sound, ReposIInv, RecordInv

LEMMA ReloadGood == ASSUME ReposIInv, Reload PROVE Sound
<1>1. /\ UNCHANGED <<conf, disabledFile, refreshFile, marks, listed, open, accept>>
      /\ loading' = TRUE
  BY DEF Reload
<1>2. ReposTypeInv /\ accept \in Seq(AcceptTasks)
  BY DEF ReposIInv, ReposTypeInv
<1>3. /\ Running' = Running
      /\ \A t \in 1..Len(accept') : Informed(accept[t])' /\ Faithful(t)'
      /\ Held
  <2>1. \A t \in 1..Len(accept) : SameTask(t)
    BY <1>1 DEF SameTask
  <2> QED BY <1>1, <1>2, <2>1, SameTasks
<1>4. ReposTypeInv'
  BY <1>1, <1>2, <1>3 DEF ReposTypeInv
<1> QED BY <1>3, <1>4 DEF Sound, ReposIInv, RecordInv

\* Staging and discarding.
LEMMA StagedGood ==
    ASSUME ReposIInv, marks' \in MarkSets, Disturb,
           UNCHANGED <<conf, disabledFile, refreshFile, listed, loading>>, open' \in BOOLEAN
    PROVE  Sound
<1>1. ReposTypeInv /\ accept \in Seq(AcceptTasks)
  BY DEF ReposIInv, ReposTypeInv
<1>2. /\ accept' \in Seq(AcceptTasks) /\ Len(accept') = Len(accept)
      /\ \A t \in 1..Len(accept) : SameTask(t)
  BY <1>1, DisturbFacts DEF SameTask
<1>3. /\ Running' = Running
      /\ \A t \in 1..Len(accept') : Informed(accept[t])' /\ Faithful(t)'
      /\ Held
  BY <1>2, SameTasks
<1>4. ReposTypeInv'
  BY <1>1, <1>2, <1>3 DEF ReposTypeInv
<1> QED BY <1>3, <1>4 DEF Sound, ReposIInv, RecordInv

LEMMA MarkGood ==
    ASSUME ReposIInv, NEW n \in Repos, Mark(n) \/ EnableNew(n) \/ Add(n) \/ Edit(n)
    PROVE  Sound
<1>1. marks \in MarkSets /\ listed \in Lists /\ open \in BOOLEAN
  BY DEF ReposIInv, ReposTypeInv
<1>2. /\ marks' \in MarkSets /\ Disturb
      /\ UNCHANGED <<conf, disabledFile, refreshFile, listed, loading, open>>
  BY <1>1, StagingFacts
<1> QED BY <1>1, <1>2, StagedGood

LEMMA NoMarksFacts == NoMarks \in MarkSets
<1>1. NoMap \in PMap(Uris) /\ NoMap \in PMap(StateOps) /\ NoMap \in PMap(BOOLEAN)
  BY NoMapFacts
<1> QED BY <1>1 DEF NoMarks, MarkSets

LEMMA DropGood == ASSUME ReposIInv, DropMarks \/ LeaveRepos PROVE Sound
<1>1. /\ marks' = NoMarks /\ Disturb /\ open' \in BOOLEAN
      /\ UNCHANGED <<conf, disabledFile, refreshFile, listed, loading>>
  BY DEF DropMarks, LeaveRepos, ReposIInv, ReposTypeInv
<1> QED BY <1>1, NoMarksFacts, StagedGood

\* F10.
LEMMA AcceptGood == ASSUME ReposIInv, AcceptMarks PROVE Sound
<1> DEFINE L == Len(accept)
           before == [t \in 1..L |-> [accept[t] EXCEPT !.alone = FALSE]]
           alone == /\ Running = {} /\ listed = Listed
                    /\ DOMAIN conf \cap DOMAIN disabledFile = {}
           task == [pc |-> "connect", ops |-> OrderedOps, done |-> 0, adds |-> marks.adds,
                    listed |-> listed, final |-> listed.disabled, ok |-> TRUE,
                    alone |-> alone, steady |-> TRUE, staged |-> marks, files |-> <<>>,
                    names |-> {}, seen |-> {}, taken |-> NoMap, resized |-> FALSE]
<1>1. /\ ReposTypeInv /\ accept \in Seq(AcceptTasks) /\ L \in Nat
      /\ marks \in MarkSets /\ listed \in Lists
      /\ \A t \in 1..L : accept[t] \in AcceptTasks /\ Informed(accept[t])
  BY DEF ReposIInv, ReposTypeInv
<1>2. /\ accept' = Append(before, task)
      /\ UNCHANGED <<conf, disabledFile, refreshFile, marks, listed, loading, open>>
  BY DEF AcceptMarks
<1>3. task \in AcceptTasks /\ task.pc = "connect" /\ task.ops = OrderedOps /\ task.adds = marks.adds
      /\ task.listed = listed /\ task.final = listed.disabled /\ (task.alone => alone)
  <2>1. OrderedOps \in Seq(RepoOps) /\ <<>> \in Seq(FileWrites)
    BY <1>1, OpsFacts
  <2>2. /\ listed.disabled \in PMap(Uris) /\ marks.adds \in PMap(Uris) /\ alone \in BOOLEAN
        /\ NoMap \in PMap(Uris)
    BY <1>1, NoMapFacts DEF Lists, MarkSets
  <2> HIDE DEF alone
  <2> QED BY <1>1, <2>1, <2>2 DEF AcceptTasks
<1>4. Informed(task)
  <2>1. \A op \in ToSet(OrderedOps) : op.kind = "add" => op.name \in DOMAIN marks.adds
    BY <1>1, OpsFacts DEF StateOps
  <2> QED BY <1>1, <1>3, <2>1 DEF Informed
<1> HIDE DEF task
<1>5. ASSUME NEW a \in AcceptTasks
      PROVE  LET b == [a EXCEPT !.alone = FALSE]
             IN  /\ b \in AcceptTasks /\ b.pc = a.pc /\ b.ops = a.ops /\ b.adds = a.adds
                 /\ b.listed = a.listed /\ b.final = a.final /\ b.ok = a.ok /\ b.alone = FALSE
                 /\ b.taken = a.taken
  BY DEF AcceptTasks
<1>6. before \in Seq(AcceptTasks) /\ Len(before) = L
  BY <1>1, <1>5
<1>7. /\ accept' \in Seq(AcceptTasks) /\ Len(accept') = L + 1 /\ accept'[L + 1] = task
      /\ \A t \in 1..L : accept'[t] = before[t]
  <2> HIDE DEF before
  <2> QED BY <1>1, <1>2, <1>3, <1>6
<1>8. \A t \in 1..L : /\ accept'[t].pc = accept[t].pc /\ accept'[t].ops = accept[t].ops
                      /\ accept'[t].adds = accept[t].adds /\ accept'[t].listed = accept[t].listed
                      /\ accept'[t].final = accept[t].final /\ accept'[t].ok = accept[t].ok
                      /\ accept'[t].alone = FALSE /\ accept'[t].taken = accept[t].taken
  <2>1. ASSUME NEW t \in 1..L PROVE accept'[t] = [accept[t] EXCEPT !.alone = FALSE]
    BY <1>7
  <2>2. ASSUME NEW t \in 1..L, NEW b, b = [accept[t] EXCEPT !.alone = FALSE]
        PROVE  /\ b.pc = accept[t].pc /\ b.ops = accept[t].ops /\ b.adds = accept[t].adds
               /\ b.listed = accept[t].listed /\ b.final = accept[t].final
               /\ b.ok = accept[t].ok /\ b.alone = FALSE /\ b.taken = accept[t].taken
    <3>1. accept[t] \in AcceptTasks
      BY <1>1
    <3> QED BY <1>5, <2>2, <3>1
  <2> HIDE DEF L
  <2> QED BY <2>1, <2>2
<1>9. Running' = Running \cup {L + 1} /\ L + 1 \notin Running
  <2>1. 1..Len(accept') = 1..L \cup {L + 1} /\ L + 1 \notin 1..L
    BY <1>1, <1>7
  <2> QED BY <2>1, <1>3, <1>7, <1>8 DEF Running
<1>10. \A t \in 1..Len(accept') : Informed(accept[t])'
  <2>1. ASSUME NEW t \in 1..L PROVE Informed(accept[t])'
    BY <1>1, <1>8 DEF Informed
  <2>2. ASSUME NEW t, t = L + 1 PROVE Informed(accept[t])'
    BY <1>4, <1>7, <2>2 DEF Informed
  <2>3. \A t \in 1..Len(accept') : t \in 1..L \/ t = L + 1
    BY <1>1, <1>7
  <2> QED BY <2>1, <2>2, <2>3
<1>11. ReposTypeInv'
  BY <1>1, <1>2, <1>7, <1>10 DEF ReposTypeInv
<1>13. ASSUME alone, NEW t, t = L + 1 PROVE Knows(accept[t])'
  <2>1. DOMAIN conf \cap DOMAIN disabledFile = {}
    BY <1>13
  <2>2. listed = Listed
    BY <1>13
  <2>3. DOMAIN listed.enabled = DOMAIN conf
    BY <2>2 DEF Listed
  <2>4. listed.disabled = disabledFile
    <3>1. disabledFile \in PMap(Uris)
      BY <1>1 DEF ReposTypeInv
    <3>2. disabledFile = [n \in DOMAIN disabledFile |-> disabledFile[n]]
      BY <3>1, MapFacts
    <3>3. DOMAIN disabledFile \ DOMAIN conf = DOMAIN disabledFile
      BY <2>1
    <3>4. Restrict(disabledFile, DOMAIN disabledFile \ DOMAIN conf) = disabledFile
      BY <3>2, <3>3 DEF Restrict
    <3> QED BY <2>2, <3>4 DEF Listed
  <2>5. ASSUME NEW n \in Repos, Asks(task, "disable", n), n \notin DOMAIN listed.enabled
        PROVE  n \notin DOMAIN conf /\ ~Asks(task, "enable", n)
    <3>1. \A op \in ToSet(task.ops) :
             \/ op.kind = "add" /\ op.name \in DOMAIN marks.adds
             \/ /\ op.name \in DOMAIN marks.state /\ op.kind = marks.state[op.name]
                /\ op.kind \in StateOps
      BY <1>1, <1>3, OpsFacts
    <3>2. \A k : RepoOp(k, n).kind = k /\ RepoOp(k, n).name = n
      BY DEF RepoOp
    <3>3. n \in DOMAIN marks.state /\ marks.state[n] = "disable"
      BY <2>5, <3>1, <3>2 DEF Asks, RepoOp
    <3>4. ~Asks(task, "enable", n)
      BY <3>1, <3>2, <3>3 DEF Asks, RepoOp
    <3>5. n \notin DOMAIN conf
      BY <2>3, <2>5
    <3> QED BY <3>4, <3>5
  <2>6. accept'[t] = task
    BY <1>7, <1>13
  <2>7. /\ task.listed.disabled = disabledFile' /\ task.final = disabledFile'
        /\ \A n \in Repos : Asks(task, "disable", n) /\ n \notin DOMAIN task.listed.enabled =>
              n \notin DOMAIN conf' /\ ~Asks(task, "enable", n)
    BY <1>2, <1>3, <2>4, <2>5
  <2> QED BY <1>3, <2>6, <2>7 DEF Knows, Excused, Asks
<1>14. \A t \in 1..Len(accept') : Faithful(t)'
  <2>1. ASSUME NEW t \in 1..L PROVE ~Lone(t)'
    BY <1>8 DEF Lone
  <2>2. ASSUME NEW t, t = L + 1 PROVE Faithful(t)'
    <3>1. Lone(t)' => alone
      BY <1>3, <1>7, <2>2 DEF Lone
    <3>2. alone => Running' = {t}
      BY <1>9, <2>2
    <3> HIDE DEF alone
    <3> QED BY <1>13, <2>2, <3>1, <3>2 DEF Faithful
  <2>3. \A t \in 1..Len(accept') : t \in 1..L \/ t = L + 1
    BY <1>1, <1>7
  <2> HIDE DEF alone
  <2> QED BY <2>1, <2>2, <2>3 DEF Faithful
<1>15. Held
  <2>1. ASSUME NEW n \in Repos, Remembered(n) PROVE Remembered(n)'
    <3>1. \A t \in Running : t \in Running' /\ accept'[t].final = accept[t].final
      BY <1>8, <1>9 DEF Running
    <3> QED BY <1>2, <2>1, <3>1 DEF Remembered
  <2> QED BY <2>1 DEF Held
<1> QED BY <1>11, <1>14, <1>15 DEF Sound, ReposIInv, RecordInv

-----------------------------------------------------------------------------
(* The steps of an Accept *)

\* Of the other Accepts, and of this one unless it is alone, nothing is asked.
LEMMA TaskStep ==
    ASSUME ReposIInv, NEW t \in Running,
           accept' \in Seq(AcceptTasks), Len(accept') = Len(accept),
           \A u \in 1..Len(accept) : u # t => SameTask(u),
           accept'[t].alone => accept[t].alone, Informed(accept[t])',
           conf' \in PMap(Entries), disabledFile' \in PMap(Uris), refreshFile' \subseteq Repos,
           UNCHANGED <<listed, open>>, marks' \in MarkSets, loading' \in BOOLEAN,
           Lone(t)' /\ Lone(t) /\ Running = {t} /\ Knows(accept[t]) => Knows(accept[t])',
           \A n \in Repos : Lone(t) /\ Running = {t} /\ Knows(accept[t]) /\ ~Forgiven(t, n)
                            /\ Remembered(n) => Remembered(n)'
    PROVE  Sound
<1>1. ReposTypeInv /\ t \in 1..Len(accept) /\ accept[t].pc # "end"
  BY DEF ReposIInv, Running
<1>2. \A u \in 1..Len(accept) : Informed(accept[u]) /\ Faithful(u)
  BY DEF ReposIInv, ReposTypeInv, RecordInv
<1>3. ReposTypeInv'
  <2>1. ASSUME NEW u \in 1..Len(accept) PROVE Informed(accept[u])'
    BY <1>2 DEF Informed, SameTask
  <2> QED BY <1>1, <2>1 DEF ReposTypeInv
<1>4. ASSUME NEW u \in 1..Len(accept) PROVE Faithful(u)'
  <2>1. CASE u # t
    <3>1. Lone(u)' => Lone(u)
      BY <2>1 DEF Lone, SameTask
    <3>2. ~Lone(u)
      BY <1>2, <2>1 DEF Faithful
    <3> QED BY <3>1, <3>2 DEF Faithful
  <2>2. CASE u = t
    <3>1. SUFFICES ASSUME Lone(t)' PROVE Running' = {t} /\ Knows(accept[t])'
      BY <2>2 DEF Faithful
    <3>2. Lone(t)
      BY <1>1, <3>1 DEF Lone
    <3>3. Running = {t} /\ Knows(accept[t])
      BY <1>1, <1>2, <3>2 DEF Faithful
    <3>4. \A v \in 1..Len(accept) : v # t => accept[v].pc = "end"
      BY <3>3 DEF Running
    <3>5. Running' = {t}
      BY <1>1, <3>1, <3>4 DEF Running, Lone, SameTask
    <3> QED BY <3>1, <3>2, <3>3, <3>5
  <2> QED BY <2>1, <2>2
<1>5. Held
  <2>1. SUFFICES ASSUME NEW n \in Repos, Remembered(n), \A u \in Running : ~Forgiven(u, n)
                 PROVE  Remembered(n)'
    BY DEF Held
  <2>2. ~Forgiven(t, n)
    BY <2>1
  <2>3. Lone(t)
    BY <1>1, <2>2 DEF Lone, Forgiven
  <2>4. Running = {t} /\ Knows(accept[t])
    BY <1>1, <1>2, <2>3 DEF Faithful
  <2> QED BY <2>1, <2>2, <2>3, <2>4
<1> QED BY <1>3, <1>4, <1>5 DEF Sound, ReposIInv, RecordInv

LEMMA TaskFacts ==
    ASSUME ReposIInv, NEW t \in Running
    PROVE  /\ t \in 1..Len(accept) /\ accept \in Seq(AcceptTasks) /\ accept[t] \in AcceptTasks
           /\ accept[t].pc # "end" /\ accept[t].listed \in Lists
           /\ \A op \in ToSet(accept[t].ops) : op.kind = "add" => op.name \in DOMAIN accept[t].adds
           /\ conf \in PMap(Entries) /\ disabledFile \in PMap(Uris) /\ refreshFile \subseteq Repos
           /\ marks \in MarkSets /\ listed \in Lists /\ loading \in BOOLEAN /\ open \in BOOLEAN
BY DEF Running, ReposIInv, ReposTypeInv, Informed

LEMMA ConnectGood ==
    ASSUME ReposIInv, NEW t \in 1..Len(accept), ConnectRepos(t)
    PROVE  Sound
<1> DEFINE a == accept[t]
<1>0. t \in Running /\ a.pc = "connect"
  BY DEF ConnectRepos, AcceptAt, Running
<1>1. /\ accept \in Seq(AcceptTasks) /\ a \in AcceptTasks /\ a.listed \in Lists
      /\ \A op \in ToSet(a.ops) : op.kind = "add" => op.name \in DOMAIN a.adds
      /\ conf \in PMap(Entries) /\ disabledFile \in PMap(Uris) /\ refreshFile \subseteq Repos
      /\ marks \in MarkSets /\ loading \in BOOLEAN
  BY <1>0, TaskFacts
<1>2. UNCHANGED <<conf, disabledFile, refreshFile, marks, listed, loading, open>>
  BY DEF ConnectRepos
<1>3. CASE accept' = [accept EXCEPT ![t].pc = "run"]
  <2> DEFINE r == [a EXCEPT !.pc = "run"]
  <2>1. /\ r \in AcceptTasks /\ r.pc = "run" /\ r.ops = a.ops /\ r.adds = a.adds
        /\ r.listed = a.listed /\ r.final = a.final /\ r.ok = a.ok /\ r.alone = a.alone
    BY <1>1 DEF AcceptTasks
  <2>2. accept' = [accept EXCEPT ![t] = r]
    BY <1>3
  <2> HIDE DEF r
  <2>3. /\ accept' \in Seq(AcceptTasks) /\ Len(accept') = Len(accept) /\ accept'[t] = r
        /\ \A u \in 1..Len(accept) : u # t => SameTask(u)
    BY <1>1, <2>1, <2>2, OneAccept
  <2>4. t \in Running'
    BY <2>1, <2>3 DEF Running
  <2>5. Informed(accept[t])'
    BY <1>1, <2>1, <2>3 DEF Informed
  <2>6. ASSUME Knows(a) PROVE Knows(accept[t])'
    BY <1>0, <1>2, <2>1, <2>3, <2>6 DEF Knows, Excused, Asks
  <2>7. ASSUME NEW n \in Repos, Running = {t}, Remembered(n) PROVE Remembered(n)'
    BY <1>2, <2>1, <2>3, <2>4, <2>7 DEF Remembered
  <2> QED BY <1>0, <1>1, <1>2, <2>1, <2>3, <2>4, <2>5, <2>6, <2>7, TaskStep
<1>4. CASE accept' = [accept EXCEPT ![t] = Ended]
  <2>1. Ended \in AcceptTasks /\ Ended.pc = "end" /\ Ended.alone = FALSE
    BY EndedTask DEF Ended
  <2>2. /\ accept' \in Seq(AcceptTasks) /\ Len(accept') = Len(accept) /\ accept'[t] = Ended
        /\ \A u \in 1..Len(accept) : u # t => SameTask(u)
    BY <1>1, <1>4, <2>1, OneAccept
  <2>5. Informed(accept[t])' /\ ~Lone(t)'
    BY <2>1, <2>2 DEF Informed, Lone
  <2>6. ASSUME NEW n \in Repos, Running = {t}, Knows(a), Remembered(n) PROVE Remembered(n)'
    \* It had recorded nothing yet.
    <3>1. a.final = disabledFile
      BY <1>0, <2>6 DEF Knows
    <3> QED BY <1>2, <2>6, <3>1 DEF Remembered
  <2>7. accept'[t].alone => a.alone
    BY <2>1, <2>2
  <2> QED BY <1>0, <1>1, <1>2, <2>2, <2>5, <2>6, <2>7, TaskStep
<1> QED BY <1>3, <1>4 DEF ConnectRepos

LEMMA ReportGood ==
    ASSUME ReposIInv, NEW t \in 1..Len(accept), ReportMarks(t)
    PROVE  Sound
<1> DEFINE a == accept[t]
           New == DOMAIN marks.edits # {}
<1>0. t \in Running /\ a.pc = "report"
  BY DEF ReportMarks, AcceptAt, Running
<1>1. /\ accept \in Seq(AcceptTasks) /\ conf \in PMap(Entries) /\ disabledFile \in PMap(Uris)
      /\ refreshFile \subseteq Repos
  BY <1>0, TaskFacts
<1>2. /\ UNCHANGED <<conf, disabledFile, refreshFile, listed, open>>
      /\ marks' = NoMarks /\ loading' = TRUE
      /\ accept' = [u \in 1..Len(accept) |->
                       IF u = t THEN Ended ELSE [accept[u] EXCEPT !.resized = @ \/ New]]
  BY DEF ReportMarks
<1>3. Ended \in AcceptTasks /\ Ended.pc = "end" /\ Ended.alone = FALSE
  BY EndedTask DEF Ended
<1> HIDE DEF New
<1>5. ASSUME NEW x \in AcceptTasks
      PROVE  LET b == [x EXCEPT !.resized = @ \/ New]
             IN  /\ b \in AcceptTasks /\ b.pc = x.pc /\ b.ops = x.ops /\ b.adds = x.adds
                 /\ b.listed = x.listed /\ b.final = x.final /\ b.ok = x.ok
                 /\ b.alone = x.alone /\ b.files = x.files /\ b.taken = x.taken
  <2>1. New \in BOOLEAN
    BY DEF New
  <2> QED BY <2>1 DEF AcceptTasks
<1>4. /\ accept' \in Seq(AcceptTasks) /\ Len(accept') = Len(accept) /\ accept'[t] = Ended
      /\ \A u \in 1..Len(accept) : u # t => SameTask(u)
  <2>1. \A u \in 1..Len(accept) : accept[u] \in AcceptTasks
    BY <1>1
  <2>2. accept' \in Seq(AcceptTasks) /\ Len(accept') = Len(accept) /\ accept'[t] = Ended
    BY <1>1, <1>2, <1>3, <1>5, <2>1
  <2>3. ASSUME NEW u \in 1..Len(accept), u # t PROVE SameTask(u)
    <3> PICK x, b : x \in AcceptTasks /\ x = accept[u] /\ b = [x EXCEPT !.resized = @ \/ New]
      BY <2>1
    <3>1. accept'[u] = b
      BY <1>2, <2>3
    <3>2. /\ b.pc = x.pc /\ b.ops = x.ops /\ b.adds = x.adds /\ b.listed = x.listed
          /\ b.final = x.final /\ b.ok = x.ok /\ b.alone = x.alone /\ b.files = x.files
          /\ b.taken = x.taken
      BY <1>5
    <3> QED BY <3>1, <3>2 DEF SameTask
  <2> QED BY <2>2, <2>3
<1>6. Informed(accept[t])' /\ ~Lone(t)'
  BY <1>3, <1>4 DEF Informed, Lone
<1>7. ASSUME NEW n \in Repos, Running = {t}, Knows(a), ~Forgiven(t, n), Remembered(n)
      PROVE  Remembered(n)'
  <2>1. DOMAIN a.final \subseteq DOMAIN disabledFile
    BY <1>0, <1>7 DEF Knows, Forgiven
  <2> QED BY <1>2, <1>7, <2>1 DEF Remembered
<1>8. accept'[t].alone => a.alone
  BY <1>3, <1>4
<1>9. marks' \in MarkSets /\ loading' \in BOOLEAN
  BY <1>2, NoMarksFacts
<1> QED BY <1>0, <1>1, <1>2, <1>4, <1>6, <1>7, <1>8, <1>9, TaskStep

LEMMA ApplyGood ==
    ASSUME ReposIInv, NEW t \in 1..Len(accept), ApplyMark(t)
    PROVE  Sound
<1> DEFINE a == accept[t]
           op == a.ops[a.done + 1]
           n == op.name
           kept == Kept(a, op)
           call == Call(a, op)
<1>0. t \in Running /\ a.pc = "run" /\ a.done < Len(a.ops)
  BY DEF ApplyMark, AcceptAt, Running
<1>1. /\ accept \in Seq(AcceptTasks) /\ a \in AcceptTasks /\ a.listed \in Lists
      /\ \A o \in ToSet(a.ops) : o.kind = "add" => o.name \in DOMAIN a.adds
      /\ conf \in PMap(Entries) /\ disabledFile \in PMap(Uris) /\ refreshFile \subseteq Repos
      /\ marks \in MarkSets /\ loading \in BOOLEAN
  BY <1>0, TaskFacts
<1>2. UNCHANGED <<disabledFile, refreshFile, marks, listed, loading, open>>
  BY DEF ApplyMark
<1>3. op \in ToSet(a.ops) /\ op \in RepoOps
  <2>1. a.ops \in Seq(RepoOps) /\ a.done \in Nat
    BY <1>1 DEF AcceptTasks
  <2>2. a.done + 1 \in 1..Len(a.ops)
    BY <1>0, <2>1
  <2> QED BY <2>1, <2>2 DEF ToSet
<1>4. /\ op = RepoOp(op.kind, n) /\ n \in Repos
      /\ op.kind \in {"add", "enable", "disable", "remove"}
  BY <1>3 DEF RepoOps, RepoOp, StateOps
<1>5. /\ kept \in PMap(Uris)
      /\ op.kind \in {"add", "disable"} => DOMAIN a.final \subseteq DOMAIN kept
      /\ op.kind = "disable" /\ n \in DOMAIN a.listed.enabled => n \in DOMAIN kept
      /\ \A m \in DOMAIN a.final : m # n => m \in DOMAIN kept
  BY <1>1, <1>3, KeptFacts
<1>6. /\ call.conf \in PMap(Entries)
      /\ op.kind \in {"add", "enable"} => DOMAIN call.conf = DOMAIN conf \cup {n}
      /\ op.kind \notin {"add", "enable"} =>
           DOMAIN call.conf = DOMAIN conf \ {n} /\ (call.can <=> n \in DOMAIN conf)
  BY <1>1, <1>3, CallFacts
<1>7. /\ \/ /\ Forgets(a, op) /\ UNCHANGED conf
            /\ accept' = [accept EXCEPT ![t].done = @ + 1, ![t].final = kept]
         \/ /\ ~Forgets(a, op) /\ call.can /\ conf' = call.conf
            /\ accept' = [accept EXCEPT ![t].done = @ + 1, ![t].final = kept]
         \/ /\ UNCHANGED conf
            /\ accept' = [accept EXCEPT ![t].done = @ + 1, ![t].ok = FALSE]
  BY Zenon DEF ApplyMark
<1>8. Asks(a, op.kind, n)
  BY <1>3, <1>4 DEF Asks, RepoOp
<1> HIDE DEF kept, call, op, n
<1>9. ASSUME NEW r \in AcceptTasks, accept' = [accept EXCEPT ![t] = r],
             r.pc = "run", r.ops = a.ops, r.adds = a.adds, r.listed = a.listed,
             r.alone = a.alone, conf' \in PMap(Entries),
             r.ok => /\ a.ok /\ r.final = kept
                     /\ \/ op.kind = "remove" /\ UNCHANGED conf
                        \/ call.can /\ conf' = call.conf
      PROVE  Sound
  <2>1. /\ accept' \in Seq(AcceptTasks) /\ Len(accept') = Len(accept) /\ accept'[t] = r
        /\ \A u \in 1..Len(accept) : u # t => SameTask(u)
    BY <1>1, <1>9, OneAccept
  <2>2. t \in Running'
    BY <1>9, <2>1 DEF Running
  <2>3. Informed(accept[t])'
    BY <1>1, <1>9, <2>1 DEF Informed
  \* What is disabled was listed as enabled, if it is there at all.
  <2>4. ASSUME Knows(a), r.ok
        PROVE  /\ \A m \in Repos : /\ Asks(a, "disable", m) /\ ~Asks(a, "add", m)
                                  /\ m \notin DOMAIN a.listed.enabled =>
                     m \notin DOMAIN conf'
               /\ \A m \in DOMAIN conf \cup DOMAIN a.final :
                     \/ m \in DOMAIN conf' \/ m \in DOMAIN kept
                     \/ Excused(a, m)
    <3>1. \A m \in Repos : /\ Asks(a, "disable", m) /\ ~Asks(a, "add", m)
                          /\ m \notin DOMAIN a.listed.enabled =>
             m \notin DOMAIN conf /\ ~Asks(a, "enable", m)
      BY <1>0, <1>9, <2>4 DEF Knows
    <3>2. CASE op.kind = "remove" /\ UNCHANGED conf
      <4>1. Excused(a, n)
        BY <1>8, <3>2 DEF Excused
      <4> QED BY <1>5, <3>1, <3>2, <4>1
    <3>3. CASE call.can /\ conf' = call.conf
      <4>1. CASE op.kind \in {"add", "enable"}
        <5>1. DOMAIN conf' = DOMAIN conf \cup {n}
          BY <1>6, <3>3, <4>1
        <5>2. Asks(a, "add", n) \/ Asks(a, "enable", n)
          BY <1>8, <4>1
        <5> QED BY <1>5, <3>1, <5>1, <5>2
      <4>2. CASE op.kind = "disable"
        <5>1. DOMAIN conf' = DOMAIN conf \ {n} /\ n \in DOMAIN conf
          BY <1>6, <3>3, <4>2
        <5>2. n \in DOMAIN kept \/ Excused(a, n)
          BY <1>4, <1>5, <1>8, <3>1, <4>2, <5>1 DEF Excused
        <5> QED BY <1>5, <3>1, <4>2, <5>1, <5>2
      <4>3. CASE op.kind = "remove"
        <5>1. DOMAIN conf' = DOMAIN conf \ {n}
          BY <1>6, <3>3, <4>3
        <5>2. Excused(a, n)
          BY <1>8, <4>3 DEF Excused
        <5> QED BY <1>5, <3>1, <4>3, <5>1, <5>2
      <4> QED BY <1>4, <4>1, <4>2, <4>3
    <3> QED BY <1>9, <2>4, <3>2, <3>3
  <2>5. ASSUME Knows(a) PROVE Knows(accept[t])'
    <3>1. a.listed.disabled = disabledFile
      BY <1>0, <2>5 DEF Knows
    <3>2. ASSUME r.ok
          PROVE  \A m \in DOMAIN disabledFile :
                    m \in DOMAIN r.final \/ m \in DOMAIN conf' \/ Excused(a, m)
      <4>1. \A m \in DOMAIN disabledFile :
               m \in DOMAIN a.final \/ m \in DOMAIN conf \/ Excused(a, m)
        BY <1>0, <1>9, <2>5, <3>2 DEF Knows
      <4>2. r.final = kept
        BY <1>9, <3>2
      <4> QED BY <1>8, <2>4, <2>5, <3>2, <4>1, <4>2
    <3>3. ASSUME r.ok
          PROVE  \A m \in Repos : /\ Asks(a, "disable", m) /\ ~Asks(a, "add", m)
                                /\ m \notin DOMAIN a.listed.enabled =>
                    m \notin DOMAIN conf' /\ ~Asks(a, "enable", m)
      <4>1. a.ok
        BY <1>9, <3>3
      <4> QED BY <1>0, <2>4, <2>5, <3>3, <4>1 DEF Knows
    <3> QED BY <1>2, <1>9, <2>1, <3>1, <3>2, <3>3 DEF Knows, Excused, Asks
  <2>6. ASSUME NEW m \in Repos, Running = {t}, Knows(a), ~Forgiven(t, m), Remembered(m)
        PROVE  Remembered(m)'
    <3>1. r.ok /\ ~Excused(a, m)
      BY <2>1, <2>6 DEF Forgiven
    <3>2. accept'[t].final = kept
      BY <1>9, <2>1, <3>1
    <3>3. m \in DOMAIN conf \/ m \in DOMAIN disabledFile \/ m \in DOMAIN a.final
      BY <2>6 DEF Remembered
    <3>4. m \in DOMAIN conf' \/ m \in DOMAIN disabledFile \/ m \in DOMAIN kept
      BY <1>8, <2>4, <2>6, <3>1, <3>3
    <3> QED BY <1>2, <2>2, <3>2, <3>4 DEF Remembered
  <2> QED BY <1>0, <1>1, <1>2, <1>9, <2>1, <2>2, <2>3, <2>5, <2>6, TaskStep
<1>10. CASE /\ \/ op.kind = "remove" /\ UNCHANGED conf
               \/ call.can /\ conf' = call.conf
            /\ accept' = [accept EXCEPT ![t].done = @ + 1, ![t].final = kept]
  <2> DEFINE r == [a EXCEPT !.done = @ + 1, !.final = kept]
  <2>1. /\ r \in AcceptTasks /\ r.pc = a.pc /\ r.ops = a.ops /\ r.adds = a.adds
        /\ r.listed = a.listed /\ r.final = kept /\ r.ok = a.ok /\ r.alone = a.alone
    <3> DEFINE d == a.done + 1
               r1 == [a EXCEPT !.done = d]
    <3>0. d \in Nat
      BY <1>1 DEF AcceptTasks
    <3>2. r = [r1 EXCEPT !.final = kept]
      BY <1>1 DEF AcceptTasks
    <3> HIDE DEF d
    <3>1. /\ r1 \in AcceptTasks /\ r1.pc = a.pc /\ r1.ops = a.ops /\ r1.adds = a.adds
          /\ r1.listed = a.listed /\ r1.ok = a.ok /\ r1.alone = a.alone
      BY <1>1, <3>0 DEF AcceptTasks
    <3> HIDE DEF r1, r
    <3> QED BY <1>5, <3>1, <3>2 DEF AcceptTasks
  <2>2. accept' = [accept EXCEPT ![t] = r]
    BY <1>10
  <2>3. conf' \in PMap(Entries)
    BY <1>1, <1>6, <1>10
  <2> HIDE DEF r
  <2> QED BY <1>0, <1>9, <1>10, <2>1, <2>2, <2>3
<1>11. CASE UNCHANGED conf /\ accept' = [accept EXCEPT ![t].done = @ + 1, ![t].ok = FALSE]
  <2> DEFINE r == [a EXCEPT !.done = @ + 1, !.ok = FALSE]
  <2>1. /\ r \in AcceptTasks /\ r.pc = a.pc /\ r.ops = a.ops /\ r.adds = a.adds
        /\ r.listed = a.listed /\ r.ok = FALSE /\ r.alone = a.alone
    <3>1. \A x \in AcceptTasks, d \in Nat :
             LET y == [x EXCEPT !.done = d, !.ok = FALSE]
             IN  /\ y \in AcceptTasks /\ y.pc = x.pc /\ y.ops = x.ops /\ y.adds = x.adds
                 /\ y.listed = x.listed /\ y.ok = FALSE /\ y.alone = x.alone
      BY DEF AcceptTasks
    <3>2. a.done + 1 \in Nat
      BY <1>1 DEF AcceptTasks
    <3> HIDE DEF a
    <3> QED BY <1>1, <3>1, <3>2
  <2>2. accept' = [accept EXCEPT ![t] = r]
    BY <1>11
  <2>3. conf' \in PMap(Entries)
    BY <1>1, <1>11
  <2> HIDE DEF r
  <2> QED BY <1>0, <1>9, <2>1, <2>2, <2>3
<1>12. Forgets(a, op) => op.kind = "remove"
  BY DEF Forgets
<1> QED BY <1>7, <1>10, <1>11, <1>12

\* The records hold what the task says is disabled; a fragment is whole.
LEMMA RecordsFacts ==
    ASSUME marks \in MarkSets, listed \in Lists, NEW a \in AcceptTasks
    PROVE  /\ Records(a) \in Seq(FileWrites) /\ Lossless(Records(a), a.final)
           /\ a.final = a.listed.disabled \/ \E w \in ToSet(Records(a)) : w.file = "disabled"
<1> DEFINE final == a.final
           d == IF final = a.listed.disabled THEN <<>>
                ELSE <<[file |-> "disabled", text |-> final]>>
           resolved == ResolvedRefresh(listed.refresh \ {MainRepo})
           rf == IF ~TouchesRefreshFile THEN <<>>
                 ELSE <<[file |-> "refresh", text |-> resolved]>>
<1>1. Records(a) = d \o rf
  BY DEF Records
<1>3. final \in PMap(Uris) /\ resolved \in SUBSET Repos
  <2>1. listed.refresh \in SUBSET Repos /\ marks.refresh \in PMap(BOOLEAN)
    BY DEF Lists, MarkSets
  <2>2. DOMAIN marks.refresh \in SUBSET Repos
    BY <2>1, MapFacts
  <2>3. resolved \in SUBSET Repos
    BY <2>1, <2>2 DEF ResolvedRefresh
  <2>4. final \in PMap(Uris)
    BY DEF AcceptTasks
  <2> QED BY <2>3, <2>4
<1> HIDE DEF resolved, final
<1>4. d \in Seq(FileWrites) /\ rf \in Seq(FileWrites)
  <2>1. [file |-> "disabled", text |-> final] \in FileWrites
    BY <1>3 DEF FileWrites
  <2>2. [file |-> "refresh", text |-> resolved] \in FileWrites
    BY <1>3 DEF FileWrites
  <2> QED BY <2>1, <2>2
<1>5. /\ \A w \in ToSet(d) : w.file = "disabled" /\ w.text = final
      /\ \A w \in ToSet(rf) : w.file = "refresh"
      /\ final = a.listed.disabled \/ \E w \in ToSet(d) : w.file = "disabled"
  BY DEF ToSet
<1> HIDE DEF d, rf
<1>6. d \o rf \in Seq(FileWrites) /\ ToSet(d \o rf) = ToSet(d) \cup ToSet(rf)
  BY <1>4, ToSetConcat
<1>7. \A w \in ToSet(d \o rf) : (w.file = "disabled" /\ w.text = final) \/ w.file = "refresh"
  BY <1>5, <1>6
<1>8. Lossless(d \o rf, final)
  BY <1>7 DEF Lossless
<1>9. final = a.listed.disabled \/ \E w \in ToSet(d \o rf) : w.file = "disabled"
  BY <1>5, <1>6
<1> QED BY <1>1, <1>6, <1>8, <1>9 DEF final

LEMMA OneMore ==
    ASSUME conf \in PMap(Entries), NEW files \in Seq(FileWrites), NEW final,
           NEW edit \in PMap(Uris), DOMAIN edit # {}
    PROVE  LET after == Append(files, Fragment(edit))
           IN  /\ after \in Seq(FileWrites) /\ ToSet(files) \subseteq ToSet(after)
               /\ Lossless(files, final) => Lossless(after, final)
<1> DEFINE w == Fragment(edit)
           after == Append(files, w)
<1>1. /\ w \in FileWrites /\ w.file \notin {"disabled", "refresh"}
      /\ \A m \in DOMAIN conf : conf[m].file = w.file <=> m \in DOMAIN w.text
  BY FragmentFacts
<1> HIDE DEF w
<1>2. after \in Seq(FileWrites) /\ ToSet(after) = ToSet(files) \cup {w}
  BY <1>1 DEF ToSet
<1> HIDE DEF after
<1>3. Lossless(files, final) => Lossless(after, final)
  BY <1>1, <1>2 DEF Lossless
<1> QED BY <1>2, <1>3 DEF after, w

\* What a task does not change while it gathers what to write.
Same(r, a) ==
    /\ r.ops = a.ops /\ r.adds = a.adds /\ r.listed = a.listed
    /\ r.final = a.final /\ r.ok = a.ok /\ r.alone = a.alone
\* What it has gathered so far keeps every name.
Gathered(r) ==
    /\ Lossless(r.files, r.final)
    /\ r.final = disabledFile \/ \E w \in ToSet(r.files) : w.file = "disabled"

LEMMA Gathers ==
    ASSUME ReposIInv, NEW t \in Running, accept[t].pc \in {"run", "records", "edits"},
           UNCHANGED <<conf, disabledFile, refreshFile, marks, listed, loading, open>>,
           NEW r \in AcceptTasks, accept' = [accept EXCEPT ![t] = r],
           r.pc \in {"records", "edits", "write"}, Same(r, accept[t]),
           r.pc = "edits" => DOMAIN r.taken # {},
           accept[t].ok /\ Knows(accept[t]) => Gathered(r)
    PROVE  Sound
<1> DEFINE a == accept[t]
<1>1. /\ accept \in Seq(AcceptTasks) /\ a \in AcceptTasks /\ a.listed \in Lists
      /\ \A o \in ToSet(a.ops) : o.kind = "add" => o.name \in DOMAIN a.adds
      /\ conf \in PMap(Entries) /\ disabledFile \in PMap(Uris) /\ refreshFile \subseteq Repos
      /\ marks \in MarkSets /\ listed \in Lists /\ loading \in BOOLEAN /\ t \in 1..Len(accept)
  BY TaskFacts
<1>2. /\ accept' \in Seq(AcceptTasks) /\ Len(accept') = Len(accept) /\ accept'[t] = r
      /\ \A u \in 1..Len(accept) : u # t => SameTask(u)
  BY <1>1, OneAccept
<1>3. t \in Running'
  BY <1>1, <1>2 DEF Running
<1>4. Informed(accept[t])'
  BY <1>1, <1>2 DEF Informed, Same
<1>5. ASSUME Knows(a) PROVE Knows(accept[t])'
  <2>1. a.listed.disabled = disabledFile
    BY <1>5 DEF Knows
  <2>2. a.ok => \A m \in DOMAIN disabledFile :
                   m \in DOMAIN a.final \/ m \in DOMAIN conf \/ Excused(a, m)
    BY <1>5 DEF Knows
  <2>3. \A m : Excused(r, m) <=> Excused(a, m)
    BY DEF Same, Excused, Asks
  <2>4. /\ r.ok => Gathered(r)
        /\ r.ok => \A m \in DOMAIN disabledFile :
                      m \in DOMAIN r.final \/ m \in DOMAIN conf \/ Excused(r, m)
        /\ r.listed.disabled = disabledFile
    BY <1>5, <2>1, <2>2, <2>3 DEF Same
  <2>5. Knows(r)
    BY <2>4 DEF Knows, Gathered
  <2>6. Knows(accept[t])' <=> Knows(r)
    BY <1>2 DEF Knows, Lossless, Excused, Asks
  <2> QED BY <2>5, <2>6
<1>6. ASSUME NEW n \in Repos, Running = {t}, Remembered(n) PROVE Remembered(n)'
  BY <1>2, <1>3, <1>6 DEF Remembered, Same
<1> QED BY <1>1, <1>2, <1>4, <1>5, <1>6, TaskStep DEF Same

\* A turn of the loop over the edits.
LEMMA NextEditGood ==
    ASSUME ReposIInv, NEW t \in Running, accept[t].pc \in {"run", "records", "edits"},
           UNCHANGED <<conf, disabledFile, refreshFile, marks, listed, loading, open>>,
           NEW task \in AcceptTasks, NextEdit(t, task), Same(task, accept[t]),
           task.resized => accept[t].pc = "edits" /\ accept[t].resized,
           accept[t].ok /\ Knows(accept[t]) => Gathered(task)
    PROVE  Sound
<1> DEFINE a == accept[t]
<1>0. /\ accept \in Seq(AcceptTasks) /\ t \in 1..Len(accept) /\ marks.edits \in PMap(Uris)
      /\ conf \in PMap(Entries) /\ disabledFile \in PMap(Uris) /\ refreshFile \subseteq Repos
      /\ marks \in MarkSets /\ loading \in BOOLEAN
  BY TaskFacts DEF MarkSets
<1>1. ASSUME NEW n \in DOMAIN marks.edits,
             accept' = [accept EXCEPT ![t] = [task EXCEPT !.pc = "edits", !.seen = @ \cup {n},
                                                          !.taken = Put(NoMap, n, marks.edits[n])]]
      PROVE  Sound
  <2> DEFINE one == Put(NoMap, n, marks.edits[n])
             seen == task.seen \cup {n}
             r == [task EXCEPT !.pc = "edits", !.seen = seen, !.taken = one]
  <2>1. n \in Repos /\ marks.edits[n] \in Uris
    BY <1>0, MapFacts
  <2>2. one \in PMap(Uris) /\ DOMAIN one = {n}
    <3>1. one = [m \in {n} |-> marks.edits[n]]
      BY DEF Put, NoMap
    <3>2. {n} \in SUBSET Repos /\ one \in [{n} -> Uris]
      BY <2>1, <3>1
    <3> HIDE DEF one
    <3> QED BY <3>2, MapOf
  <2>3. seen \in SUBSET Repos
    BY <2>1 DEF AcceptTasks
  <2>4. accept' = [accept EXCEPT ![t] = r]
    BY <1>1
  <2> HIDE DEF one, seen
  <2> DEFINE r1 == [task EXCEPT !.pc = "edits"]
             r2 == [r1 EXCEPT !.seen = seen]
             r3 == [r2 EXCEPT !.taken = one]
  <2>5. r1 \in AcceptTasks /\ r1.pc = "edits" /\ Same(r1, task) /\ r1.files = task.files
    BY DEF AcceptTasks, Same
  <2>6. r = r3
    BY DEF AcceptTasks
  <2> HIDE DEF r1, r
  <2>7. r2 \in AcceptTasks /\ r2.pc = "edits" /\ Same(r2, r1) /\ r2.files = r1.files
    BY <2>3, <2>5 DEF AcceptTasks, Same
  <2> HIDE DEF r2
  <2>8. r3 \in AcceptTasks /\ r3.pc = "edits" /\ Same(r3, r2) /\ r3.files = r2.files
        /\ r3.taken = one
    BY <2>2, <2>7 DEF AcceptTasks, Same
  <2> HIDE DEF r3
  <2>9. /\ r \in AcceptTasks /\ r.pc = "edits" /\ DOMAIN r.taken # {} /\ Same(r, a)
        /\ r.files = task.files /\ r.final = task.final
    BY <2>2, <2>5, <2>6, <2>7, <2>8 DEF Same
  <2>10. a.ok /\ Knows(a) => Gathered(r)
    BY <2>9 DEF Gathered
  <2> QED BY <2>4, <2>9, <2>10, Gathers
<1>2. CASE accept' = [accept EXCEPT ![t] = [task EXCEPT !.pc = "write"]]
  <2> DEFINE r == [task EXCEPT !.pc = "write"]
  <2>1. /\ r \in AcceptTasks /\ r.pc = "write" /\ Same(r, task)
        /\ r.files = task.files /\ r.final = task.final
    BY DEF AcceptTasks, Same
  <2>2. accept' = [accept EXCEPT ![t] = r]
    BY <1>2
  <2> HIDE DEF r
  <2>3. Same(r, a) /\ (a.ok /\ Knows(a) => Gathered(r))
    BY <2>1 DEF Same, Gathered
  <2> QED BY <2>1, <2>2, <2>3, Gathers
<1>3. CASE task.resized /\ accept' = [accept EXCEPT ![t] = Ended]
  <2>1. Ended \in AcceptTasks /\ Ended.pc = "end" /\ Ended.alone = FALSE
    BY EndedTask DEF Ended
  <2>2. /\ accept' \in Seq(AcceptTasks) /\ Len(accept') = Len(accept) /\ accept'[t] = Ended
        /\ \A u \in 1..Len(accept) : u # t => SameTask(u)
    BY <1>0, <1>3, <2>1, OneAccept
  <2>3. Informed(accept[t])' /\ ~Lone(t)'
    BY <2>1, <2>2 DEF Informed, Lone
  <2>4. \A n : Forgiven(t, n)
    BY <1>3 DEF Forgiven
  <2>5. accept'[t].alone => a.alone
    BY <2>1, <2>2
  <2> QED BY <1>0, <2>2, <2>3, <2>4, <2>5, TaskStep
<1> QED BY <1>1, <1>2, <1>3 DEF NextEdit

\* The loop starts with the names of now.
LEMMA LoopFacts ==
    ASSUME marks \in MarkSets, NEW a \in AcceptTasks
    PROVE  LET r == LoopOver(a)
           IN  r \in AcceptTasks /\ Same(r, a) /\ r.files = a.files /\ r.resized = FALSE
<1> DEFINE D == DOMAIN marks.edits
           r1 == [a EXCEPT !.names = D]
           r2 == [r1 EXCEPT !.resized = FALSE]
<1>1. D \in SUBSET Repos
  <2>1. marks.edits \in PMap(Uris)
    BY DEF MarkSets
  <2> QED BY <2>1, MapFacts
<1>2. LoopOver(a) = r2
  BY DEF LoopOver, AcceptTasks
<1> HIDE DEF D
<1>3. r1 \in AcceptTasks /\ Same(r1, a) /\ r1.files = a.files
  BY <1>1 DEF AcceptTasks, Same
<1> HIDE DEF r1
<1>4. r2 \in AcceptTasks /\ Same(r2, r1) /\ r2.files = r1.files /\ r2.resized = FALSE
  BY <1>3 DEF AcceptTasks, Same
<1> HIDE DEF r2
<1> QED BY <1>2, <1>3, <1>4 DEF Same

LEMMA WriteStateGood ==
    ASSUME ReposIInv, NEW t \in 1..Len(accept), WriteState(t)
    PROVE  Sound
<1> DEFINE a == accept[t]
           files == Records(a)
           task == [a EXCEPT !.files = files]
<1>0. t \in Running /\ a.pc = "run"
  BY DEF WriteState, AcceptAt, Running
<1>1. /\ a \in AcceptTasks /\ marks \in MarkSets /\ listed \in Lists
      /\ UNCHANGED <<conf, disabledFile, refreshFile, marks, listed, loading, open>>
      /\ \/ NextEdit(t, LoopOver(task))
         \/ accept' = [accept EXCEPT ![t] = [task EXCEPT !.pc = "records"]]
  BY <1>0, TaskFacts DEF WriteState
<1>2. /\ files \in Seq(FileWrites) /\ Lossless(files, a.final)
      /\ a.final = a.listed.disabled \/ \E w \in ToSet(files) : w.file = "disabled"
  BY <1>1, RecordsFacts
<1> HIDE DEF files
<1>3. task \in AcceptTasks /\ Same(task, a) /\ task.files = files
  BY <1>1, <1>2 DEF AcceptTasks, Same
<1>4. a.ok /\ Knows(a) => Gathered(task)
  BY <1>0, <1>2, <1>3 DEF Knows, Gathered, Same
<1> HIDE DEF task
<1>5. CASE NextEdit(t, LoopOver(task))
  <2> DEFINE r == LoopOver(task)
  <2>1. r \in AcceptTasks /\ Same(r, task) /\ r.files = task.files /\ r.resized = FALSE
    BY <1>1, <1>3, LoopFacts
  <2>2. NextEdit(t, r)
    BY <1>5
  <2> HIDE DEF r
  <2>3. Same(r, a) /\ (a.ok /\ Knows(a) => Gathered(r))
    BY <1>3, <1>4, <2>1 DEF Same, Gathered
  <2> QED BY <1>0, <1>1, <2>1, <2>2, <2>3, NextEditGood
<1>6. CASE accept' = [accept EXCEPT ![t] = [task EXCEPT !.pc = "records"]]
  <2> DEFINE r == [task EXCEPT !.pc = "records"]
  <2>1. r \in AcceptTasks /\ Same(r, task) /\ r.files = task.files /\ r.pc = "records"
    BY <1>3 DEF AcceptTasks, Same
  <2>2. accept' = [accept EXCEPT ![t] = r]
    BY <1>6
  <2> HIDE DEF r
  <2>3. Same(r, a) /\ (a.ok /\ Knows(a) => Gathered(r))
    BY <1>3, <1>4, <2>1 DEF Same, Gathered
  <2> QED BY <1>0, <1>1, <2>1, <2>2, <2>3, Gathers
<1> QED BY <1>1, <1>5, <1>6

LEMMA BeginEditsGood ==
    ASSUME ReposIInv, NEW t \in 1..Len(accept), BeginEdits(t)
    PROVE  Sound
<1> DEFINE a == accept[t]
           r == LoopOver(a)
<1>0. t \in Running /\ a.pc = "records"
  BY DEF BeginEdits, AcceptAt, Running
<1>1. /\ a \in AcceptTasks /\ marks \in MarkSets /\ NextEdit(t, r)
      /\ UNCHANGED <<conf, disabledFile, refreshFile, marks, listed, loading, open>>
  BY <1>0, TaskFacts DEF BeginEdits
<1>2. r \in AcceptTasks /\ Same(r, a) /\ r.files = a.files /\ r.resized = FALSE
  BY <1>1, LoopFacts
<1> HIDE DEF r
<1>3. a.ok /\ Knows(a) => Gathered(r)
  BY <1>0, <1>2 DEF Knows, Gathered, Same
<1> QED BY <1>0, <1>1, <1>2, <1>3, NextEditGood

LEMMA LocateEditGood ==
    ASSUME ReposIInv, NEW t \in 1..Len(accept), LocateEdit(t)
    PROVE  Sound
<1> DEFINE a == accept[t]
           files == Append(a.files, Fragment(a.taken))
           r == [a EXCEPT !.files = files]
<1>0. t \in Running /\ a.pc = "edits"
  BY DEF LocateEdit, AcceptAt, Running
<1>1. /\ a \in AcceptTasks /\ conf \in PMap(Entries) /\ Informed(a)
      /\ a.files \in Seq(FileWrites) /\ a.taken \in PMap(Uris)
  BY <1>0, TaskFacts DEF AcceptTasks, ReposIInv, ReposTypeInv
<1>2. /\ UNCHANGED <<conf, disabledFile, refreshFile, marks, listed, loading, open>>
      /\ NextEdit(t, r)
  BY DEF LocateEdit
<1>3. /\ files \in Seq(FileWrites) /\ ToSet(a.files) \subseteq ToSet(files)
      /\ Lossless(a.files, a.final) => Lossless(files, a.final)
  <2>1. DOMAIN a.taken # {}
    BY <1>0, <1>1 DEF Informed
  <2> QED BY <1>1, <2>1, OneMore
<1> HIDE DEF files
<1>4. r \in AcceptTasks /\ Same(r, a) /\ r.files = files /\ r.resized = a.resized
  BY <1>1, <1>3 DEF AcceptTasks, Same
<1> HIDE DEF r
<1>5. a.ok /\ Knows(a) => Gathered(r)
  BY <1>0, <1>3, <1>4 DEF Knows, Gathered, Same
<1> QED BY <1>0, <1>2, <1>4, <1>5, NextEditGood

LEMMA WriteGood ==
    ASSUME ReposIInv, NEW t \in 1..Len(accept), Write(t)
    PROVE  Sound
<1> DEFINE a == accept[t]
           files == a.files
<1>0. t \in Running /\ a.pc = "write"
  BY DEF Write, AcceptAt, Running
<1>1. /\ accept \in Seq(AcceptTasks) /\ a \in AcceptTasks /\ a.listed \in Lists
      /\ \A o \in ToSet(a.ops) : o.kind = "add" => o.name \in DOMAIN a.adds
      /\ conf \in PMap(Entries) /\ disabledFile \in PMap(Uris) /\ refreshFile \subseteq Repos
      /\ marks \in MarkSets /\ loading \in BOOLEAN /\ files \in Seq(FileWrites)
  BY <1>0, TaskFacts DEF AcceptTasks
<1>2. UNCHANGED <<marks, listed, loading, open>>
  BY DEF Write
<1>3. Base \in Disks
  BY <1>1 DEF Base, Disks
<1>4. ASSUME NEW r \in AcceptTasks, accept' = [accept EXCEPT ![t] = r],
             NEW done \in Seq(FileWrites), Put3(Written(done)),
             r.pc = "report", r.ops = a.ops, r.adds = a.adds, r.listed = a.listed,
             r.alone = a.alone, r.final = a.final, r.ok => a.ok /\ done = files
      PROVE  Sound
  <2>1. /\ accept' \in Seq(AcceptTasks) /\ Len(accept') = Len(accept) /\ accept'[t] = r
        /\ \A u \in 1..Len(accept) : u # t => SameTask(u)
    BY <1>1, <1>4, OneAccept
  <2>2. t \in Running'
    BY <1>4, <2>1 DEF Running
  <2>3. Informed(accept[t])'
    BY <1>1, <1>4, <2>1 DEF Informed
  <2>4. conf' \in PMap(Entries) /\ disabledFile' \in PMap(Uris) /\ refreshFile' \subseteq Repos
    <3>1. Written(done) \in Disks
      BY <1>3, WrittenFacts
    <3> QED BY <1>4, <3>1 DEF Put3, Disks
  <2>5. ASSUME Knows(a), r.ok
        PROVE  DOMAIN conf \subseteq DOMAIN conf' /\ disabledFile' = a.final
    <3>1. Lossless(files, a.final) /\ (a.final = disabledFile \/ \E w \in ToSet(files) : w.file = "disabled")
      BY <1>0, <1>4, <2>5 DEF Knows
    <3>2. /\ DOMAIN conf \subseteq DOMAIN Written(files).conf
          /\ Written(files).disabled \in {disabledFile, a.final}
          /\ (\E w \in ToSet(files) : w.file = "disabled") => Written(files).disabled = a.final
      BY <1>1, <1>3, <3>1, WrittenFacts
    <3>3. conf' = Written(files).conf /\ disabledFile' = Written(files).disabled
      BY <1>4, <2>5 DEF Put3
    <3> QED BY <3>1, <3>2, <3>3
  <2>6. ASSUME Knows(a) PROVE Knows(accept[t])'
    BY <1>4, <2>1, <2>5, <2>6 DEF Knows
  <2>7. ASSUME NEW n \in Repos, Running = {t}, Knows(a), ~Forgiven(t, n), Remembered(n)
        PROVE  Remembered(n)'
    <3>1. r.ok /\ a.ok /\ ~Excused(a, n)
      BY <1>4, <2>1, <2>7 DEF Forgiven
    <3>2. n \in DOMAIN conf \/ n \in DOMAIN disabledFile \/ n \in DOMAIN a.final
      BY <2>7 DEF Remembered
    <3>3. n \in DOMAIN disabledFile => n \in DOMAIN a.final \/ n \in DOMAIN conf
      BY <1>0, <2>7, <3>1 DEF Knows
    <3> QED BY <2>5, <2>7, <3>1, <3>2, <3>3 DEF Remembered
  <2> QED BY <1>0, <1>1, <1>2, <1>4, <2>1, <2>2, <2>3, <2>4, <2>6, <2>7, TaskStep
<1>5. CASE Put3(Written(files)) /\ accept' = [accept EXCEPT ![t].pc = "report"]
  <2> DEFINE r == [a EXCEPT !.pc = "report"]
  <2>1. /\ r \in AcceptTasks /\ r.pc = "report" /\ r.ops = a.ops /\ r.adds = a.adds
        /\ r.listed = a.listed /\ r.final = a.final /\ r.ok = a.ok /\ r.alone = a.alone
    BY <1>1 DEF AcceptTasks
  <2>2. accept' = [accept EXCEPT ![t] = r]
    BY <1>5
  <2> HIDE DEF r
  <2> QED BY <1>1, <1>4, <1>5, <2>1, <2>2
<1>6. CASE /\ \E k \in 0..(Len(files) - 1) : Put3(Written(SubSeq(files, 1, k)))
           /\ accept' = [accept EXCEPT ![t].pc = "report", ![t].ok = FALSE]
  <2> DEFINE r == [a EXCEPT !.pc = "report", !.ok = FALSE]
  <2>1. /\ r \in AcceptTasks /\ r.pc = "report" /\ r.ops = a.ops /\ r.adds = a.adds
        /\ r.listed = a.listed /\ r.final = a.final /\ r.ok = FALSE /\ r.alone = a.alone
    BY <1>1 DEF AcceptTasks
  <2>2. accept' = [accept EXCEPT ![t] = r]
    BY <1>6
  <2>3. PICK k \in 0..(Len(files) - 1) : Put3(Written(SubSeq(files, 1, k)))
    BY <1>6
  <2>4. SubSeq(files, 1, k) \in Seq(FileWrites)
    BY <1>1, <2>3
  <2> HIDE DEF r
  <2> QED BY <1>4, <2>1, <2>2, <2>3, <2>4
<1> QED BY <1>5, <1>6 DEF Write

-----------------------------------------------------------------------------
(* The theorem *)

LEMMA ReposBase == ReposInit => ReposIInv
<1>1. SUFFICES ASSUME ReposInit PROVE ReposIInv
  OBVIOUS
<1>2. conf \in PMap(Entries)
  <2>1. PICK S \in SUBSET Repos :
           conf = [n \in S \cup {MainRepo} |-> [file |-> IF n = MainRepo THEN MainRepo ELSE "eselect",
                                                uri |-> "old"]]
    BY <1>1 DEF ReposInit
  <2> DEFINE D == S \cup {MainRepo}
  <2>2. D \in SUBSET Repos /\ conf \in [D -> Entries]
    BY <2>1, ReposAssumption DEF Entries, ConfFiles, Uris
  <2> HIDE DEF D
  <2> QED BY <2>2, MapOf
<1>3. disabledFile \in PMap(Uris)
  <2>1. PICK S \in SUBSET (Repos \ DOMAIN conf) : disabledFile = [n \in S |-> "old"]
    BY <1>1 DEF ReposInit
  <2>2. S \in SUBSET Repos /\ disabledFile \in [S -> Uris]
    BY <2>1 DEF Uris
  <2> QED BY <2>2, MapOf
<1>4. listed \in Lists
  <2>1. NoMap \in PMap(Uris)
    BY NoMapFacts
  <2> QED BY <1>1, <2>1 DEF ReposInit, Lists
<1>5. /\ refreshFile \subseteq Repos /\ marks = NoMarks /\ loading = TRUE /\ open = TRUE
      /\ accept = <<>>
  BY <1>1 DEF ReposInit
<1>6. accept \in Seq(AcceptTasks) /\ 1..Len(accept) = {}
  BY <1>5
<1>7. ReposTypeInv
  BY <1>2, <1>3, <1>4, <1>5, <1>6, NoMarksFacts DEF ReposTypeInv
<1>8. RecordInv
  BY <1>6 DEF RecordInv
<1> QED BY <1>7, <1>8 DEF ReposIInv

LEMMA ReposStep == ReposIInv /\ ReposNext => Sound
<1>1. SUFFICES ASSUME ReposIInv, ReposNext PROVE Sound
  OBVIOUS
<1>2. CASE Load
  BY <1>1, <1>2, LoadGood
<1>3. CASE Reload
  BY <1>1, <1>3, ReloadGood
<1>4. CASE DropMarks \/ LeaveRepos
  BY <1>1, <1>4, DropGood
<1>5. CASE AcceptMarks
  BY <1>1, <1>5, AcceptGood
<1>6. CASE \E n \in Repos : Mark(n) \/ EnableNew(n) \/ Add(n) \/ Edit(n)
  BY <1>1, <1>6, MarkGood
<1>7. ASSUME NEW t \in 1..Len(accept),
             \/ ConnectRepos(t) \/ ApplyMark(t) \/ WriteState(t) \/ BeginEdits(t)
             \/ LocateEdit(t) \/ Write(t) \/ ReportMarks(t)
      PROVE  Sound
  BY <1>1, <1>7, ConnectGood, ApplyGood, WriteStateGood, BeginEditsGood, LocateEditGood,
     WriteGood, ReportGood
<1> QED BY <1>1, <1>2, <1>3, <1>4, <1>5, <1>6, <1>7 DEF ReposNext

\* No repository is forgotten (gest/tui/screens/repos.py, _accept, _apply_op
\* and _write_state): a name that is in repos.conf or in the record of
\* disabled ones stays in one of them, or with the Accept that is moving it,
\* unless its removal was asked for (or its addition together with its
\* disabling), a call or a write failed and is reported, two Accepts ran at
\* once or on a list that did not say what was there, or an edit was staged or
\* discarded while the Accept was looping over the edits: for any number of
\* repositories, changes, Accepts and failures.
THEOREM NoneForgotten == ReposSpec => NeverForgotten
<1> DEFINE Safe == \A n \in Repos : Remembered(n) /\ ~Remembered(n)' =>
                     \E t \in Running : \/ ~accept[t].alone \/ ~accept[t].ok \/ ~accept'[t].ok
                                        \/ accept[t].pc = "edits" /\ accept[t].resized
                                        \/ Excused(accept[t], n)
<1>1. ReposIInv /\ [ReposNext]_repoVars => ReposIInv'
  <2>1. ReposIInv /\ UNCHANGED repoVars => ReposIInv'
    <3>1. SUFFICES ASSUME ReposIInv, UNCHANGED repoVars PROVE ReposIInv'
      OBVIOUS
    <3>2. UNCHANGED <<conf, disabledFile, refreshFile, marks, listed, loading, open, accept>>
      BY <3>1 DEF repoVars
    <3>3. /\ accept \in Seq(AcceptTasks) /\ ReposTypeInv
          /\ \A t \in 1..Len(accept) : SameTask(t)
      BY <3>1, <3>2 DEF ReposIInv, ReposTypeInv, SameTask
    <3>4. /\ Running' = Running
          /\ \A t \in 1..Len(accept') : Informed(accept[t])' /\ Faithful(t)'
      BY <3>1, <3>2, <3>3, SameTasks
    <3>5. ReposTypeInv'
      BY <3>2, <3>3, <3>4 DEF ReposTypeInv
    <3> QED BY <3>4, <3>5 DEF ReposIInv, RecordInv
  <2> QED BY <2>1, ReposStep DEF Sound
<1>2. ReposIInv /\ [ReposNext]_repoVars => [Safe]_repoVars
  <2>1. SUFFICES ASSUME ReposIInv, ReposNext, NEW n \in Repos, Remembered(n), ~Remembered(n)'
                 PROVE  \E t \in Running : Forgiven(t, n)
    BY DEF Forgiven
  <2> QED BY <2>1, ReposStep DEF Sound, Held
<1> QED BY <1>1, <1>2, ReposBase, PTL DEF ReposSpec, NeverForgotten
=============================================================================
