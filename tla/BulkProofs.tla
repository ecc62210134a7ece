------------------------------ MODULE BulkProofs ------------------------------
(***************************************************************************)
(* The bulk create, for any number of drafts, size of a batch, attempts    *)
(* and item specifics.  Each draft without a verdict is in one place of    *)
(* the call (Whereabouts); that the call keeps its caller's contract needs *)
(* eBay to answer every entry (Complete).                                  *)
(***************************************************************************)
EXTENDS BulkCreate, FiniteSetTheorems, SequenceTheorems, TLAPS

(***************************************************************************)
(* The inductive invariant.                                                *)
(***************************************************************************)
Says == {"done", "hollow", "exists", "system", "rejected", "nothing", "-"} \cup Aspects
Named == Drafts \cup {0}
State == [attempts : Nat, forced : SUBSET Aspects, offer : Named, stale : BOOLEAN, last : Says]
Outcome == [verdict : {"open", "ok", "failed", "exhausted"}, listing : Named]
EntryOf == [of : Named, says : Says]
Stages == {"next", "item", "offer", "publish", "over", "returned", "thrown"}

Types ==
  /\ site \in [Drafts -> {"none", "made", "live"}] /\ fresh \in SUBSET Drafts
  /\ todo \in Seq(Drafts) /\ pass \in Seq(Drafts) /\ next \in Seq(Drafts) /\ retry \in Seq(Drafts)
  /\ stage \in Stages /\ pos \in Nat /\ entries \in Seq(EntryOf)
  /\ draft \in [Drafts -> State]
  /\ out \in [Drafts -> Outcome]

(* The drafts of the present stage whose entry is not read yet.            *)
Left(p, i) == {p[k] : k \in {k \in DOMAIN p : i <= k}}
Unread == Left(pass, pos)

(* Every draft without a verdict is in one place, once; one that was told  *)
(* is in none.                                                             *)
Apart ==
  /\ IsInjective(todo) /\ IsInjective(pass) /\ IsInjective(next) /\ IsInjective(retry)
  /\ ToSet(todo) \cap (Unread \cup ToSet(next) \cup ToSet(retry)) = {}
  /\ Unread \cap (ToSet(next) \cup ToSet(retry)) = {}
  /\ ToSet(next) \cap ToSet(retry) = {}
Open == {d \in Drafts : out[d].verdict = "open"}
Whereabouts ==
  /\ Apart
  /\ Open = ToSet(todo) \cup Unread \cup ToSet(next) \cup ToSet(retry)

(* What is left over from a stage.                                         *)
Stage ==
  /\ stage \in {"next", "over", "returned"} => pass = <<>> /\ next = <<>>
  /\ stage \in {"next", "returned"} => retry = <<>>
  /\ stage = "returned" => todo = <<>>
  /\ stage \in {"next", "over"} => pos = 0 /\ entries = <<>>
  /\ pos = 0 \/ stage = "publish" => next = <<>>
  /\ stage \in {"item", "offer"} => \A k \in DOMAIN entries : entries[k].of \in Drafts

(* A draft to replay lacks an item specific, or has attempts left.         *)
Replays == \A d \in ToSet(retry) : draft[d].last \in Aspects \/ draft[d].attempts < MAX_CREATE_ATTEMPTS

(* With eBay answering every entry: the answer being read has the entries  *)
(* of the present stage, in their order, and says what eBay did; what goes *)
(* to be published carries its own offer, at the price of this call or     *)
(* known not to be.                                                        *)
Ready(d) == draft[d].offer = d /\ (d \in fresh \/ draft[d].stale)
Answered(k) ==
  /\ entries[k].of = pass[k]
  /\ pos <= k =>
       /\ stage = "offer" /\ entries[k].says = "done" => pass[k] \in fresh
       /\ stage = "offer" /\ entries[k].says = "exists" => site[pass[k]] # "none"
       /\ stage = "publish" /\ entries[k].says = "done" => site[pass[k]] = "live"
Truth ==
  /\ pos > 0 => DOMAIN entries = DOMAIN pass /\ \A k \in DOMAIN pass : Answered(k)
  /\ stage = "offer" => \A d \in ToSet(next) : Ready(d)
  /\ stage = "publish" => \A d \in Unread : Ready(d)
  /\ \A d \in fresh : site[d] # "none"

Base == Types /\ Whereabouts /\ Stage /\ Replays /\ ExhaustedIsAboutAspects
BulkInv == Base /\ (Complete => Truth /\ OkIsCurrent)

(***************************************************************************)
(* The sequences.                                                          *)
(***************************************************************************)
(* What a filter keeps: the entries that pass, each as often and in no     *)
(* other place.                                                            *)
LEMMA OnlyFacts ==
  ASSUME NEW T, NEW s \in Seq(T), NEW S
  PROVE  /\ Only(s, S) \in Seq(T)
         /\ ToSet(Only(s, S)) = ToSet(s) \cap S
         /\ IsInjective(s) => IsInjective(Only(s, S))
<1> DEFINE P == {k \in DOMAIN s : s[k] \in S}
           Rank(p) == Cardinality({q \in P : q <= p})
           Size == Cardinality(P)
           Nth(n) == CHOOSE p \in P : Rank(p) = n
           f == [p \in P |-> Rank(p)]
<1>1. P \subseteq 1..Len(s) /\ Len(s) \in Nat /\ IsFiniteSet(1..Len(s))
  BY FS_Interval
<1>2. IsFiniteSet(P) /\ Size \in Nat
  BY <1>1, FS_Subset, FS_CardinalityType
<1>3. ASSUME NEW p \in P PROVE Rank(p) \in 1..Size /\ IsFiniteSet({q \in P : q <= p})
  <2> DEFINE Q == {q \in P : q <= p}
  <2>1. Q \subseteq P /\ p \in Q
    BY <1>1, <1>3
  <2>2. IsFiniteSet(Q) /\ Cardinality(Q) \in Nat /\ Cardinality(Q) <= Size
    BY <1>2, <2>1, FS_Subset, FS_CardinalityType
  <2>3. Cardinality(Q) # 0
    BY <2>1, <2>2, FS_EmptySet
  <2>4. QED
    BY <1>2, <2>2, <2>3
<1>4. ASSUME NEW p \in P, NEW r \in P, p < r PROVE Rank(p) < Rank(r)
  <2> DEFINE Q == {q \in P : q <= p}
             R == {q \in P : q <= r}
  <2>1. Q \subseteq R /\ Q # R
    BY <1>1, <1>4
  <2>2. IsFiniteSet(Q) /\ IsFiniteSet(R)
    BY <1>3
  <2> HIDE DEF Q, R
  <2>3. /\ Cardinality(Q) \in Nat /\ Cardinality(R) \in Nat
        /\ Cardinality(Q) <= Cardinality(R) /\ Cardinality(Q) # Cardinality(R)
    BY <2>1, <2>2, FS_Subset, FS_CardinalityType
  <2>4. Cardinality(Q) < Cardinality(R)
    BY <2>3
  <2>5. QED
    BY <2>4 DEF Q, R
<1>5. f \in Injection(P, 1..Size)
  <2>1. f \in [P -> 1..Size]
    BY <1>3
  <2>2. \A p, r \in P : f[p] = f[r] => p = r
    <3>1. ASSUME NEW p \in P, NEW r \in P, p # r PROVE Rank(p) # Rank(r)
      <4>1. p \in Nat /\ r \in Nat
        BY <1>1
      <4>2. Rank(p) \in 1..Size /\ Rank(r) \in 1..Size
        BY <1>3
      <4>3. (p < r => Rank(p) < Rank(r)) /\ (r < p => Rank(r) < Rank(p))
        BY <1>4
      <4> HIDE DEF Rank, Size, P
      <4>4. Rank(p) \in Nat /\ Rank(r) \in Nat
        BY <1>2, <4>2
      <4>5. QED
        BY <3>1, <4>1, <4>3, <4>4
    <3> HIDE DEF Rank
    <3>2. QED
      BY <3>1
  <2> HIDE DEF f
  <2>3. DOMAIN f = P
    BY <2>1
  <2>4. QED
    BY <2>1, <2>2, <2>3 DEF Injection, IsInjective
<1>6. f \in Surjection(P, 1..Size)
  <2>1. IsFiniteSet(1..Size) /\ Cardinality(1..Size) = Size
    BY <1>2, FS_Interval
  <2> HIDE DEF f, P
  <2>2. QED
    BY <1>2, <1>5, <2>1, FS_Injection
<1>7. \A n \in 1..Size : Nth(n) \in P /\ Rank(Nth(n)) = n
  <2>1. \A n \in 1..Size : \E p \in P : Rank(p) = n
    BY <1>6 DEF Surjection
  <2> HIDE DEF Rank, P
  <2>2. QED
    BY <2>1
<1>8. \A p \in P : Nth(Rank(p)) = p
  <2> SUFFICES ASSUME NEW p \in P PROVE Nth(Rank(p)) = p
    OBVIOUS
  <2>1. Nth(Rank(p)) \in P /\ Rank(Nth(Rank(p))) = Rank(p)
    BY <1>3, <1>7
  <2>2. f[Nth(Rank(p))] = f[p]
    BY <2>1
  <2>3. \A a, b \in P : f[a] = f[b] => a = b
    <3> HIDE DEF f
    <3>1. DOMAIN f = P
      BY <1>5 DEF Injection
    <3>2. QED
      BY <1>5, <3>1 DEF Injection, IsInjective
  <2> HIDE DEF f, Nth, Rank, P
  <2>4. QED
    BY <2>1, <2>2, <2>3
<1>9. Only(s, S) = [n \in 1..Size |-> s[Nth(n)]]
  BY DEF Only
<1> HIDE DEF f, Nth, Rank, Size
<1>10. \A n \in 1..Size : Nth(n) \in DOMAIN s /\ s[Nth(n)] \in S /\ s[Nth(n)] \in T
  BY <1>1, <1>7
<1>11. Only(s, S) \in Seq(T) /\ DOMAIN Only(s, S) = 1..Size
  BY <1>2, <1>9, <1>10
<1>12. ToSet(Only(s, S)) \subseteq ToSet(s) \cap S
  BY <1>9, <1>10, <1>11 DEF ToSet
<1>13. ASSUME NEW k \in DOMAIN s, s[k] \in S PROVE s[k] \in ToSet(Only(s, S))
  <2>1. k \in P
    BY <1>13
  <2>2. Rank(k) \in 1..Size /\ Nth(Rank(k)) = k
    BY <1>3, <1>8, <2>1
  <2>3. Only(s, S)[Rank(k)] = s[k]
    BY <1>9, <2>2
  <2>4. QED
    BY <1>11, <2>2, <2>3 DEF ToSet
<1>14. ToSet(s) \cap S \subseteq ToSet(Only(s, S))
  BY <1>13 DEF ToSet
<1>15. ASSUME IsInjective(s) PROVE IsInjective(Only(s, S))
  <2>1. ASSUME NEW n \in 1..Size, NEW m \in 1..Size, s[Nth(n)] = s[Nth(m)] PROVE n = m
    <3>1. Nth(n) = Nth(m)
      BY <1>10, <1>15, <2>1 DEF IsInjective
    <3>2. QED
      BY <1>7, <3>1
  <2>2. QED
    BY <1>9, <1>11, <2>1 DEF IsInjective
<1>16. QED
  BY <1>11, <1>12, <1>14, <1>15

(* A filter that all pass keeps the sequence.                              *)
LEMMA OnlyAll ==
  ASSUME NEW T, NEW s \in Seq(T), NEW S, ToSet(s) \subseteq S
  PROVE  Only(s, S) = s
<1> DEFINE P == {k \in DOMAIN s : s[k] \in S}
           Rank(p) == Cardinality({q \in P : q <= p})
           Nth(n) == CHOOSE p \in P : Rank(p) = n
<1>1. P = 1..Len(s) /\ Len(s) \in Nat /\ DOMAIN s = 1..Len(s)
  BY DEF ToSet
<1>2. Cardinality(P) = Len(s)
  <2>1. 1 \in Int /\ Len(s) \in Int
    BY <1>1
  <2>2. Cardinality(1..Len(s)) = IF 1 > Len(s) THEN 0 ELSE Len(s) - 1 + 1
    BY <2>1, FS_Interval
  <2>3. Cardinality(1..Len(s)) = Len(s)
    BY <1>1, <2>2
  <2>4. QED
    BY <1>1, <2>3
<1>3. ASSUME NEW p \in P PROVE Rank(p) = p
  <2>1. {q \in P : q <= p} = 1..p /\ p \in Nat /\ p >= 1
    BY <1>1, <1>3
  <2>2. 1 \in Int /\ p \in Int
    BY <2>1
  <2>3. Cardinality(1..p) = IF 1 > p THEN 0 ELSE p - 1 + 1
    BY <2>2, FS_Interval
  <2>4. Cardinality(1..p) = p
    BY <2>1, <2>3
  <2>5. QED
    BY <2>1, <2>4
<1>4. \A n \in 1..Len(s) : Nth(n) = n
  <2>1. \A n \in 1..Len(s) : n \in P /\ \A p \in P : Rank(p) = n => p = n
    BY <1>1, <1>3
  <2>2. \A n \in 1..Len(s) : Rank(n) = n
    BY <1>1, <1>3
  <2> HIDE DEF Rank, P
  <2>3. QED
    BY <2>1, <2>2
<1>5. Only(s, S) = [n \in 1..Len(s) |-> s[Nth(n)]]
  BY <1>2 DEF Only
<1> HIDE DEF Nth, Rank, P
<1>6. QED
  BY <1>1, <1>4, <1>5

(* What is left of a sequence after its first n entries.                   *)
LEMMA RestFacts ==
  ASSUME NEW T, NEW s \in Seq(T), NEW n \in 0..Len(s)
  PROVE  /\ SubSeq(s, n + 1, Len(s)) \in Seq(T)
         /\ DOMAIN SubSeq(s, n + 1, Len(s)) = 1..(Len(s) - n)
         /\ \A k \in 1..(Len(s) - n) : SubSeq(s, n + 1, Len(s))[k] = s[n + k]
BY SMT

Rest(s) == SubSeq(s, Len(Chunk(s)) + 1, Len(s))

(* A batch and the later batches share the drafts that were to do.         *)
LEMMA ChunkFacts ==
  ASSUME NEW T, NEW s \in Seq(T)
  PROVE  /\ Chunk(s) \in Seq(T) /\ Rest(s) \in Seq(T)
         /\ ToSet(s) = ToSet(Chunk(s)) \cup ToSet(Rest(s))
         /\ IsInjective(s) =>
              IsInjective(Chunk(s)) /\ IsInjective(Rest(s)) /\ ToSet(Chunk(s)) \cap ToSet(Rest(s)) = {}
<1> DEFINE c == Chunk(s)
           r == SubSeq(s, Len(c) + 1, Len(s))
           n == IF Len(s) < BatchMax THEN Len(s) ELSE BatchMax
<1>1. Len(s) \in Nat /\ n \in 0..Len(s) /\ DOMAIN s = 1..Len(s)
  BY BulkCreateAssumption
<1>2. c = SubSeq(s, 1, n) /\ r = SubSeq(s, Len(c) + 1, Len(s))
  BY DEF Chunk
<1> HIDE DEF n, c, r
<1>3. c \in Seq(T) /\ Len(c) = n /\ DOMAIN c = 1..n /\ \A k \in 1..n : c[k] = s[k]
  BY <1>1, <1>2
<1>4. r = SubSeq(s, n + 1, Len(s))
  BY <1>2, <1>3
<1>5. r \in Seq(T) /\ DOMAIN r = 1..(Len(s) - n) /\ \A k \in 1..(Len(s) - n) : r[k] = s[n + k]
  <2>1. n \in 0..Len(s)
    BY <1>1
  <2>2. /\ SubSeq(s, n + 1, Len(s)) \in Seq(T)
        /\ DOMAIN SubSeq(s, n + 1, Len(s)) = 1..(Len(s) - n)
        /\ \A k \in 1..(Len(s) - n) : SubSeq(s, n + 1, Len(s))[k] = s[n + k]
    BY <2>1, RestFacts, Zenon
  <2>3. QED
    BY <1>4, <2>2, Zenon
<1>6. ToSet(c) \subseteq ToSet(s) /\ ToSet(r) \subseteq ToSet(s)
  <2>1. ASSUME NEW k \in DOMAIN c PROVE c[k] \in ToSet(s)
    <3>1. k \in DOMAIN s /\ c[k] = s[k]
      BY <1>1, <1>3
    <3>2. QED
      BY <3>1 DEF ToSet
  <2>2. ASSUME NEW k \in DOMAIN r PROVE r[k] \in ToSet(s)
    <3>1. n + k \in DOMAIN s /\ r[k] = s[n + k]
      BY <1>1, <1>5
    <3>2. QED
      BY <3>1 DEF ToSet
  <2>3. QED
    BY <2>1, <2>2 DEF ToSet
<1>7. ASSUME NEW k \in DOMAIN s PROVE s[k] \in ToSet(c) \cup ToSet(r)
  <2>1. CASE k <= n
    BY <1>1, <1>3, <2>1 DEF ToSet
  <2>2. CASE k > n
    <3>1. k - n \in DOMAIN r /\ r[k - n] = s[k]
      BY <1>1, <1>5, <2>2
    <3>2. QED
      BY <3>1 DEF ToSet
  <2>3. QED
    BY <1>1, <2>1, <2>2
<1>8. ToSet(s) = ToSet(c) \cup ToSet(r)
  BY <1>6, <1>7 DEF ToSet
<1>9. ASSUME IsInjective(s)
      PROVE  IsInjective(c) /\ IsInjective(r) /\ ToSet(c) \cap ToSet(r) = {}
  <2>1. \A a, b \in 1..Len(s) : s[a] = s[b] => a = b
    BY <1>1, <1>9 DEF IsInjective
  <2>2. IsInjective(c)
    BY <1>1, <1>3, <2>1 DEF IsInjective
  <2>3. \A k \in 1..(Len(s) - n) : n + k \in 1..Len(s)
    BY <1>1
  <2>4. IsInjective(r)
    BY <1>1, <1>5, <2>1, <2>3 DEF IsInjective
  <2>5. ASSUME NEW a \in DOMAIN c, NEW b \in DOMAIN r PROVE c[a] # r[b]
    <3>1. a \in 1..Len(s) /\ n + b \in 1..Len(s) /\ a # n + b /\ c[a] = s[a] /\ r[b] = s[n + b]
      BY <1>1, <1>3, <1>5
    <3>2. QED
      BY <2>1, <3>1
  <2>6. QED
    BY <2>2, <2>4, <2>5 DEF ToSet
<1>10. Chunk(s) = c /\ Rest(s) = r
  BY DEF c, r, Rest
<1>11. QED
  BY <1>3, <1>5, <1>8, <1>9, <1>10, Zenon

(* Adding a draft at the end.                                              *)
LEMMA AppendFacts ==
  ASSUME NEW T, NEW s \in Seq(T), NEW d \in T
  PROVE  /\ Append(s, d) \in Seq(T) /\ ToSet(Append(s, d)) = ToSet(s) \cup {d}
         /\ IsInjective(s) /\ d \notin ToSet(s) => IsInjective(Append(s, d))
<1> DEFINE t == Append(s, d)
<1>1. /\ Len(s) \in Nat /\ DOMAIN s = 1..Len(s) /\ t \in Seq(T) /\ DOMAIN t = 1..(Len(s) + 1)
      /\ t[Len(s) + 1] = d /\ \A k \in 1..Len(s) : t[k] = s[k]
  OBVIOUS
<1> HIDE DEF t
<1>2. ToSet(t) = ToSet(s) \cup {d}
  <2>1. \A k \in 1..(Len(s) + 1) : k \in 1..Len(s) \/ k = Len(s) + 1
    BY <1>1
  <2>2. QED
    BY <1>1, <2>1 DEF ToSet
<1>3. ASSUME IsInjective(s), d \notin ToSet(s) PROVE IsInjective(t)
  <2>1. \A k \in 1..Len(s) : s[k] # d
    BY <1>1, <1>3 DEF ToSet
  <2>2. QED
    BY <1>1, <1>3, <2>1 DEF IsInjective
<1>4. QED
  BY <1>1, <1>2, <1>3 DEF t
(* The drafts of a stage whose entry is at i or later.                     *)
LEMMA LeftFacts ==
  ASSUME NEW T, NEW p \in Seq(T), NEW i \in Nat
  PROVE  /\ Left(p, i) \subseteq T
         /\ i <= 1 => Left(p, i) = ToSet(p)
         /\ i = Len(p) + 1 => Left(p, i) = {}
         /\ i \in DOMAIN p /\ IsInjective(p) =>
              p[i] \in T /\ p[i] \in Left(p, i) /\ Left(p, i + 1) = Left(p, i) \ {p[i]}
<1>1. Len(p) \in Nat /\ DOMAIN p = 1..Len(p) /\ \A k \in DOMAIN p : p[k] \in T
  OBVIOUS
<1>2. Left(p, i) \subseteq T
  BY <1>1 DEF Left
<1>3. ASSUME i <= 1 PROVE Left(p, i) = ToSet(p)
  <2>1. {k \in DOMAIN p : i <= k} = DOMAIN p
    BY <1>1, <1>3
  <2>2. QED
    BY <2>1 DEF Left, ToSet
<1>4. ASSUME i = Len(p) + 1 PROVE Left(p, i) = {}
  <2>1. {k \in DOMAIN p : i <= k} = {}
    BY <1>1, <1>4
  <2>2. QED
    BY <2>1 DEF Left
<1>5. ASSUME i \in DOMAIN p, IsInjective(p)
      PROVE  p[i] \in T /\ p[i] \in Left(p, i) /\ Left(p, i + 1) = Left(p, i) \ {p[i]}
  <2>1. {k \in DOMAIN p : i + 1 <= k} = {k \in DOMAIN p : i <= k} \ {i}
    BY <1>1
  <2>2. i \in {k \in DOMAIN p : i <= k}
    BY <1>1, <1>5
  <2>3. \A k \in DOMAIN p : p[k] = p[i] => k = i
    BY <1>5 DEF IsInjective
  <2>4. QED
    BY <1>1, <2>1, <2>2, <2>3 DEF Left
<1>6. QED
  BY <1>2, <1>3, <1>4, <1>5

LEMMA AllLeft ==
  ASSUME NEW T, NEW p \in Seq(T) PROVE Left(p, 0) = ToSet(p) /\ Left(p, 1) = ToSet(p)
<1>1. 0 \in Nat /\ 1 \in Nat /\ 0 <= 1 /\ 1 <= 1
  OBVIOUS
<1>2. QED
  BY <1>1, LeftFacts

LEMMA EmptyFacts ==
  /\ IsInjective(<<>>) /\ ToSet(<<>>) = {}
  /\ \A i \in Nat : Left(<<>>, i) = {}
  /\ \A T : <<>> \in Seq(T)
  /\ \A T : \A s \in Seq(T) : ToSet(s) = {} => s = <<>>
<1>1. IsInjective(<<>>) /\ ToSet(<<>>) = {}
  BY DEF IsInjective, ToSet
<1>2. \A i \in Nat : Left(<<>>, i) = {}
  BY DEF Left
<1>3. ASSUME NEW T, NEW s \in Seq(T), ToSet(s) = {} PROVE s = <<>>
  <2>1. DOMAIN s = {}
    BY <1>3 DEF ToSet
  <2>2. QED
    BY <2>1
<1>4. \A T : <<>> \in Seq(T)
  OBVIOUS
<1>5. QED
  BY <1>1, <1>2, <1>3, <1>4

(***************************************************************************)
(* The steps, one way at a time.                                           *)
(***************************************************************************)
(* A pass that starts counts an attempt of its drafts and keeps the rest   *)
(* of what is known of them.                                               *)
LEMMA StartFacts ==
  ASSUME draft \in [Drafts -> State], NEW ds, Start(ds)
  PROVE  /\ pass' = ds /\ stage' = "item" /\ draft' \in [Drafts -> State]
         /\ \A d \in Drafts : /\ draft'[d].last = draft[d].last /\ draft'[d].offer = draft[d].offer
                              /\ draft'[d].stale = draft[d].stale
<1>1. \A d \in Drafts : draft[d] \in State
  OBVIOUS
<1>2. \A d \in Drafts : [draft[d] EXCEPT !.attempts = @ + 1] \in State
  BY <1>1 DEF State
<1>3. pass' = ds /\ stage' = "item"
      /\ draft' = [d \in Drafts |-> IF d \in ToSet(ds) THEN [draft[d] EXCEPT !.attempts = @ + 1] ELSE draft[d]]
  BY DEF Start
<1>4. draft' \in [Drafts -> State]
  BY <1>1, <1>2, <1>3
<1>5. ASSUME NEW d \in Drafts
      PROVE  /\ draft'[d].last = draft[d].last /\ draft'[d].offer = draft[d].offer
             /\ draft'[d].stale = draft[d].stale
  <2>1. draft'[d] = draft[d] \/ draft'[d] = [draft[d] EXCEPT !.attempts = @ + 1]
    BY <1>3
  <2>2. draft[d] \in State
    BY <1>1
  <2>3. QED
    BY <2>1, <2>2 DEF State
<1>6. QED
  BY <1>3, <1>4, <1>5

(* The next entry is that of a draft without a verdict, which is nowhere   *)
(* else in the call.                                                       *)
LEMMA AtFacts ==
  ASSUME Types, Whereabouts, pos \in DOMAIN pass
  PROVE  /\ At \in Drafts /\ At \in Unread /\ out[At].verdict = "open"
         /\ At \notin ToSet(todo) \cup ToSet(next) \cup ToSet(retry)
         /\ Left(pass, pos + 1) = Unread \ {At}
<1>1. At \in Drafts /\ At \in Unread /\ Left(pass, pos + 1) = Unread \ {At}
  <2>1. pass \in Seq(Drafts) /\ pos \in Nat /\ IsInjective(pass)
    BY DEF Types, Whereabouts, Apart
  <2>2. QED
    BY <2>1, LeftFacts DEF At, Unread
<1>2. QED
  BY <1>1 DEF Whereabouts, Apart, Open

(* What a draft may be told by an entry.                                   *)
Told == GoesOn \/ Again \/ \E v \in {"ok", "failed"}, l \in Named : Settle(v, l)

LEMMA ToldFacts ==
  ASSUME Types, Whereabouts, pos \in DOMAIN pass, Told, UNCHANGED <<todo, pass>>, pos' = pos + 1
  PROVE  /\ pos' \in Nat /\ next' \in Seq(Drafts) /\ retry' \in Seq(Drafts)
         /\ out' \in [Drafts -> Outcome]
         /\ Whereabouts'
         /\ \A d \in Drafts \ {At} : out'[d] = out[d]
         /\ out'[At].verdict # "exhausted"
         /\ ToSet(next') \subseteq ToSet(next) \cup {At} /\ ToSet(retry') \subseteq ToSet(retry) \cup {At}
<1>1. /\ At \in Drafts /\ At \in Unread /\ out[At].verdict = "open"
      /\ At \notin ToSet(todo) \cup ToSet(next) \cup ToSet(retry)
      /\ Unread' = Unread \ {At}
  <2>1. Unread' = Left(pass, pos + 1)
    BY DEF Unread
  <2>2. QED
    BY <2>1, AtFacts
<1>2. /\ next \in Seq(Drafts) /\ retry \in Seq(Drafts) /\ out \in [Drafts -> Outcome] /\ pos \in Nat
      /\ todo' = todo /\ pass' = pass
  BY DEF Types
<1>3. IsInjective(next) /\ IsInjective(retry) /\ IsInjective(todo) /\ IsInjective(pass)
  BY DEF Whereabouts, Apart
<1>4. Open' = {d \in Drafts : out'[d].verdict = "open"}
  BY DEF Open
<1>5. CASE GoesOn
  <2>1. next' = Append(next, At) /\ retry' = retry /\ out' = out
    BY <1>5 DEF GoesOn
  <2>2. next' \in Seq(Drafts) /\ ToSet(next') = ToSet(next) \cup {At} /\ IsInjective(next')
    <3>1. At \in Drafts /\ next \in Seq(Drafts) /\ IsInjective(next) /\ At \notin ToSet(next)
      BY <1>1, <1>2, <1>3
    <3>2. /\ Append(next, At) \in Seq(Drafts) /\ ToSet(Append(next, At)) = ToSet(next) \cup {At}
          /\ IsInjective(Append(next, At))
      BY <3>1, AppendFacts
    <3>3. QED
      BY <2>1, <3>2, Zenon
  <2>3. Open' = Open
    BY <2>1 DEF Open
  <2>4. Whereabouts'
    BY <1>1, <1>2, <1>3, <2>1, <2>2, <2>3 DEF Whereabouts, Apart
  <2>5. QED
    BY <1>1, <1>2, <2>1, <2>2, <2>4
<1>6. CASE Again
  <2>1. retry' = Append(retry, At) /\ next' = next /\ out' = out
    BY <1>6 DEF Again
  <2>2. retry' \in Seq(Drafts) /\ ToSet(retry') = ToSet(retry) \cup {At} /\ IsInjective(retry')
    <3>1. At \in Drafts /\ retry \in Seq(Drafts) /\ IsInjective(retry) /\ At \notin ToSet(retry)
      BY <1>1, <1>2, <1>3
    <3>2. /\ Append(retry, At) \in Seq(Drafts) /\ ToSet(Append(retry, At)) = ToSet(retry) \cup {At}
          /\ IsInjective(Append(retry, At))
      BY <3>1, AppendFacts
    <3>3. QED
      BY <2>1, <3>2, Zenon
  <2>3. Open' = Open
    BY <2>1 DEF Open
  <2>4. Whereabouts'
    BY <1>1, <1>2, <1>3, <2>1, <2>2, <2>3 DEF Whereabouts, Apart
  <2>5. QED
    BY <1>1, <1>2, <2>1, <2>2, <2>4
<1>7. ASSUME NEW v \in {"ok", "failed"}, NEW l \in Named, Settle(v, l)
      PROVE  /\ next' = next /\ retry' = retry /\ out' \in [Drafts -> Outcome] /\ Whereabouts'
             /\ (\A d \in Drafts \ {At} : out'[d] = out[d]) /\ out'[At].verdict # "exhausted"
  <2>1. out' = [out EXCEPT ![At] = [verdict |-> v, listing |-> l]] /\ next' = next /\ retry' = retry
    BY <1>7 DEF Settle
  <2>2. [verdict |-> v, listing |-> l] \in Outcome /\ [verdict |-> v, listing |-> l].verdict \notin {"open", "exhausted"}
    BY DEF Outcome
  <2>3. /\ out' \in [Drafts -> Outcome] /\ out'[At].verdict \notin {"open", "exhausted"}
        /\ \A d \in Drafts \ {At} : out'[d] = out[d]
    BY <1>1, <1>2, <2>1, <2>2
  <2>4. Open' = Open \ {At}
    BY <1>1, <1>4, <2>3 DEF Open
  <2>5. Whereabouts'
    BY <1>1, <1>2, <1>3, <2>1, <2>4 DEF Whereabouts, Apart
  <2>6. QED
    BY <2>1, <2>3, <2>5
<1>8. CASE \E v \in {"ok", "failed"}, l \in Named : Settle(v, l)
  BY <1>2, <1>7, <1>8
<1>9. QED
  BY <1>5, <1>6, <1>8 DEF Told

LEMMA EntryFacts ==
  ASSUME Types, Stage
  PROVE  /\ Entry \in EntryOf
         /\ stage = "offer" /\ Entry.says # "nothing" => Entry.of \in Drafts
<1>1. entries \in Seq(EntryOf) /\ \A k \in DOMAIN entries : entries[k] \in EntryOf
  BY DEF Types
<1>2. [of |-> 0, says |-> "nothing"] \in EntryOf
  BY DEF EntryOf, Named, Says
<1>3. (\E k \in DOMAIN entries : Entry = entries[k]) \/ Entry = [of |-> 0, says |-> "nothing"]
  <2> DEFINE Hit(k) == entries[k].of = Ids[pos]
  <2>1. CASE \E k \in DOMAIN entries : Hit(k)
    <3> DEFINE c == CHOOSE k \in DOMAIN entries : Hit(k)
    <3>1. c \in DOMAIN entries
      <4> HIDE DEF Hit
      <4>1. QED
        BY <2>1
    <3>2. Entry = entries[c]
      BY <2>1 DEF Entry
    <3> HIDE DEF c
    <3>3. QED
      BY <3>1, <3>2
  <2>2. CASE ~\E k \in DOMAIN entries : Hit(k)
    <3>1. Entry = IF pos \in DOMAIN entries THEN entries[pos] ELSE [of |-> 0, says |-> "nothing"]
      BY <2>2 DEF Entry
    <3>2. QED
      BY <3>1
  <2>3. QED
    BY <2>1, <2>2
<1>4. QED
  BY <1>1, <1>2, <1>3 DEF Stage

(* What a read keeps, once it told the draft something and kept what is    *)
(* known of the others.                                                    *)
LEMMA ReadKeeps ==
  ASSUME Base, stage \in {"item", "offer", "publish"}, pos \in DOMAIN pass, Told,
         UNCHANGED <<todo, pass, stage, entries>>, pos' = pos + 1,
         draft' \in [Drafts -> State], \A d \in Drafts \ {At} : draft'[d] = draft[d],
         site' \in [Drafts -> {"none", "made", "live"}], fresh' \in SUBSET Drafts,
         Again => draft'[At].last \in Aspects \/ draft'[At].attempts < MAX_CREATE_ATTEMPTS,
         stage = "publish" => next' = next
  PROVE  Base'
<1>1. /\ Types /\ Whereabouts /\ Stage /\ Replays /\ ExhaustedIsAboutAspects
  BY DEF Base
<1>2. /\ pos' \in Nat /\ next' \in Seq(Drafts) /\ retry' \in Seq(Drafts)
      /\ out' \in [Drafts -> Outcome]
      /\ Whereabouts'
      /\ \A d \in Drafts \ {At} : out'[d] = out[d]
      /\ out'[At].verdict # "exhausted"
      /\ ToSet(retry') \subseteq ToSet(retry) \cup {At}
  BY <1>1, ToldFacts
<1>3. At \in Drafts /\ At \notin ToSet(retry)
  BY <1>1, AtFacts
<1>4. Types'
  BY <1>1, <1>2 DEF Types
<1>5. Stage'
  <2>1. pos' # 0
    BY <1>1 DEF Types
  <2>2. QED
    BY <1>1, <2>1 DEF Stage
<1>6. Replays'
  <2>1. ASSUME NEW d \in ToSet(retry')
        PROVE  draft'[d].last \in Aspects \/ draft'[d].attempts < MAX_CREATE_ATTEMPTS
    <3>1. CASE d = At
      <4>1. ~Again => retry' = retry
        BY DEF Told, GoesOn, Settle
      <4>2. QED
        BY <1>3, <2>1, <3>1, <4>1
    <3>2. CASE d # At
      <4>1. d \in ToSet(retry) /\ d \in Drafts
        <5>1. d \in ToSet(retry)
          BY <1>2, <2>1, <3>2
        <5>2. retry \in Seq(Drafts)
          BY <1>1 DEF Types
        <5>3. QED
          BY <5>1, <5>2 DEF ToSet
      <4>2. QED
        BY <1>1, <3>2, <4>1 DEF Replays
    <3>3. QED
      BY <3>1, <3>2
  <2>2. QED
    BY <2>1 DEF Replays
<1>7. ExhaustedIsAboutAspects'
  <2>1. ASSUME NEW d \in Drafts, out'[d].verdict = "exhausted" PROVE draft'[d].last \in Aspects
    <3>1. d # At
      BY <1>2, <2>1
    <3>2. QED
      BY <1>1, <1>2, <2>1, <3>1 DEF ExhaustedIsAboutAspects
  <2>2. QED
    BY <2>1 DEF ExhaustedIsAboutAspects
<1>8. QED
  BY <1>2, <1>4, <1>5, <1>6, <1>7 DEF Base

(* What reading an entry says of the draft and of eBay: the facts every    *)
(* read has in common.                                                     *)
LEMMA ReadFacts ==
  ASSUME Base, ReadItem \/ ReadOffer \/ ReadPublish
  PROVE  /\ stage \in {"item", "offer", "publish"} /\ pos \in DOMAIN pass /\ Told
         /\ UNCHANGED <<todo, pass, stage, entries>> /\ pos' = pos + 1
         /\ draft' \in [Drafts -> State] /\ \A d \in Drafts \ {At} : draft'[d] = draft[d]
         /\ site' \in [Drafts -> {"none", "made", "live"}] /\ fresh' \in SUBSET Drafts
         /\ Again => draft'[At].last \in Aspects \/ draft'[At].attempts < MAX_CREATE_ATTEMPTS
         /\ stage = "publish" => next' = next
<1> USE DEF Reading
<1>1. /\ Types /\ Whereabouts /\ Stage
      /\ draft \in [Drafts -> State] /\ site \in [Drafts -> {"none", "made", "live"}] /\ fresh \in SUBSET Drafts
  BY DEF Base, Types
<1>2. pos \in DOMAIN pass /\ stage \in {"item", "offer", "publish"}
  BY DEF ReadItem, ReadOffer, ReadPublish
<1>3. At \in Drafts /\ draft[At] \in State
  BY <1>1, <1>2, AtFacts
<1>4. Entry \in EntryOf /\ Entry.says \in Says /\ Entry.of \in Named /\ 0 \in Named
  <2>1. Entry \in EntryOf
    BY <1>1, EntryFacts
  <2>2. QED
    BY <2>1 DEF EntryOf, Named
<1>5. ASSUME NEW r \in State, draft' = [draft EXCEPT ![At] = r]
      PROVE  /\ draft' \in [Drafts -> State] /\ draft'[At] = r
             /\ \A d \in Drafts \ {At} : draft'[d] = draft[d]
  BY <1>1, <1>3, <1>5
<1>6. ASSUME ReadItem
      PROVE  /\ Told /\ draft' \in [Drafts -> State] /\ \A d \in Drafts \ {At} : draft'[d] = draft[d]
             /\ Again => draft'[At].attempts < MAX_CREATE_ATTEMPTS
             /\ UNCHANGED <<todo, pass, stage, entries, site, fresh>> /\ pos' = pos + 1
             /\ stage = "item"
  <2> DEFINE r == [draft[At] EXCEPT !.last = Entry.says]
  <2>1. r \in State /\ r.attempts = draft[At].attempts
    BY <1>3, <1>4 DEF State
  <2>2. /\ draft' = [draft EXCEPT ![At] = r] /\ pos' = pos + 1
        /\ UNCHANGED <<todo, pass, stage, entries, site, fresh>> /\ stage = "item"
    BY <1>6 DEF ReadItem, ebay
  <2> HIDE DEF r
  <2>3. GoesOn \/ (RetriesSystemError /\ Again) \/ Settle("failed", 0)
    BY <1>6 DEF ReadItem
  <2>4. Told
    BY <1>4, <2>3 DEF Told
  <2>5. Again => RetriesSystemError
    <3>1. ~(Again /\ GoesOn) /\ ~(Again /\ Settle("failed", 0))
      <4>1. retry # Append(retry, At)
        BY <1>1, <1>3 DEF Types
      <4>2. QED
        BY <4>1 DEF Again, GoesOn, Settle
    <3>2. QED
      BY <2>3, <3>1
  <2>6. QED
    BY <1>5, <2>1, <2>2, <2>4, <2>5 DEF RetriesSystemError
<1>7. ASSUME ReadOffer
      PROVE  /\ Told /\ draft' \in [Drafts -> State] /\ \A d \in Drafts \ {At} : draft'[d] = draft[d]
             /\ Again => draft'[At].attempts < MAX_CREATE_ATTEMPTS
             /\ UNCHANGED <<todo, pass, stage, entries, site>> /\ pos' = pos + 1
             /\ stage = "offer" /\ fresh' \in SUBSET Drafts
  <2>0. retry # Append(retry, At)
    BY <1>1, <1>3 DEF Types
  <2>1. UNCHANGED <<todo, pass, stage, entries, site>> /\ pos' = pos + 1 /\ stage = "offer"
    BY <1>7 DEF ReadOffer
  <2>2. CASE Entry.says = "done"
    <3>1. /\ draft' = [draft EXCEPT ![At] = [[draft[At] EXCEPT !.last = "done"] EXCEPT !.offer = Entry.of]]
          /\ GoesOn /\ fresh' = fresh
      BY <1>1, <1>3, <1>7, <2>2 DEF ReadOffer
    <3>2. [[draft[At] EXCEPT !.last = "done"] EXCEPT !.offer = Entry.of] \in State
      BY <1>3, <1>4 DEF State, Says
    <3>3. ~Again
      BY <2>0, <3>1 DEF Again, GoesOn
    <3>4. QED
      BY <1>1, <1>5, <2>1, <3>1, <3>2, <3>3 DEF Told
  <2>3. CASE Entry.says = "exists"
    <3>1. RefreshOffer /\ GoesOn
      BY <1>7, <2>3 DEF ReadOffer
    <3>2. PICK b \in BOOLEAN :
            /\ draft' = [draft EXCEPT ![At] =
                 [[[draft[At] EXCEPT !.last = Entry.says] EXCEPT !.offer = Entry.of] EXCEPT !.stale = b]]
            /\ fresh' \in {fresh, fresh \cup {Entry.of}}
      BY <1>1, <1>3, <3>1 DEF RefreshOffer
    <3>3. [[[draft[At] EXCEPT !.last = Entry.says] EXCEPT !.offer = Entry.of] EXCEPT !.stale = b] \in State
      BY <1>3, <1>4 DEF State, Says
    <3>4. Entry.of \in Drafts
      BY <1>1, <2>1, <2>3, EntryFacts
    <3>5. ~Again
      BY <2>0, <3>1 DEF Again, GoesOn
    <3>6. QED
      BY <1>1, <1>5, <2>1, <3>1, <3>2, <3>3, <3>4, <3>5 DEF Told
  <2>4. CASE Entry.says \notin {"done", "exists"}
    <3>1. /\ draft' = [draft EXCEPT ![At] = [draft[At] EXCEPT !.last = Entry.says]]
          /\ IF RetriesSystemError THEN Again ELSE Settle("failed", 0)
          /\ fresh' = fresh
      BY <1>7, <2>4 DEF ReadOffer
    <3>2. /\ [draft[At] EXCEPT !.last = Entry.says] \in State
          /\ [draft[At] EXCEPT !.last = Entry.says].attempts = draft[At].attempts
      BY <1>3, <1>4 DEF State
    <3>3. Told
      BY <1>4, <3>1 DEF Told
    <3>4. Again => RetriesSystemError
      BY <2>0, <3>1 DEF Again, Settle
    <3>5. QED
      BY <1>1, <1>5, <2>1, <3>1, <3>2, <3>3, <3>4 DEF RetriesSystemError
  <2>5. QED
    BY <2>2, <2>3, <2>4
<1>8. ASSUME ReadPublish
      PROVE  /\ Told /\ draft' \in [Drafts -> State] /\ \A d \in Drafts \ {At} : draft'[d] = draft[d]
             /\ Again => draft'[At].last \in Aspects \/ draft'[At].attempts < MAX_CREATE_ATTEMPTS
             /\ UNCHANGED <<todo, pass, stage, entries>> /\ pos' = pos + 1
             /\ stage = "publish" /\ fresh' \in SUBSET Drafts /\ next' = next
             /\ site' \in [Drafts -> {"none", "made", "live"}]
  <2>0. retry # Append(retry, At)
    BY <1>1, <1>3 DEF Types
  <2>1. /\ UNCHANGED <<todo, pass, stage, entries>> /\ pos' = pos + 1 /\ stage = "publish"
        /\ fresh' = {i \in fresh : site'[i] # "none"}
    BY <1>8 DEF ReadPublish
  <2>2. fresh' \in SUBSET Drafts
    BY <1>1, <2>1
  <2>3. ASSUME Entry.says = "done", Settle("ok", Entry.of),
               draft' = [draft EXCEPT ![At] = [draft[At] EXCEPT !.last = "done"]], UNCHANGED site
        PROVE  /\ Told /\ draft' \in [Drafts -> State] /\ \A d \in Drafts \ {At} : draft'[d] = draft[d]
               /\ ~Again /\ next' = next /\ site' \in [Drafts -> {"none", "made", "live"}]
    <3>1. [draft[At] EXCEPT !.last = "done"] \in State
      BY <1>3 DEF State, Says
    <3>2. ~Again /\ next' = next
      BY <2>0, <2>3 DEF Again, Settle
    <3>3. QED
      BY <1>1, <1>4, <1>5, <2>3, <3>1, <3>2 DEF Told
  <2>4. ASSUME Entry.says \in Aspects \ draft[At].forced, Again, UNCHANGED site,
               draft' = [draft EXCEPT ![At] = [[draft[At] EXCEPT !.last = Entry.says]
                                               EXCEPT !.forced = draft[At].forced \cup {Entry.says}]]
        PROVE  /\ Told /\ draft' \in [Drafts -> State] /\ \A d \in Drafts \ {At} : draft'[d] = draft[d]
               /\ draft'[At].last \in Aspects /\ next' = next /\ site' \in [Drafts -> {"none", "made", "live"}]
    <3>1. /\ [[draft[At] EXCEPT !.last = Entry.says] EXCEPT !.forced = draft[At].forced \cup {Entry.says}] \in State
          /\ [[draft[At] EXCEPT !.last = Entry.says] EXCEPT !.forced = draft[At].forced \cup {Entry.says}].last
               = Entry.says
      BY <1>3, <1>4, <2>4 DEF State
    <3>2. QED
      BY <1>1, <1>5, <2>4, <3>1 DEF Told, Again
  <2>5. ASSUME RetriesSystemError, Again,
               site' = [site EXCEPT ![draft[At].offer] = "none"] \/ UNCHANGED site,
               draft' = [draft EXCEPT ![At] = [[draft[At] EXCEPT !.last = "system"] EXCEPT !.offer = 0]]
        PROVE  /\ Told /\ draft' \in [Drafts -> State] /\ \A d \in Drafts \ {At} : draft'[d] = draft[d]
               /\ draft'[At].attempts < MAX_CREATE_ATTEMPTS /\ next' = next
               /\ site' \in [Drafts -> {"none", "made", "live"}]
    <3>1. /\ [[draft[At] EXCEPT !.last = "system"] EXCEPT !.offer = 0] \in State
          /\ [[draft[At] EXCEPT !.last = "system"] EXCEPT !.offer = 0].attempts = draft[At].attempts
      BY <1>3, <1>4 DEF State, Says
    <3>2. site' \in [Drafts -> {"none", "made", "live"}]
      BY <1>1, <2>5
    <3>3. QED
      BY <1>5, <2>5, <3>1, <3>2 DEF Told, Again, RetriesSystemError
  <2>6. ASSUME Settle("failed", 0), UNCHANGED site,
               draft' = [draft EXCEPT ![At] = [draft[At] EXCEPT !.last = Entry.says]]
        PROVE  /\ Told /\ draft' \in [Drafts -> State] /\ \A d \in Drafts \ {At} : draft'[d] = draft[d]
               /\ ~Again /\ next' = next /\ site' \in [Drafts -> {"none", "made", "live"}]
    <3>1. [draft[At] EXCEPT !.last = Entry.says] \in State
      BY <1>3, <1>4 DEF State
    <3>2. ~Again /\ next' = next
      BY <2>0, <2>6 DEF Again, Settle
    <3>3. QED
      BY <1>1, <1>4, <1>5, <2>6, <3>1, <3>2 DEF Told
  <2>7. \/ /\ Entry.says = "done" /\ Settle("ok", Entry.of) /\ UNCHANGED site
           /\ draft' = [draft EXCEPT ![At] = [draft[At] EXCEPT !.last = "done"]]
        \/ /\ Entry.says \in Aspects \ draft[At].forced /\ Again /\ UNCHANGED site
           /\ draft' = [draft EXCEPT ![At] = [[draft[At] EXCEPT !.last = Entry.says]
                                               EXCEPT !.forced = draft[At].forced \cup {Entry.says}]]
        \/ /\ RetriesSystemError /\ Again
           /\ site' = [site EXCEPT ![draft[At].offer] = "none"] \/ UNCHANGED site
           /\ draft' = [draft EXCEPT ![At] = [[draft[At] EXCEPT !.last = "system"] EXCEPT !.offer = 0]]
        \/ /\ Settle("failed", 0) /\ UNCHANGED site
           /\ draft' = [draft EXCEPT ![At] = [draft[At] EXCEPT !.last = Entry.says]]
    BY <1>1, <1>3, <1>8 DEF ReadPublish
  <2>8. QED
    BY <2>1, <2>2, <2>3, <2>4, <2>5, <2>6, <2>7
<1>9. QED
  BY <1>1, <1>2, <1>6, <1>7, <1>8

LEMMA BaseInit ==
  ASSUME Init PROVE Base
<1>1. /\ todo = [k \in 1..N |-> k] /\ N \in Nat
      /\ pass = <<>> /\ next = <<>> /\ retry = <<>> /\ entries = <<>> /\ pos = 0 /\ stage = "next"
      /\ out = [d \in Drafts |-> [verdict |-> "open", listing |-> 0]]
      /\ draft = [d \in Drafts |-> [attempts |-> 0, forced |-> {}, offer |-> 0, stale |-> FALSE, last |-> "-"]]
      /\ site \in [Drafts -> {"none", "made", "live"}] /\ fresh = {}
  BY BulkCreateAssumption DEF Init
<1>2. todo \in Seq(Drafts) /\ IsInjective(todo) /\ ToSet(todo) = Drafts
  <2>1. todo \in Seq(1..N) /\ DOMAIN todo = 1..N /\ \A k \in 1..N : todo[k] = k
    BY <1>1
  <2>2. ToSet(todo) = 1..N
    BY <2>1 DEF ToSet
  <2>3. QED
    BY <2>1, <2>2 DEF IsInjective, Drafts
<1>3. /\ <<>> \in Seq(Drafts) /\ <<>> \in Seq(EntryOf) /\ IsInjective(<<>>) /\ ToSet(<<>>) = {}
      /\ Left(<<>>, 0) = {}
  BY EmptyFacts
<1>4. Types
  <2>1. [attempts |-> 0, forced |-> {}, offer |-> 0, stale |-> FALSE, last |-> "-"] \in State
    BY DEF State, Named, Says
  <2>2. [verdict |-> "open", listing |-> 0] \in Outcome
    BY DEF Outcome, Named
  <2>3. draft \in [Drafts -> State] /\ out \in [Drafts -> Outcome]
    BY <1>1, <2>1, <2>2
  <2>4. stage \in Stages /\ pos \in Nat /\ fresh \in SUBSET Drafts
    BY <1>1 DEF Stages
  <2>5. QED
    BY <1>1, <1>2, <1>3, <2>3, <2>4 DEF Types
<1>5. Whereabouts
  <2>1. Unread = {}
    BY <1>1, <1>3 DEF Unread
  <2>2. Open = Drafts
    BY <1>1 DEF Open
  <2>3. QED
    BY <1>1, <1>2, <1>3, <2>1, <2>2 DEF Whereabouts, Apart
<1>6. Stage /\ Replays /\ ExhaustedIsAboutAspects
  BY <1>1, <1>3 DEF Stage, Replays, ExhaustedIsAboutAspects
<1>7. QED
  BY <1>4, <1>5, <1>6 DEF Base

LEMMA NextBatchKeeps ==
  ASSUME Base, NextBatch PROVE Base'
<1> DEFINE c == Chunk(todo)
           r == Rest(todo)
<1>1. /\ Types /\ Whereabouts /\ Stage /\ Replays /\ ExhaustedIsAboutAspects
  BY DEF Base
<1>2. /\ stage = "next" /\ Start(c) /\ todo' = r
      /\ UNCHANGED <<site, fresh, entries, pos, next, retry, out>>
  BY DEF NextBatch, ebay, Rest
<1>3. /\ pos = 0 /\ entries = <<>> /\ next = <<>> /\ retry = <<>> /\ pass = <<>>
  BY <1>1, <1>2 DEF Stage
<1>4. todo \in Seq(Drafts) /\ IsInjective(todo) /\ draft \in [Drafts -> State]
  BY <1>1 DEF Types, Whereabouts, Apart
<1>5. /\ c \in Seq(Drafts) /\ r \in Seq(Drafts) /\ ToSet(todo) = ToSet(c) \cup ToSet(r)
      /\ IsInjective(c) /\ IsInjective(r) /\ ToSet(c) \cap ToSet(r) = {}
  BY <1>4, ChunkFacts, Zenon
<1>6. /\ pass' = c /\ stage' = "item" /\ draft' \in [Drafts -> State]
      /\ \A d \in Drafts : draft'[d].last = draft[d].last
  BY <1>2, <1>4, StartFacts
<1> HIDE DEF c, r
<1>7. Types'
  BY <1>1, <1>2, <1>5, <1>6 DEF Types, Stages
<1>8. Whereabouts'
  <2>1. Unread' = ToSet(c) /\ Unread = {}
    <3>1. Unread' = Left(c, 0) /\ Unread = Left(<<>>, 0)
      BY <1>2, <1>3, <1>6 DEF Unread
    <3>2. QED
      BY <1>5, <3>1, AllLeft, EmptyFacts
  <2>2. Open' = Open /\ Open = ToSet(todo) \cup Unread \cup ToSet(next) \cup ToSet(retry)
    BY <1>1, <1>2 DEF Open, Whereabouts
  <2>3. IsInjective(<<>>) /\ ToSet(<<>>) = {}
    BY EmptyFacts
  <2>4. QED
    BY <1>2, <1>3, <1>5, <1>6, <2>1, <2>2, <2>3 DEF Whereabouts, Apart
<1>9. Stage' /\ Replays' /\ ExhaustedIsAboutAspects'
  <2>1. Stage'
    BY <1>2, <1>3, <1>6 DEF Stage
  <2>2. Replays'
    BY <1>2, <1>3, EmptyFacts DEF Replays
  <2>3. ExhaustedIsAboutAspects'
    BY <1>1, <1>2, <1>6 DEF ExhaustedIsAboutAspects
  <2>4. QED
    BY <2>1, <2>2, <2>3
<1>10. QED
  BY <1>7, <1>8, <1>9 DEF Base

(* The drafts that are replayed, and those that are not.                   *)
LEMMA EndPassKeeps ==
  ASSUME Base, EndPass
  PROVE  /\ Base'
         /\ \A d \in Drafts : /\ out'[d] = out[d] \/ (out[d].verdict = "open" /\ out'[d].verdict = "exhausted")
                              /\ draft'[d].stale = draft[d].stale
<1> DEFINE able == {d \in Drafts : draft[d].attempts < MAX_CREATE_ATTEMPTS}
           again == Only(retry, able)
           lost == ToSet(retry) \ ToSet(again)
<1>1. /\ Types /\ Whereabouts /\ Stage /\ Replays /\ ExhaustedIsAboutAspects
  BY DEF Base
<1>2. /\ stage = "over" /\ retry' = <<>>
      /\ out' = [d \in Drafts |-> IF d \in lost THEN [verdict |-> "exhausted", listing |-> 0] ELSE out[d]]
      /\ IF again = <<>> THEN stage' = "next" /\ pass' = <<>> /\ UNCHANGED draft ELSE Start(again)
      /\ UNCHANGED <<site, fresh, todo, entries, pos, next>>
  BY DEF EndPass, ebay
<1>3. /\ pos = 0 /\ entries = <<>> /\ next = <<>> /\ pass = <<>>
  BY <1>1, <1>2 DEF Stage
<1>4. retry \in Seq(Drafts) /\ IsInjective(retry) /\ draft \in [Drafts -> State] /\ out \in [Drafts -> Outcome]
  BY <1>1 DEF Types, Whereabouts, Apart
<1>5. again \in Seq(Drafts) /\ ToSet(again) = ToSet(retry) \cap able /\ IsInjective(again)
  BY <1>4, OnlyFacts
<1>6. ToSet(retry) \subseteq Drafts
  BY <1>4 DEF ToSet
<1>7. \A d \in lost : draft[d].last \in Aspects
  BY <1>1, <1>5, <1>6 DEF Replays
<1> HIDE DEF able, again
<1>8. /\ pass' = again /\ stage' \in {"next", "item"} /\ (stage' = "next" => again = <<>>)
      /\ draft' \in [Drafts -> State]
      /\ \A d \in Drafts : draft'[d].last = draft[d].last /\ draft'[d].stale = draft[d].stale
  <2>1. CASE again = <<>>
    BY <1>2, <1>4, <2>1
  <2>2. CASE again # <<>>
    BY <1>2, <1>4, <2>2, StartFacts
  <2>3. QED
    BY <2>1, <2>2
<1>9. /\ out' \in [Drafts -> Outcome]
      /\ \A d \in Drafts : d \in lost => out'[d].verdict = "exhausted"
      /\ \A d \in Drafts : d \notin lost => out'[d] = out[d]
  <2>1. [verdict |-> "exhausted", listing |-> 0] \in Outcome
    BY DEF Outcome, Named
  <2> HIDE DEF lost
  <2>2. out' \in [Drafts -> Outcome]
    BY <1>2, <1>4, <2>1
  <2>3. QED
    BY <1>2, <2>2
<1>10. Open = ToSet(todo) \cup ToSet(retry)
  <2>1. Unread = Left(<<>>, 0)
    BY <1>3 DEF Unread
  <2>2. QED
    BY <1>1, <1>3, <2>1, EmptyFacts DEF Whereabouts
<1>11. Types'
  BY <1>1, <1>2, <1>5, <1>8, <1>9, EmptyFacts DEF Types, Stages
<1>12. Whereabouts'
  <2>1. Unread' = ToSet(again)
    <3>1. Unread' = Left(again, 0)
      BY <1>2, <1>3, <1>8 DEF Unread
    <3>2. QED
      BY <1>5, <3>1, AllLeft
  <2>2. Open' = Open \ lost
    <3>1. \A d \in Drafts : d \in Open' <=> d \in Open /\ d \notin lost
      BY <1>9 DEF Open
    <3>2. Open' \subseteq Drafts /\ Open \subseteq Drafts
      BY DEF Open
    <3>3. QED
      BY <3>1, <3>2
  <2>3. ToSet(todo) \cap ToSet(retry) = {} /\ IsInjective(todo)
    BY <1>1 DEF Whereabouts, Apart
  <2>4. Open' = ToSet(todo) \cup ToSet(again)
    BY <1>5, <1>10, <2>2, <2>3
  <2>5. IsInjective(<<>>) /\ ToSet(<<>>) = {}
    BY EmptyFacts
  <2>6. QED
    BY <1>2, <1>3, <1>5, <1>8, <2>1, <2>3, <2>4, <2>5 DEF Whereabouts, Apart
<1>13. Stage'
  BY <1>2, <1>3, <1>8 DEF Stage
<1>14. Replays'
  BY <1>2, EmptyFacts DEF Replays
<1>15. ExhaustedIsAboutAspects'
  BY <1>1, <1>7, <1>8, <1>9 DEF ExhaustedIsAboutAspects
<1>16. ASSUME NEW d \in Drafts
       PROVE  out'[d] = out[d] \/ (out[d].verdict = "open" /\ out'[d].verdict = "exhausted")
  <2>1. d \in lost => d \in Open
    BY <1>10
  <2>2. QED
    BY <1>9, <2>1 DEF Open
<1>17. QED
  BY <1>8, <1>11, <1>12, <1>13, <1>14, <1>15, <1>16 DEF Base

LEMMA EndStageKeeps ==
  ASSUME Base, EndStage PROVE Base' /\ Unread' = ToSet(next)
<1>1. /\ Types /\ Whereabouts /\ Stage /\ Replays /\ ExhaustedIsAboutAspects
  BY DEF Base
<1>2. /\ stage \in {"item", "offer", "publish"} /\ pos = Len(pass) + 1
      /\ stage' = (IF next = <<>> THEN "over" ELSE IF stage = "item" THEN "offer" ELSE "publish")
      /\ pass' = next /\ next' = <<>> /\ entries' = <<>> /\ pos' = 0
      /\ UNCHANGED <<site, fresh, todo, retry, draft, out>>
  BY DEF EndStage, ebay
<1>3. pass \in Seq(Drafts) /\ next \in Seq(Drafts) /\ pos \in Nat
  BY <1>1 DEF Types
<1>4. Unread = {} /\ Unread' = ToSet(next)
  <2>1. Unread = Left(pass, pos) /\ Unread' = Left(next, 0)
    BY <1>2 DEF Unread
  <2>2. QED
    BY <1>2, <1>3, <2>1, LeftFacts, AllLeft
<1>5. Types'
  BY <1>1, <1>2, EmptyFacts DEF Types, Stages
<1>6. Whereabouts'
  <2>1. Open' = Open
    BY <1>2 DEF Open
  <2>2. QED
    BY <1>1, <1>2, <1>4, <2>1, EmptyFacts DEF Whereabouts, Apart
<1>7. Stage'
  <2>1. stage' \in {"over", "offer", "publish"} /\ (stage' = "over" => next = <<>>)
    BY <1>2
  <2>2. DOMAIN entries' = {}
    BY <1>2
  <2>3. QED
    BY <1>2, <2>1, <2>2 DEF Stage
<1>8. Replays' /\ ExhaustedIsAboutAspects'
  BY <1>1, <1>2 DEF Replays, ExhaustedIsAboutAspects
<1>9. QED
  BY <1>4, <1>5, <1>6, <1>7, <1>8 DEF Base

LEMMA ReturnKeeps ==
  ASSUME Base, Return PROVE Base' /\ Open = {}
<1>1. /\ Types /\ Whereabouts /\ Stage /\ Replays /\ ExhaustedIsAboutAspects
  BY DEF Base
<1>2. /\ stage = "next" /\ todo = <<>> /\ stage' = "returned"
      /\ UNCHANGED <<site, fresh, todo, pass, entries, pos, next, retry, draft, out>>
  BY DEF Return, ebay
<1>3. pass = <<>> /\ next = <<>> /\ retry = <<>> /\ pos = 0 /\ entries = <<>>
  BY <1>1, <1>2 DEF Stage
<1>4. Types'
  BY <1>1, <1>2 DEF Types, Stages
<1>5. Whereabouts'
  BY <1>1, <1>2 DEF Whereabouts, Apart, Open, Unread
<1>6. Stage' /\ Replays' /\ ExhaustedIsAboutAspects'
  BY <1>1, <1>2, <1>3 DEF Stage, Replays, ExhaustedIsAboutAspects
<1>7. Open = {}
  <2>1. Unread = Left(<<>>, 0)
    BY <1>3 DEF Unread
  <2>2. QED
    BY <1>1, <1>2, <1>3, <2>1, EmptyFacts DEF Whereabouts
<1>8. QED
  BY <1>4, <1>5, <1>6, <1>7 DEF Base

(* What eBay does with the entries that reach it.                          *)
LEMMA ApplyFacts ==
  ASSUME Types, stage \in {"item", "offer", "publish"}, NEW ids, NEW answer,
         NEW s \in [Drafts -> {"none", "made", "live"}], Apply(ids, answer, s)
  PROVE  /\ site' = s /\ fresh \subseteq fresh' /\ fresh' \in SUBSET Drafts
         /\ \A i \in Drafts \ ids : site'[i] = site[i]
         /\ \A i \in Drafts : site[i] # "none" => site'[i] # "none"
         /\ \A i \in fresh' \ fresh : site'[i] = "made"
         /\ \A i \in Drafts \cap ids :
              /\ stage = "offer" /\ answer[i] = "done" => i \in fresh'
              /\ stage = "offer" /\ answer[i] = "exists" => site'[i] # "none"
              /\ stage = "publish" /\ answer[i] = "done" => site'[i] = "live"
<1>1. /\ site' = s /\ fresh' = fresh \cup {i \in Drafts : site[i] = "none" /\ s[i] = "made"}
      /\ \A i \in Drafts : s[i] \in IF i \in ids THEN After(i, answer[i]) ELSE {site[i]}
  BY DEF Apply
<1>2. fresh \in SUBSET Drafts /\ site \in [Drafts -> {"none", "made", "live"}]
  BY DEF Types
<1>3. ASSUME NEW i \in Drafts \cap ids
      PROVE  /\ site[i] # "none" => s[i] # "none"
             /\ stage = "offer" /\ answer[i] = "done" => site[i] = "none" /\ s[i] = "made"
             /\ stage = "offer" /\ answer[i] = "exists" => s[i] # "none"
             /\ stage = "publish" /\ answer[i] = "done" => s[i] = "live"
  <2>1. s[i] \in After(i, answer[i])
    BY <1>1
  <2>2. CASE stage = "item"
    BY <2>1, <2>2 DEF After
  <2>3. CASE stage = "offer"
    BY <2>1, <2>3 DEF After
  <2>4. CASE stage = "publish"
    BY <2>1, <2>4 DEF After
  <2>5. QED
    BY <2>2, <2>3, <2>4
<1>4. \A i \in Drafts \ ids : s[i] = site[i]
  BY <1>1
<1>5. \A i \in Drafts : site[i] # "none" => s[i] # "none"
  BY <1>3, <1>4
<1>6. QED
  BY <1>1, <1>2, <1>3, <1>4, <1>5

LEMMA PostBulkKeeps ==
  ASSUME Base, PostBulk PROVE Base' /\ Unread' = Unread /\ Unread = ToSet(pass)
<1>1. /\ Types /\ Whereabouts /\ Stage /\ Replays /\ ExhaustedIsAboutAspects
  BY DEF Base
<1>2. /\ stage \in {"item", "offer", "publish"} /\ pos = 0 /\ pos' = 1
      /\ UNCHANGED <<todo, pass, stage, next, retry, draft, out>>
  BY DEF PostBulk, Sending
<1>3. PICK answer \in [ToSet(Ids) -> Kinds], s \in [Drafts -> {"none", "made", "live"}],
           given \in IF Complete THEN {ToSet(Ids)} ELSE SUBSET ToSet(Ids) :
        /\ Apply(ToSet(Ids), answer, s)
        /\ entries' = [k \in DOMAIN Only(Ids, given) |->
                         [of |-> Only(Ids, given)[k], says |-> answer[Only(Ids, given)[k]]]]
  BY DEF PostBulk
<1>4. pass \in Seq(Drafts) /\ draft \in [Drafts -> State] /\ next = <<>>
  BY <1>1, <1>2 DEF Types, Stage
<1>5. Ids \in Seq(Named) /\ (stage # "publish" => Ids = pass)
  <2>1. CASE stage = "publish"
    <3>1. \A k \in DOMAIN pass : draft[pass[k]].offer \in Named
      BY <1>4 DEF State
    <3>2. DOMAIN pass = 1..Len(pass) /\ Len(pass) \in Nat
      BY <1>4
    <3>3. [k \in 1..Len(pass) |-> draft[pass[k]].offer] \in Seq(Named)
      BY <3>1, <3>2
    <3>4. QED
      BY <2>1, <3>2, <3>3 DEF Ids
  <2>2. CASE stage # "publish"
    BY <1>4, <2>2 DEF Ids, Named
  <2>3. QED
    BY <2>1, <2>2
<1> DEFINE kept == Only(Ids, given)
<1>6. kept \in Seq(Named) /\ ToSet(kept) = ToSet(Ids) \cap given
  BY <1>5, OnlyFacts
<1> HIDE DEF kept
<1>7. entries' = [k \in DOMAIN kept |-> [of |-> kept[k], says |-> answer[kept[k]]]]
  BY <1>3 DEF kept
<1>8. DOMAIN kept = 1..Len(kept) /\ Len(kept) \in Nat /\ \A k \in DOMAIN kept : kept[k] \in Named
  BY <1>6
<1>9. \A k \in DOMAIN kept : kept[k] \in ToSet(Ids) /\ answer[kept[k]] \in Says
  <2>1. ASSUME NEW k \in DOMAIN kept PROVE kept[k] \in ToSet(Ids)
    BY <1>6 DEF ToSet
  <2>2. Kinds \subseteq Says
    BY <1>2 DEF Kinds, Says
  <2>3. QED
    BY <1>3, <2>1, <2>2
<1>10. entries' \in Seq(EntryOf) /\ DOMAIN entries' = DOMAIN kept
       /\ \A k \in DOMAIN kept : entries'[k].of = kept[k]
  <2>1. \A k \in DOMAIN kept : [of |-> kept[k], says |-> answer[kept[k]]] \in EntryOf
    BY <1>8, <1>9 DEF EntryOf
  <2>2. QED
    BY <1>7, <1>8, <2>1
<1>11. site' = s /\ fresh' \in SUBSET Drafts
  BY <1>1, <1>2, <1>3, ApplyFacts
<1>12. Types'
  BY <1>1, <1>2, <1>10, <1>11 DEF Types
<1>13. Unread' = Unread /\ Unread = ToSet(pass)
  <2>1. Unread = Left(pass, 0) /\ Unread' = Left(pass, 1)
    BY <1>2 DEF Unread
  <2>2. QED
    BY <1>4, <2>1, AllLeft
<1>14. Whereabouts'
  BY <1>1, <1>2, <1>13 DEF Whereabouts, Apart, Open
<1>15. Stage'
  <2>1. ASSUME stage \in {"item", "offer"}, NEW k \in DOMAIN kept PROVE kept[k] \in Drafts
    <3>1. kept[k] \in ToSet(pass)
      BY <1>5, <1>9, <2>1
    <3>2. QED
      BY <1>4, <3>1 DEF ToSet
  <2>2. QED
    BY <1>2, <1>4, <1>10, <2>1 DEF Stage
<1>16. Replays' /\ ExhaustedIsAboutAspects'
  BY <1>1, <1>2 DEF Replays, ExhaustedIsAboutAspects
<1>17. QED
  BY <1>12, <1>13, <1>14, <1>15, <1>16 DEF Base

LEMMA PostThrowsKeeps ==
  ASSUME Base, PostThrows PROVE Base' /\ Unread' = Unread
<1>1. /\ Types /\ Whereabouts /\ Stage /\ Replays /\ ExhaustedIsAboutAspects
  BY DEF Base
<1>2. /\ stage \in {"item", "offer", "publish"} /\ pos = 0 /\ stage' = "thrown"
      /\ UNCHANGED <<todo, pass, entries, pos, next, retry, draft, out>>
  BY DEF PostThrows, Sending
<1>3. PICK answer \in [ToSet(Ids) -> Kinds], s \in [Drafts -> {"none", "made", "live"}],
           reached \in SUBSET ToSet(Ids) : Apply(reached, answer, s)
  BY DEF PostThrows
<1>4. site' = s /\ fresh' \in SUBSET Drafts
  BY <1>1, <1>2, <1>3, ApplyFacts
<1>5. Types'
  BY <1>1, <1>2, <1>4 DEF Types, Stages
<1>6. Unread' = Unread
  BY <1>2 DEF Unread
<1>7. Whereabouts'
  BY <1>1, <1>2, <1>6 DEF Whereabouts, Apart, Open
<1>8. Stage' /\ Replays' /\ ExhaustedIsAboutAspects'
  BY <1>1, <1>2 DEF Stage, Replays, ExhaustedIsAboutAspects
<1>9. QED
  BY <1>5, <1>6, <1>7, <1>8 DEF Base

LEMMA BaseStutter ==
  ASSUME Base, UNCHANGED vars PROVE Base'
<1>1. UNCHANGED <<site, fresh, todo, pass, stage, entries, pos, next, retry, draft, out>>
  BY DEF vars, ebay
<1>2. Types' /\ Whereabouts' /\ Stage' /\ Replays' /\ ExhaustedIsAboutAspects'
  BY <1>1 DEF Base, Types, Whereabouts, Apart, Open, Unread, Stage, Replays, ExhaustedIsAboutAspects
<1>3. QED
  BY <1>2 DEF Base

LEMMA BaseStep ==
  ASSUME Base, [Next]_vars PROVE Base'
<1>1. CASE ReadItem \/ ReadOffer \/ ReadPublish
  BY <1>1, ReadFacts, ReadKeeps
<1>2. QED
  BY <1>1, NextBatchKeeps, EndPassKeeps, ReturnKeeps, PostBulkKeeps, PostThrowsKeeps, EndStageKeeps,
     BaseStutter, Zenon DEF Next

(* ExhaustedIsAboutAspects, whatever eBay answers: "publish exhausted" is  *)
(* said of a draft only when eBay's last word was a missing item specific  *)
(* (retriesSystemError).                                                   *)
THEOREM ExhaustedMeansAspects == Spec => []ExhaustedIsAboutAspects
<1>1. Base => ExhaustedIsAboutAspects
  BY DEF Base
<1>2. QED
  BY <1>1, BaseInit, BaseStep, PTL DEF Spec

(* Type correctness of the call, entries left out or not.                  *)
THEOREM BulkTypeCorrect == Spec => []Types
<1>1. Base => Types
  BY DEF Base
<1>2. QED
  BY <1>1, BaseInit, BaseStep, PTL DEF Spec

(* No draft is lost or worked on twice: one without a verdict is to come,  *)
(* unread, gone on or to replay, in exactly one of these, once; one that   *)
(* was told is in none (createListings, runCreateStages).                  *)
THEOREM EveryDraftHasItsPlace == Spec => []Whereabouts
<1>1. Base => Whereabouts
  BY DEF Base
<1>2. QED
  BY <1>1, BaseInit, BaseStep, PTL DEF Spec

(***************************************************************************)
(* What the call says is true, with every entry answered.                  *)
(***************************************************************************)
LEMMA OwnIds ==
  ASSUME Base, Truth, stage \in {"item", "offer", "publish"}, pos = 0
  PROVE  Ids = pass
<1>1. pass \in Seq(Drafts) /\ Unread = ToSet(pass)
  <2>1. pass \in Seq(Drafts) /\ Unread = Left(pass, 0)
    BY DEF Base, Types, Unread
  <2>2. QED
    BY <2>1, AllLeft
<1>2. CASE stage = "publish"
  <2>1. \A k \in DOMAIN pass : draft[pass[k]].offer = pass[k]
    BY <1>1, <1>2 DEF Truth, Ready, ToSet
  <2>2. pass = [k \in DOMAIN pass |-> pass[k]]
    BY <1>1
  <2>3. QED
    BY <1>2, <2>1, <2>2 DEF Ids
<1>3. CASE stage # "publish"
  BY <1>3 DEF Ids
<1>4. QED
  BY <1>2, <1>3

(* The entry that is read is the draft's own.                              *)
LEMMA OwnEntry ==
  ASSUME Base, Truth, stage \in {"item", "offer", "publish"}, pos \in DOMAIN pass
  PROVE  /\ pos \in Nat /\ pos > 0 /\ Entry = entries[pos] /\ Entry.of = At /\ Answered(pos)
         /\ stage = "publish" => Ready(At)
<1>1. /\ pass \in Seq(Drafts) /\ IsInjective(pass) /\ pos \in Nat /\ pos > 0
      /\ At \in Unread
  <2>1. Types /\ Whereabouts /\ pass \in Seq(Drafts) /\ IsInjective(pass)
    BY DEF Base, Types, Whereabouts, Apart
  <2>2. QED
    BY <2>1, AtFacts
<1>2. /\ DOMAIN entries = DOMAIN pass /\ \A k \in DOMAIN pass : Answered(k)
      /\ stage = "publish" => Ready(At)
  BY <1>1 DEF Truth
<1>3. \A k \in DOMAIN entries : entries[k].of = pass[k]
  BY <1>2 DEF Answered
<1>4. Ids[pos] = At
  BY <1>2 DEF Ids, Ready, At
<1>5. \A k \in DOMAIN entries : entries[k].of = Ids[pos] => k = pos
  <2>1. \A k \in DOMAIN pass : pass[k] = pass[pos] => k = pos
    BY <1>1 DEF IsInjective
  <2>2. QED
    BY <1>2, <1>3, <1>4, <2>1 DEF At
<1>6. pos \in DOMAIN entries /\ entries[pos].of = Ids[pos]
  BY <1>2, <1>3, <1>4 DEF At
<1>7. (CHOOSE k \in DOMAIN entries : entries[k].of = Ids[pos]) = pos
  BY <1>5, <1>6
<1>8. Entry = entries[pos]
  BY <1>6, <1>7 DEF Entry
<1>9. QED
  BY <1>1, <1>2, <1>4, <1>6, <1>8

(* A read keeps what is said true, when the draft it read of goes on only  *)
(* with its offer, and is told ok only at this call's price.               *)
LEMMA TrueRead ==
  ASSUME Base, Truth, OkIsCurrent, ReadItem \/ ReadOffer \/ ReadPublish,
         \A d \in Drafts \ {At} : site'[d] = site[d] /\ (d \in fresh => d \in fresh'),
         \A d \in fresh' : site'[d] # "none",
         stage = "offer" /\ GoesOn => draft'[At].offer = At /\ (At \in fresh' \/ draft'[At].stale),
         out'[At].verdict = "ok" => At \in fresh' \/ draft'[At].stale
  PROVE  Truth' /\ OkIsCurrent'
<1>1. /\ stage \in {"item", "offer", "publish"} /\ pos \in DOMAIN pass /\ Told
      /\ UNCHANGED <<todo, pass, stage, entries>> /\ pos' = pos + 1
      /\ \A d \in Drafts \ {At} : draft'[d] = draft[d]
  BY ReadFacts
<1>2. Types /\ Whereabouts /\ pass \in Seq(Drafts) /\ IsInjective(pass) /\ next \in Seq(Drafts) /\ pos \in Nat
  BY DEF Base, Types, Whereabouts, Apart
<1>3. /\ At \in Drafts /\ At \notin ToSet(next) /\ Unread' = Unread \ {At}
  <2>1. Unread' = Left(pass, pos + 1)
    BY <1>1 DEF Unread
  <2>2. QED
    BY <1>1, <1>2, <2>1, AtFacts
<1>4. /\ \A d \in Drafts \ {At} : out'[d] = out[d]
      /\ ToSet(next') \subseteq ToSet(next) \cup {At}
  BY <1>1, <1>2, ToldFacts
<1>5. \A d \in Drafts \ {At} : Ready(d) => draft'[d].offer = d /\ (d \in fresh' \/ draft'[d].stale)
  BY <1>1 DEF Ready
<1>6. pos' > 0 => DOMAIN entries' = DOMAIN pass' /\ \A k \in DOMAIN pass' : Answered(k)'
  <2>1. pos > 0 /\ DOMAIN entries = DOMAIN pass /\ \A k \in DOMAIN pass : Answered(k)
    BY <1>1, <1>2 DEF Truth
  <2>2. ASSUME NEW k \in DOMAIN pass PROVE Answered(k)'
    <3>1. CASE pos + 1 <= k
      <4>1. pos <= k /\ k # pos
        BY <1>1, <1>2, <3>1
      <4>2. pass[k] \in Drafts \ {At}
        BY <1>1, <1>2, <4>1 DEF At, IsInjective
      <4>3. QED
        BY <1>1, <2>1, <4>1, <4>2 DEF Answered
    <3>2. CASE ~(pos + 1 <= k)
      BY <1>1, <2>1, <3>2 DEF Answered
    <3>3. QED
      BY <3>1, <3>2
  <2>3. QED
    BY <1>1, <2>1, <2>2
<1>7. ASSUME stage' = "offer", NEW d \in ToSet(next') PROVE Ready(d)'
  <2>1. CASE d = At
    <3>1. GoesOn
      BY <1>1, <1>3, <1>7, <2>1 DEF Told, Again, Settle
    <3>2. QED
      BY <1>1, <1>7, <2>1, <3>1 DEF Ready
  <2>2. CASE d # At
    <3>1. d \in ToSet(next) /\ d \in Drafts
      <4>1. d \in ToSet(next)
        BY <1>4, <1>7, <2>2
      <4>2. QED
        BY <1>2, <4>1 DEF ToSet
    <3>2. Ready(d)
      BY <1>1, <1>7, <3>1 DEF Truth
    <3>3. QED
      BY <1>5, <2>2, <3>1, <3>2 DEF Ready
  <2>3. QED
    BY <2>1, <2>2
<1>8. ASSUME stage' = "publish", NEW d \in Unread' PROVE Ready(d)'
  <2>1. d \in Unread /\ d # At
    BY <1>3, <1>8
  <2>2. d \in Drafts /\ Ready(d)
    <3>1. Unread \subseteq Drafts
      BY <1>2, LeftFacts DEF Unread
    <3>2. QED
      BY <1>1, <1>8, <2>1, <3>1 DEF Truth
  <2>3. QED
    BY <1>5, <2>1, <2>2 DEF Ready
<1>9. Truth'
  BY <1>6, <1>7, <1>8 DEF Truth
<1>10. OkIsCurrent'
  <2>1. ASSUME NEW d \in Drafts, out'[d].verdict = "ok" PROVE d \in fresh' \/ draft'[d].stale
    <3>1. CASE d = At
      BY <2>1, <3>1
    <3>2. CASE d # At
      BY <1>1, <1>4, <2>1, <3>2 DEF OkIsCurrent
    <3>3. QED
      BY <3>1, <3>2
  <2>2. QED
    BY <2>1 DEF OkIsCurrent
<1>11. QED
  BY <1>9, <1>10

LEMMA TrueItem ==
  ASSUME Base, Truth, OkIsCurrent, ReadItem PROVE Truth' /\ OkIsCurrent' /\ site' = site
<1>1. /\ stage = "item" /\ pos \in DOMAIN pass /\ UNCHANGED <<site, fresh>>
      /\ GoesOn \/ Again \/ Settle("failed", 0)
  BY DEF ReadItem, Reading, ebay
<1>2. At \in Drafts /\ out[At].verdict = "open" /\ out \in [Drafts -> Outcome]
  BY <1>1, AtFacts DEF Base, Types
<1>3. out'[At].verdict # "ok"
  BY <1>1, <1>2 DEF GoesOn, Again, Settle
<1>4. \A d \in fresh' : site'[d] # "none"
  BY <1>1 DEF Truth
<1>5. QED
  BY <1>1, <1>3, <1>4, TrueRead

LEMMA TrueOffer ==
  ASSUME Base, Truth, OkIsCurrent, ReadOffer PROVE Truth' /\ OkIsCurrent' /\ site' = site
<1>1. stage = "offer" /\ pos \in DOMAIN pass /\ site' = site
  BY DEF ReadOffer, Reading
<1>2. /\ At \in Drafts /\ out[At].verdict = "open" /\ out \in [Drafts -> Outcome]
      /\ draft \in [Drafts -> State] /\ draft[At] \in State /\ retry # Append(retry, At)
  BY <1>1, AtFacts DEF Base, Types
<1>3. /\ Entry.of = At
      /\ Entry.says = "done" => At \in fresh
      /\ Entry.says = "exists" => site[At] # "none"
  <2>1. pos \in Nat /\ Entry = entries[pos] /\ Entry.of = At /\ Answered(pos)
    BY <1>1, OwnEntry
  <2>2. QED
    BY <1>1, <2>1 DEF Answered, At
<1>4. \A d \in fresh : site[d] # "none"
  BY DEF Truth
<1>5. GoesOn \/ Again \/ Settle("failed", 0)
  BY DEF ReadOffer
<1>6. out'[At].verdict # "ok"
  BY <1>2, <1>5 DEF GoesOn, Again, Settle
<1>7. CASE Entry.says = "done"
  <2>1. fresh' = fresh /\ draft' = [draft EXCEPT ![At] = [[draft[At] EXCEPT !.last = "done"] EXCEPT !.offer = Entry.of]]
    BY <1>2, <1>7 DEF ReadOffer
  <2>2. draft'[At].offer = At
    BY <1>2, <1>3, <2>1 DEF State
  <2>3. QED
    BY <1>1, <1>3, <1>4, <1>6, <1>7, <2>1, <2>2, TrueRead
<1>8. CASE Entry.says = "exists"
  <2>1. RefreshOffer
    BY <1>8 DEF ReadOffer
  <2>2. PICK b \in BOOLEAN :
          /\ draft' = [draft EXCEPT ![At] =
               [[[draft[At] EXCEPT !.last = Entry.says] EXCEPT !.offer = Entry.of] EXCEPT !.stale = b]]
          /\ fresh' = IF b THEN fresh ELSE fresh \cup {Entry.of}
    BY <1>2, <2>1 DEF RefreshOffer
  <2>3. draft'[At].offer = At /\ draft'[At].stale = b
    BY <1>2, <1>3, <2>2 DEF State
  <2>4. fresh \subseteq fresh' /\ (At \in fresh' \/ draft'[At].stale) /\ \A d \in fresh' : site'[d] # "none"
    BY <1>1, <1>3, <1>4, <1>8, <2>2, <2>3
  <2>5. QED
    BY <1>1, <1>6, <2>3, <2>4, TrueRead
<1>9. CASE Entry.says \notin {"done", "exists"}
  <2>1. fresh' = fresh /\ (Again \/ Settle("failed", 0))
    BY <1>9 DEF ReadOffer
  <2>2. ~GoesOn
    <3>1. next # Append(next, At)
      BY <1>2 DEF Base, Types
    <3>2. QED
      BY <2>1, <3>1 DEF Again, Settle, GoesOn
  <2>3. QED
    BY <1>1, <1>4, <1>6, <2>1, <2>2, TrueRead
<1>10. QED
  BY <1>7, <1>8, <1>9

LEMMA TruePublish ==
  ASSUME Base, Truth, OkIsCurrent, ReadPublish
  PROVE  /\ Truth' /\ OkIsCurrent'
         /\ At \in Drafts /\ \A d \in Drafts \ {At} : site'[d] = site[d]
         /\ out'[At].verdict = "ok" => site'[At] = "live"
<1>1. /\ stage = "publish" /\ pos \in DOMAIN pass /\ fresh' = {i \in fresh : site'[i] # "none"}
  BY DEF ReadPublish, Reading
<1>2. /\ At \in Drafts /\ out[At].verdict = "open" /\ out \in [Drafts -> Outcome]
      /\ draft \in [Drafts -> State] /\ draft[At] \in State /\ fresh \in SUBSET Drafts
      /\ site \in [Drafts -> {"none", "made", "live"}]
  BY <1>1, AtFacts DEF Base, Types
<1>3. /\ Ready(At)
      /\ Entry.says = "done" => site[At] = "live"
  <2>1. pos \in Nat /\ Entry = entries[pos] /\ Answered(pos) /\ Ready(At)
    BY <1>1, OwnEntry
  <2>2. QED
    BY <1>1, <2>1 DEF Answered, At
<1>4. site' = site \/ site' = [site EXCEPT ![At] = "none"]
  <2>1. site' = site \/ site' = [site EXCEPT ![draft[At].offer] = "none"]
    BY DEF ReadPublish
  <2>2. QED
    BY <1>3, <2>1 DEF Ready
<1>5. \A d \in Drafts \ {At} : site'[d] = site[d]
  BY <1>2, <1>4
<1>6. \A d \in fresh : site[d] # "none"
  BY DEF Truth
<1>7. /\ \A d \in Drafts \ {At} : d \in fresh => d \in fresh'
      /\ \A d \in fresh' : site'[d] # "none"
  BY <1>1, <1>2, <1>5, <1>6
<1>8. out'[At].verdict = "ok" =>
        /\ Entry.says = "done" /\ site' = site
        /\ draft' = [draft EXCEPT ![At] = [draft[At] EXCEPT !.last = "done"]]
  <2>1. \/ /\ Entry.says = "done" /\ site' = site
           /\ draft' = [draft EXCEPT ![At] = [draft[At] EXCEPT !.last = "done"]]
        \/ Again \/ Settle("failed", 0)
    BY <1>2 DEF ReadPublish
  <2>2. Again \/ Settle("failed", 0) => out'[At].verdict # "ok"
    BY <1>2 DEF Again, Settle
  <2>3. QED
    BY <2>1, <2>2
<1>9. out'[At].verdict = "ok" => (At \in fresh' \/ draft'[At].stale) /\ site'[At] = "live"
  <2> SUFFICES ASSUME out'[At].verdict = "ok"
               PROVE  (At \in fresh' \/ draft'[At].stale) /\ site'[At] = "live"
    OBVIOUS
  <2>1. /\ Entry.says = "done" /\ site' = site
        /\ draft' = [draft EXCEPT ![At] = [draft[At] EXCEPT !.last = "done"]]
    BY <1>8
  <2>2. draft'[At].stale = draft[At].stale
    BY <1>2, <2>1 DEF State
  <2>3. site'[At] = "live"
    BY <1>3, <2>1
  <2>4. At \in fresh => At \in fresh'
    BY <1>1, <2>3
  <2>5. QED
    BY <1>3, <2>2, <2>3, <2>4 DEF Ready
<1>10. QED
  BY <1>1, <1>2, <1>5, <1>7, <1>9, TrueRead

LEMMA TruePost ==
  ASSUME Base, Truth, OkIsCurrent, Complete, PostBulk
  PROVE  Truth' /\ OkIsCurrent' /\ \A d \in Drafts \ Unread : site'[d] = site[d]
<1>1. /\ stage \in {"item", "offer", "publish"} /\ pos = 0 /\ pos' = 1
      /\ UNCHANGED <<todo, pass, stage, next, retry, draft, out>>
  BY DEF PostBulk, Sending
<1>2. Types /\ Stage /\ pass \in Seq(Drafts)
  BY DEF Base, Types
<1>3. Ids = pass
  BY <1>1, OwnIds
<1>4. Unread' = Unread /\ Unread = ToSet(pass)
  BY PostBulkKeeps
<1>5. PICK answer \in [ToSet(Ids) -> Kinds], s \in [Drafts -> {"none", "made", "live"}],
           given \in IF Complete THEN {ToSet(Ids)} ELSE SUBSET ToSet(Ids) :
        /\ Apply(ToSet(Ids), answer, s)
        /\ entries' = [k \in DOMAIN Only(Ids, given) |->
                         [of |-> Only(Ids, given)[k], says |-> answer[Only(Ids, given)[k]]]]
  BY DEF PostBulk
<1>6. entries' = [k \in DOMAIN pass |-> [of |-> pass[k], says |-> answer[pass[k]]]]
  <2>1. given = ToSet(pass)
    BY <1>3, <1>5
  <2>2. Only(pass, ToSet(pass)) = pass
    BY <1>2, OnlyAll
  <2>3. QED
    BY <1>3, <1>5, <2>1, <2>2
<1>7. /\ fresh \subseteq fresh'
      /\ \A i \in Drafts \ ToSet(pass) : site'[i] = site[i]
      /\ \A i \in Drafts : site[i] # "none" => site'[i] # "none"
      /\ \A i \in fresh' \ fresh : site'[i] = "made"
      /\ \A i \in Drafts \cap ToSet(pass) :
           /\ stage = "offer" /\ answer[i] = "done" => i \in fresh'
           /\ stage = "offer" /\ answer[i] = "exists" => site'[i] # "none"
           /\ stage = "publish" /\ answer[i] = "done" => site'[i] = "live"
  BY <1>1, <1>2, <1>3, <1>5, ApplyFacts
<1>8. \A d \in fresh' : site'[d] # "none"
  <2>1. fresh \subseteq Drafts
    BY <1>2 DEF Types
  <2>2. QED
    BY <1>7, <2>1 DEF Truth
<1>9. ASSUME NEW k \in DOMAIN pass PROVE Answered(k)'
  <2>1. pass[k] \in Drafts \cap ToSet(pass)
    BY <1>2, <1>9 DEF ToSet
  <2>2. entries'[k].of = pass[k] /\ entries'[k].says = answer[pass[k]]
    BY <1>6, <1>9
  <2>3. QED
    BY <1>1, <1>7, <2>1, <2>2 DEF Answered
<1>10. DOMAIN entries' = DOMAIN pass
  BY <1>6
<1>11. stage' = "offer" => next' = <<>>
  BY <1>1, <1>2 DEF Stage
<1>12. ASSUME stage' = "publish", NEW d \in Unread' PROVE Ready(d)'
  BY <1>1, <1>4, <1>7, <1>12 DEF Truth, Ready
<1>13. Truth'
  BY <1>1, <1>8, <1>9, <1>10, <1>11, <1>12, EmptyFacts DEF Truth
<1>14. OkIsCurrent'
  BY <1>1, <1>7 DEF OkIsCurrent
<1>15. QED
  BY <1>4, <1>7, <1>13, <1>14

LEMMA TrueThrow ==
  ASSUME Base, Truth, OkIsCurrent, PostThrows
  PROVE  Truth' /\ OkIsCurrent' /\ \A d \in Drafts \ Unread : site'[d] = site[d]
<1>1. /\ stage \in {"item", "offer", "publish"} /\ pos = 0 /\ stage' = "thrown"
      /\ UNCHANGED <<todo, pass, entries, pos, next, retry, draft, out>>
  BY DEF PostThrows, Sending
<1>2. Types /\ pass \in Seq(Drafts) /\ Ids = pass
  BY <1>1, OwnIds DEF Base, Types
<1>3. Unread = ToSet(pass)
  <2>1. Unread = Left(pass, 0)
    BY <1>1 DEF Unread
  <2>2. QED
    BY <1>2, <2>1, AllLeft
<1>4. PICK answer \in [ToSet(Ids) -> Kinds], s \in [Drafts -> {"none", "made", "live"}],
           reached \in SUBSET ToSet(Ids) : Apply(reached, answer, s)
  BY DEF PostThrows
<1>5. /\ fresh \subseteq fresh'
      /\ \A i \in Drafts \ reached : site'[i] = site[i]
      /\ \A i \in Drafts : site[i] # "none" => site'[i] # "none"
      /\ \A i \in fresh' \ fresh : site'[i] = "made"
  BY <1>1, <1>2, <1>4, ApplyFacts
<1>6. \A d \in fresh' : site'[d] # "none"
  <2>1. fresh \subseteq Drafts
    BY <1>2 DEF Types
  <2>2. QED
    BY <1>5, <2>1 DEF Truth
<1>7. Truth'
  BY <1>1, <1>6 DEF Truth
<1>8. OkIsCurrent'
  BY <1>1, <1>5 DEF OkIsCurrent
<1>9. QED
  BY <1>2, <1>3, <1>4, <1>5, <1>7, <1>8

LEMMA TrueBetween ==
  ASSUME Base, Truth, OkIsCurrent, NextBatch \/ EndPass \/ Return \/ EndStage \/ UNCHANGED vars
  PROVE  Truth' /\ OkIsCurrent' /\ site' = site
<1>1. /\ Types /\ Stage /\ \A d \in fresh : site[d] # "none"
  BY DEF Base, Truth
<1>2. CASE NextBatch
  <2>1. /\ stage' = "item" /\ UNCHANGED <<site, fresh, entries, pos, next, out>> /\ stage = "next"
        /\ \A d \in Drafts : draft'[d].stale = draft[d].stale
    BY <1>1, <1>2, StartFacts DEF NextBatch, ebay, Types
  <2>2. pos = 0
    BY <1>1, <2>1 DEF Stage
  <2>3. Truth' /\ OkIsCurrent'
    BY <1>1, <2>1, <2>2 DEF Truth, OkIsCurrent
  <2>4. QED
    BY <2>1, <2>3
<1>3. CASE EndPass
  <2>1. /\ \A d \in Drafts : /\ out'[d] = out[d] \/ (out[d].verdict = "open" /\ out'[d].verdict = "exhausted")
                             /\ draft'[d].stale = draft[d].stale
        /\ UNCHANGED <<site, fresh, entries, pos, next>> /\ stage = "over"
    BY <1>3, EndPassKeeps DEF EndPass, ebay
  <2>2. pos = 0 /\ stage' \in {"next", "item"}
    <3>1. stage' = "next" \/ stage' = "item"
      BY <1>3 DEF EndPass, Start
    <3>2. QED
      BY <1>1, <2>1, <3>1 DEF Stage
  <2>3. Truth' /\ OkIsCurrent'
    BY <1>1, <2>1, <2>2 DEF Truth, OkIsCurrent
  <2>4. QED
    BY <2>1, <2>3
<1>4. CASE Return
  <2>1. /\ stage' = "returned" /\ UNCHANGED <<site, fresh, todo, pass, entries, pos, next, retry, draft, out>>
        /\ stage = "next"
    BY <1>4 DEF Return, ebay
  <2>2. pos = 0
    BY <1>1, <2>1 DEF Stage
  <2>3. QED
    BY <1>1, <2>1, <2>2 DEF Truth, OkIsCurrent
<1>5. CASE EndStage
  <2>1. /\ pos' = 0 /\ next' = <<>> /\ UNCHANGED <<site, fresh, draft, out>>
        /\ stage' = "publish" => stage \in {"offer", "publish"} /\ next # <<>>
    BY <1>5 DEF EndStage, ebay
  <2>2. Unread' = ToSet(next)
    BY <1>5, EndStageKeeps
  <2>3. ASSUME stage' = "publish", NEW d \in Unread' PROVE Ready(d)'
    <3>1. stage = "offer"
      BY <1>1, <2>1, <2>3 DEF Stage
    <3>2. Ready(d)
      BY <2>2, <2>3, <3>1 DEF Truth
    <3>3. QED
      BY <2>1, <3>2 DEF Ready
  <2>4. ToSet(next') = {}
    BY <2>1, EmptyFacts
  <2>5. Truth'
    BY <1>1, <2>1, <2>3, <2>4 DEF Truth
  <2>6. QED
    BY <2>1, <2>5 DEF OkIsCurrent
<1>6. CASE UNCHANGED vars
  BY <1>6 DEF vars, ebay, Truth, Answered, Ready, Unread, OkIsCurrent
<1>7. QED
  BY <1>2, <1>3, <1>4, <1>5, <1>6

LEMMA TrueStep ==
  ASSUME Base, Truth, OkIsCurrent, Complete, [Next]_vars PROVE Truth' /\ OkIsCurrent'
BY TrueBetween, TruePost, TrueThrow, TrueItem, TrueOffer, TruePublish, Zenon DEF Next

LEMMA BulkInvStep == ASSUME BulkInv, [Next]_vars PROVE BulkInv'
BY BaseStep, TrueStep, Zenon DEF BulkInv

LEMMA BulkInvInit == ASSUME Init PROVE BulkInv
<1>1. Base
  BY BaseInit
<1>2. Truth /\ OkIsCurrent
  BY DEF Init, Truth, OkIsCurrent
<1>3. QED
  BY <1>1, <1>2 DEF BulkInv

(* OkIsCurrent, when eBay answers every entry it was sent: a draft told ok *)
(* is listed at the price of this call, unless its old offer could not be  *)
(* refreshed (refreshOffer).                                               *)
THEOREM OkAtThisPrice == ASSUME Complete PROVE Spec => []OkIsCurrent
<1>1. BulkInv => OkIsCurrent
  BY DEF BulkInv
<1>2. QED
  BY <1>1, BulkInvInit, BulkInvStep, PTL DEF Spec

(***************************************************************************)
(* The caller's contract.                                                  *)
(***************************************************************************)
live == {d \in Drafts : site[d] = "live"}
told == [d \in Drafts |-> IF out[d].verdict \in {"open", "ok"} THEN out[d].verdict ELSE "failed"]
call == IF stage \in {"returned", "thrown"} THEN stage ELSE "running"

(* A step of the call that goes on: what was told stays, ok is told of a   *)
(* listing that is there, and the listings of those told are left alone.   *)
LEMMA Proceeds ==
  ASSUME Base, Base', call = "running", call' = "running",
         \A d \in Drafts : d \notin Open => out'[d] = out[d] /\ site'[d] = site[d],
         \A d \in Drafts : d \in Open /\ out'[d].verdict = "ok" => site'[d] = "live"
  PROVE  Contract!Next
<1>1. out \in [Drafts -> Outcome] /\ out' \in [Drafts -> Outcome] /\ site' \in [Drafts -> {"none", "made", "live"}]
  BY DEF Base, Types
<1>2. live' \subseteq Drafts /\ told' \in [Drafts -> {"open"} \cup {"ok", "failed"}]
  BY DEF live, told
<1>3. ASSUME NEW d \in Drafts
      PROVE  /\ told[d] # "open" => told'[d] = told[d] /\ (d \in live' <=> d \in live)
             /\ told[d] = "open" /\ told'[d] = "ok" => d \in live'
  <2>1. told[d] = "open" <=> d \in Open
    BY DEF told, Open
  <2>2. told'[d] = "ok" <=> out'[d].verdict = "ok"
    BY DEF told
  <2>3. CASE d \in Open
    BY <2>1, <2>2, <2>3 DEF live
  <2>4. CASE d \notin Open
    BY <2>1, <2>4 DEF live, told
  <2>5. QED
    BY <2>3, <2>4
<1>4. QED
  BY <1>2, <1>3 DEF Contract!Next, Contract!Proceed, Contract!Verdicts, live, told, call

LEMMA ContractStep ==
  ASSUME BulkInv, Complete, [Next]_vars PROVE [Contract!Next]_(Contract!bulk)
<1>1. Base /\ Truth /\ OkIsCurrent /\ Base'
  BY BaseStep DEF BulkInv
<1>2. Types /\ Whereabouts /\ Stage
  BY <1>1 DEF Base
<1>3. Unread \subseteq Open /\ Open = {d \in Drafts : out[d].verdict = "open"}
  BY <1>2 DEF Whereabouts, Open
<1>4. CASE NextBatch \/ EndStage \/ UNCHANGED vars
  <2>1. UNCHANGED <<site, out>>
    BY <1>4 DEF NextBatch, EndStage, vars, ebay
  <2>2. call' = call
    BY <1>4 DEF NextBatch, Start, EndStage, vars, call
  <2>3. QED
    BY <2>1, <2>2 DEF Contract!bulk, call
<1>5. CASE EndPass
  <2>1. /\ \A d \in Drafts : out'[d] = out[d] \/ (out[d].verdict = "open" /\ out'[d].verdict = "exhausted")
        /\ site' = site
    BY <1>1, <1>5, EndPassKeeps DEF EndPass, ebay
  <2>2. call = "running" /\ call' = "running"
    BY <1>5 DEF EndPass, Start, call
  <2>3. Contract!Next
    BY <1>1, <1>3, <2>1, <2>2, Proceeds
  <2>4. QED
    BY <2>3
<1>6. CASE Return
  <2>1. Open = {}
    BY <1>1, <1>6, ReturnKeeps
  <2>2. UNCHANGED <<site, out>> /\ stage = "next" /\ stage' = "returned"
    BY <1>6 DEF Return, ebay
  <2>3. \A d \in Drafts : told[d] # "open"
    BY <1>3, <2>1 DEF told
  <2>4. Contract!Return
    BY <2>2, <2>3 DEF Contract!Return, told
  <2>5. QED
    BY <2>4 DEF Contract!Next
<1>7. CASE PostBulk
  <2>1. \A d \in Drafts \ Unread : site'[d] = site[d]
    BY <1>1, <1>7, TruePost
  <2>2. out' = out /\ call = "running" /\ call' = "running"
    BY <1>7 DEF PostBulk, Sending, call
  <2>3. Contract!Next
    BY <1>1, <1>3, <2>1, <2>2, Proceeds
  <2>4. QED
    BY <2>3
<1>8. CASE PostThrows
  <2>1. \A d \in Drafts \ Unread : site'[d] = site[d]
    BY <1>1, <1>8, TrueThrow
  <2>2. out' = out /\ stage \in {"item", "offer", "publish"} /\ stage' = "thrown"
    BY <1>8 DEF PostThrows, Sending
  <2>3. \A d \in Drafts : told[d] # "open" => (site'[d] = "live" <=> site[d] = "live")
    BY <1>3, <2>1 DEF told
  <2>4. Contract!Throw
    BY <2>2, <2>3 DEF Contract!Throw, told
  <2>5. QED
    BY <2>4 DEF Contract!Next
<1>9. CASE ReadItem \/ ReadOffer \/ ReadPublish
  <2>1. /\ stage \in {"item", "offer", "publish"} /\ stage' = stage /\ pos \in DOMAIN pass /\ Told
        /\ UNCHANGED <<todo, pass>> /\ pos' = pos + 1
    BY <1>1, <1>9, ReadFacts
  <2>2. /\ At \in Drafts /\ At \in Open
        /\ \A d \in Drafts \ {At} : out'[d] = out[d]
    BY <1>2, <1>3, <2>1, AtFacts, ToldFacts
  <2>3. \A d \in Drafts \ {At} : site'[d] = site[d]
    BY <1>1, <1>9, TrueItem, TrueOffer, TruePublish
  <2>4. out'[At].verdict = "ok" => site'[At] = "live"
    <3>1. CASE ReadPublish
      BY <1>1, <3>1, TruePublish
    <3>2. CASE ReadItem \/ ReadOffer
      <4>1. GoesOn \/ Again \/ Settle("failed", 0)
        BY <3>2 DEF ReadItem, ReadOffer
      <4>2. out[At].verdict = "open" /\ out \in [Drafts -> Outcome]
        BY <1>2, <2>1, AtFacts DEF Types
      <4>3. QED
        BY <2>2, <4>1, <4>2 DEF GoesOn, Again, Settle
    <3>3. QED
      BY <1>9, <3>1, <3>2
  <2>5. call = "running" /\ call' = "running"
    BY <2>1 DEF call
  <2>6. Contract!Next
    <3>1. \A d \in Drafts : d \notin Open => out'[d] = out[d] /\ site'[d] = site[d]
      BY <2>2, <2>3
    <3>2. \A d \in Drafts : d \in Open /\ out'[d].verdict = "ok" => site'[d] = "live"
      BY <1>3, <2>2, <2>4
    <3>3. QED
      BY <1>1, <2>5, <3>1, <3>2, Proceeds
  <2>7. QED
    BY <2>6
<1>10. QED
  BY <1>4, <1>5, <1>6, <1>7, <1>8, <1>9, Zenon DEF Next

LEMMA ContractInit == ASSUME Init PROVE Contract!Init
BY DEF Init, Contract!Init

(* ImplementsBulkCall, when eBay answers every entry it was sent: every    *)
(* step of the call is one its caller allows (createListings).             *)
THEOREM KeepsTheContract == ASSUME Complete PROVE Spec => ImplementsBulkCall
<1>1. Spec => []BulkInv
  BY BulkInvInit, BulkInvStep, PTL DEF Spec
<1>2. BulkInv /\ [Next]_vars => [Contract!Next]_(Contract!bulk)
  BY ContractStep
<1>3. QED
  BY <1>1, <1>2, ContractInit, PTL DEF Spec, ImplementsBulkCall, Contract!Spec

=============================================================================
