------------------------ MODULE SpotifyHistoryProofs ------------------------
(***************************************************************************)
(* For any contexts, tracks, library, cap, window and number of crashes:   *)
(* the history is ordered and free of duplicates, remembers the latest     *)
(* time of every context it keeps, drops none that was played later than   *)
(* what it keeps, and is the file when the file was written.               *)
(*                                                                         *)
(* One merge is a loop and a sort.  The loop is a recursive function, which *)
(* exists and has what its body preserves by induction on the contexts     *)
(* (Climb, FoldExists); the sort is a permutation, as no two entries have  *)
(* the same place among as many places as entries (SortPermutes).          *)
(***************************************************************************)
EXTENDS SpotifyHistory, FiniteSetTheorems, WellFoundedInduction, TLAPS

-----------------------------------------------------------------------------
(* Induction up to a bound, and functions defined by it. *)

LEMMA LeastExists ==
  ASSUME NEW S \in SUBSET Nat, S # {}
  PROVE  \E e \in S : \A f \in S : e <= f
  <1> DEFINE R == {p \in Nat \X Nat : p[1] < p[2]}
  <1>1. IsWellFoundedOn(R, Nat)
    <2>1. R = OpToRel(<, Nat)
      BY Zenon DEF OpToRel
    <2> QED
      BY <2>1, NatLessThanWellFounded, Zenon
  <1> HIDE DEF R
  <1>2. PICK e \in S : \A f \in S : ~ (<<f, e>> \in R)
    BY <1>1, WFMin
  <1>3. ASSUME NEW f \in S PROVE e <= f
    <2>1. ~ (f < e)
      BY <1>2 DEF R
    <2> QED
      BY <2>1
  <1> QED
    BY <1>3

\* Induction on a set.
LEMMA Climb ==
  ASSUME NEW n \in Nat, NEW G, 0 \in G, \A i \in 1 .. n : i - 1 \in G => i \in G
  PROVE  \A i \in 0 .. n : i \in G
  <1> SUFFICES ASSUME NEW i \in 0 .. n, i \notin G PROVE FALSE
    OBVIOUS
  <1> DEFINE S == {k \in 0 .. n : k \notin G}
  <1>1. S \in SUBSET Nat /\ S # {}
    OBVIOUS
  <1>2. PICK e \in S : \A f \in S : e <= f
    BY <1>1, LeastExists
  <1>3. e \in 1 .. n
    BY <1>2
  <1>4. e - 1 \in G
    BY <1>2, <1>3
  <1> QED
    BY <1>2, <1>3, <1>4

\* The values of a loop that starts with base and makes n steps F.
IsFold(acc, S, n, F, base) ==
  /\ acc \in [0 .. n -> S]
  /\ acc[0] = base
  /\ \A i \in 1 .. n : acc[i] = F[<<acc[i - 1], i>>]

LEMMA FoldExists ==
  ASSUME NEW S, NEW n \in Nat, NEW F \in [S \X (1 .. n) -> S], NEW base \in S
  PROVE  \E acc : IsFold(acc, S, n, F, base)
  <1> DEFINE G == {m \in 0 .. n : \E acc : IsFold(acc, S, m, F, base)}
  <1>1. 0 \in G
    <2>1. IsFold([i \in 0 .. 0 |-> base], S, 0, F, base)
      BY DEF IsFold
    <2> QED
      BY <2>1
  <1>2. ASSUME NEW m \in 1 .. n, m - 1 \in G PROVE m \in G
    <2>1. PICK acc : IsFold(acc, S, m - 1, F, base)
      BY <1>2
    <2>2. PICK new : new = [i \in 0 .. m |-> IF i = m THEN F[<<acc[m - 1], m>>] ELSE acc[i]]
      OBVIOUS
    <2>3. acc[m - 1] \in S /\ F[<<acc[m - 1], m>>] \in S
      BY <2>1 DEF IsFold
    <2>4. \A i \in 0 .. m - 1 : new[i] = acc[i] /\ acc[i] \in S
      BY <2>1, <2>2 DEF IsFold
    <2>5. new[m] = F[<<new[m - 1], m>>]
      <3>1. new[m] = F[<<acc[m - 1], m>>]
        BY <2>2
      <3>2. m - 1 \in 0 .. m - 1
        OBVIOUS
      <3>3. new[m - 1] = acc[m - 1]
        BY <2>4, <3>2
      <3> QED
        BY <3>1, <3>3
    <2>6. \A i \in 1 .. m : new[i] = F[<<new[i - 1], i>>]
      <3> SUFFICES ASSUME NEW i \in 1 .. m - 1 PROVE new[i] = F[<<new[i - 1], i>>]
        BY <2>5
      <3>1. acc[i] = F[<<acc[i - 1], i>>]
        BY <2>1 DEF IsFold
      <3> QED
        BY <2>4, <3>1
    <2>7. new \in [0 .. m -> S] /\ new[0] = base
      BY <2>1, <2>2, <2>3, <2>4 DEF IsFold
    <2>8. IsFold(new, S, m, F, base)
      BY <2>6, <2>7 DEF IsFold
    <2> QED
      BY <2>8
  <1> HIDE DEF G
  <1>3. n \in G
    BY <1>1, <1>2, Climb
  <1> QED
    BY <1>3 DEF G

-----------------------------------------------------------------------------
(* The loops. *)

LEMMA EntryIs ==
  ASSUME NEW h \in Seq(Entry), NEW i \in DOMAIN h
  PROVE  /\ i \in Nat /\ 1 <= i /\ i <= Len(h) /\ Len(h) \in Nat
         /\ h[i] \in Entry /\ h[i].uri \in Uris /\ h[i].at \in Nat /\ h[i].at <= MaxClock
  <1>1. h[i] \in Entry
    OBVIOUS
  <1>2. h[i].uri \in Uris /\ h[i].at \in 0 .. MaxClock
    BY <1>1 DEF Entry
  <1>3. MaxClock \in Nat
    BY HistoryAssumption DEF HistoryAssumption
  <1> QED
    BY <1>1, <1>2, <1>3

\* IndexOfUri finds an entry of the context, or there is none.
LEMMA IndexIs ==
  ASSUME NEW h \in Seq(Entry), NEW u
  PROVE  \/ IndexOfUri(h, u) = 0 /\ \A i \in DOMAIN h : h[i].uri # u
         \/ IndexOfUri(h, u) \in DOMAIN h /\ h[IndexOfUri(h, u)].uri = u
  <1> DEFINE I == {i \in 1 .. Len(h) : h[i].uri = u}
  <1>1. IndexOfUri(h, u) = IF I # {} THEN Min(I) ELSE 0
    BY DEF IndexOfUri, SelectInSeq
  <1>2. Len(h) \in Nat /\ DOMAIN h = 1 .. Len(h)
    OBVIOUS
  <1>3. CASE I = {}
    BY <1>1, <1>2, <1>3
  <1>4. CASE I # {}
    <2>1. I \in SUBSET Nat
      OBVIOUS
    <2>2. \E e \in I : \A f \in I : e <= f
      BY <1>4, <2>1, LeastExists
    <2>3. Min(I) \in I
      BY <2>2 DEF Min
    <2> QED
      BY <1>1, <1>2, <1>4, <2>3
  <1> QED
    BY <1>3, <1>4

\* mergeHistory's loop body, by cases (sound/spotify.go:633-656).
LEMMA MergeOneIs ==
  ASSUME NEW h \in Seq(Entry), NEW ctx \in Entry
  PROVE  \/ /\ \A i \in DOMAIN h : h[i].uri # ctx.uri
            /\ MergeOne(h, ctx) = Append(h, ctx)
         \/ \E i \in DOMAIN h, e \in Entry :
              /\ h[i].uri = ctx.uri /\ e.uri = ctx.uri
              /\ e.at = IF ctx.at > h[i].at THEN ctx.at ELSE h[i].at
              /\ MergeOne(h, ctx) = [h EXCEPT ![i] = e]
  <1>1. PICK i : i = IndexOfUri(h, ctx.uri)
    OBVIOUS
  <1>2. CASE i = 0 /\ \A j \in DOMAIN h : h[j].uri # ctx.uri
    BY <1>1, <1>2 DEF MergeOne
  <1>3. CASE i \in DOMAIN h /\ h[i].uri = ctx.uri
    <2>1. h[i] \in Entry /\ i # 0
      BY <1>3
    <2>2. PICK e : e = IF ctx.at > h[i].at THEN ctx
                       ELSE [uri |-> ctx.uri, hint |-> ctx.hint, at |-> h[i].at]
      OBVIOUS
    <2>3. e \in Entry /\ e.uri = ctx.uri /\ e.at = IF ctx.at > h[i].at THEN ctx.at ELSE h[i].at
      BY <2>1, <2>2 DEF Entry
    <2>4. MergeOne(h, ctx) = [h EXCEPT ![i] = e]
      BY <1>1, <2>1, <2>2 DEF MergeOne
    <2> QED
      BY <1>3, <2>3, <2>4
  <1> QED
    BY <1>1, <1>2, <1>3, IndexIs

LEMMA MergeOneType ==
  ASSUME NEW h \in Seq(Entry), NEW ctx \in Entry
  PROVE  MergeOne(h, ctx) \in Seq(Entry)
  <1>1. Append(h, ctx) \in Seq(Entry)
    OBVIOUS
  <1>2. \A i \in DOMAIN h, e \in Entry : [h EXCEPT ![i] = e] \in Seq(Entry)
    OBVIOUS
  <1>3. \/ MergeOne(h, ctx) = Append(h, ctx)
        \/ \E i \in DOMAIN h, e \in Entry : MergeOne(h, ctx) = [h EXCEPT ![i] = e]
    BY MergeOneIs
  <1> QED
    BY <1>1, <1>2, <1>3

Distinct(h) == \A i, j \in DOMAIN h : i # j => h[i].uri # h[j].uri

\* What is kept of h and of the first n contexts in m: the entries of h at
\* their places, no earlier; an entry for each context, no earlier; and no time
\* that neither had.
Keeps(h, m) ==
  /\ Len(h) <= Len(m)
  /\ \A i \in DOMAIN h : m[i].uri = h[i].uri /\ m[i].at >= h[i].at
Takes(ctxs, n, m) ==
  \A k \in 1 .. n : \E i \in DOMAIN m : m[i].uri = ctxs[k].uri /\ m[i].at >= ctxs[k].at
Explained(h, ctxs, n, m) ==
  \A i \in DOMAIN m : \/ i \in DOMAIN h /\ m[i].at = h[i].at
                      \/ \E k \in 1 .. n : ctxs[k].uri = m[i].uri /\ ctxs[k].at = m[i].at

MergedUpTo(h, ctxs, n, m) ==
  m \in Seq(Entry) /\ Distinct(m) /\ Keeps(h, m) /\ Takes(ctxs, n, m) /\ Explained(h, ctxs, n, m)

\* One turn of the loop.
LEMMA MergeTurn ==
  ASSUME NEW h \in Seq(Entry), NEW ctxs \in Seq(Entry), NEW n \in 1 .. Len(ctxs),
         NEW m, MergedUpTo(h, ctxs, n - 1, m)
  PROVE  MergedUpTo(h, ctxs, n, MergeOne(m, ctxs[n]))
  <1>1. PICK new : new = MergeOne(m, ctxs[n])
    OBVIOUS
  <1>2. m \in Seq(Entry) /\ Distinct(m) /\ Keeps(h, m) /\ Takes(ctxs, n - 1, m)
        /\ Explained(h, ctxs, n - 1, m)
    BY DEF MergedUpTo
  <1>3. PICK ctx \in Entry : ctx = ctxs[n]
    OBVIOUS
  <1>4. /\ Len(h) \in Nat /\ DOMAIN h = 1 .. Len(h)
        /\ Len(m) \in Nat /\ DOMAIN m = 1 .. Len(m)
    BY <1>2
  <1>5. \A i \in DOMAIN m : m[i] \in Entry
    BY <1>2
  <1>6. \A e \in Entry : e.at \in Nat
    BY DEF Entry
  <1>7. \A k \in 1 .. n : ctxs[k] \in Entry
    OBVIOUS
  <1>8. CASE (\A i \in DOMAIN m : m[i].uri # ctx.uri) /\ new = Append(m, ctx)
    <2>1. new \in Seq(Entry) /\ DOMAIN new = 1 .. Len(m) + 1 /\ Len(new) = Len(m) + 1
      BY <1>2, <1>8
    <2>2. \A i \in DOMAIN m : new[i] = m[i]
      BY <1>2, <1>8
    <2>3. new[Len(m) + 1] = ctx
      BY <1>2, <1>8
    <2>4. Distinct(new)
      BY <1>2, <1>4, <1>8, <2>1, <2>2, <2>3 DEF Distinct
    <2>5. Keeps(h, new)
      BY <1>2, <1>4, <2>1, <2>2 DEF Keeps
    <2>6. Takes(ctxs, n, new)
      <3>1. ASSUME NEW k \in 1 .. n - 1
            PROVE  \E i \in DOMAIN new : new[i].uri = ctxs[k].uri /\ new[i].at >= ctxs[k].at
        <4>1. PICK i \in DOMAIN m : m[i].uri = ctxs[k].uri /\ m[i].at >= ctxs[k].at
          BY <1>2 DEF Takes
        <4> QED
          BY <1>4, <2>1, <2>2, <4>1
      <3>2. \E i \in DOMAIN new : new[i].uri = ctxs[n].uri /\ new[i].at >= ctxs[n].at
        <4>1. Len(m) + 1 \in DOMAIN new
          BY <1>4, <2>1
        <4>2. ctx.at >= ctx.at
          BY <1>6
        <4> QED
          BY <1>3, <2>3, <4>1, <4>2
      <3>3. \A k \in 1 .. n : k \in 1 .. n - 1 \/ k = n
        OBVIOUS
      <3> QED
        BY <3>1, <3>2, <3>3 DEF Takes
    <2>7. Explained(h, ctxs, n, new)
      <3> SUFFICES ASSUME NEW i \in DOMAIN new
                   PROVE  \/ i \in DOMAIN h /\ new[i].at = h[i].at
                          \/ \E k \in 1 .. n : ctxs[k].uri = new[i].uri /\ ctxs[k].at = new[i].at
        BY DEF Explained
      <3>1. CASE i \in DOMAIN m
        BY <1>2, <2>2, <3>1 DEF Explained
      <3>2. CASE i = Len(m) + 1
        BY <1>3, <2>3, <3>2
      <3> QED
        BY <1>4, <2>1, <3>1, <3>2
    <2> QED
      BY <1>1, <2>1, <2>4, <2>5, <2>6, <2>7 DEF MergedUpTo
  <1>9. ASSUME NEW i \in DOMAIN m, NEW e \in Entry,
               m[i].uri = ctx.uri, e.uri = ctx.uri,
               e.at = IF ctx.at > m[i].at THEN ctx.at ELSE m[i].at,
               new = [m EXCEPT ![i] = e]
        PROVE  MergedUpTo(h, ctxs, n, new)
    <2>1. new \in Seq(Entry) /\ DOMAIN new = DOMAIN m /\ Len(new) = Len(m)
      BY <1>2, <1>9
    <2>2. new[i] = e /\ \A j \in DOMAIN m : j # i => new[j] = m[j]
      BY <1>2, <1>9
    <2>3. e.at >= m[i].at /\ e.at >= ctx.at /\ e.at \in {m[i].at, ctx.at}
      BY <1>5, <1>6, <1>9
    <2>4. \A j \in DOMAIN m : new[j].uri = m[j].uri /\ new[j].at >= m[j].at
      BY <1>5, <1>6, <1>9, <2>2, <2>3
    <2>5. Distinct(new)
      BY <1>2, <2>1, <2>4 DEF Distinct
    <2>6. Keeps(h, new)
      <3> SUFFICES ASSUME NEW j \in DOMAIN h
                   PROVE  new[j].uri = h[j].uri /\ new[j].at >= h[j].at
        BY <1>2, <2>1 DEF Keeps
      <3>1. j \in DOMAIN m /\ m[j].uri = h[j].uri /\ m[j].at >= h[j].at
        BY <1>2, <1>4 DEF Keeps
      <3>2. h[j].at \in Nat /\ m[j].at \in Nat /\ new[j].at \in Nat
        BY <1>5, <1>6, <2>1, <3>1
      <3> QED
        BY <2>4, <3>1, <3>2
    <2>7. Takes(ctxs, n, new)
      <3>1. ASSUME NEW k \in 1 .. n - 1
            PROVE  \E j \in DOMAIN new : new[j].uri = ctxs[k].uri /\ new[j].at >= ctxs[k].at
        <4>1. PICK j \in DOMAIN m : m[j].uri = ctxs[k].uri /\ m[j].at >= ctxs[k].at
          BY <1>2 DEF Takes
        <4>2. ctxs[k].at \in Nat /\ m[j].at \in Nat /\ new[j].at \in Nat
          BY <1>5, <1>6, <1>7, <2>1
        <4> QED
          BY <2>1, <2>4, <4>1, <4>2
      <3>2. \E j \in DOMAIN new : new[j].uri = ctxs[n].uri /\ new[j].at >= ctxs[n].at
        BY <1>3, <1>9, <2>1, <2>2, <2>3
      <3>3. \A k \in 1 .. n : k \in 1 .. n - 1 \/ k = n
        OBVIOUS
      <3> QED
        BY <3>1, <3>2, <3>3 DEF Takes
    <2>8. Explained(h, ctxs, n, new)
      <3> SUFFICES ASSUME NEW j \in DOMAIN m
                   PROVE  \/ j \in DOMAIN h /\ new[j].at = h[j].at
                          \/ \E k \in 1 .. n : ctxs[k].uri = new[j].uri /\ ctxs[k].at = new[j].at
        BY <2>1 DEF Explained
      <3>1. CASE new[j].at = m[j].at
        BY <1>2, <2>4, <3>1 DEF Explained
      <3>2. CASE j = i /\ new[j].at = ctx.at
        BY <1>3, <1>9, <2>2, <3>2
      <3> QED
        BY <2>2, <2>3, <3>1, <3>2
    <2> QED
      BY <2>1, <2>5, <2>6, <2>7, <2>8 DEF MergedUpTo
  <1>10. \/ (\A i \in DOMAIN m : m[i].uri # ctx.uri) /\ new = Append(m, ctx)
         \/ \E i \in DOMAIN m, e \in Entry :
              /\ m[i].uri = ctx.uri /\ e.uri = ctx.uri
              /\ e.at = IF ctx.at > m[i].at THEN ctx.at ELSE m[i].at
              /\ new = [m EXCEPT ![i] = e]
    <2>1. new = MergeOne(m, ctx)
      BY <1>1, <1>3
    <2>2. \/ (\A i \in DOMAIN m : m[i].uri # ctx.uri) /\ MergeOne(m, ctx) = Append(m, ctx)
          \/ \E i \in DOMAIN m, e \in Entry :
               /\ m[i].uri = ctx.uri /\ e.uri = ctx.uri
               /\ e.at = IF ctx.at > m[i].at THEN ctx.at ELSE m[i].at
               /\ MergeOne(m, ctx) = [m EXCEPT ![i] = e]
      BY <1>2, MergeOneIs, Zenon
    <2> QED
      BY <2>1, <2>2, Zenon
  <1>11. MergedUpTo(h, ctxs, n, new)
    <2>1. CASE (\A i \in DOMAIN m : m[i].uri # ctx.uri) /\ new = Append(m, ctx)
      BY <1>1, <1>8, <2>1
    <2>2. CASE ~((\A i \in DOMAIN m : m[i].uri # ctx.uri) /\ new = Append(m, ctx))
      <3>1. PICK i \in DOMAIN m, e \in Entry :
              /\ m[i].uri = ctx.uri /\ e.uri = ctx.uri
              /\ e.at = IF ctx.at > m[i].at THEN ctx.at ELSE m[i].at
              /\ new = [m EXCEPT ![i] = e]
        BY <1>10, <2>2, Zenon
      <3> QED
        BY <1>9, <3>1
    <2> QED
      BY <2>1, <2>2
  <1> QED
    BY <1>1, <1>11

\* The loop of mergeHistory computes its last turn (sound/spotify.go:633-656).
LEMMA MergeAllIs ==
  ASSUME NEW h \in Seq(Entry), Distinct(h), NEW ctxs \in Seq(Entry)
  PROVE  MergedUpTo(h, ctxs, Len(ctxs), MergeAll(h, ctxs))
  <1>1. PICK n \in Nat : n = Len(ctxs)
    OBVIOUS
  <1>2. PICK F : F = [p \in Seq(Entry) \X (1 .. n) |-> MergeOne(p[1], ctxs[p[2]])]
    OBVIOUS
  <1>3. \A i \in 1 .. n : ctxs[i] \in Entry
    BY <1>1
  <1>4. \A g \in Seq(Entry), i \in 1 .. n :
          F[<<g, i>>] = MergeOne(g, ctxs[i]) /\ MergeOne(g, ctxs[i]) \in Seq(Entry)
    BY <1>2, <1>3, MergeOneType
  <1>5. F \in [Seq(Entry) \X (1 .. n) -> Seq(Entry)]
    <2>1. \A p \in Seq(Entry) \X (1 .. n) : MergeOne(p[1], ctxs[p[2]]) \in Seq(Entry)
      BY <1>4
    <2> QED
      BY <1>2, <2>1
  <1>6. PICK acc : IsFold(acc, Seq(Entry), n, F, h)
    BY <1>5, FoldExists
  <1> DEFINE IsLoop(g) == g = [i \in 0 .. n |-> IF i = 0 THEN h ELSE MergeOne(g[i - 1], ctxs[i])]
             loop == CHOOSE g : IsLoop(g)
  <1>7. IsLoop(acc)
    <2>1. acc = [i \in 0 .. n |-> acc[i]]
      BY <1>6 DEF IsFold
    <2>2. \A i \in 0 .. n : acc[i] = IF i = 0 THEN h ELSE MergeOne(acc[i - 1], ctxs[i])
      <3>0. acc[0] = h
        BY <1>6 DEF IsFold
      <3> SUFFICES ASSUME NEW i \in 1 .. n PROVE acc[i] = MergeOne(acc[i - 1], ctxs[i])
        BY <3>0
      <3>1. acc[i - 1] \in Seq(Entry)
        BY <1>6 DEF IsFold
      <3> QED
        BY <1>4, <1>6, <3>1 DEF IsFold
    <2> QED
      BY <2>1, <2>2
  <1>8. IsLoop(loop)
    <2> HIDE DEF IsLoop
    <2> QED
      BY <1>7
  <1>9. MergeAll(h, ctxs) = loop[n]
    BY <1>1 DEF MergeAll
  <1> HIDE DEF loop
  <1> DEFINE G == {i \in 0 .. n : MergedUpTo(h, ctxs, i, loop[i])}
  <1>10. loop[0] = h /\ \A i \in 1 .. n : loop[i] = MergeOne(loop[i - 1], ctxs[i])
    BY <1>8
  <1>11. 0 \in G
    <2>1. \A i \in DOMAIN h : h[i].at >= h[i].at
      <3> SUFFICES ASSUME NEW i \in DOMAIN h PROVE h[i].at >= h[i].at
        OBVIOUS
      <3>1. h[i].at \in Nat
        BY EntryIs
      <3> QED
        BY <3>1
    <2>2. MergedUpTo(h, ctxs, 0, h)
      BY <2>1 DEF MergedUpTo, Keeps, Takes, Explained
    <2> QED
      BY <1>10, <2>2
  <1>12. ASSUME NEW i \in 1 .. n, i - 1 \in G PROVE i \in G
    BY <1>1, <1>10, <1>12, MergeTurn
  <1> HIDE DEF G
  <1>13. n \in G
    <2>1. \A i \in 0 .. n : i \in G
      BY <1>11, <1>12, Climb
    <2> QED
      BY <2>1
  <1> QED
    BY <1>1, <1>9, <1>13 DEF G

-----------------------------------------------------------------------------
(* The sort. *)

LEMMA AheadIs ==
  ASSUME NEW h \in Seq(Entry), NEW i \in DOMAIN h
  PROVE  /\ Place(h, i) \in 1 .. Len(h)
         /\ \A S \in SUBSET Ahead(h, i) : /\ Cardinality(S) <= Place(h, i)
                                          /\ S # Ahead(h, i) => Cardinality(S) < Place(h, i)
  <1> DEFINE A == Ahead(h, i)
  <1>1. Len(h) \in Nat /\ DOMAIN h = 1 .. Len(h)
    OBVIOUS
  <1>2. IsFiniteSet(DOMAIN h) /\ Cardinality(DOMAIN h) = Len(h)
    <2>1. PICK n \in Nat : n = Len(h)
      BY <1>1
    <2>2. IsFiniteSet(1 .. n) /\ Cardinality(1 .. n) = n
      BY FS_Interval
    <2> QED
      BY <1>1, <2>1, <2>2
  <1>3. A \in SUBSET DOMAIN h /\ i \in A
    BY <1>1 DEF Ahead
  <1> HIDE DEF A
  <1>4. IsFiniteSet(A) /\ Cardinality(A) <= Len(h)
    BY <1>2, <1>3, FS_Subset
  <1>5. Cardinality(A) \in Nat
    BY <1>4, FS_CardinalityType
  <1>6. Cardinality(A) # 0
    BY <1>3, <1>4, FS_EmptySet
  <1>7. ASSUME NEW S \in SUBSET A
        PROVE  Cardinality(S) <= Cardinality(A) /\ (S # A => Cardinality(S) < Cardinality(A))
    <2>1. IsFiniteSet(S) /\ Cardinality(S) <= Cardinality(A) /\ (Cardinality(A) = Cardinality(S) => A = S)
      BY <1>4, FS_Subset
    <2>2. Cardinality(S) \in Nat
      BY <2>1, FS_CardinalityType
    <2> QED
      BY <1>5, <2>1, <2>2
  <1> QED
    BY <1>1, <1>4, <1>5, <1>6, <1>7 DEF A, Place

\* Of two entries one has the lower place: the later played one, or else the
\* one that stood before.
LEMMA PlaceOrders ==
  ASSUME NEW h \in Seq(Entry), NEW i \in DOMAIN h, NEW j \in DOMAIN h, i # j,
         \/ h[j].at > h[i].at
         \/ h[j].at = h[i].at /\ j <= i
  PROVE  Place(h, j) < Place(h, i)
  <1>1. \A k \in DOMAIN h : k \in Nat /\ h[k].at \in Nat
    BY EntryIs
  <1>2. Ahead(h, j) \in SUBSET Ahead(h, i)
    BY <1>1 DEF Ahead
  <1>3. i \in Ahead(h, i) /\ i \notin Ahead(h, j)
    BY <1>1 DEF Ahead
  <1> QED
    BY <1>2, <1>3, AheadIs DEF Place

\* p tells for each place of the sorted history where its entry was.
Sorts(h, p) ==
  /\ p \in [DOMAIN h -> DOMAIN h]
  /\ \A k \in DOMAIN h : Place(h, p[k]) = k
  /\ \A i \in DOMAIN h : p[Place(h, i)] = i

\* The sort is a permutation (sound/spotify.go:660-662).
LEMMA SortPermutes ==
  ASSUME NEW h \in Seq(Entry)
  PROVE  \E p : Sorts(h, p) /\ StableSort(h) = [k \in DOMAIN h |-> h[p[k]]]
  <1> DEFINE D == DOMAIN h
             f == [i \in D |-> Place(h, i)]
  <1>1. D = 1 .. Len(h) /\ Len(h) \in Nat
    OBVIOUS
  <1>2. IsFiniteSet(D)
    BY <1>1, FS_Interval
  <1>3. f \in [D -> D]
    BY <1>1, AheadIs
  <1>4. \A i, j \in D : i # j => f[i] # f[j]
    <2> SUFFICES ASSUME NEW i \in D, NEW j \in D, i # j PROVE Place(h, i) # Place(h, j)
      OBVIOUS
    <2>1. h[i].at \in Nat /\ h[j].at \in Nat /\ i \in Nat /\ j \in Nat
      BY EntryIs
    <2>2. Place(h, i) \in Nat /\ Place(h, j) \in Nat
      BY AheadIs
    <2>3. CASE h[j].at > h[i].at \/ (h[j].at = h[i].at /\ j <= i)
      BY <2>2, <2>3, PlaceOrders
    <2>4. CASE h[i].at > h[j].at \/ (h[i].at = h[j].at /\ i <= j)
      BY <2>2, <2>4, PlaceOrders
    <2> QED
      BY <2>1, <2>3, <2>4
  <1> HIDE DEF f
  <1>5. f \in Injection(D, D)
    BY <1>3, <1>4 DEF Injection, IsInjective
  <1>6. f \in Surjection(D, D)
    BY <1>2, <1>5, FS_Injection
  <1>7. \A k \in D : \E i \in D : f[i] = k
    BY <1>6 DEF Surjection
  <1> USE DEF f
  <1>8. PICK p : p = [k \in D |-> CHOOSE i \in D : Place(h, i) = k]
    OBVIOUS
  <1>9. \A k \in D : p[k] \in D /\ Place(h, p[k]) = k
    BY <1>7, <1>8
  <1>10. \A i \in D : p[Place(h, i)] = i
    <2> SUFFICES ASSUME NEW i \in D PROVE p[Place(h, i)] = i
      OBVIOUS
    <2>1. Place(h, i) \in D
      BY <1>3
    <2>2. p[Place(h, i)] \in D /\ Place(h, p[Place(h, i)]) = Place(h, i)
      BY <1>9, <2>1
    <2> QED
      BY <1>4, <2>2
  <1>11. Sorts(h, p)
    BY <1>8, <1>9, <1>10 DEF Sorts
  <1>12. StableSort(h) = [k \in D |-> h[p[k]]]
    BY <1>8 DEF StableSort
  <1> QED
    BY <1>11, <1>12

\* What follows for the sorted history: it has the entries of h, the latest
\* first, and of any entries of h as many come first as are played no earlier.
LEMMA SortedIs ==
  ASSUME NEW h \in Seq(Entry), NEW s, s = StableSort(h)
  PROVE  /\ s \in Seq(Entry) /\ Len(s) = Len(h)
         /\ \A k, l \in DOMAIN s : k < l => s[k].at >= s[l].at
         /\ \A k \in DOMAIN s : \E i \in DOMAIN h : s[k] = h[i]
         /\ \A i \in DOMAIN h : \E k \in DOMAIN s : s[k] = h[i]
         /\ Distinct(h) => Distinct(s)
  <1>1. PICK p : Sorts(h, p) /\ s = [k \in DOMAIN h |-> h[p[k]]]
    BY SortPermutes
  <1>2. DOMAIN s = DOMAIN h /\ \A k \in DOMAIN h : p[k] \in DOMAIN h /\ s[k] = h[p[k]]
    BY <1>1 DEF Sorts
  <1>3. s \in Seq(Entry) /\ Len(s) = Len(h)
    <2>1. PICK n \in Nat : n = Len(h) /\ DOMAIN h = 1 .. n
      OBVIOUS
    <2>2. \A k \in 1 .. n : h[p[k]] \in Entry
      BY <1>2, <2>1
    <2> QED
      BY <1>1, <2>1, <2>2
  <1>4. ASSUME NEW k \in DOMAIN s, NEW l \in DOMAIN s, k < l, ~(s[k].at >= s[l].at)
        PROVE  FALSE
    <2>1. k \in Nat /\ l \in Nat /\ k # l
      BY <1>2, <1>4, EntryIs
    <2>2. PICK i \in DOMAIN h : i = p[k]
      BY <1>2
    <2>3. PICK j \in DOMAIN h : j = p[l]
      BY <1>2
    <2>4. Place(h, i) = k /\ Place(h, j) = l
      BY <1>1, <1>2, <2>2, <2>3 DEF Sorts
    <2>5. h[j].at > h[i].at /\ i # j
      <3>1. s[k] = h[i] /\ s[l] = h[j]
        BY <1>2, <2>2, <2>3
      <3>2. h[i].at \in Nat /\ h[j].at \in Nat
        BY EntryIs
      <3> QED
        BY <1>4, <3>1, <3>2, <2>1, <2>4
    <2>6. Place(h, j) < Place(h, i)
      BY <2>5, PlaceOrders
    <2> QED
      BY <1>4, <2>1, <2>4, <2>6
  <1>5. \A i \in DOMAIN h : \E k \in DOMAIN s : s[k] = h[i]
    <2> SUFFICES ASSUME NEW i \in DOMAIN h PROVE \E k \in DOMAIN s : s[k] = h[i]
      OBVIOUS
    <2>1. p[Place(h, i)] = i
      BY <1>1 DEF Sorts
    <2>2. Place(h, i) \in DOMAIN h
      BY AheadIs
    <2> QED
      BY <1>2, <2>1, <2>2
  <1>6. ASSUME Distinct(h) PROVE Distinct(s)
    <2> SUFFICES ASSUME NEW k \in DOMAIN s, NEW l \in DOMAIN s, k # l
                 PROVE  s[k].uri # s[l].uri
      BY DEF Distinct
    <2>1. p[k] # p[l]
      BY <1>1, <1>2 DEF Sorts
    <2>2. p[k] \in DOMAIN h /\ p[l] \in DOMAIN h /\ s[k] = h[p[k]] /\ s[l] = h[p[l]]
      BY <1>2
    <2> QED
      BY <1>6, <2>1, <2>2 DEF Distinct
  <1> QED
    BY <1>2, <1>3, <1>4, <1>5, <1>6

\* When the first n entries of h were played no earlier than t, so were the
\* first n of the sorted history.
LEMMA TopIsLate ==
  ASSUME NEW h \in Seq(Entry), NEW s, s = StableSort(h), NEW n \in Nat, n <= Len(h),
         NEW t \in Nat, \A i \in 1 .. n : h[i].at >= t,
         NEW k \in 1 .. n
  PROVE  s[k].at >= t
  <1>1. PICK p : Sorts(h, p) /\ s = [l \in DOMAIN h |-> h[p[l]]]
    BY SortPermutes
  <1>2. DOMAIN h = 1 .. Len(h) /\ Len(h) \in Nat
    OBVIOUS
  <1>3. k \in DOMAIN h
    BY <1>2
  <1>4. PICK i \in DOMAIN h : i = p[k] /\ Place(h, i) = k /\ s[k] = h[i]
    BY <1>1, <1>3 DEF Sorts
  <1>5. \A j \in DOMAIN h : h[j].at \in Nat
    BY EntryIs
  <1> SUFFICES ASSUME h[i].at < t PROVE FALSE
    BY <1>4, <1>5
  <1>6. 1 .. n \in SUBSET Ahead(h, i)
    <2> SUFFICES ASSUME NEW j \in 1 .. n PROVE j \in Ahead(h, i)
      OBVIOUS
    <2>1. j \in DOMAIN h /\ h[j].at >= t
      BY <1>2
    <2> QED
      BY <1>5, <2>1 DEF Ahead
  <1>7. i \in Ahead(h, i) /\ i \notin 1 .. n
    BY <1>2, <1>5 DEF Ahead
  <1>8. Cardinality(1 .. n) = n
    BY FS_Interval
  <1>9. Cardinality(1 .. n) < Place(h, i)
    BY <1>6, <1>7, AheadIs
  <1> QED
    BY <1>4, <1>8, <1>9

-----------------------------------------------------------------------------
(* mergeHistory. *)

Canonical(h) ==
  /\ h \in Seq(Entry) /\ Len(h) <= Cap
  /\ Distinct(h)
  /\ \A k, l \in DOMAIN h : k < l => h[k].at >= h[l].at

LEMMA CappedIs ==
  ASSUME NEW n \in Nat
  PROVE  /\ Capped(n) \in Nat /\ Capped(n) <= n /\ Capped(n) <= Cap
         /\ Capped(n) = n \/ Capped(n) = Cap
         /\ n <= Cap => Capped(n) = n
  BY HistoryAssumption DEF HistoryAssumption, Capped

\* r is m when nothing changed, else the first Cap entries of m sorted.
LEMMA MergedIs ==
  ASSUME NEW h, Canonical(h), NEW ctxs \in Seq(Entry),
         NEW m, m = MergeAll(h, ctxs), NEW r, r = Merged(h, ctxs)
  PROVE  /\ Canonical(r)
         /\ Len(r) = Capped(Len(m))
         /\ \A k \in DOMAIN r : \E i \in DOMAIN m : r[k] = m[i]
         /\ \A i \in DOMAIN m :
              \/ \E k \in DOMAIN r : r[k] = m[i]
              \/ Len(r) = Cap /\ \A k \in DOMAIN r : r[k].at >= m[i].at
         /\ \A n, t \in Nat : n <= Len(m) /\ (\A i \in 1 .. n : m[i].at >= t)
              => \A k \in DOMAIN r : k <= n => r[k].at >= t
  <1>1. h \in Seq(Entry) /\ Len(h) <= Cap /\ Distinct(h)
    BY DEF Canonical
  <1>2. MergedUpTo(h, ctxs, Len(ctxs), m)
    BY <1>1, MergeAllIs
  <1>3. m \in Seq(Entry) /\ Distinct(m) /\ Len(m) \in Nat /\ DOMAIN m = 1 .. Len(m)
    BY <1>2 DEF MergedUpTo
  <1>4. Cap \in Nat \ {0}
    BY HistoryAssumption DEF HistoryAssumption
  <1>5. CASE m = h
    <2>1. r = h
      BY <1>5 DEF Merged
    <2>2. Capped(Len(m)) = Len(m)
      BY <1>1, <1>5, CappedIs
    <2>3. \A n, t \in Nat : n <= Len(m) /\ (\A i \in 1 .. n : m[i].at >= t)
            => \A k \in DOMAIN r : k <= n => r[k].at >= t
      BY <1>3, <1>5, <2>1
    <2> QED
      BY <1>5, <2>1, <2>2, <2>3
  <1>6. CASE m # h
    <2>1. PICK s : s = StableSort(m)
      OBVIOUS
    <2>2. /\ s \in Seq(Entry) /\ Len(s) = Len(m)
          /\ \A k, l \in DOMAIN s : k < l => s[k].at >= s[l].at
          /\ \A k \in DOMAIN s : \E i \in DOMAIN m : s[k] = m[i]
          /\ \A i \in DOMAIN m : \E k \in DOMAIN s : s[k] = m[i]
          /\ Distinct(m) => Distinct(s)
      <3>1. m \in Seq(Entry)
        BY <1>3
      <3>2. s \in Seq(Entry) /\ Len(s) = Len(m)
        BY <2>1, <3>1, SortedIs
      <3>3. \A k, l \in DOMAIN s : k < l => s[k].at >= s[l].at
        BY <2>1, <3>1, SortedIs
      <3>4. \A k \in DOMAIN s : \E i \in DOMAIN m : s[k] = m[i]
        BY <2>1, <3>1, SortedIs
      <3>5. \A i \in DOMAIN m : \E k \in DOMAIN s : s[k] = m[i]
        BY <2>1, <3>1, SortedIs
      <3>6. Distinct(m) => Distinct(s)
        BY <2>1, <3>1, SortedIs
      <3> QED
        BY <3>2, <3>3, <3>4, <3>5, <3>6
    <2>3. PICK c \in Nat : c = Capped(Len(m)) /\ c <= Len(m) /\ c <= Cap /\ (c = Len(m) \/ c = Cap)
      <3>1. PICK n \in Nat : n = Len(m)
        BY <1>3
      <3> QED
        BY <3>1, CappedIs
    <2>4. r = SubSeq(s, 1, c)
      BY <1>6, <2>1, <2>3 DEF Merged
    <2>5. /\ r \in Seq(Entry) /\ Len(r) = c /\ DOMAIN r = 1 .. c
          /\ DOMAIN s = 1 .. Len(m)
          /\ \A k \in 1 .. c : k \in DOMAIN s /\ r[k] = s[k]
      BY <1>3, <2>2, <2>3, <2>4
    <2>6. Canonical(r)
      <3>1. ASSUME NEW k \in DOMAIN r, NEW l \in DOMAIN r, k < l
            PROVE  r[k].at >= r[l].at
        <4>1. k \in DOMAIN s /\ l \in DOMAIN s /\ r[k] = s[k] /\ r[l] = s[l]
          BY <2>5
        <4>2. s[k].at >= s[l].at
          BY <2>2, <3>1, <4>1
        <4> QED
          BY <4>1, <4>2
      <3>2. Distinct(r)
        <4>1. Distinct(s)
          BY <1>3, <2>2
        <4> QED
          BY <2>5, <4>1 DEF Distinct
      <3> QED
        BY <2>3, <2>5, <3>1, <3>2 DEF Canonical
    <2>7. \A k \in DOMAIN r : \E i \in DOMAIN m : r[k] = m[i]
      BY <2>2, <2>5
    <2>8. ASSUME NEW i \in DOMAIN m
          PROVE  \/ \E k \in DOMAIN r : r[k] = m[i]
                 \/ Len(r) = Cap /\ \A k \in DOMAIN r : r[k].at >= m[i].at
      <3>1. PICK l \in DOMAIN s : s[l] = m[i]
        BY <2>2
      <3>2. l \in Nat /\ 1 <= l /\ l <= Len(m)
        BY <1>3, <2>5
      <3>3. CASE l <= c
        BY <2>5, <3>1, <3>2, <3>3
      <3>4. CASE l > c
        <4>1. c = Cap
          BY <2>3, <3>2, <3>4
        <4>2. ASSUME NEW k \in DOMAIN r PROVE r[k].at >= m[i].at
          <5>1. k \in DOMAIN s /\ k < l /\ r[k] = s[k]
            BY <2>3, <2>5, <3>2, <3>4
          <5>2. s[k].at >= s[l].at
            BY <2>2, <3>1, <5>1
          <5> QED
            BY <3>1, <5>1, <5>2
        <4> QED
          BY <2>5, <4>1, <4>2
      <3> QED
        BY <2>3, <3>2, <3>3, <3>4
    <2>9. ASSUME NEW n \in Nat, NEW t \in Nat, n <= Len(m), \A i \in 1 .. n : m[i].at >= t,
                 NEW k \in DOMAIN r, k <= n
          PROVE  r[k].at >= t
      <3>1. k \in 1 .. n /\ r[k] = s[k]
        BY <2>5, <2>9
      <3>2. s[k].at >= t
        BY <1>3, <2>1, <2>9, <3>1, TopIsLate
      <3> QED
        BY <3>1, <3>2
    <2> QED
      BY <2>3, <2>5, <2>6, <2>7, <2>8, <2>9
  <1> QED
    BY <1>5, <1>6

-----------------------------------------------------------------------------
(* What is known of a context. *)

KnownTypes == known \in [Uris -> Nat \cup {Nothing}]

\* The entries of h have the latest times known.
Kept(h, k) == \A i \in DOMAIN h : h[i].at = k[h[i].uri]

\* A context known and not in h has left a full history of later ones.
Older(h, k) ==
  \A u \in Uris : k[u] # Nothing /\ (\A i \in DOMAIN h : h[i].uri # u)
    => Len(h) = Cap /\ \A i \in DOMAIN h : h[i].at >= k[u]

LEMMA MaxIs ==
  ASSUME NEW S \in SUBSET Nat, NEW x \in S, \A y \in S : x >= y
  PROVE  Max(S) = x
  <1>1. \E z \in S : \A y \in S : z >= y
    OBVIOUS
  <1>2. Max(S) \in S /\ \A y \in S : Max(S) >= y
    BY <1>1 DEF Max
  <1>3. PICK z : z = Max(S)
    OBVIOUS
  <1>4. z \in Nat /\ x \in Nat /\ z >= x /\ x >= z
    BY <1>2, <1>3
  <1> QED
    BY <1>3, <1>4

\* After a merge the latest time known of a context in m is that in m, or the
\* one known before, if it is later.
LEMMA LatestIs ==
  ASSUME KnownTypes, NEW h, Canonical(h), Kept(h, known), NEW ctxs \in Seq(Entry),
         NEW m, m = MergeAll(h, ctxs), NEW i \in DOMAIN m
  PROVE  LET u == m[i].uri
         IN  /\ u \in Uris /\ m[i].at \in Nat
             /\ Latest(u, ctxs) = IF known[u] # Nothing /\ known[u] > m[i].at THEN known[u]
                                  ELSE m[i].at
             /\ (known[u] # Nothing /\ known[u] > m[i].at) => \A j \in DOMAIN h : h[j].uri # u
  <1>1. PICK u : u = m[i].uri
    OBVIOUS
  <1>2. PICK t : t = m[i].at
    OBVIOUS
  <1>3. h \in Seq(Entry) /\ Distinct(h)
    BY DEF Canonical
  <1>4. MergedUpTo(h, ctxs, Len(ctxs), m)
    BY <1>3, MergeAllIs
  <1>5. m \in Seq(Entry) /\ Distinct(m) /\ Keeps(h, m) /\ Takes(ctxs, Len(ctxs), m)
        /\ Explained(h, ctxs, Len(ctxs), m)
    BY <1>4 DEF MergedUpTo
  <1>6. u \in Uris /\ t \in Nat
    BY <1>1, <1>2, <1>5, EntryIs
  <1>7. DOMAIN ctxs = 1 .. Len(ctxs) /\ DOMAIN m = 1 .. Len(m) /\ DOMAIN h = 1 .. Len(h)
        /\ Len(m) \in Nat /\ Len(h) \in Nat
    BY <1>3, <1>5
  <1>8. \A j \in DOMAIN ctxs : ctxs[j].at \in Nat
    BY EntryIs
  <1>9. PICK T : T = {ctxs[j].at : j \in {l \in DOMAIN ctxs : ctxs[l].uri = u}}
    OBVIOUS
  <1>10. T \in SUBSET Nat
    BY <1>8, <1>9
  <1>11. \A x \in T : t >= x
    <2> SUFFICES ASSUME NEW j \in DOMAIN ctxs, ctxs[j].uri = u PROVE t >= ctxs[j].at
      BY <1>9
    <2>1. PICK l \in DOMAIN m : m[l].uri = ctxs[j].uri /\ m[l].at >= ctxs[j].at
      BY <1>5, <1>7 DEF Takes
    <2>2. l = i
      BY <1>1, <1>5, <2>1 DEF Distinct
    <2> QED
      BY <1>2, <2>1, <2>2
  <1>12. PICK k : k = known[u]
    OBVIOUS
  <1>13. k \in Nat \cup {Nothing} /\ Nothing \notin Nat
    BY <1>6, <1>12, HistoryAssumption DEF KnownTypes, HistoryAssumption
  <1>14. \A j \in DOMAIN h : h[j].uri = u => k = h[j].at /\ t >= k /\ j = i
    <2> SUFFICES ASSUME NEW j \in DOMAIN h, h[j].uri = u PROVE k = h[j].at /\ t >= k /\ j = i
      OBVIOUS
    <2>1. k = h[j].at
      BY <1>12 DEF Kept
    <2>2. j \in DOMAIN m /\ m[j].uri = u /\ m[j].at >= h[j].at
      BY <1>5, <1>7 DEF Keeps
    <2>3. j = i
      BY <1>1, <1>5, <2>2 DEF Distinct
    <2> QED
      BY <1>2, <2>1, <2>2, <2>3
  <1>15. t \in T \/ k = t
    <2>1. CASE i \in DOMAIN h /\ m[i].at = h[i].at
      <3>1. m[i].uri = h[i].uri
        BY <1>5, <2>1 DEF Keeps
      <3> QED
        BY <1>1, <1>2, <1>14, <2>1, <3>1
    <2>2. CASE \E j \in 1 .. Len(ctxs) : ctxs[j].uri = m[i].uri /\ ctxs[j].at = m[i].at
      BY <1>1, <1>2, <1>7, <1>9, <2>2
    <2> QED
      BY <1>5, <2>1, <2>2 DEF Explained
  <1>16. Latest(u, ctxs) = IF T = {} THEN k ELSE Max(T \cup (IF k = Nothing THEN {} ELSE {k}))
    BY <1>9, <1>12 DEF Latest
  <1>17. Latest(u, ctxs) = IF k # Nothing /\ k > t THEN k ELSE t
    <2>1. CASE T = {}
      BY <1>6, <1>15, <1>16, <2>1
    <2>2. CASE T # {} /\ k = Nothing
      <3>1. t \in T
        BY <1>6, <1>13, <1>15, <2>2
      <3>2. Max(T) = t
        BY <1>10, <1>11, <3>1, MaxIs
      <3> QED
        BY <1>16, <2>2, <3>2
    <2>3. CASE T # {} /\ k # Nothing
      <3>1. PICK S : S = T \cup {k}
        OBVIOUS
      <3>2. S \in SUBSET Nat /\ Latest(u, ctxs) = Max(S) /\ k \in Nat
        BY <1>10, <1>13, <1>16, <2>3, <3>1
      <3>3. CASE k > t
        <4>1. \A y \in S : k >= y
          BY <1>6, <1>10, <1>11, <3>1, <3>2, <3>3
        <4>2. Max(S) = k
          BY <3>1, <3>2, <4>1, MaxIs
        <4> QED
          BY <2>3, <3>2, <3>3, <4>2
      <3>4. CASE ~(k > t)
        <4>1. t \in S /\ \A y \in S : t >= y
          BY <1>6, <1>10, <1>11, <1>15, <3>1, <3>2, <3>4
        <4>2. Max(S) = t
          BY <3>2, <4>1, MaxIs
        <4> QED
          BY <3>2, <3>4, <4>2
      <3> QED
        BY <3>3, <3>4
    <2> QED
      BY <2>1, <2>2, <2>3
  <1>18. (k # Nothing /\ k > t) => \A j \in DOMAIN h : h[j].uri # u
    BY <1>6, <1>13, <1>14
  <1> QED
    BY <1>1, <1>2, <1>6, <1>12, <1>17, <1>18

\* A merge keeps the latest times and drops older contexts only
\* (sound/spotify.go:630-668).
LEMMA MergeKeeps ==
  ASSUME KnownTypes, NEW h, Canonical(h), Kept(h, known), Older(h, known),
         NEW ctxs \in Seq(Entry), NEW r, r = Merged(h, ctxs),
         NEW new, new = [u \in Uris |-> Latest(u, ctxs)]
  PROVE  Canonical(r) /\ Kept(r, new) /\ Older(r, new)
  <1>1. PICK m : m = MergeAll(h, ctxs)
    OBVIOUS
  <1>2. h \in Seq(Entry) /\ Distinct(h) /\ Len(h) \in Nat /\ DOMAIN h = 1 .. Len(h)
    BY DEF Canonical
  <1>3. MergedUpTo(h, ctxs, Len(ctxs), m)
    BY <1>1, <1>2, MergeAllIs
  <1>4. m \in Seq(Entry) /\ Distinct(m) /\ Keeps(h, m) /\ Takes(ctxs, Len(ctxs), m)
        /\ Explained(h, ctxs, Len(ctxs), m)
    BY <1>3 DEF MergedUpTo
  <1>5. Len(m) \in Nat /\ DOMAIN m = 1 .. Len(m) /\ Len(h) <= Len(m)
    BY <1>4 DEF Keeps
  <1>6. Canonical(r) /\ Len(r) = Capped(Len(m))
    BY <1>1, MergedIs
  <1>7. \A k \in DOMAIN r : \E i \in DOMAIN m : r[k] = m[i]
    BY <1>1, MergedIs
  <1>8. \A i \in DOMAIN m : \/ \E k \in DOMAIN r : r[k] = m[i]
                            \/ Len(r) = Cap /\ \A k \in DOMAIN r : r[k].at >= m[i].at
    BY <1>1, MergedIs
  <1>9. r \in Seq(Entry) /\ Len(r) \in Nat /\ DOMAIN r = 1 .. Len(r) /\ Len(r) <= Cap
    BY <1>6 DEF Canonical
  <1>10. ASSUME NEW u \in Uris, known[u] # Nothing, \A i \in DOMAIN h : h[i].uri # u
         PROVE  Len(r) = Cap /\ \A k \in DOMAIN r : r[k].at >= known[u]
    <2>1. PICK t \in Nat : t = known[u]
      BY <1>10 DEF KnownTypes
    <2>2. Len(h) = Cap /\ \A i \in DOMAIN h : h[i].at >= t
      BY <1>10, <2>1 DEF Older
    <2>3. Cap \in Nat /\ Cap <= Len(m)
      BY <1>2, <1>5, <2>2
    <2>4. Len(r) = Cap
      BY <1>5, <1>6, <2>3, CappedIs
    <2>5. ASSUME NEW i \in 1 .. Cap PROVE m[i].at >= t
      <3>1. i \in DOMAIN h /\ i \in DOMAIN m
        BY <1>2, <1>5, <2>2, <2>3
      <3>2. m[i].at >= h[i].at /\ h[i].at >= t
        BY <1>4, <2>2, <3>1 DEF Keeps
      <3>3. m[i].at \in Nat /\ h[i].at \in Nat
        BY <1>2, <1>4, <3>1, EntryIs
      <3> QED
        BY <3>2, <3>3
    <2>6. \A k \in DOMAIN r : k <= Cap => r[k].at >= t
      <3>1. \A n, v \in Nat : n <= Len(m) /\ (\A i \in 1 .. n : m[i].at >= v)
              => \A k \in DOMAIN r : k <= n => r[k].at >= v
        BY <1>1, MergedIs
      <3> QED
        BY <2>3, <2>5, <3>1
    <2> QED
      BY <1>9, <2>1, <2>4, <2>6
  <1>11. ASSUME NEW i \in DOMAIN m, NEW u, u = m[i].uri
         PROVE  /\ u \in Uris /\ m[i].at \in Nat
                /\ new[u] = m[i].at \/ new[u] = known[u]
                /\ new[u] # m[i].at => /\ known[u] # Nothing /\ known[u] > m[i].at
                                       /\ \A j \in DOMAIN h : h[j].uri # u
    <2>1. /\ u \in Uris /\ m[i].at \in Nat
          /\ Latest(u, ctxs) = IF known[u] # Nothing /\ known[u] > m[i].at THEN known[u] ELSE m[i].at
          /\ (known[u] # Nothing /\ known[u] > m[i].at) => \A j \in DOMAIN h : h[j].uri # u
      BY <1>1, <1>11, LatestIs
    <2>2. new[u] = Latest(u, ctxs)
      BY <2>1
    <2> QED
      BY <2>1, <2>2
  <1>12. Kept(r, new)
    <2> SUFFICES ASSUME NEW k \in DOMAIN r PROVE r[k].at = new[r[k].uri]
      BY DEF Kept
    <2>1. PICK i \in DOMAIN m : r[k] = m[i]
      BY <1>7
    <2>2. PICK u : u = m[i].uri
      OBVIOUS
    <2> SUFFICES ASSUME new[u] # m[i].at PROVE FALSE
      BY <2>1, <2>2
    <2>3. /\ u \in Uris /\ m[i].at \in Nat /\ known[u] # Nothing /\ known[u] > m[i].at
          /\ \A j \in DOMAIN h : h[j].uri # u
      BY <1>11, <2>2
    <2>4. r[k].at >= known[u]
      BY <1>10, <2>3
    <2>5. known[u] \in Nat
      BY <2>3 DEF KnownTypes
    <2> QED
      BY <2>1, <2>3, <2>4, <2>5
  <1>13. Older(r, new)
    <2> SUFFICES ASSUME NEW u \in Uris, new[u] # Nothing, \A k \in DOMAIN r : r[k].uri # u
                 PROVE  Len(r) = Cap /\ \A k \in DOMAIN r : r[k].at >= new[u]
      BY DEF Older
    <2>1. CASE \E i \in DOMAIN m : m[i].uri = u
      <3>1. PICK i \in DOMAIN m : m[i].uri = u
        BY <2>1
      <3>2. CASE new[u] = m[i].at
        BY <1>8, <3>1, <3>2
      <3>3. CASE new[u] # m[i].at
        <4>1. new[u] = known[u] /\ known[u] # Nothing /\ \A j \in DOMAIN h : h[j].uri # u
          BY <1>11, <3>1, <3>3
        <4> QED
          BY <1>10, <4>1
      <3> QED
        BY <3>2, <3>3
    <2>2. CASE \A i \in DOMAIN m : m[i].uri # u
      <3>1. \A j \in DOMAIN h : h[j].uri # u
        BY <1>2, <1>4, <1>5, <2>2 DEF Keeps
      <3>2. \A j \in DOMAIN ctxs : ctxs[j].uri # u
        <4> SUFFICES ASSUME NEW j \in DOMAIN ctxs PROVE ctxs[j].uri # u
          OBVIOUS
        <4>1. j \in 1 .. Len(ctxs)
          OBVIOUS
        <4> QED
          BY <1>4, <2>2, <4>1 DEF Takes
      <3>3. Latest(u, ctxs) = known[u]
        <4>1. {j \in DOMAIN ctxs : ctxs[j].uri = u} = {}
          BY <3>2
        <4> QED
          BY <4>1 DEF Latest
      <3> QED
        BY <1>10, <3>1, <3>3
    <2> QED
      BY <2>1, <2>2
  <1> QED
    BY <1>6, <1>12, <1>13

-----------------------------------------------------------------------------
(* What the calls return. *)

Played == [uri : Uris, track : Tracks, at : 0 .. MaxClock]
Log == Seq(Played)

\* RecentlyPlayedContexts returns entries (spotify/spotify.go:424-456).
LEMMA RecentAreEntries ==
  ASSUME NEW log \in Log
  PROVE  RecentContexts(log) \in Seq(Entry)
  <1>1. PICK n \in Nat : n = Len(log)
    BY DEF Log
  <1> DEFINE new(i) == [uri |-> log[i].uri, hint |-> log[i].track, at |-> log[i].at]
             Turn(r, i) == IF \E e \in Range(r) : e.uri = log[i].uri THEN r ELSE Append(r, new(i))
  <1>2. ASSUME NEW i \in 1 .. n PROVE new(i) \in Entry
    <2>1. log[i] \in Played
      BY <1>1 DEF Log
    <2>2. log[i].uri \in Uris /\ log[i].track \in Tracks /\ log[i].at \in 0 .. MaxClock
      BY <2>1 DEF Played
    <2>3. PICK e : e = new(i)
      OBVIOUS
    <2>4. e.uri \in Uris /\ e.hint \in Tracks /\ e.at \in 0 .. MaxClock
      BY <2>2, <2>3
    <2>5. DOMAIN e = {"uri", "hint", "at"}
      BY <2>3
    <2>6. e \in Entry
      BY <2>2, <2>3 DEF Entry
    <2> QED
      BY <2>3, <2>6
  <1> HIDE DEF new
  <1>3. \A r \in Seq(Entry), i \in 1 .. n : Turn(r, i) \in Seq(Entry)
    BY <1>2
  <1> HIDE DEF Turn
  <1>4. PICK F : F = [p \in Seq(Entry) \X (1 .. n) |-> Turn(p[1], p[2])]
    OBVIOUS
  <1>5. \A r \in Seq(Entry), i \in 1 .. n : F[<<r, i>>] = Turn(r, i)
    BY <1>4
  <1>6. F \in [Seq(Entry) \X (1 .. n) -> Seq(Entry)]
    BY <1>3, <1>4
  <1>7. PICK empty : empty = <<>> /\ empty \in Seq(Entry)
    <2>1. PICK e : e = <<>>
      OBVIOUS
    <2>2. e \in Seq(Entry)
      BY <2>1
    <2> QED
      BY <2>1, <2>2
  <1>8. PICK acc : IsFold(acc, Seq(Entry), n, F, empty)
    BY <1>6, <1>7, FoldExists
  <1> DEFINE IsLoop(g) == g = [i \in 0 .. n |-> IF i = 0 THEN <<>> ELSE Turn(g[i - 1], i)]
             loop == CHOOSE g : IsLoop(g)
  <1>9. IsLoop(acc)
    <2>1. acc = [i \in 0 .. n |-> acc[i]]
      BY <1>8 DEF IsFold
    <2>2. \A i \in 0 .. n : acc[i] = IF i = 0 THEN <<>> ELSE Turn(acc[i - 1], i)
      <3>0. acc[0] = <<>>
        BY <1>7, <1>8 DEF IsFold
      <3> SUFFICES ASSUME NEW i \in 1 .. n PROVE acc[i] = Turn(acc[i - 1], i)
        BY <3>0
      <3>1. acc[i - 1] \in Seq(Entry)
        BY <1>8 DEF IsFold
      <3> QED
        BY <1>5, <1>8, <3>1 DEF IsFold
    <2> QED
      BY <2>1, <2>2
  <1>10. IsLoop(loop)
    <2> HIDE DEF IsLoop
    <2> QED
      BY <1>9
  <1>11. RecentContexts(log) = loop[n]
    BY <1>1 DEF RecentContexts, Turn, new
  <1> HIDE DEF loop
  <1> DEFINE G == {i \in 0 .. n : loop[i] \in Seq(Entry)}
  <1>12. \A i \in 1 .. n : loop[i] = Turn(loop[i - 1], i)
    BY <1>10
  <1>13. 0 \in G
    <2>1. loop[0] = empty
      BY <1>7, <1>10
    <2>2. loop[0] \in Seq(Entry) /\ 0 \in 0 .. n
      BY <1>7, <2>1
    <2> QED
      BY <2>2
  <1>14. ASSUME NEW i \in 1 .. n, i - 1 \in G PROVE i \in G
    BY <1>3, <1>12, <1>14
  <1> HIDE DEF G
  <1>15. n \in G
    <2>1. \A i \in 0 .. n : i \in G
      BY <1>13, <1>14, Climb
    <2> QED
      BY <2>1
  <1> QED
    BY <1>11, <1>15 DEF G

\* UserPlaylists returns entries (spotify/spotify.go:458-480).
LEMMA LibraryAreEntries == LibraryContexts \in Seq(Entry)
  <1> DEFINE Hints == {l.hint : l \in Range(Library)}
             Listed == [uri : Uris, hint : Hints]
  <1>1. Library \in Seq(Listed)
    BY HistoryAssumption DEF HistoryAssumption
  <1>2. MaxClock \in Nat
    BY HistoryAssumption DEF HistoryAssumption
  <1> HIDE DEF Hints, Listed
  <1>3. ASSUME NEW i \in DOMAIN Library
        PROVE  Library[i].uri \in Uris /\ Library[i].hint \in Hints
    <2>1. Library[i] \in Listed
      BY <1>1
    <2> QED
      BY <2>1 DEF Listed
  <1>4. Entry = [uri : Uris, hint : Tracks \cup Hints, at : 0 .. MaxClock]
    BY DEF Entry, Hints
  <1>5. \A i \in DOMAIN Library :
          [uri |-> Library[i].uri, hint |-> Library[i].hint, at |-> 0] \in Entry
    BY <1>2, <1>3, <1>4
  <1>6. DOMAIN Library = 1 .. Len(Library) /\ Len(Library) \in Nat
    BY <1>1
  <1> QED
    BY <1>5, <1>6 DEF LibraryContexts

-----------------------------------------------------------------------------
(* The invariant. *)

Types ==
  /\ played \in Log /\ clock \in 0 .. MaxClock
  /\ up \in BOOLEAN /\ saving \in BOOLEAN /\ written \in BOOLEAN
  /\ fetched \in [Pollers -> Seq(Entry) \cup {Nothing}]
  /\ KnownTypes

\* The history in memory and the one in the file are each one that a merge left.
BothCanonical == Canonical(history) /\ (disk # Torn => Canonical(disk))

Remembered == up => Kept(history, known) /\ Older(history, known)

IInv == Types /\ BothCanonical /\ Remembered /\ RestartRemembers

LEMMA EmptyIsCanonical == ASSUME NEW h, h = <<>> PROVE Canonical(h)
  <1>1. h \in Seq(Entry) /\ Len(h) = 0 /\ DOMAIN h = {}
    OBVIOUS
  <1> QED
    BY <1>1, HistoryAssumption DEF HistoryAssumption, Canonical, Distinct

LEMMA InitInv == Init => IInv
  <1> SUFFICES ASSUME Init PROVE IInv
    OBVIOUS
  <1> USE DEF Init
  <1>1. Types
    <2>1. played \in Log
      BY DEF Log
    <2>2. clock \in 0 .. MaxClock
      BY HistoryAssumption DEF HistoryAssumption
    <2>3. fetched \in [Pollers -> Seq(Entry) \cup {Nothing}]
      OBVIOUS
    <2>4. KnownTypes
      BY DEF KnownTypes
    <2> QED
      BY <2>1, <2>2, <2>3, <2>4 DEF Types
  <1>2. BothCanonical
    BY EmptyIsCanonical DEF BothCanonical
  <1>3. Remembered
    BY DEF Remembered, Kept, Older
  <1>4. RestartRemembers
    BY DEF RestartRemembers
  <1> QED
    BY <1>1, <1>2, <1>3, <1>4 DEF IInv

\* The steps that leave the history, the file and what is known alone.
LEMMA CallsKeep ==
  ASSUME IInv, Types', UNCHANGED <<up, history, disk, saving, written, known>>
  PROVE  IInv'
  <1>1. BothCanonical'
    BY DEF IInv, BothCanonical
  <1>2. Remembered'
    BY DEF IInv, Remembered
  <1>3. RestartRemembers'
    BY DEF IInv, RestartRemembers
  <1> QED
    BY <1>1, <1>2, <1>3 DEF IInv

LEMMA ListenKeeps ==
  ASSUME IInv, NEW u \in Uris, NEW t \in Tracks, Listen(u, t)
  PROVE  IInv'
  <1>1. played \in Log /\ clock \in 0 .. MaxClock /\ MaxClock \in Nat /\ Window \in Nat
    BY HistoryAssumption DEF HistoryAssumption, IInv, Types
  <1>2. clock < MaxClock /\ clock' = clock + 1
    BY DEF Listen
  <1>3. clock' \in 0 .. MaxClock
    BY <1>1, <1>2
  <1>4. PICK track \in Played : track = [uri |-> u, track |-> t, at |-> clock + 1]
    BY <1>2, <1>3 DEF Played
  <1>5. PICK log : log = <<track>> \o played
    OBVIOUS
  <1>6. log \in Log /\ Len(log) \in Nat
    BY <1>1, <1>5 DEF Log
  <1>7. PICK n : n = IF Len(log) > Window THEN Window ELSE Len(log)
    OBVIOUS
  <1>8. n \in Nat /\ n <= Len(log)
    BY <1>1, <1>6, <1>7
  <1>9. played' = SubSeq(log, 1, n)
    BY <1>4, <1>5, <1>7 DEF Listen
  <1>10. played' \in Log
    BY <1>6, <1>8, <1>9 DEF Log
  <1>11. UNCHANGED <<up, history, disk, saving, written, fetched, known>>
    BY DEF Listen
  <1>12. Types'
    BY <1>3, <1>10, <1>11 DEF IInv, Types, KnownTypes
  <1> QED
    BY <1>11, <1>12, CallsKeep

\* Any call whose answer is entries.
LEMMA AnswerKeeps ==
  ASSUME IInv, NEW p \in Pollers, NEW ctxs \in Seq(Entry),
         fetched' = [fetched EXCEPT ![p] = ctxs],
         UNCHANGED <<played, clock, up, history, disk, saving, written, known>>
  PROVE  IInv'
  <1>1. fetched' \in [Pollers -> Seq(Entry) \cup {Nothing}]
    BY DEF IInv, Types
  <1>2. Types'
    BY <1>1 DEF IInv, Types, KnownTypes
  <1> QED
    BY <1>2, CallsKeep

LEMMA FetchRecentKeeps ==
  ASSUME IInv, NEW p \in Pollers, FetchRecent(p)
  PROVE  IInv'
  <1>1. RecentContexts(played) \in Seq(Entry)
    BY RecentAreEntries DEF IInv, Types
  <1> QED
    BY <1>1, AnswerKeeps DEF FetchRecent

LEMMA FetchPlaylistsKeeps ==
  ASSUME IInv, FetchPlaylists
  PROVE  IInv'
  <1>1. "run" \in Pollers
    BY DEF Pollers
  <1> QED
    BY <1>1, LibraryAreEntries, AnswerKeeps DEF FetchPlaylists

LEMMA ResolveMorningKeeps ==
  ASSUME IInv, ResolveMorning
  PROVE  IInv'
  <1>1. UNCHANGED <<played, clock, up, history, disk, saving, written, known>>
    BY DEF ResolveMorning
  <1>2. CASE UNCHANGED fetched
    <2>1. Types'
      BY <1>1, <1>2 DEF IInv, Types, KnownTypes
    <2> QED
      BY <1>1, <2>1, CallsKeep
  <1>3. CASE fetched' = [fetched EXCEPT !["press"] = LibraryContexts]
    <2>1. "press" \in Pollers
      BY DEF Pollers
    <2> QED
      BY <1>1, <1>3, <2>1, LibraryAreEntries, AnswerKeeps
  <1> QED
    BY <1>2, <1>3 DEF ResolveMorning

LEMMA LatestType ==
  ASSUME KnownTypes, NEW ctxs \in Seq(Entry), NEW u \in Uris
  PROVE  Latest(u, ctxs) \in Nat \cup {Nothing}
  <1> DEFINE T == {ctxs[i].at : i \in {j \in DOMAIN ctxs : ctxs[j].uri = u}}
             K == IF known[u] = Nothing THEN {} ELSE {known[u]}
             S == T \cup K
  <1>1. known[u] \in Nat \cup {Nothing}
    BY DEF KnownTypes
  <1>2. CASE T = {}
    BY <1>1, <1>2 DEF Latest
  <1>3. CASE T # {}
    <2>1. \A i \in DOMAIN ctxs : ctxs[i].at \in Nat /\ ctxs[i].at <= MaxClock
      BY EntryIs
    <2>2. T \in SUBSET (0 .. MaxClock) /\ MaxClock \in Nat
      BY <2>1, HistoryAssumption DEF HistoryAssumption
    <2>3. PICK top \in Nat : \A x \in S : x <= top
      <3>1. CASE known[u] = Nothing
        <4>1. S = T
          BY <3>1
        <4>2. \A x \in S : x <= MaxClock
          BY <2>2, <4>1
        <4> HIDE DEF S
        <4> QED
          BY <2>2, <4>2
      <3>2. CASE known[u] # Nothing
        <4>1. PICK k \in Nat : k = known[u]
          BY <1>1, <3>2
        <4>2. \A x \in S : x \in 0 .. MaxClock \/ x = k
          BY <2>2, <3>2, <4>1
        <4>3. ASSUME NEW x \in S PROVE x <= MaxClock + k
          <5>1. CASE x \in 0 .. MaxClock
            BY <2>2, <5>1
          <5>2. CASE x = k
            BY <2>2, <5>2
          <5> QED
            BY <4>2, <5>1, <5>2
        <4> QED
          <5>1. MaxClock + k \in Nat
            BY <2>2
          <5> QED
            BY <4>3, <5>1
      <3> QED
        BY <1>1, <3>1, <3>2
    <2>4. S \in SUBSET Nat /\ S # {}
      <3>1. K \in SUBSET Nat
        BY <1>1
      <3>2. T \in SUBSET Nat
        BY <2>2
      <3> QED
        BY <1>3, <3>1, <3>2
    <2> HIDE DEF S
    <2>5. \E x \in S : \A y \in S : x >= y
      <3> DEFINE D == {top - x : x \in S}
      <3>1. D \in SUBSET Nat /\ D # {}
        <4>1. ASSUME NEW x \in S PROVE top - x \in Nat
          BY <2>3, <2>4
        <4> QED
          BY <2>4, <4>1
      <3>2. PICK d \in D : \A e \in D : d <= e
        BY <3>1, LeastExists
      <3>3. PICK x \in S : d = top - x
        BY <3>2
      <3>4. ASSUME NEW y \in S PROVE x >= y
        <4>1. top - y \in D
          OBVIOUS
        <4>2. top - x <= top - y
          BY <3>2, <3>3, <4>1
        <4>3. x \in Nat /\ y \in Nat
          BY <2>4
        <4> QED
          BY <4>2, <4>3
      <3> QED
        BY <3>3, <3>4
    <2>6. Max(S) \in S
      BY <2>5 DEF Max
    <2>7. Latest(u, ctxs) = Max(S)
      BY <1>3 DEF Latest, S
    <2> QED
      BY <2>4, <2>6, <2>7
  <1> QED
    BY <1>2, <1>3

LEMMA MergeStepKeeps ==
  ASSUME IInv, NEW p \in Pollers, Merge(p)
  PROVE  IInv'
  <1>1. PICK ctxs \in Seq(Entry) : ctxs = fetched[p]
    BY DEF IInv, Types, Merge
  <1>2. history' = Merged(history, ctxs) /\ saving' = (history' # history) /\ up /\ ~saving
    BY <1>1 DEF Merge
  <1>3. known' = [u \in Uris |-> Latest(u, ctxs)]
    BY <1>1 DEF Merge
  <1>4. UNCHANGED <<played, clock, up, disk, written>>
    BY DEF Merge
  <1>5. KnownTypes /\ Canonical(history) /\ Kept(history, known) /\ Older(history, known)
    BY <1>2 DEF IInv, Types, BothCanonical, Remembered
  <1>6. PICK r : r = history'
    OBVIOUS
  <1>7. PICK new : new = known'
    OBVIOUS
  <1>8. Canonical(r) /\ Kept(r, new) /\ Older(r, new)
    BY <1>2, <1>3, <1>5, <1>6, <1>7, MergeKeeps
  <1>9. new \in [Uris -> Nat \cup {Nothing}]
    BY <1>3, <1>5, <1>7, LatestType
  <1>10. fetched' \in [Pollers -> Seq(Entry) \cup {Nothing}]
    BY DEF Merge, IInv, Types
  <1>11. Types'
    BY <1>2, <1>4, <1>7, <1>9, <1>10 DEF IInv, Types, KnownTypes
  <1>12. BothCanonical'
    BY <1>4, <1>6, <1>8 DEF IInv, BothCanonical
  <1>13. Remembered'
    BY <1>6, <1>7, <1>8 DEF Remembered
  <1>14. RestartRemembers'
    BY <1>2, <1>4 DEF IInv, RestartRemembers
  <1> QED
    BY <1>11, <1>12, <1>13, <1>14 DEF IInv

LEMMA SaveKeeps ==
  ASSUME IInv, Save
  PROVE  IInv'
  <1>1. UNCHANGED <<played, clock, up, history, fetched, known>> /\ saving' = FALSE
    BY DEF Save
  <1>2. \/ disk' = history /\ written' = TRUE
        \/ disk' \in {disk, Torn} /\ written' = FALSE
    BY DEF Save
  <1>3. Types'
    BY <1>1, <1>2 DEF IInv, Types, KnownTypes
  <1>4. BothCanonical'
    BY <1>1, <1>2 DEF IInv, BothCanonical
  <1>5. Remembered'
    BY <1>1 DEF IInv, Remembered
  <1>6. RestartRemembers'
    BY <1>1, <1>2 DEF RestartRemembers
  <1> QED
    BY <1>3, <1>4, <1>5, <1>6 DEF IInv

LEMMA CrashKeeps ==
  ASSUME IInv, Crash
  PROVE  IInv'
  <1>1. UNCHANGED <<played, clock, history, written, known>> /\ saving' = FALSE /\ up' = FALSE
    BY DEF Crash
  <1>2. disk' \in {disk, Torn, history}
    BY DEF Crash
  <1>3. fetched' \in [Pollers -> Seq(Entry) \cup {Nothing}]
    BY DEF Crash
  <1>4. Types'
    BY <1>1, <1>3 DEF IInv, Types, KnownTypes
  <1>5. BothCanonical'
    BY <1>1, <1>2 DEF IInv, BothCanonical
  <1>6. Remembered' /\ RestartRemembers'
    BY <1>1 DEF Remembered, RestartRemembers
  <1> QED
    BY <1>4, <1>5, <1>6 DEF IInv

LEMMA RestartKeeps ==
  ASSUME IInv, Restart
  PROVE  IInv'
  <1>1. UNCHANGED <<played, clock, disk, saving, fetched>> /\ up' = TRUE /\ written' = (disk # Torn)
    BY DEF Restart
  <1>2. PICK h : h = history'
    OBVIOUS
  <1>3. h = IF disk = Torn THEN <<>> ELSE disk
    BY <1>2 DEF Restart
  <1>4. Canonical(h)
    BY <1>3, EmptyIsCanonical DEF IInv, BothCanonical
  <1>5. PICK new : new = known'
    OBVIOUS
  <1>6. new = [u \in Uris |-> IF IndexOfUri(h, u) = 0 THEN Nothing ELSE h[IndexOfUri(h, u)].at]
    BY <1>2, <1>5 DEF Restart
  <1>7. h \in Seq(Entry) /\ Distinct(h)
    BY <1>4 DEF Canonical
  <1>8. ASSUME NEW u \in Uris, NEW i, i = IndexOfUri(h, u)
        PROVE  \/ i = 0 /\ new[u] = Nothing /\ \A j \in DOMAIN h : h[j].uri # u
               \/ i \in DOMAIN h /\ i # 0 /\ h[i].uri = u /\ new[u] = h[i].at
    <2>1. \/ i = 0 /\ \A j \in DOMAIN h : h[j].uri # u
          \/ i \in DOMAIN h /\ h[i].uri = u
      BY <1>7, <1>8, IndexIs
    <2>2. i \in DOMAIN h => i # 0
      BY <1>7
    <2>3. new[u] = IF i = 0 THEN Nothing ELSE h[i].at
      BY <1>6, <1>8
    <2> QED
      BY <2>1, <2>2, <2>3
  <1>9. new \in [Uris -> Nat \cup {Nothing}]
    <2>1. ASSUME NEW u \in Uris PROVE new[u] \in Nat \cup {Nothing}
      BY <1>7, <1>8, EntryIs
    <2> QED
      BY <1>6, <2>1
  <1>10. Kept(h, new)
    <2> SUFFICES ASSUME NEW j \in DOMAIN h PROVE h[j].at = new[h[j].uri]
      BY DEF Kept
    <2>1. PICK u \in Uris : u = h[j].uri
      BY <1>7, EntryIs
    <2>2. PICK i : i = IndexOfUri(h, u)
      OBVIOUS
    <2>3. i \in DOMAIN h /\ h[i].uri = u /\ new[u] = h[i].at
      BY <1>8, <2>1, <2>2
    <2>4. i = j
      BY <1>7, <2>1, <2>3 DEF Distinct
    <2> QED
      BY <2>1, <2>3, <2>4
  <1>11. Older(h, new)
    <2> SUFFICES ASSUME NEW u \in Uris, new[u] # Nothing, \A i \in DOMAIN h : h[i].uri # u
                 PROVE  FALSE
      BY DEF Older
    <2>1. PICK i : i = IndexOfUri(h, u)
      OBVIOUS
    <2> QED
      BY <1>8, <2>1
  <1>12. Types'
    BY <1>1, <1>5, <1>9 DEF IInv, Types, KnownTypes
  <1>13. BothCanonical'
    BY <1>1, <1>2, <1>4 DEF IInv, BothCanonical
  <1>14. Remembered'
    BY <1>2, <1>5, <1>10, <1>11 DEF Remembered
  <1>15. RestartRemembers'
    BY <1>1, <1>2, <1>3 DEF RestartRemembers
  <1> QED
    BY <1>12, <1>13, <1>14, <1>15 DEF IInv

LEMMA StepInv == IInv /\ [Next]_vars => IInv'
  <1> SUFFICES ASSUME IInv, [Next]_vars PROVE IInv'
    OBVIOUS
  <1>1. ASSUME NEW u \in Uris, NEW t \in Tracks, Listen(u, t) PROVE IInv'
    BY <1>1, ListenKeeps
  <1>2. ASSUME NEW p \in Pollers, FetchRecent(p) PROVE IInv'
    BY <1>2, FetchRecentKeeps
  <1>3. CASE FetchPlaylists
    BY <1>3, FetchPlaylistsKeeps
  <1>4. CASE ResolveMorning
    BY <1>4, ResolveMorningKeeps
  <1>5. ASSUME NEW p \in Pollers, Merge(p) PROVE IInv'
    BY <1>5, MergeStepKeeps
  <1>6. CASE Save
    BY <1>6, SaveKeeps
  <1>7. CASE Crash
    BY <1>7, CrashKeeps
  <1>8. CASE Restart
    BY <1>8, RestartKeeps
  <1>9. CASE UNCHANGED vars
    <2>1. Types'
      BY <1>9 DEF vars, IInv, Types, KnownTypes
    <2> QED
      BY <1>9, <2>1, CallsKeep DEF vars
  <1> QED
    BY <1>1, <1>2, <1>3, <1>4, <1>5, <1>6, <1>7, <1>8, <1>9 DEF Next

\* Whatever is fetched, merged, written, lost in a crash and read again
\* (sound/spotify.go:570-668), the history and the file are ones that merges of
\* entries leave, and the history has the latest time of all it keeps.
THEOREM HistoryInvariant == Spec => []IInv
  <1> QED
    BY InitInv, StepInv, PTL DEF Spec

-----------------------------------------------------------------------------
(* What the invariant says. *)

\* A history never holds a context twice, is most recently played first and
\* within the cap (sound/spotify.go:627-668).
THEOREM HistoryIsCanonical == Spec => []HistoryCanonical
  <1>1. ASSUME IInv PROVE HistoryCanonical
    <2>1. Canonical(history)
      BY <1>1 DEF IInv, BothCanonical
    <2>2. Len(history) <= Cap
      BY <2>1 DEF Canonical
    <2>3. ASSUME NEW i \in DOMAIN history, NEW j \in DOMAIN history, i < j
          PROVE  history[i].uri # history[j].uri /\ history[i].at >= history[j].at
      <3>1. i # j
        BY <2>1, <2>3, EntryIs DEF Canonical
      <3> QED
        BY <2>1, <2>3, <3>1 DEF Canonical, Distinct
    <2> QED
      BY <2>2, <2>3 DEF HistoryCanonical
  <1> QED
    BY <1>1, HistoryInvariant, PTL

\* An answer merged late never turns a time back (sound/spotify.go:644-647).
THEOREM TimesOnlyRise == Spec => []PlayedAtKeptAtMaximum
  <1>1. IInv => PlayedAtKeptAtMaximum
    BY DEF IInv, Remembered, Kept, PlayedAtKeptAtMaximum
  <1> QED
    BY <1>1, HistoryInvariant, PTL

\* Only a full history of later contexts lacks one that was merged
\* (sound/spotify.go:660-665).
THEOREM TheOldestAreDropped == Spec => []CapDropsOnlyOlder
  <1>1. ASSUME IInv PROVE CapDropsOnlyOlder
    <2> SUFFICES ASSUME up, NEW u \in Uris, known[u] # Nothing, IndexOfUri(history, u) = 0
                 PROVE  Len(history) = Cap /\ \A i \in DOMAIN history : history[i].at >= known[u]
      BY DEF CapDropsOnlyOlder
    <2>1. history \in Seq(Entry) /\ Older(history, known)
      BY <1>1 DEF IInv, BothCanonical, Canonical, Remembered
    <2>2. 0 \notin DOMAIN history
      BY <2>1
    <2>3. \A i \in DOMAIN history : history[i].uri # u
      BY <2>1, <2>2, IndexIs
    <2> QED
      BY <2>1, <2>3 DEF Older
  <1> QED
    BY <1>1, HistoryInvariant, PTL

\* Between merges the file is the history, unless its last write failed
\* (sound/spotify.go:612-625, 666).
THEOREM FileIsHistory == Spec => []RestartRemembers
  <1>1. IInv => RestartRemembers
    BY DEF IInv
  <1> QED
    BY <1>1, HistoryInvariant, PTL
=============================================================================
