------------------------- MODULE WorkerSessionProofs -------------------------
(***************************************************************************)
(* Proofs about WorkerSession and RustCompiler: a running worker is owned   *)
(* (WorkersOwned) and an accepted contribution is current (AnswersCurrent). *)
(*                                                                         *)
(* The second one rests on what the recursive definition of Reachable       *)
(* computes.  The library's induction rules are stated with operators as    *)
(* parameters; here induction is over sets of numbers (Induction), by the   *)
(* least number outside of the set, which is enough for it.                 *)
(***************************************************************************)
EXTENDS WorkerSession, FiniteSetTheorems, WellFoundedInduction, TLAPS

-----------------------------------------------------------------------------
(***************************************************************************)
(* Reachability.                                                           *)
(***************************************************************************)
(* A set of numbers that holds 0 and with each number the next holds all.   *)
LEMMA Induction ==
    ASSUME NEW S, 0 \in S, \A n \in Nat : n \in S => n + 1 \in S
    PROVE  \A n \in Nat : n \in S
<1>1. SUFFICES ASSUME NEW k \in Nat, k \notin S
               PROVE  FALSE
  OBVIOUS
<1>2. PICK T : T = {n \in Nat : n \notin S}
  OBVIOUS
<1>3. PICK R : R = {e \in Nat \X Nat : e[1] < e[2]}
  OBVIOUS
<1>4. IsWellFoundedOn({e \in Nat \X Nat : e[1] < e[2]}, Nat)
  BY NatLessThanWellFounded, Zenon DEF OpToRel
<1>5. T \subseteq Nat /\ T # {}
  BY <1>1, <1>2
<1>6. PICK x \in T : \A y \in T : ~(<<y, x>> \in R)
  BY <1>3, <1>4, <1>5, WFMin, Zenon
<1>7. x \in Nat /\ x \notin S /\ x # 0
  BY <1>2
<1>8. x - 1 \in Nat /\ x - 1 \in T
  BY <1>2, <1>7
<1>9. <<x - 1, x>> \in {e \in Nat \X Nat : e[1] < e[2]}
  BY <1>7, <1>8
<1>. QED BY <1>3, <1>6, <1>8, <1>9, Zenon

(* A function can be iterated: there is a sequence that starts at a point   *)
(* and goes on from each point to its image.                                *)
LEMMA Iterates ==
    ASSUME NEW D, NEW a \in D, NEW step \in [D -> D]
    PROVE  \E w \in [Nat -> D] : w[0] = a /\ \A n \in Nat : w[n + 1] = step[w[n]]
<1>. DEFINE upto(n, h) == h[0] = a /\ \A i \in Nat : i < n => h[i + 1] = step[h[i]]
<1>1. \A n \in Nat : n \in {k \in Nat : \E h \in [Nat -> D] : upto(k, h)}
  <2>. DEFINE S == {k \in Nat : \E h \in [Nat -> D] : upto(k, h)}
  <2>1. 0 \in S
    <3>1. [i \in Nat |-> a] \in [Nat -> D] /\ upto(0, [i \in Nat |-> a])
      OBVIOUS
    <3>. QED BY <3>1
  <2>2. ASSUME NEW n \in Nat, n \in S
        PROVE  n + 1 \in S
    <3>1. PICK h \in [Nat -> D] : upto(n, h)
      BY <2>2
    <3>2. PICK g : g = [h EXCEPT ![n + 1] = step[h[n]]]
      OBVIOUS
    <3>3. g \in [Nat -> D]
      BY <3>2
    <3>4. g[0] = a
      BY <3>1, <3>2
    <3>5. ASSUME NEW i \in Nat, i < n + 1
          PROVE  g[i + 1] = step[g[i]]
      <4>1. CASE i = n
        BY <4>1, <3>2
      <4>2. CASE i < n
        BY <4>2, <3>1, <3>2
      <4>. QED BY <3>5, <4>1, <4>2
    <3>. QED BY <3>3, <3>4, <3>5
  <2>3. \A n \in Nat : n \in S
    <3>. HIDE DEF S
    <3>. QED BY <2>1, <2>2, Induction
  <2>. QED BY <2>3
<1>2. ASSUME NEW n \in Nat, NEW h \in [Nat -> D], upto(n, h),
             NEW m \in Nat, NEW g \in [Nat -> D], upto(m, g), n <= m
      PROVE  h[n] = g[n]
  <2>. DEFINE S == {k \in Nat : k <= n => h[k] = g[k]}
  <2>1. 0 \in S
    BY <1>2
  <2>2. \A k \in Nat : k \in S => k + 1 \in S
    <3>. TAKE k \in Nat
    <3>1. HAVE k \in S
    <3>2. k + 1 <= n => k < n /\ k < m /\ k <= n
      BY <1>2
    <3>. QED BY <1>2, <3>1, <3>2
  <2>3. n \in S
    <3>. HIDE DEF S
    <3>. QED BY <2>1, <2>2, Induction
  <2>. QED BY <2>3
<1>3. PICK H \in [Nat -> [Nat -> D]] : \A n \in Nat : upto(n, H[n])
  <2>1. \A n \in Nat : \E h \in [Nat -> D] : upto(n, h)
    BY <1>1
  <2>. HIDE DEF upto
  <2>2. PICK M : M = [Nat -> D]
    OBVIOUS
  <2>3. \A n \in Nat : \E h \in M : upto(n, h)
    BY <2>1, <2>2
  <2>4. PICK H : H = [n \in Nat |-> CHOOSE h \in M : upto(n, h)]
    OBVIOUS
  <2>5. \A n \in Nat : H[n] \in M /\ upto(n, H[n])
    BY <2>3, <2>4
  <2>6. H \in [Nat -> M]
    BY <2>4, <2>5
  <2>. QED BY <2>2, <2>5, <2>6
<1>4. PICK w : w = [n \in Nat |-> H[n][n]]
  OBVIOUS
<1>5. w \in [Nat -> D] /\ w[0] = a
  BY <1>3, <1>4
<1>6. ASSUME NEW n \in Nat
      PROVE  w[n + 1] = step[w[n]]
  <2>1. upto(n, H[n]) /\ upto(n + 1, H[n + 1]) /\ n + 1 \in Nat /\ n <= n + 1
    BY <1>3
  <2>2. H[n][n] = H[n + 1][n]
    <3>. HIDE DEF upto
    <3>. QED BY <1>2, <1>3, <2>1
  <2>3. H[n + 1][n + 1] = step[H[n + 1][n]]
    BY <2>1
  <2>. QED BY <1>4, <2>2, <2>3
<1>. QED BY <1>5, <1>6

(* Reachable: its recursive function exists, so that its stages follow from *)
(* one another and the last one is the result.                              *)
LEMMA Stages ==
    ASSUME NEW edges \in [Files -> SUBSET Files], NEW f \in Files
    PROVE  \E w \in [Nat -> SUBSET Files] :
              /\ w[0] = edges[f]
              /\ \A n \in Nat : w[n + 1] = w[n] \cup UNION {edges[g] : g \in w[n]}
              /\ Reachable(edges, f) = w[Cardinality(Files)]
<1>1. PICK step : step = [X \in SUBSET Files |-> X \cup UNION {edges[g] : g \in X}]
  OBVIOUS
<1>2. step \in [SUBSET Files -> SUBSET Files] /\ edges[f] \in SUBSET Files
  BY <1>1
<1>3. PICK w \in [Nat -> SUBSET Files] :
          w[0] = edges[f] /\ \A n \in Nat : w[n + 1] = step[w[n]]
  <2>1. PICK D : D = SUBSET Files
    OBVIOUS
  <2>2. step \in [D -> D] /\ edges[f] \in D
    BY <1>2, <2>1
  <2>3. \E w \in [Nat -> D] :
            w[0] = edges[f] /\ \A n \in Nat : w[n + 1] = step[w[n]]
    BY <2>2, Iterates
  <2>. QED BY <2>1, <2>3
<1>4. \A n \in Nat : w[n + 1] = w[n] \cup UNION {edges[g] : g \in w[n]}
  BY <1>1, <1>3
<1>. DEFINE F(v) == [n \in Nat |-> IF n = 0 THEN edges[f]
                         ELSE v[n - 1] \cup UNION {edges[g] : g \in v[n - 1]}]
<1>5. w = F(w)
  <2>1. ASSUME NEW n \in Nat
        PROVE  w[n] = F(w)[n]
    <3>1. CASE n = 0
      BY <1>3, <3>1
    <3>2. CASE n # 0
      <4>1. n - 1 \in Nat /\ (n - 1) + 1 = n
        BY <3>2
      <4>2. w[n] = w[n - 1] \cup UNION {edges[g] : g \in w[n - 1]}
        BY <1>4, <4>1
      <4>. QED BY <3>2, <4>2
    <3>. QED BY <3>1, <3>2
  <2>2. DOMAIN w = Nat /\ w = [n \in Nat |-> w[n]]
    BY <1>3
  <2>. QED BY <2>1, <2>2
<1>6. PICK v : v = F(v) /\ Reachable(edges, f) = v[Cardinality(Files)]
  BY <1>5 DEF Reachable
<1>7. Cardinality(Files) \in Nat
  BY FS_CardinalityType, SnapshotsAssumption
<1>8. \A n \in Nat : v[n] = w[n]
  <2>. DEFINE S == {n \in Nat : v[n] = w[n]}
  <2>1. v[0] = edges[f]
    BY <1>6
  <2>2. \A n \in Nat : v[n + 1] = v[n] \cup UNION {edges[g] : g \in v[n]}
    <3>. TAKE n \in Nat
    <3>1. n + 1 \in Nat /\ n + 1 # 0 /\ (n + 1) - 1 = n
      OBVIOUS
    <3>. QED BY <1>6, <3>1
  <2>3. 0 \in S
    BY <1>3, <2>1
  <2>4. ASSUME NEW n \in Nat, n \in S
        PROVE  n + 1 \in S
    <3>1. v[n] = w[n] /\ n + 1 \in Nat
      BY <2>4
    <3>2. v[n + 1] = v[n] \cup UNION {edges[g] : g \in v[n]}
      BY <2>2
    <3>3. w[n + 1] = v[n] \cup UNION {edges[g] : g \in v[n]}
      BY <1>4, <3>1, Zenon
    <3>. QED BY <3>1, <3>2, <3>3
  <2>5. \A n \in Nat : n \in S
    <3>. HIDE DEF S
    <3>. QED BY <2>3, <2>4, Induction
  <2>. QED BY <2>5
<1>. QED BY <1>3, <1>4, <1>6, <1>7, <1>8

(* A file that is reached at one stage is reached at every later one.       *)
LEMMA StagesGrow ==
    ASSUME NEW edges, NEW w \in [Nat -> SUBSET Files],
           \A n \in Nat : w[n + 1] = w[n] \cup UNION {edges[g] : g \in w[n]},
           NEW m \in Nat, NEW n \in Nat, m <= n
    PROVE  w[m] \subseteq w[n]
<1>. DEFINE S == {k \in Nat : m <= k => w[m] \subseteq w[k]}
<1>1. 0 \in S
  OBVIOUS
<1>2. ASSUME NEW k \in Nat, k \in S
      PROVE  k + 1 \in S
  <2>1. w[k] \subseteq w[k + 1]
    OBVIOUS
  <2>2. CASE m <= k
    BY <1>2, <2>1, <2>2
  <2>3. CASE m = k + 1
    BY <2>3
  <2>4. CASE m > k + 1
    BY <2>4
  <2>. QED BY <2>2, <2>3, <2>4
<1>3. n \in S
  <2>. HIDE DEF S
  <2>. QED BY <1>1, <1>2, Induction
<1>. QED BY <1>3

(* What is reached from a file depends on the edges of what is reached.     *)
LEMMA ReachableLocal ==
    ASSUME NEW edges \in [Files -> SUBSET Files], NEW others \in [Files -> SUBSET Files],
           NEW f \in Files,
           \A g \in {f} \cup Reachable(edges, f) : edges[g] = others[g]
    PROVE  Reachable(others, f) = Reachable(edges, f)
<1>1. PICK w \in [Nat -> SUBSET Files] :
          /\ w[0] = edges[f]
          /\ \A n \in Nat : w[n + 1] = w[n] \cup UNION {edges[g] : g \in w[n]}
          /\ Reachable(edges, f) = w[Cardinality(Files)]
  BY Stages
<1>2. PICK v \in [Nat -> SUBSET Files] :
          /\ v[0] = others[f]
          /\ \A n \in Nat : v[n + 1] = v[n] \cup UNION {others[g] : g \in v[n]}
          /\ Reachable(others, f) = v[Cardinality(Files)]
  BY Stages
<1>3. PICK N : N = Cardinality(Files)
  OBVIOUS
<1>4. N \in Nat
  BY <1>3, FS_CardinalityType, SnapshotsAssumption
<1>. DEFINE S == {n \in Nat : n <= N => v[n] = w[n]}
<1>5. 0 \in S
  BY <1>1, <1>2
<1>6. ASSUME NEW n \in Nat, n \in S
      PROVE  n + 1 \in S
  <2>1. SUFFICES ASSUME n + 1 <= N
                 PROVE  v[n + 1] = w[n + 1]
    OBVIOUS
  <2>2. n <= N /\ v[n] = w[n]
    BY <1>4, <1>6, <2>1
  <2>3. w[n] \subseteq w[N]
    BY <1>1, <1>4, <2>2, StagesGrow
  <2>4. \A g \in w[n] : edges[g] = others[g]
    BY <1>1, <1>3, <2>3
  <2>5. UNION {edges[g] : g \in w[n]} = UNION {others[g] : g \in w[n]}
    BY <2>4
  <2>6. w[n + 1] = w[n] \cup UNION {edges[g] : g \in w[n]}
    BY <1>1, Zenon
  <2>7. v[n + 1] = w[n] \cup UNION {others[g] : g \in w[n]}
    BY <1>2, <2>2, Zenon
  <2>. QED BY <2>5, <2>6, <2>7
<1>7. N \in S
  <2>. HIDE DEF S
  <2>. QED BY <1>4, <1>5, <1>6, Induction
<1>. QED BY <1>1, <1>2, <1>3, <1>4, <1>7

(* Edges that lack only some from a file to itself reach as far.            *)
LEMMA ReachableWithoutLoops ==
    ASSUME NEW edges \in [Files -> SUBSET Files], NEW others \in [Files -> SUBSET Files],
           NEW f \in Files,
           \A g \in {f} \cup Reachable(edges, f) : edges[g] \subseteq others[g] \cup {g}
    PROVE  Reachable(edges, f) \subseteq Reachable(others, f) \cup {f}
<1>1. PICK w \in [Nat -> SUBSET Files] :
          /\ w[0] = edges[f]
          /\ \A n \in Nat : w[n + 1] = w[n] \cup UNION {edges[g] : g \in w[n]}
          /\ Reachable(edges, f) = w[Cardinality(Files)]
  BY Stages
<1>2. PICK v \in [Nat -> SUBSET Files] :
          /\ v[0] = others[f]
          /\ \A n \in Nat : v[n + 1] = v[n] \cup UNION {others[g] : g \in v[n]}
          /\ Reachable(others, f) = v[Cardinality(Files)]
  BY Stages
<1>3. PICK N : N = Cardinality(Files)
  OBVIOUS
<1>4. N \in Nat
  BY <1>3, FS_CardinalityType, SnapshotsAssumption
<1>. DEFINE S == {n \in Nat : n <= N => w[n] \subseteq v[n] \cup {f}}
<1>5. 0 \in S
  BY <1>1, <1>2
<1>6. ASSUME NEW n \in Nat, n \in S
      PROVE  n + 1 \in S
  <2>1. SUFFICES ASSUME n + 1 <= N, NEW h \in w[n + 1], h # f
                 PROVE  h \in v[n + 1]
    OBVIOUS
  <2>2. n <= N /\ w[n] \subseteq v[n] \cup {f}
    BY <1>4, <1>6, <2>1
  <2>3. w[n] \subseteq w[N] /\ v[0] \subseteq v[n]
    BY <1>1, <1>2, <1>4, <2>2, StagesGrow
  <2>4. v[n + 1] = v[n] \cup UNION {others[g] : g \in v[n]}
    BY <1>2, Zenon
  <2>5. w[n + 1] = w[n] \cup UNION {edges[g] : g \in w[n]}
    BY <1>1, Zenon
  <2>6. CASE h \in w[n]
    BY <2>1, <2>2, <2>4, <2>6
  <2>7. CASE h \notin w[n]
    <3>1. PICK g \in w[n] : h \in edges[g]
      BY <2>1, <2>5, <2>7
    <3>2. h \in others[g]
      BY <1>1, <1>3, <2>3, <2>7, <3>1
    <3>3. CASE g = f
      BY <1>2, <2>3, <2>4, <3>2, <3>3
    <3>4. CASE g # f
      BY <2>2, <2>4, <3>1, <3>2, <3>4
    <3>. QED BY <3>3, <3>4
  <2>. QED BY <2>6, <2>7
<1>7. N \in S
  <2>. HIDE DEF S
  <2>. QED BY <1>4, <1>5, <1>6, Induction
<1>. QED BY <1>1, <1>2, <1>3, <1>4, <1>7

-----------------------------------------------------------------------------
(***************************************************************************)
(* The cache of the compiler.                                              *)
(***************************************************************************)
Texts == {s.text : s \in Snapshots}
Summaries(text) == [f \in Files |-> file_analysis(text, f)]
Resolutions == {resolve_call(text, f) : text \in Texts, f \in Files}

(* The calls of which the cache may claim to know the resolution.           *)
imported(text, f) ==
    /\ text[f].paths = {}
    /\ \A g \in consulted(text, f) : text[g].analyzable

(* Cached resolutions are what the compiler says of some texts.             *)
Sound(text, resolutions) ==
    \A r \in resolutions : imported(text, r[1]) => r[2] = resolve_call(text, r[1])

(* The texts of a snapshot are typed, and bodies tell what they name.       *)
LEMMA TextType ==
    ASSUME NEW text \in Texts, NEW f \in Files
    PROVE  /\ text[f].imports \subseteq Files
           /\ text[f].paths \subseteq Files
           /\ text[f].analyzable \in BOOLEAN
           /\ \A other \in Texts : text[f].body = other[f].body => text[f].paths = other[f].paths
BY SnapshotsAssumption DEF Texts

(* A summary determines what other files see of its file, its body and what *)
(* the body names.                                                          *)
LEMMA SummaryTells ==
    ASSUME NEW before \in Texts, NEW after \in Texts, NEW f \in Files,
           file_analysis(before, f) = file_analysis(after, f)
    PROVE  /\ surface(before[f]) = surface(after[f])
           /\ before[f].body = after[f].body
           /\ before[f].paths = after[f].paths
<1>1. before[f].analyzable \in BOOLEAN /\ after[f].analyzable \in BOOLEAN
  BY TextType
<1>2. before[f].analyzable = after[f].analyzable
  BY <1>1 DEF file_analysis
<1>3. CASE ~before[f].analyzable
  <2>1. before[f] = after[f]
    BY <1>1, <1>2, <1>3 DEF file_analysis
  <2>. QED BY <2>1
<1>4. CASE before[f].analyzable
  <2>1. before[f].imports = after[f].imports
    BY <1>1, <1>2, <1>4 DEF file_analysis
  <2>2. PICK a : a = [interface |-> before[f].interface, body |-> before[f].body]
    OBVIOUS
  <2>3. PICK b : b = [interface |-> after[f].interface, body |-> after[f].body]
    OBVIOUS
  <2>4. {a} = {b}
    BY <1>1, <1>2, <1>4, <2>2, <2>3 DEF file_analysis
  <2>5. a.interface = b.interface /\ a.body = b.body
    BY <2>4
  <2>6. before[f].interface = after[f].interface /\ before[f].body = after[f].body
    BY <2>2, <2>3, <2>5
  <2>. QED BY <1>2, <2>1, <2>6, TextType DEF surface
<1>. QED BY <1>3, <1>4

(* A call that names only what is imported consults what imports reach.     *)
LEMMA ImportedConsults ==
    ASSUME NEW text \in Texts, NEW f \in Files, text[f].paths = {}
    PROVE  /\ [g \in Files |-> text[g].imports] \in [Files -> SUBSET Files]
           /\ consulted(text, f) = {f} \cup Reachable([g \in Files |-> text[g].imports], f)
           /\ consulted(text, f) \subseteq Files
<1>1. PICK imports : imports = [g \in Files |-> text[g].imports]
  OBVIOUS
<1>2. imports \in [Files -> SUBSET Files]
  BY <1>1, TextType
<1>3. Reachable(imports, f) \subseteq Files
  <2>1. Cardinality(Files) \in Nat
    BY FS_CardinalityType, SnapshotsAssumption
  <2>. QED BY <1>2, <2>1, Stages
<1>4. consulted(text, f) = {f} \cup Reachable(imports, f)
  BY <1>1 DEF consulted
<1>. QED BY <1>1, <1>2, <1>3, <1>4

(* The resolution of such a call depends on its body and on what is seen of *)
(* the files that it consults.                                              *)
LEMMA SameResolution ==
    ASSUME NEW before \in Texts, NEW after \in Texts, NEW f \in Files,
           imported(after, f), before[f].body = after[f].body,
           \A g \in consulted(after, f) : surface(before[g]) = surface(after[g])
    PROVE  imported(before, f) /\ resolve_call(before, f) = resolve_call(after, f)
<1>1. after[f].paths = {} /\ before[f].paths = {}
  BY TextType DEF imported
<1>2. PICK old : old = [g \in Files |-> before[g].imports]
  OBVIOUS
<1>3. PICK new : new = [g \in Files |-> after[g].imports]
  OBVIOUS
<1>4. /\ old \in [Files -> SUBSET Files] /\ new \in [Files -> SUBSET Files]
      /\ consulted(before, f) = {f} \cup Reachable(old, f)
      /\ consulted(after, f) = {f} \cup Reachable(new, f)
      /\ consulted(after, f) \subseteq Files
  BY <1>1, <1>2, <1>3, ImportedConsults
<1>5. \A g \in {f} \cup Reachable(new, f) :
          /\ g \in Files
          /\ before[g].imports = after[g].imports
          /\ before[g].analyzable = after[g].analyzable
  BY <1>4 DEF surface
<1>6. Reachable(old, f) = Reachable(new, f)
  <2>1. \A g \in {f} \cup Reachable(new, f) : new[g] = old[g]
    BY <1>2, <1>3, <1>5
  <2>. QED BY <1>4, <2>1, ReachableLocal
<1>7. consulted(before, f) = consulted(after, f)
  BY <1>4, <1>6
<1>8. imported(before, f)
  BY <1>1, <1>4, <1>5, <1>7 DEF imported
<1>9. {<<g, surface(before[g])>> : g \in consulted(before, f)}
        = {<<g, surface(after[g])>> : g \in consulted(after, f)}
  BY <1>7
<1>. QED BY <1>8, <1>9 DEF resolve_call

(* A summary says whether its file was parsed and names files.              *)
LEMMA SummaryType ==
    ASSUME NEW text \in Texts, NEW f \in Files
    PROVE  /\ file_analysis(text, f).analyzable = text[f].analyzable
           /\ file_analysis(text, f).dependencies \subseteq Files
<1>1. text[f].analyzable \in BOOLEAN /\ text[f].imports \subseteq Files
  BY TextType
<1>2. CASE text[f].analyzable
  BY <1>1, <1>2 DEF file_analysis, resolve_module_dependencies
<1>3. CASE ~text[f].analyzable
  BY <1>1, <1>3 DEF file_analysis
<1>. QED BY <1>2, <1>3

(* The body of a file is unchanged if those of its symbols are.             *)
LEMMA BodyUnchanged ==
    ASSUME NEW before \in Texts, NEW after \in Texts, NEW f \in Files,
           before[f].analyzable, after[f].analyzable,
           ~bodies_changed(file_analysis(before, f), file_analysis(after, f))
    PROVE  before[f].body = after[f].body
<1>1. PICK x : x = {[interface |-> before[f].interface, body |-> before[f].body]}
  OBVIOUS
<1>2. PICK y : y = {[interface |-> after[f].interface, body |-> after[f].body]}
  OBVIOUS
<1>3. file_analysis(before, f).symbols = x /\ file_analysis(after, f).symbols = y
  BY <1>1, <1>2 DEF file_analysis
<1>4. {s.body : s \in x} = {s.body : s \in y}
  BY <1>3 DEF bodies_changed
<1>5. {s.body : s \in x} = {before[f].body} /\ {s.body : s \in y} = {after[f].body}
  BY <1>1, <1>2
<1>. QED BY <1>4, <1>5

(* What others see of a file is unchanged if its module hash and the        *)
(* interfaces of its symbols are.                                           *)
LEMMA SurfaceUnchanged ==
    ASSUME NEW before \in Texts, NEW after \in Texts, NEW f \in Files,
           before[f].analyzable, after[f].analyzable,
           file_analysis(before, f).module_hash = file_analysis(after, f).module_hash,
           ~symbol_interfaces_changed(file_analysis(before, f), file_analysis(after, f))
    PROVE  surface(before[f]) = surface(after[f])
<1>1. PICK x : x = {[interface |-> before[f].interface, body |-> before[f].body]}
  OBVIOUS
<1>2. PICK y : y = {[interface |-> after[f].interface, body |-> after[f].body]}
  OBVIOUS
<1>3. /\ file_analysis(before, f).symbols = x /\ file_analysis(after, f).symbols = y
      /\ before[f].imports = after[f].imports
  BY <1>1, <1>2 DEF file_analysis
<1>4. {s.interface : s \in x} = {s.interface : s \in y}
  BY <1>3 DEF symbol_interfaces_changed
<1>5. {s.interface : s \in x} = {before[f].interface} /\ {s.interface : s \in y} = {after[f].interface}
  BY <1>1, <1>2
<1>6. before[f].interface = after[f].interface
  BY <1>4, <1>5
<1>7. before[f].analyzable = TRUE /\ after[f].analyzable = TRUE
  BY TextType
<1>. QED BY <1>3, <1>6, <1>7 DEF surface

(* retained_resolutions: a resolution that survives is of a file of which   *)
(* nothing that it consults has changed.                                    *)
LEMMA RetainedUnchanged ==
    ASSUME NEW before \in Texts, NEW after \in Texts, NEW updated \in SUBSET Files,
           \A g \in Files \ updated : before[g] = after[g],
           NEW resolutions,
           NEW r \in retained_resolutions(resolutions, Summaries(before), Summaries(after), updated),
           r[1] \in Files, imported(after, r[1])
    PROVE  /\ r \in resolutions
           /\ imported(before, r[1])
           /\ resolve_call(before, r[1]) = resolve_call(after, r[1])
<1>1. PICK f : f = r[1]
  OBVIOUS
<1>2. PICK previous : previous = Summaries(before)
  OBVIOUS
<1>3. PICK files : files = Summaries(after)
  OBVIOUS
<1>4. PICK changed : changed = {g \in Files : \/ previous[g].module_hash # files[g].module_hash
                                              \/ symbol_interfaces_changed(previous[g], files[g])}
  OBVIOUS
<1>5. /\ r \in resolutions
      /\ \A g \in updated : previous[g].analyzable /\ files[g].analyzable
      /\ ~bodies_changed(previous[f], files[f])
      /\ f \notin affected_modules(files, changed)
  BY <1>1, <1>2, <1>3, <1>4 DEF retained_resolutions
<1>6. \A g \in Files : previous[g] = file_analysis(before, g) /\ files[g] = file_analysis(after, g)
  BY <1>2, <1>3 DEF Summaries
<1>7. \A g \in updated : before[g].analyzable /\ after[g].analyzable
  BY <1>5, <1>6, SummaryType
<1>8. ASSUME NEW g \in Files \ changed
      PROVE  surface(before[g]) = surface(after[g])
  <2>1. CASE g \in updated
    BY <1>4, <1>6, <1>7, <2>1, SurfaceUnchanged
  <2>2. CASE g \notin updated
    BY <2>2
  <2>. QED BY <2>1, <2>2
<1>9. before[f].body = after[f].body
  <2>1. CASE f \in updated
    BY <1>1, <1>5, <1>6, <1>7, <2>1, BodyUnchanged
  <2>2. CASE f \notin updated
    BY <1>1, <2>2
  <2>. QED BY <2>1, <2>2
<1>10. PICK dependencies : dependencies = [g \in Files |-> files[g].dependencies]
  OBVIOUS
<1>11. f \notin changed /\ Reachable(dependencies, f) \cap changed = {}
  BY <1>1, <1>5, <1>10 DEF affected_modules
<1>12. PICK imports : imports = [g \in Files |-> after[g].imports]
  OBVIOUS
<1>13. /\ imports \in [Files -> SUBSET Files]
       /\ consulted(after, f) = {f} \cup Reachable(imports, f)
       /\ consulted(after, f) \subseteq Files
  BY <1>1, <1>12, ImportedConsults DEF imported
<1>14. dependencies \in [Files -> SUBSET Files]
  BY <1>6, <1>10, SummaryType
<1>15. \A g \in {f} \cup Reachable(imports, f) : imports[g] \subseteq dependencies[g] \cup {g}
  <2>. TAKE g \in {f} \cup Reachable(imports, f)
  <2>1. g \in Files /\ after[g].analyzable
    BY <1>1, <1>13 DEF imported
  <2>2. file_analysis(after, g).dependencies = after[g].imports \ {g}
    BY <2>1 DEF file_analysis, resolve_module_dependencies
  <2>. QED BY <1>6, <1>10, <1>12, <2>1, <2>2
<1>16. Reachable(imports, f) \subseteq Reachable(dependencies, f) \cup {f}
  BY <1>1, <1>13, <1>14, <1>15, ReachableWithoutLoops
<1>17. \A g \in consulted(after, f) : surface(before[g]) = surface(after[g])
  BY <1>8, <1>11, <1>13, <1>16
<1>. QED BY <1>1, <1>5, <1>9, <1>17, SameResolution

-----------------------------------------------------------------------------
(***************************************************************************)
(* The workspace of the compiler.                                          *)
(***************************************************************************)
CachedFiles == {Summaries(text) : text \in Texts}
Compilers ==
    [shape : Shapes, sources : Texts, dirty : SUBSET Files, files : CachedFiles \cup {<<>>},
     resolutions : SUBSET (Files \X Resolutions), cache_dirty : BOOLEAN]
Caches == [files : CachedFiles, resolutions : SUBSET (Files \X Resolutions)]

(* Between two analyses a compiler has summarized its sources, and what it  *)
(* has resolved is sound.                                                   *)
KnownCompiler(c) ==
    /\ c \in Compilers
    /\ c.dirty = {}
    /\ c.files = Summaries(c.sources)
    /\ Sound(c.sources, c.resolutions)

(* A cache is sound for the texts it has summaries of.                      *)
KnownCache(x) ==
    \/ x = NoCache
    \/ /\ x \in Caches
       /\ \E text \in Texts : x.files = Summaries(text) /\ Sound(text, x.resolutions)

(* A prepared compiler is new, or sound for some earlier texts, from which  *)
(* only its dirty files differ.                                             *)
Prepared(c) ==
    \/ c.files = <<>> /\ c.resolutions = {} /\ c.dirty = Files
    \/ \E text \in Texts :
          /\ c.files = Summaries(text)
          /\ Sound(text, c.resolutions)
          /\ \A f \in Files \ c.dirty : text[f] = c.sources[f]

(* prepare: whether the workspace is kept or loaded from its cache file.    *)
LEMMA PrepareKnows ==
    ASSUME NEW c, c = NoCompiler \/ KnownCompiler(c), NEW s \in Snapshots, NEW d,
           KnownCache(d[s.shape])
    PROVE  /\ prepare(c, s, d) \in Compilers
           /\ prepare(c, s, d).sources = s.text
           /\ prepare(c, s, d).shape = s.shape
           /\ Prepared(prepare(c, s, d))
<1>1. s.shape \in Shapes /\ s.text \in Texts /\ s.shape # "none"
  BY SnapshotsAssumption DEF Shapes, Texts
<1>2. CASE c.shape = s.shape
  <2>1. KnownCompiler(c)
    BY <1>1, <1>2 DEF NoCompiler
  <2>2. PICK e : e = [c EXCEPT !.sources = s.text,
                               !.dirty = @ \cup {f \in Files : c.sources[f] # s.text[f]}]
    OBVIOUS
  <2>3. prepare(c, s, d) = e
    BY <1>2, <2>2 DEF prepare, update
  <2>4. /\ e \in Compilers /\ e.sources = s.text /\ e.shape = s.shape
        /\ e.files = c.files /\ e.resolutions = c.resolutions
        /\ e.dirty = {f \in Files : c.sources[f] # s.text[f]}
    BY <1>1, <1>2, <2>1, <2>2 DEF KnownCompiler, Compilers
  <2>5. c.sources \in Texts
    BY <2>1 DEF KnownCompiler, Compilers
  <2>6. Prepared(e)
    BY <2>1, <2>4, <2>5 DEF KnownCompiler, Prepared
  <2>. QED BY <2>3, <2>4, <2>6
<1>3. CASE c.shape # s.shape
  <2>1. PICK x : x = d[s.shape]
    OBVIOUS
  <2>2. PICK e : e = [shape |-> s.shape, sources |-> s.text, dirty |-> Files, files |-> x.files,
                      resolutions |-> x.resolutions, cache_dirty |-> FALSE]
    OBVIOUS
  <2>3. prepare(c, s, d) = e
    BY <1>3, <2>1, <2>2 DEF prepare, load
  <2>4. x = NoCache => x.files = <<>> /\ x.resolutions = {}
    BY DEF NoCache
  <2>5. x.files \in CachedFiles \cup {<<>>} /\ x.resolutions \in SUBSET (Files \X Resolutions)
    BY <2>1, <2>4 DEF KnownCache, Caches
  <2>6. e \in Compilers
    BY <1>1, <2>2, <2>5 DEF Compilers
  <2>7. Prepared(e)
    BY <2>1, <2>2, <2>4 DEF KnownCache, Prepared
  <2>. QED BY <2>2, <2>3, <2>6, <2>7
<1>. QED BY <1>2, <1>3

(* Summaries that say the same of every file keep what was resolved sound.  *)
LEMMA SameSummaries ==
    ASSUME NEW before \in Texts, NEW after \in Texts, Summaries(before) = Summaries(after),
           NEW resolutions \in SUBSET (Files \X Resolutions), Sound(before, resolutions)
    PROVE  Sound(after, resolutions)
<1>1. \A f \in Files : file_analysis(before, f) = file_analysis(after, f)
  <2>. TAKE f \in Files
  <2>1. Summaries(before)[f] = Summaries(after)[f]
    OBVIOUS
  <2>. QED BY <2>1 DEF Summaries
<1>2. \A f \in Files : surface(before[f]) = surface(after[f]) /\ before[f].body = after[f].body
  BY <1>1, SummaryTells
<1>3. ASSUME NEW r \in resolutions, imported(after, r[1])
      PROVE  r[2] = resolve_call(after, r[1])
  <2>1. r[1] \in Files
    OBVIOUS
  <2>2. consulted(after, r[1]) \subseteq Files
    BY <1>3, <2>1, ImportedConsults DEF imported
  <2>3. imported(before, r[1]) /\ resolve_call(before, r[1]) = resolve_call(after, r[1])
    BY <1>2, <1>3, <2>1, <2>2, SameResolution
  <2>. QED BY <2>3 DEF Sound
<1>. QED BY <1>3 DEF Sound

(* update_file_analyses: the summaries are those of the sources, and what   *)
(* is left of the resolutions is sound for them.                            *)
LEMMA UpdateKnows ==
    ASSUME NEW c \in Compilers, c.dirty = {}, NEW updated \in SUBSET Files,
           \/ c.files = <<>> /\ c.resolutions = {} /\ updated = Files
           \/ \E text \in Texts :
                 /\ c.files = Summaries(text)
                 /\ Sound(text, c.resolutions)
                 /\ \A f \in Files \ updated : text[f] = c.sources[f]
    PROVE  /\ KnownCompiler(update_file_analyses(c, c.sources, updated))
           /\ update_file_analyses(c, c.sources, updated).sources = c.sources
           /\ update_file_analyses(c, c.sources, updated).shape = c.shape
<1>1. PICK text : text = c.sources
  OBVIOUS
<1>2. PICK previous : previous = c.files
  OBVIOUS
<1>3. PICK files : files = [f \in Files |-> IF f \in updated THEN file_analysis(text, f)
                                                              ELSE previous[f]]
  OBVIOUS
<1>4. PICK kept : kept = retained_resolutions(c.resolutions, previous, files, updated)
  OBVIOUS
<1>5. PICK e : e = [c EXCEPT !.files = files, !.cache_dirty = TRUE, !.resolutions = kept]
  OBVIOUS
<1>6. update_file_analyses(c, text, updated) = IF updated = {} \/ files = previous THEN c ELSE e
  BY <1>2, <1>3, <1>4, <1>5 DEF update_file_analyses
<1>7. text \in Texts /\ c.resolutions \in SUBSET (Files \X Resolutions)
  BY <1>1 DEF Compilers
<1>8. kept \subseteq c.resolutions
  BY <1>4 DEF retained_resolutions
<1>9. ASSUME files = Summaries(text), Sound(text, kept)
      PROVE  KnownCompiler(e) /\ e.sources = text /\ e.shape = c.shape
  <2>1. files \in CachedFiles
    BY <1>7, <1>9 DEF CachedFiles
  <2>2. /\ e \in Compilers /\ e.dirty = {} /\ e.files = files /\ e.resolutions = kept
        /\ e.sources = text /\ e.shape = c.shape
    BY <1>1, <1>5, <1>7, <1>8, <2>1 DEF Compilers
  <2>. QED BY <1>9, <2>2 DEF KnownCompiler
<1>10. ASSUME c.files = <<>>, c.resolutions = {}, updated = Files
       PROVE  /\ KnownCompiler(update_file_analyses(c, text, updated))
              /\ update_file_analyses(c, text, updated).sources = text
              /\ update_file_analyses(c, text, updated).shape = c.shape
  <2>1. files = Summaries(text)
    BY <1>3, <1>10 DEF Summaries
  <2>2. kept = {} /\ Sound(text, {}) /\ Sound(text, c.resolutions)
    BY <1>8, <1>10 DEF Sound
  <2>3. updated = {} => files = <<>>
    BY <1>3, <1>10
  <2>4. updated = {} \/ files = previous => KnownCompiler(c)
    BY <1>1, <1>2, <1>10, <2>1, <2>2, <2>3 DEF KnownCompiler
  <2>. QED BY <1>1, <1>6, <1>9, <2>1, <2>2, <2>4
<1>11. ASSUME NEW old \in Texts, c.files = Summaries(old), Sound(old, c.resolutions),
              \A f \in Files \ updated : old[f] = text[f]
       PROVE  /\ KnownCompiler(update_file_analyses(c, text, updated))
              /\ update_file_analyses(c, text, updated).sources = text
              /\ update_file_analyses(c, text, updated).shape = c.shape
  <2>1. \A f \in Files \ updated : previous[f] = file_analysis(text, f)
    <3>. TAKE f \in Files \ updated
    <3>1. previous[f] = file_analysis(old, f)
      BY <1>2, <1>11 DEF Summaries
    <3>2. old[f] = text[f]
      BY <1>11
    <3>3. file_analysis(old, f) = file_analysis(text, f)
      BY <3>2, Zenon DEF file_analysis, resolve_module_dependencies
    <3>. QED BY <3>1, <3>3
  <2>2. files = Summaries(text)
    BY <1>3, <2>1 DEF Summaries
  <2>3. updated = {} => files = previous
    BY <1>2, <1>3, <1>11 DEF Summaries
  <2>4. files = previous => KnownCompiler(c)
    BY <1>1, <1>2, <1>7, <1>11, <2>2, SameSummaries DEF KnownCompiler
  <2>5. ASSUME NEW r \in kept, imported(text, r[1])
        PROVE  r[2] = resolve_call(text, r[1])
    <3>1. r \in retained_resolutions(c.resolutions, Summaries(old), Summaries(text), updated)
      BY <1>2, <1>4, <1>11, <2>2, <2>5
    <3>2. r[1] \in Files
      BY <1>7, <1>8
    <3>3. /\ r \in c.resolutions /\ imported(old, r[1])
          /\ resolve_call(old, r[1]) = resolve_call(text, r[1])
      BY <1>7, <1>11, <2>5, <3>1, <3>2, RetainedUnchanged
    <3>. QED BY <1>11, <3>3 DEF Sound
  <2>6. Sound(text, kept)
    BY <2>5 DEF Sound
  <2>. QED BY <1>1, <1>6, <1>9, <2>2, <2>3, <2>4, <2>6
<1>. QED BY <1>1, <1>10, <1>11

(* What an accepted contribution says of the imported calls of a snapshot.  *)
Current(chunks, s) ==
    /\ imported_calls(chunks, s) = imported_calls(fresh_contribution(s), s)
    /\ {r[1] : r \in chunks} = {r[1] : r \in fresh_contribution(s)}

(* enrich_repository: a prepared compiler becomes a known one, which        *)
(* contributes what is current.                                             *)
LEMMA EnrichKnows ==
    ASSUME NEW p \in Compilers, Prepared(p), NEW s \in Snapshots, p.sources = s.text
    PROVE  /\ KnownCompiler(enrich_repository(p))
           /\ enrich_repository(p).shape = p.shape
           /\ enrich_repository(p).sources = s.text
           /\ Current(contribution(enrich_repository(p)), s)
<1>1. PICK text : text = s.text
  OBVIOUS
<1>2. PICK c : c = [p EXCEPT !.dirty = {}]
  OBVIOUS
<1>3. PICK known : known = update_file_analyses(c, text, p.dirty)
  OBVIOUS
<1>4. PICK misses : misses = {f \in calling(text) : \A r \in known.resolutions : r[1] # f}
  OBVIOUS
<1>5. PICK resolved : resolved = {<<f, resolve_call(text, f)>> : f \in misses}
  OBVIOUS
<1>6. PICK e : e = [known EXCEPT !.resolutions = @ \cup resolved,
                                 !.cache_dirty = @ \/ misses # {}]
  OBVIOUS
<1>7. enrich_repository(p) = e
  BY <1>1, <1>2, <1>3, <1>4, <1>5, <1>6 DEF enrich_repository
<1>8. /\ c \in Compilers /\ c.dirty = {} /\ c.files = p.files /\ c.shape = p.shape
      /\ c.resolutions = p.resolutions /\ c.sources = text /\ p.dirty \in SUBSET Files
  BY <1>1, <1>2 DEF Compilers
<1>9. KnownCompiler(known) /\ known.sources = text /\ known.shape = p.shape
  BY <1>1, <1>3, <1>8, UpdateKnows DEF Prepared
<1>10. text \in Texts /\ calling(text) \subseteq Files /\ misses \subseteq Files
  BY <1>1, <1>4 DEF Texts, calling
<1>11. resolved \subseteq Files \X Resolutions
  BY <1>5, <1>10 DEF Resolutions
<1>12. /\ e \in Compilers /\ e.dirty = {} /\ e.files = known.files /\ e.shape = p.shape
       /\ e.sources = text /\ e.resolutions = known.resolutions \cup resolved
  BY <1>6, <1>9, <1>11 DEF KnownCompiler, Compilers
<1>13. Sound(text, e.resolutions)
  <2>1. \A r \in resolved : r[2] = resolve_call(text, r[1])
    BY <1>5
  <2>. QED BY <1>9, <1>12, <2>1 DEF Sound, KnownCompiler
<1>14. KnownCompiler(e)
  BY <1>9, <1>12, <1>13 DEF KnownCompiler
<1>15. PICK chunks : chunks = {r \in e.resolutions : r[1] \in calling(text)}
  OBVIOUS
<1>16. contribution(e) = chunks
  BY <1>12, <1>15 DEF contribution
<1>17. PICK fresh : fresh = fresh_contribution(s)
  OBVIOUS
<1>18. fresh = {<<f, resolve_call(text, f)>> : f \in calling(text)}
  BY <1>1, <1>17 DEF fresh_contribution
<1>19. ASSUME NEW f \in calling(text)
       PROVE  \E r \in chunks : r[1] = f
  <2>1. CASE f \in misses
    <3>1. <<f, resolve_call(text, f)>> \in chunks
      BY <1>5, <1>12, <1>15, <2>1
    <3>. QED BY <3>1
  <2>2. CASE f \notin misses
    BY <1>4, <1>12, <1>15, <2>2
  <2>. QED BY <2>1, <2>2
<1>20. {r[1] : r \in chunks} = calling(text)
  BY <1>15, <1>19
<1>21. {r[1] : r \in fresh} = calling(text)
  <2>1. \A r \in fresh : r[1] \in calling(text)
    BY <1>18
  <2>2. \A f \in calling(text) : \E r \in fresh : r[1] = f
    <3>. TAKE f \in calling(text)
    <3>1. <<f, resolve_call(text, f)>> \in fresh
      BY <1>18
    <3>. QED BY <3>1
  <2>. QED BY <2>1, <2>2
<1>22. \A r \in chunks : r = <<r[1], r[2]>> /\ r[1] \in calling(text)
  BY <1>12, <1>15 DEF Compilers
<1>23. \A r \in chunks : imported(text, r[1]) => r[2] = resolve_call(text, r[1])
  BY <1>13, <1>15 DEF Sound
<1>24. \A r \in chunks : imported(text, r[1]) => r \in fresh
  BY <1>18, <1>22, <1>23
<1>25. \A r \in fresh : imported(text, r[1]) => r \in chunks
  <2>. TAKE r \in fresh
  <2>1. HAVE imported(text, r[1])
  <2>2. PICK f \in calling(text) : r = <<f, resolve_call(text, f)>>
    BY <1>18
  <2>3. PICK q \in chunks : q[1] = f
    BY <1>19
  <2>4. q = <<f, resolve_call(text, f)>>
    BY <1>22, <1>23, <2>1, <2>2, <2>3
  <2>. QED BY <2>2, <2>3, <2>4
<1>26. imported_calls(chunks, s) = {r \in chunks : imported(text, r[1])}
  BY <1>1 DEF imported_calls, imported
<1>27. imported_calls(fresh, s) = {r \in fresh : imported(text, r[1])}
  BY <1>1 DEF imported_calls, imported
<1>28. imported_calls(chunks, s) = imported_calls(fresh, s)
  BY <1>24, <1>25, <1>26, <1>27
<1>. QED BY <1>1, <1>7, <1>12, <1>14, <1>16, <1>17, <1>20, <1>21, <1>28 DEF Current

-----------------------------------------------------------------------------
(***************************************************************************)
(* The inductive invariant.                                                *)
(***************************************************************************)
Chunks == (Files \X Resolutions) \cup Unavailable
Requests == [shape : Shapes, cache : Caches]

ProcessRecords ==
    [status : {"unused", "spawned", "listening", "down"},
     compiler : Compilers \cup {NoCompiler, Poisoned}, pending : Requests \cup {NoCompiler},
     exceeded : BOOLEAN]
CallRecords ==
    [pc : {"idle", "starting", "streaming"}, process : {NoProcess} \cup Processes,
     snapshot : Snapshots \cup {NoSnapshot}]
AnalysisRecords ==
    [pc : {"none", "received", "analyzing", "sending", "done"}, process : {NoProcess} \cup Processes,
     snapshot : Snapshots \cup {NoSnapshot}, open : BOOLEAN, chunks : SUBSET Chunks]

StateType ==
    /\ persistent \in BOOLEAN
    /\ session \in {NoProcess} \cup Processes
    /\ call \in CallRecords
    /\ calls \in 0..MaxCalls
    /\ processes \in [Processes -> ProcessRecords]
    /\ analyses \in [Calls -> AnalysisRecords]
    /\ received \in [chunks : SUBSET Chunks, completed : BOOLEAN]
    /\ disk \in [Shapes -> Caches \cup {NoCache}]
    /\ faults \in 0..MaxFaults

(* A call has the process of the session, or there is no session and it     *)
(* waits for the process it has started.                                    *)
CallHasProcess ==
    /\ call.pc = "idle" => call = NoCall
    /\ call.pc = "starting" =>
          session = NoProcess /\ call.process \in Processes /\ calls < MaxCalls
    /\ call.pc = "streaming" =>
          /\ call.process = session /\ session \in Processes
          /\ calls \in Calls /\ call.snapshot \in Snapshots

(* An analysis that runs has a process and a snapshot.                      *)
AnalysesRun ==
    \A c \in Calls : analyses[c].pc \in {"received", "analyzing", "sending"} =>
        analyses[c].process \in Processes /\ analyses[c].snapshot \in Snapshots

(* What a compiler, a request to the writer or a cache file holds is sound  *)
(* for some texts.                                                          *)
CachesAreSound ==
    /\ \A p \in Processes :
          \/ processes[p].compiler \in {NoCompiler, Poisoned}
          \/ KnownCompiler(processes[p].compiler)
    /\ \A p \in Processes :
          processes[p].pending = NoCompiler \/ KnownCache(processes[p].pending.cache)
    /\ \A k \in Shapes : KnownCache(disk[k])

Accepted(chunks, s) == chunks = Unavailable \/ Current(chunks, s)

(* What the client has received and what is still to come make up the       *)
(* contribution of the call's own analysis, from its first chunk to its     *)
(* completion.                                                              *)
StreamIsOfCall ==
    /\ call.pc # "streaming" => received = Nothing
    /\ call.pc = "streaming" =>
          /\ analyses[calls].pc \in {"received", "analyzing"} =>
                received = Nothing /\ analyses[calls].snapshot = call.snapshot
          /\ analyses[calls].pc = "sending" =>
                /\ ~received.completed
                /\ Accepted(received.chunks \cup analyses[calls].chunks, call.snapshot)
          /\ received.completed =>
                analyses[calls].pc = "done" /\ Accepted(received.chunks, call.snapshot)

WorkerInv ==
    /\ StateType
    /\ CallHasProcess
    /\ AnalysesRun
    /\ CachesAreSound
    /\ StreamIsOfCall
    /\ WorkersAreOwned
    /\ AnswersAreCurrent

(* The absent values have their types.                                      *)
LEMMA AbsentType ==
    /\ NoCall \in CallRecords
    /\ NoAnalysis \in AnalysisRecords /\ Ended \in AnalysisRecords
    /\ Down \in ProcessRecords /\ Unused \in ProcessRecords
    /\ Nothing \in [chunks : SUBSET Chunks, completed : BOOLEAN]
    /\ Ended.pc = "done" /\ Ended.process = NoProcess /\ NoAnalysis.pc = "none"
    /\ Down.status = "down" /\ Unused.status = "unused"
    /\ Down.compiler = NoCompiler /\ Down.pending = NoCompiler
    /\ Unused.compiler = NoCompiler /\ Unused.pending = NoCompiler
BY DEF NoCall, NoAnalysis, Ended, Down, Unused, Nothing, CallRecords, AnalysisRecords,
       ProcessRecords

(* The absent process is none of the processes.                             *)
LEMMA ProcessIds == NoProcess \notin Processes
BY BoundsAssumption DEF NoProcess, Processes

(* The initial states satisfy the invariant.                                *)
LEMMA InitInv == Init => WorkerInv
<1>. SUFFICES ASSUME Init
              PROVE  WorkerInv
  OBVIOUS
<1>1. StateType
  BY AbsentType, BoundsAssumption DEF Init, StateType
<1>2. CallHasProcess
  BY DEF Init, CallHasProcess, NoCall
<1>3. AnalysesRun
  BY AbsentType DEF Init, AnalysesRun
<1>4. CachesAreSound
  BY AbsentType DEF Init, CachesAreSound, KnownCache
<1>5. StreamIsOfCall
  BY DEF Init, StreamIsOfCall, NoCall
<1>6. WorkersAreOwned
  BY AbsentType DEF Init, WorkersAreOwned, up
<1>7. AnswersAreCurrent
  BY DEF Init, AnswersAreCurrent
<1>. QED BY <1>1, <1>2, <1>3, <1>4, <1>5, <1>6, <1>7 DEF WorkerInv

(* An analysis of a compiler keeps its caches sound, and what it            *)
(* contributes is current.                                                  *)
LEMMA AnalysisKnows ==
    ASSUME WorkerInv, NEW c \in Calls, analyses[c].pc = "analyzing",
           processes[analyses[c].process].compiler # Poisoned,
           NEW e, e = enrich_repository(prepare(processes[analyses[c].process].compiler,
                                                analyses[c].snapshot, disk))
    PROVE  /\ analyses[c].process \in Processes /\ analyses[c].snapshot \in Snapshots
           /\ KnownCompiler(e)
           /\ KnownCompiler([e EXCEPT !.cache_dirty = FALSE])
           /\ persist_request(e) \in Requests
           /\ KnownCache(persist_request(e).cache)
           /\ contribution(e) \subseteq Chunks
           /\ Current(contribution(e), analyses[c].snapshot)
<1>1. analyses[c].process \in Processes /\ analyses[c].snapshot \in Snapshots
  BY DEF WorkerInv, AnalysesRun
<1>2. PICK q : q = processes[analyses[c].process].compiler
  OBVIOUS
<1>3. PICK s \in Snapshots : s = analyses[c].snapshot
  BY <1>1
<1>4. q = NoCompiler \/ KnownCompiler(q)
  BY <1>1, <1>2 DEF WorkerInv, CachesAreSound
<1>5. s.shape \in Shapes
  BY DEF Shapes
<1>6. KnownCache(disk[s.shape])
  BY <1>5 DEF WorkerInv, CachesAreSound
<1>7. PICK p : p = prepare(q, s, disk)
  OBVIOUS
<1>8. p \in Compilers /\ Prepared(p) /\ p.sources = s.text
  BY <1>4, <1>6, <1>7, PrepareKnows
<1>9. KnownCompiler(e) /\ Current(contribution(e), s)
  BY <1>2, <1>3, <1>7, <1>8, EnrichKnows
<1>10. KnownCompiler([e EXCEPT !.cache_dirty = FALSE])
  <2>1. PICK x : x = [e EXCEPT !.cache_dirty = FALSE]
    OBVIOUS
  <2>2. /\ x \in Compilers /\ x.dirty = e.dirty /\ x.files = e.files /\ x.sources = e.sources
        /\ x.resolutions = e.resolutions
    BY <1>9, <2>1 DEF KnownCompiler, Compilers
  <2>3. KnownCompiler(x)
    BY <1>9, <2>2 DEF KnownCompiler
  <2>. QED BY <2>1, <2>3
<1>11. PICK x : x = [files |-> e.files, resolutions |-> e.resolutions]
  OBVIOUS
<1>12. /\ e.sources \in Texts /\ e.shape \in Shapes
       /\ e.resolutions \in SUBSET (Files \X Resolutions)
       /\ e.files = Summaries(e.sources) /\ Sound(e.sources, e.resolutions)
  BY <1>9 DEF KnownCompiler, Compilers
<1>13. e.files \in CachedFiles
  BY <1>12 DEF CachedFiles
<1>14. x \in Caches /\ x.files = e.files /\ x.resolutions = e.resolutions
  BY <1>11, <1>12, <1>13 DEF Caches
<1>15. KnownCache(x)
  BY <1>12, <1>14 DEF KnownCache
<1>16. persist_request(e) \in Requests /\ persist_request(e).cache = x
  BY <1>11, <1>12, <1>14 DEF persist_request, Requests
<1>17. contribution(e) \subseteq Chunks
  BY <1>12 DEF contribution, Chunks
<1>. QED BY <1>1, <1>3, <1>9, <1>10, <1>15, <1>16, <1>17

-----------------------------------------------------------------------------
(***************************************************************************)
(* What a step leaves alone.                                               *)
(***************************************************************************)
(* The call goes on while its analysis stays or ends.                       *)
LEMMA StreamKept ==
    ASSUME StreamIsOfCall, UNCHANGED <<call, calls, received>>,
           call.pc = "streaming" => analyses'[calls] = analyses[calls] \/ analyses'[calls].pc = "done"
    PROVE  StreamIsOfCall'
<1>1. CASE call.pc # "streaming"
  BY <1>1 DEF StreamIsOfCall
<1>2. CASE call.pc = "streaming" /\ analyses'[calls] = analyses[calls]
  BY <1>2 DEF StreamIsOfCall
<1>3. CASE call.pc = "streaming" /\ analyses'[calls].pc = "done"
  BY <1>3 DEF StreamIsOfCall
<1>. QED BY <1>1, <1>2, <1>3

(* A step that starts no worker leaves the owners of workers as they are.   *)
LEMMA OwnedKept ==
    ASSUME WorkersAreOwned, UNCHANGED <<call, session>>,
           \A p \in Processes : processes'[p].status \in {"spawned", "listening"} =>
               processes[p].status \in {"spawned", "listening"}
    PROVE  WorkersAreOwned'
BY DEF WorkersAreOwned, up

(* Caches stay sound while processes get sound contents or none.            *)
LEMMA CachesKept ==
    ASSUME CachesAreSound, UNCHANGED disk,
           \A p \in Processes :
               /\ \/ processes'[p].compiler = processes[p].compiler
                  \/ processes'[p].compiler \in {NoCompiler, Poisoned}
                  \/ KnownCompiler(processes'[p].compiler)
               /\ \/ processes'[p].pending = processes[p].pending
                  \/ processes'[p].pending = NoCompiler
                  \/ KnownCache(processes'[p].pending.cache)
    PROVE  CachesAreSound'
<1>1. ASSUME NEW p \in Processes
      PROVE  processes'[p].compiler \in {NoCompiler, Poisoned} \/ KnownCompiler(processes'[p].compiler)
  <2>1. CASE processes'[p].compiler = processes[p].compiler
    <3>1. processes[p].compiler \in {NoCompiler, Poisoned} \/ KnownCompiler(processes[p].compiler)
      BY DEF CachesAreSound
    <3>. QED BY <2>1, <3>1
  <2>. QED BY <2>1
<1>2. ASSUME NEW p \in Processes
      PROVE  processes'[p].pending = NoCompiler \/ KnownCache(processes'[p].pending.cache)
  <2>1. CASE processes'[p].pending = processes[p].pending
    <3>1. processes[p].pending = NoCompiler \/ KnownCache(processes[p].pending.cache)
      BY DEF CachesAreSound
    <3>. QED BY <2>1, <3>1
  <2>. QED BY <2>1
<1>3. \A k \in Shapes : KnownCache(disk'[k])
  BY DEF CachesAreSound
<1>4. \A p \in Processes :
          (processes'[p].compiler \in {NoCompiler, Poisoned} \/ KnownCompiler(processes'[p].compiler))
  BY <1>1
<1>5. \A p \in Processes : 
          (processes'[p].pending = NoCompiler \/ KnownCache(processes'[p].pending.cache))
  BY <1>2
<1>. QED BY <1>3, <1>4, <1>5, Zenon DEF CachesAreSound

(* end_analyses *)
LEMMA AnalysesEnd ==
    ASSUME StateType, AnalysesRun, NEW p \in Processes, end_analyses(p)
    PROVE  /\ analyses' \in [Calls -> AnalysisRecords]
           /\ AnalysesRun'
           /\ \A c \in Calls : analyses'[c] = analyses[c] \/ analyses'[c].pc = "done"
<1>1. \A c \in Calls : analyses'[c] = analyses[c] \/ analyses'[c] = Ended
  BY DEF end_analyses
<1>2. analyses' \in [Calls -> AnalysisRecords]
  BY AbsentType DEF end_analyses, StateType
<1>3. AnalysesRun'
  <2>. SUFFICES ASSUME NEW c \in Calls,
                       analyses'[c].pc \in {"received", "analyzing", "sending"}
                PROVE  analyses'[c].process \in Processes /\ analyses'[c].snapshot \in Snapshots
    BY DEF AnalysesRun
  <2>1. analyses'[c] = analyses[c]
    BY <1>1, AbsentType
  <2>. QED BY <2>1 DEF AnalysesRun
<1>. QED BY <1>1, <1>2, <1>3, AbsentType

(* kill *)
LEMMA KillStep ==
    ASSUME StateType, AnalysesRun, CachesAreSound, NEW p \in Processes, kill(p), UNCHANGED disk
    PROVE  /\ processes' \in [Processes -> ProcessRecords]
           /\ analyses' \in [Calls -> AnalysisRecords]
           /\ AnalysesRun' /\ CachesAreSound'
           /\ \A q \in Processes : processes'[q] = IF q = p THEN Down ELSE processes[q]
<1>1. \A q \in Processes : processes'[q] = IF q = p THEN Down ELSE processes[q]
  BY DEF kill, StateType
<1>2. processes' \in [Processes -> ProcessRecords]
  BY AbsentType DEF kill, StateType
<1>3. CachesAreSound'
  BY <1>1, AbsentType, CachesKept
<1>. QED BY <1>1, <1>2, <1>3, AnalysesEnd DEF kill

(* send: the result of an analysis is that of the call, if it is the        *)
(* call's.                                                                  *)
LEMMA SendStep ==
    ASSUME WorkerInv, NEW c \in Calls, analyses[c].pc = "analyzing",
           NEW chunks \in SUBSET Chunks, Accepted(chunks, analyses[c].snapshot),
           send(c, chunks), UNCHANGED <<call, calls, received>>
    PROVE  analyses' \in [Calls -> AnalysisRecords] /\ AnalysesRun' /\ StreamIsOfCall'
<1>. USE DEF WorkerInv
<1>1. PICK a : a = analyses[c]
  OBVIOUS
<1>2. a \in AnalysisRecords /\ a.process \in Processes /\ a.snapshot \in Snapshots
  BY <1>1 DEF StateType, AnalysesRun
<1>3. PICK b : b = IF a.open THEN [a EXCEPT !.pc = "sending", !.chunks = chunks] ELSE Ended
  OBVIOUS
<1>4. analyses' = [analyses EXCEPT ![c] = b]
  BY <1>1, <1>3 DEF send, StateType
<1>5. b \in AnalysisRecords
  BY <1>2, <1>3, AbsentType DEF AnalysisRecords
<1>6. \/ /\ b.pc = "sending" /\ b.chunks = chunks
         /\ b.process = a.process /\ b.snapshot = a.snapshot
      \/ b.pc = "done"
  BY <1>2, <1>3, AbsentType DEF AnalysisRecords
<1>7. /\ analyses' \in [Calls -> AnalysisRecords]
      /\ \A d \in Calls : analyses'[d] = IF d = c THEN b ELSE analyses[d]
  BY <1>4, <1>5 DEF StateType
<1>8. AnalysesRun'
  BY <1>2, <1>6, <1>7 DEF AnalysesRun
<1>9. StreamIsOfCall'
  <2>1. CASE call.pc = "streaming" /\ calls = c /\ b.pc = "sending"
    <3>1. received = Nothing /\ a.snapshot = call.snapshot
      BY <1>1, <2>1 DEF StreamIsOfCall
    <3>2. ~received.completed /\ received.chunks \cup b.chunks = chunks
      BY <1>6, <2>1, <3>1 DEF Nothing
    <3>3. Accepted(received.chunks \cup b.chunks, call.snapshot)
      BY <1>1, <3>1, <3>2
    <3>. QED BY <1>7, <2>1, <3>2, <3>3 DEF StreamIsOfCall
  <2>2. CASE ~(call.pc = "streaming" /\ calls = c /\ b.pc = "sending")
    <3>1. call.pc = "streaming" => calls \in Calls
      BY DEF CallHasProcess
    <3>2. call.pc = "streaming" => analyses'[calls] = analyses[calls] \/ analyses'[calls].pc = "done"
      BY <1>6, <1>7, <2>2, <3>1
    <3>. QED BY <3>2, StreamKept
  <2>. QED BY <2>1, <2>2
<1>. QED BY <1>7, <1>8, <1>9

(* A call keeps its process while session and call stay.                    *)
LEMMA CallKept ==
    ASSUME CallHasProcess, UNCHANGED <<session, call, calls>>
    PROVE  CallHasProcess'
BY DEF CallHasProcess

(* An answer stays current while it stays.                                  *)
LEMMA AnswerKept ==
    ASSUME AnswersAreCurrent, UNCHANGED answer
    PROVE  AnswersAreCurrent'
BY DEF AnswersAreCurrent

(* A fault is counted within its bound.                                     *)
LEMMA FaultCounted ==
    ASSUME StateType, Fault \/ UNCHANGED faults
    PROVE  faults' \in 0..MaxFaults
BY BoundsAssumption DEF StateType, Fault

(* A step outside of the client leaves its session and its call alone.      *)
LEMMA WorkerStep ==
    ASSUME WorkerInv, UNCHANGED <<persistent, session, call, calls, received, answer>>,
           Fault \/ UNCHANGED faults,
           processes' \in [Processes -> ProcessRecords],
           \A p \in Processes : processes'[p].status \in {"spawned", "listening"} =>
               processes[p].status \in {"spawned", "listening"},
           analyses' \in [Calls -> AnalysisRecords], AnalysesRun', CachesAreSound',
           StreamIsOfCall', disk' \in [Shapes -> Caches \cup {NoCache}]
    PROVE  WorkerInv'
<1>1. StateType'
  BY FaultCounted DEF WorkerInv, StateType
<1>2. WorkersAreOwned'
  BY OwnedKept DEF WorkerInv
<1>3. CallHasProcess' /\ AnswersAreCurrent'
  BY CallKept, AnswerKept DEF WorkerInv
<1>. QED BY <1>1, <1>2, <1>3 DEF WorkerInv

-----------------------------------------------------------------------------
(***************************************************************************)
(* The worker's actions preserve the invariant.                            *)
(***************************************************************************)
(* serve: a spawned worker listens.                                         *)
LEMMA ServeInv ==
    ASSUME WorkerInv, NEW p \in Processes, serve(p)
    PROVE  WorkerInv'
<1>. USE DEF WorkerInv
<1>1. PICK x : x = [processes[p] EXCEPT !.status = "listening"]
  OBVIOUS
<1>2. processes' = [processes EXCEPT ![p] = x]
  BY <1>1 DEF serve, StateType
<1>3. /\ x \in ProcessRecords /\ x.compiler = processes[p].compiler
      /\ x.pending = processes[p].pending
  BY <1>1 DEF StateType, ProcessRecords
<1>4. /\ processes' \in [Processes -> ProcessRecords]
      /\ \A q \in Processes : processes'[q] = IF q = p THEN x ELSE processes[q]
  BY <1>2, <1>3 DEF StateType
<1>5. CachesAreSound'
  BY <1>3, <1>4, CachesKept DEF serve
<1>6. AnalysesRun' /\ StreamIsOfCall'
  BY StreamKept DEF serve, AnalysesRun
<1>7. \A q \in Processes : processes'[q].status \in {"spawned", "listening"} =>
          processes[q].status \in {"spawned", "listening"}
  BY <1>4 DEF serve
<1>. QED BY <1>4, <1>5, <1>6, <1>7, WorkerStep DEF serve, StateType

(* analyze: an analysis begins, or is given up on a dropped stream.         *)
LEMMA AnalyzeInv ==
    ASSUME WorkerInv, NEW c \in Calls, analyze(c)
    PROVE  WorkerInv'
<1>. USE DEF WorkerInv
<1>1. PICK a : a = analyses[c]
  OBVIOUS
<1>2. a \in AnalysisRecords /\ a.process \in Processes /\ a.snapshot \in Snapshots
  BY <1>1 DEF StateType, AnalysesRun, analyze
<1>3. PICK b : b = IF a.open THEN [a EXCEPT !.pc = "analyzing"] ELSE Ended
  OBVIOUS
<1>4. analyses' = [analyses EXCEPT ![c] = b]
  BY <1>1, <1>3 DEF analyze, StateType
<1>5. /\ b \in AnalysisRecords
      /\ \/ b.pc = "analyzing" /\ b.process = a.process /\ b.snapshot = a.snapshot
         \/ b.pc = "done"
  BY <1>2, <1>3, AbsentType DEF AnalysisRecords
<1>6. /\ analyses' \in [Calls -> AnalysisRecords]
      /\ \A d \in Calls : analyses'[d] = IF d = c THEN b ELSE analyses[d]
  BY <1>4, <1>5 DEF StateType
<1>7. AnalysesRun'
  BY <1>2, <1>5, <1>6 DEF AnalysesRun
<1>8. StreamIsOfCall'
  <2>1. CASE call.pc = "streaming" /\ calls = c /\ b.pc = "analyzing"
    <3>1. received = Nothing /\ a.snapshot = call.snapshot
      BY <1>1, <2>1 DEF StreamIsOfCall, analyze
    <3>. QED BY <1>5, <1>6, <2>1, <3>1 DEF StreamIsOfCall, analyze, Nothing
  <2>2. CASE ~(call.pc = "streaming" /\ calls = c /\ b.pc = "analyzing")
    <3>1. call.pc = "streaming" => calls \in Calls
      BY DEF CallHasProcess
    <3>2. call.pc = "streaming" => analyses'[calls] = analyses[calls] \/ analyses'[calls].pc = "done"
      BY <1>5, <1>6, <2>2, <3>1
    <3>. QED BY <3>2, StreamKept DEF analyze
  <2>. QED BY <2>1, <2>2
<1>9. CachesAreSound'
  BY CachesKept DEF analyze
<1>. QED BY <1>6, <1>7, <1>8, <1>9, WorkerStep DEF analyze, StateType

(* enrich_semantics: what it caches is sound, what it sends is current.     *)
LEMMA EnrichSemanticsInv ==
    ASSUME WorkerInv, NEW c \in Calls, enrich_semantics(c)
    PROVE  WorkerInv'
<1>. USE DEF WorkerInv
<1>1. PICK p : p = analyses[c].process
  OBVIOUS
<1>2. PICK e : e = enrich_repository(prepare(processes[p].compiler, analyses[c].snapshot, disk))
  OBVIOUS
<1>3. PICK f : f = [e EXCEPT !.cache_dirty = FALSE]
  OBVIOUS
<1>4. PICK r : r = persist_request(e)
  OBVIOUS
<1>5. PICK chunks : chunks = contribution(e)
  OBVIOUS
<1>6. /\ analyses[c].pc = "analyzing" /\ processes[p].compiler # Poisoned
      /\ processes' = [processes EXCEPT ![p].compiler = f,
                                        ![p].pending = IF e.cache_dirty THEN r ELSE @]
      /\ send(c, chunks)
      /\ UNCHANGED <<persistent, session, call, calls, received, disk, answer, faults>>
  BY <1>1, <1>2, <1>3, <1>4, <1>5 DEF enrich_semantics
<1>7. /\ p \in Processes /\ KnownCompiler(f) /\ r \in Requests /\ KnownCache(r.cache)
      /\ chunks \in SUBSET Chunks /\ Current(chunks, analyses[c].snapshot)
  BY <1>1, <1>2, <1>3, <1>4, <1>5, <1>6, AnalysisKnows
<1>8. PICK x : x = [processes[p] EXCEPT !.compiler = f, !.pending = IF e.cache_dirty THEN r ELSE @]
  OBVIOUS
<1>9. processes' = [processes EXCEPT ![p] = x]
  BY <1>6, <1>7, <1>8 DEF StateType
<1>10. f \in Compilers
  BY <1>7 DEF KnownCompiler
<1>11. /\ x \in ProcessRecords /\ x.compiler = f
       /\ x.pending = r \/ x.pending = processes[p].pending
       /\ x.status = processes[p].status
  BY <1>7, <1>8, <1>10 DEF StateType, ProcessRecords
<1>12. /\ processes' \in [Processes -> ProcessRecords]
       /\ \A q \in Processes : processes'[q] = IF q = p THEN x ELSE processes[q]
  BY <1>9, <1>11 DEF StateType
<1>13. CachesAreSound'
  BY <1>6, <1>7, <1>11, <1>12, CachesKept
<1>14. Accepted(chunks, analyses[c].snapshot)
  BY <1>7 DEF Accepted
<1>15. analyses' \in [Calls -> AnalysisRecords] /\ AnalysesRun' /\ StreamIsOfCall'
  BY <1>6, <1>7, <1>14, SendStep
<1>. QED BY <1>6, <1>11, <1>12, <1>13, <1>15, WorkerStep DEF StateType

(* verification_fails: the results are kept, but not contributed.           *)
LEMMA VerificationFailsInv ==
    ASSUME WorkerInv, NEW c \in Calls, verification_fails(c)
    PROVE  WorkerInv'
<1>. USE DEF WorkerInv
<1>1. PICK p : p = analyses[c].process
  OBVIOUS
<1>2. PICK e : e = enrich_repository(prepare(processes[p].compiler, analyses[c].snapshot, disk))
  OBVIOUS
<1>3. /\ analyses[c].pc = "analyzing" /\ processes[p].compiler # Poisoned
      /\ processes' = [processes EXCEPT ![p].compiler = e]
      /\ send(c, Unavailable)
      /\ Fault
      /\ UNCHANGED <<persistent, session, call, calls, received, disk, answer>>
  BY <1>1, <1>2 DEF verification_fails
<1>4. p \in Processes /\ KnownCompiler(e) /\ e \in Compilers
  BY <1>1, <1>2, <1>3, AnalysisKnows DEF KnownCompiler
<1>5. PICK x : x = [processes[p] EXCEPT !.compiler = e]
  OBVIOUS
<1>6. processes' = [processes EXCEPT ![p] = x]
  BY <1>3, <1>4, <1>5 DEF StateType
<1>7. /\ x \in ProcessRecords /\ x.compiler = e /\ x.pending = processes[p].pending
      /\ x.status = processes[p].status
  BY <1>4, <1>5 DEF StateType, ProcessRecords
<1>8. /\ processes' \in [Processes -> ProcessRecords]
      /\ \A q \in Processes : processes'[q] = IF q = p THEN x ELSE processes[q]
  BY <1>6, <1>7 DEF StateType
<1>9. CachesAreSound'
  BY <1>3, <1>4, <1>7, <1>8, CachesKept
<1>10. analyses' \in [Calls -> AnalysisRecords] /\ AnalysesRun' /\ StreamIsOfCall'
  <2>1. Unavailable \in SUBSET Chunks /\ Accepted(Unavailable, analyses[c].snapshot)
    BY DEF Chunks, Accepted
  <2>. QED BY <1>3, <2>1, SendStep
<1>. QED BY <1>3, <1>7, <1>8, <1>9, <1>10, WorkerStep DEF StateType

(* preparation_fails: only the stream learns of it.                         *)
LEMMA PreparationFailsInv ==
    ASSUME WorkerInv, NEW c \in Calls, preparation_fails(c)
    PROVE  WorkerInv'
<1>. USE DEF WorkerInv
<1>1. /\ analyses[c].pc = "analyzing"
      /\ send(c, Unavailable)
      /\ Fault \/ UNCHANGED faults
      /\ UNCHANGED <<persistent, session, call, calls, processes, received, disk, answer>>
  BY DEF preparation_fails
<1>2. Unavailable \in SUBSET Chunks /\ Accepted(Unavailable, analyses[c].snapshot)
  BY DEF Chunks, Accepted
<1>3. analyses' \in [Calls -> AnalysisRecords] /\ AnalysesRun' /\ StreamIsOfCall'
  BY <1>1, <1>2, SendStep
<1>4. CachesAreSound'
  BY <1>1, CachesKept
<1>. QED BY <1>1, <1>3, <1>4, WorkerStep DEF StateType

(* panic: the compiler is poisoned and the stream ends.                     *)
LEMMA PanicInv ==
    ASSUME WorkerInv, NEW c \in Calls, panic(c)
    PROVE  WorkerInv'
<1>. USE DEF WorkerInv
<1>1. PICK p \in Processes : p = analyses[c].process
  BY DEF panic, AnalysesRun
<1>2. PICK x : x = [processes[p] EXCEPT !.compiler = Poisoned]
  OBVIOUS
<1>3. processes' = [processes EXCEPT ![p] = x]
  BY <1>1, <1>2 DEF panic, StateType
<1>4. /\ x \in ProcessRecords /\ x.compiler = Poisoned /\ x.pending = processes[p].pending
      /\ x.status = processes[p].status
  BY <1>2 DEF StateType, ProcessRecords
<1>5. /\ processes' \in [Processes -> ProcessRecords]
      /\ \A q \in Processes : processes'[q] = IF q = p THEN x ELSE processes[q]
  BY <1>3, <1>4 DEF StateType
<1>6. CachesAreSound'
  BY <1>4, <1>5, CachesKept DEF panic
<1>7. /\ analyses' \in [Calls -> AnalysisRecords]
      /\ \A d \in Calls : analyses'[d] = IF d = c THEN Ended ELSE analyses[d]
  BY AbsentType DEF panic, StateType
<1>8. AnalysesRun'
  BY <1>7, AbsentType DEF AnalysesRun
<1>9. StreamIsOfCall'
  <2>1. call.pc = "streaming" => calls \in Calls
    BY DEF CallHasProcess
  <2>. QED BY <1>7, <2>1, AbsentType, StreamKept DEF panic
<1>. QED BY <1>4, <1>5, <1>6, <1>7, <1>8, <1>9, WorkerStep DEF panic, StateType

(* persist_resolution_cache: a cache file becomes what was scheduled.       *)
LEMMA PersistInv ==
    ASSUME WorkerInv, NEW p \in Processes, persist_resolution_cache(p)
    PROVE  WorkerInv'
<1>. USE DEF WorkerInv
<1>1. PICK r : r = processes[p].pending
  OBVIOUS
<1>2. PICK x : x = [processes[p] EXCEPT !.pending = NoCompiler]
  OBVIOUS
<1>3. /\ r # NoCompiler
      /\ processes' = [processes EXCEPT ![p] = x]
      /\ \/ disk' = [disk EXCEPT ![r.shape] = r.cache] /\ UNCHANGED faults
         \/ Fault /\ UNCHANGED disk
      /\ UNCHANGED <<persistent, session, call, calls, analyses, received, answer>>
  BY <1>1, <1>2 DEF persist_resolution_cache, StateType
<1>4. r \in Requests /\ KnownCache(r.cache)
  BY <1>1, <1>3 DEF StateType, ProcessRecords, CachesAreSound
<1>5. r.shape \in Shapes /\ r.cache \in Caches
  BY <1>4 DEF Requests
<1>6. /\ x \in ProcessRecords /\ x.compiler = processes[p].compiler /\ x.pending = NoCompiler
      /\ x.status = processes[p].status
  BY <1>2 DEF StateType, ProcessRecords
<1>7. /\ processes' \in [Processes -> ProcessRecords]
      /\ \A q \in Processes : processes'[q] = IF q = p THEN x ELSE processes[q]
  BY <1>3, <1>6 DEF StateType
<1>8. /\ disk' \in [Shapes -> Caches \cup {NoCache}]
      /\ \A k \in Shapes : disk'[k] = disk[k] \/ disk'[k] = r.cache
  BY <1>3, <1>5 DEF StateType
<1>9. CachesAreSound'
  <2>1. \A q \in Processes : (processes'[q].compiler \in {NoCompiler, Poisoned}
                                \/ KnownCompiler(processes'[q].compiler))
    <3>. TAKE q \in Processes
    <3>1. processes'[q].compiler = processes[q].compiler
      BY <1>6, <1>7
    <3>2. processes[q].compiler \in {NoCompiler, Poisoned} \/ KnownCompiler(processes[q].compiler)
      BY DEF CachesAreSound
    <3>. QED BY <3>1, <3>2
  <2>2. \A q \in Processes : (processes'[q].pending = NoCompiler
                                \/ KnownCache(processes'[q].pending.cache))
    <3>. TAKE q \in Processes
    <3>1. processes'[q].pending = processes[q].pending \/ processes'[q].pending = NoCompiler
      BY <1>6, <1>7
    <3>2. processes[q].pending = NoCompiler \/ KnownCache(processes[q].pending.cache)
      BY DEF CachesAreSound
    <3>. QED BY <3>1, <3>2
  <2>3. \A k \in Shapes : KnownCache(disk'[k])
    <3>. TAKE k \in Shapes
    <3>1. KnownCache(disk[k])
      BY DEF CachesAreSound
    <3>. QED BY <1>4, <1>8, <3>1
  <2>. QED BY <2>1, <2>2, <2>3, Zenon DEF CachesAreSound
<1>10. AnalysesRun' /\ StreamIsOfCall'
  BY <1>3, StreamKept DEF AnalysesRun
<1>. QED BY <1>3, <1>6, <1>7, <1>8, <1>9, <1>10, WorkerStep DEF StateType

(* die: a process takes its analyses and its compiler with it.              *)
LEMMA DieInv ==
    ASSUME WorkerInv, NEW p \in Processes, die(p)
    PROVE  WorkerInv'
<1>. USE DEF WorkerInv
<1>1. PICK x : x = [Down EXCEPT !.exceeded = exceeded(p)]
  OBVIOUS
<1>2. processes' = [processes EXCEPT ![p] = x]
  BY <1>1 DEF die
<1>3. exceeded(p) \in BOOLEAN
  BY DEF exceeded
<1>4. /\ x \in ProcessRecords /\ x.status = "down" /\ x.compiler = NoCompiler
      /\ x.pending = NoCompiler
  BY <1>1, <1>3 DEF ProcessRecords, Down
<1>5. /\ processes' \in [Processes -> ProcessRecords]
      /\ \A q \in Processes : processes'[q] = IF q = p THEN x ELSE processes[q]
  BY <1>2, <1>4 DEF StateType
<1>6. CachesAreSound'
  BY <1>4, <1>5, CachesKept DEF die
<1>7. /\ analyses' \in [Calls -> AnalysisRecords] /\ AnalysesRun'
      /\ \A c \in Calls : analyses'[c] = analyses[c] \/ analyses'[c].pc = "done"
  BY AnalysesEnd DEF die
<1>8. StreamIsOfCall'
  <2>1. call.pc = "streaming" => calls \in Calls
    BY DEF CallHasProcess
  <2>. QED BY <1>7, <2>1, StreamKept DEF die
<1>. QED BY <1>4, <1>5, <1>6, <1>7, <1>8, WorkerStep DEF die, StateType

(* sample: the guard finds a process over its limit.                        *)
LEMMA SampleInv ==
    ASSUME WorkerInv, NEW p \in Processes, sample(p)
    PROVE  WorkerInv'
<1>. USE DEF WorkerInv
<1>1. PICK x : x = [processes[p] EXCEPT !.exceeded = TRUE]
  OBVIOUS
<1>2. processes' = [processes EXCEPT ![p] = x]
  BY <1>1 DEF sample, StateType
<1>3. /\ x \in ProcessRecords /\ x.compiler = processes[p].compiler
      /\ x.pending = processes[p].pending /\ x.status = processes[p].status
  BY <1>1 DEF StateType, ProcessRecords
<1>4. /\ processes' \in [Processes -> ProcessRecords]
      /\ \A q \in Processes : processes'[q] = IF q = p THEN x ELSE processes[q]
  BY <1>2, <1>3 DEF StateType
<1>5. CachesAreSound'
  BY <1>3, <1>4, CachesKept DEF sample
<1>6. AnalysesRun' /\ StreamIsOfCall'
  BY StreamKept DEF sample, AnalysesRun
<1>. QED BY <1>3, <1>4, <1>5, <1>6, WorkerStep DEF sample, StateType

-----------------------------------------------------------------------------
(***************************************************************************)
(* The client's actions preserve the invariant.                            *)
(***************************************************************************)
(* request: the next call has an analysis of its own in the session's       *)
(* process, from which nothing was received.                                *)
LEMMA RequestStep ==
    ASSUME WorkerInv, NEW p \in Processes, NEW s \in Snapshots, calls < MaxCalls,
           call.pc # "streaming", request(p, s), session' = p,
           UNCHANGED <<persistent, processes, received, disk, faults>>,
           \A q \in Processes : up(q) => q = p
    PROVE  WorkerInv'
<1>. USE DEF WorkerInv
<1>1. calls + 1 \in Calls /\ calls' = calls + 1 /\ calls' \in 0..MaxCalls
  BY BoundsAssumption DEF request, StateType, Calls
<1>2. PICK a : a = [NoAnalysis EXCEPT !.pc = "received", !.process = p, !.snapshot = s, !.open = TRUE]
  OBVIOUS
<1>3. a \in AnalysisRecords /\ a.pc = "received" /\ a.process = p /\ a.snapshot = s
  BY <1>2 DEF NoAnalysis, AnalysisRecords
<1>4. analyses' = [analyses EXCEPT ![calls + 1] = a]
  BY <1>2 DEF request
<1>5. /\ analyses' \in [Calls -> AnalysisRecords]
      /\ \A c \in Calls : analyses'[c] = IF c = calls + 1 THEN a ELSE analyses[c]
  BY <1>1, <1>3, <1>4 DEF StateType
<1>6. AnalysesRun'
  BY <1>3, <1>5 DEF AnalysesRun
<1>7. /\ call' \in CallRecords
      /\ call'.pc = "streaming" /\ call'.process = p /\ call'.snapshot = s
  BY DEF request, CallRecords
<1>8. StateType'
  BY <1>1, <1>5, <1>7 DEF StateType
<1>9. CallHasProcess'
  BY <1>1, <1>7 DEF CallHasProcess
<1>10. received = Nothing
  BY DEF StreamIsOfCall
<1>11. StreamIsOfCall'
  BY <1>1, <1>3, <1>5, <1>7, <1>10 DEF StreamIsOfCall, Nothing
<1>12. CachesAreSound'
  BY CachesKept
<1>13. WorkersAreOwned'
  BY DEF WorkersAreOwned, up
<1>14. AnswersAreCurrent'
  BY DEF request, AnswersAreCurrent
<1>. QED BY <1>6, <1>8, <1>9, <1>11, <1>12, <1>13, <1>14

(* enrich: the session is used again.                                       *)
LEMMA EnrichInv ==
    ASSUME WorkerInv, NEW s \in Snapshots, enrich(s)
    PROVE  WorkerInv'
<1>1. session \in Processes /\ session' = session
  BY DEF WorkerInv, StateType, enrich, up
<1>2. call.pc = "idle" /\ calls < MaxCalls
  BY DEF enrich
<1>3. \A q \in Processes : up(q) => q = session
  BY <1>2 DEF WorkerInv, WorkersAreOwned
<1>. QED BY <1>1, <1>2, <1>3, RequestStep DEF enrich

(* connect: the started worker becomes the session.                         *)
LEMMA ConnectInv ==
    ASSUME WorkerInv, NEW s \in Snapshots, connect(s)
    PROVE  WorkerInv'
<1>1. call.pc = "starting" /\ session = NoProcess /\ call.process \in Processes /\ calls < MaxCalls
  BY DEF WorkerInv, CallHasProcess, connect
<1>2. \A q \in Processes : up(q) => q = call.process
  BY <1>1, ProcessIds DEF WorkerInv, WorkersAreOwned
<1>. QED BY <1>1, <1>2, RequestStep DEF connect

(* start_session: when the last worker is gone, one is started.             *)
LEMMA StartSessionInv ==
    ASSUME WorkerInv, start_session
    PROVE  WorkerInv'
<1>. USE DEF WorkerInv
<1>1. PICK p \in Processes :
          /\ processes' = [processes EXCEPT ![p] = [Down EXCEPT !.status = "spawned"]]
          /\ call' = [NoCall EXCEPT !.pc = "starting", !.process = p]
  BY DEF start_session
<1>2. PICK x : x = [Down EXCEPT !.status = "spawned"]
  OBVIOUS
<1>3. /\ x \in ProcessRecords /\ x.status = "spawned" /\ x.compiler = NoCompiler
      /\ x.pending = NoCompiler
  BY <1>2 DEF Down, ProcessRecords
<1>4. /\ processes' \in [Processes -> ProcessRecords]
      /\ \A q \in Processes : processes'[q] = IF q = p THEN x ELSE processes[q]
  BY <1>1, <1>2, <1>3 DEF StateType
<1>5. call' \in CallRecords /\ call'.pc = "starting" /\ call'.process = p
  BY <1>1 DEF NoCall, CallRecords
<1>6. /\ call.pc = "idle" /\ calls < MaxCalls /\ ~up(session) /\ session' = NoProcess
      /\ UNCHANGED <<persistent, calls, analyses, received, disk, answer, faults>>
  BY DEF start_session
<1>7. StateType'
  BY <1>4, <1>5, <1>6 DEF StateType
<1>8. CallHasProcess'
  BY <1>5, <1>6 DEF CallHasProcess
<1>9. AnalysesRun' /\ AnswersAreCurrent'
  BY <1>6, AnswerKept DEF AnalysesRun
<1>10. CachesAreSound'
  BY <1>3, <1>4, <1>6, CachesKept
<1>11. StreamIsOfCall'
  BY <1>5, <1>6 DEF StreamIsOfCall
<1>12. \A q \in Processes : ~up(q)
  BY <1>6 DEF WorkersAreOwned
<1>13. WorkersAreOwned'
  BY <1>4, <1>5, <1>12 DEF WorkersAreOwned, up
<1>. QED BY <1>7, <1>8, <1>9, <1>10, <1>11, <1>13

(* return: the call is over; the workers that still run are the session's.  *)
LEMMA ReturnStep ==
    ASSUME WorkerInv, return, UNCHANGED <<persistent, calls, disk, faults>>,
           session' \in {NoProcess} \cup Processes,
           processes' \in [Processes -> ProcessRecords],
           analyses' \in [Calls -> AnalysisRecords],
           AnalysesRun', CachesAreSound', AnswersAreCurrent',
           \A q \in Processes : processes'[q].status \in {"spawned", "listening"} => q = session'
    PROVE  WorkerInv'
<1>. USE DEF WorkerInv
<1>1. call' = NoCall /\ received' = Nothing /\ NoCall.pc = "idle"
  BY DEF return, NoCall
<1>2. StateType'
  BY <1>1, AbsentType DEF StateType
<1>3. CallHasProcess'
  BY <1>1 DEF CallHasProcess
<1>4. StreamIsOfCall'
  BY <1>1 DEF StreamIsOfCall
<1>5. WorkersAreOwned'
  BY DEF WorkersAreOwned, up
<1>. QED BY <1>2, <1>3, <1>4, <1>5

(* connect_fails: the worker that was started is killed.                    *)
LEMMA ConnectFailsInv ==
    ASSUME WorkerInv, connect_fails
    PROVE  WorkerInv'
<1>. USE DEF WorkerInv
<1>1. call.pc = "starting" /\ session = NoProcess /\ call.process \in Processes
  BY DEF CallHasProcess, connect_fails
<1>2. /\ processes' \in [Processes -> ProcessRecords]
      /\ analyses' \in [Calls -> AnalysisRecords]
      /\ AnalysesRun' /\ CachesAreSound'
      /\ \A q \in Processes : processes'[q] = IF q = call.process THEN Down ELSE processes[q]
  BY <1>1, KillStep DEF connect_fails
<1>3. AnswersAreCurrent'
  BY AnswerKept DEF connect_fails
<1>4. \A q \in Processes : processes'[q].status \in {"spawned", "listening"} => q = session'
  BY <1>1, <1>2, AbsentType, ProcessIds DEF WorkersAreOwned, up
<1>. QED BY <1>1, <1>2, <1>3, <1>4, ReturnStep DEF connect_fails, StateType

(* terminate_for_memory_event: the worker of the call is killed.            *)
LEMMA TerminateInv ==
    ASSUME WorkerInv, terminate_for_memory_event
    PROVE  WorkerInv'
<1>. USE DEF WorkerInv
<1>1. /\ call.process \in Processes
      /\ \/ call.pc = "starting" /\ session = NoProcess
         \/ call.pc = "streaming" /\ session = call.process
  BY DEF CallHasProcess, terminate_for_memory_event, StateType, CallRecords
<1>2. /\ processes' \in [Processes -> ProcessRecords]
      /\ analyses' \in [Calls -> AnalysisRecords]
      /\ AnalysesRun' /\ CachesAreSound'
      /\ \A q \in Processes : processes'[q] = IF q = call.process THEN Down ELSE processes[q]
  BY <1>1, KillStep DEF terminate_for_memory_event
<1>3. AnswersAreCurrent'
  BY AnswerKept DEF terminate_for_memory_event
<1>4. \A q \in Processes : processes'[q].status \in {"spawned", "listening"} => q = session'
  BY <1>1, <1>2, AbsentType, ProcessIds DEF WorkersAreOwned, up
<1>. QED BY <1>1, <1>2, <1>3, <1>4, ReturnStep DEF terminate_for_memory_event, StateType

(* receive: a chunk goes from the stream to what was received.              *)
LEMMA ReceiveInv ==
    ASSUME WorkerInv, receive
    PROVE  WorkerInv'
<1>. USE DEF WorkerInv
<1>1. PICK r \in analyses[calls].chunks :
          /\ received' = [received EXCEPT !.chunks = @ \cup {r}]
          /\ analyses' = [analyses EXCEPT ![calls].chunks = @ \ {r}]
  BY DEF receive, stream
<1>2. /\ call.pc = "streaming" /\ calls \in Calls /\ analyses[calls].pc = "sending"
      /\ UNCHANGED <<persistent, session, call, calls, processes, disk, answer, faults>>
  BY DEF receive, stream, CallHasProcess
<1>3. PICK a : a = [analyses[calls] EXCEPT !.chunks = @ \ {r}]
  OBVIOUS
<1>4. analyses' = [analyses EXCEPT ![calls] = a]
  BY <1>1, <1>2, <1>3 DEF StateType
<1>5. /\ a \in AnalysisRecords /\ a.pc = "sending" /\ a.chunks = analyses[calls].chunks \ {r}
      /\ a.process = analyses[calls].process /\ a.snapshot = analyses[calls].snapshot
  BY <1>2, <1>3 DEF StateType, AnalysisRecords
<1>6. /\ analyses' \in [Calls -> AnalysisRecords]
      /\ \A c \in Calls : analyses'[c] = IF c = calls THEN a ELSE analyses[c]
  BY <1>2, <1>4, <1>5 DEF StateType
<1>7. r \in Chunks
  BY <1>1, <1>2 DEF StateType, AnalysisRecords
<1>8. /\ received' \in [chunks : SUBSET Chunks, completed : BOOLEAN]
      /\ received'.chunks = received.chunks \cup {r} /\ received'.completed = received.completed
  BY <1>1, <1>7 DEF StateType
<1>9. StateType'
  BY <1>2, <1>6, <1>8 DEF StateType
<1>10. AnalysesRun'
  BY <1>2, <1>5, <1>6 DEF AnalysesRun
<1>11. received'.chunks \cup a.chunks = received.chunks \cup analyses[calls].chunks
  BY <1>1, <1>5, <1>8
<1>12. StreamIsOfCall'
  <2>1. ~received.completed /\ Accepted(received.chunks \cup analyses[calls].chunks, call.snapshot)
    BY <1>2 DEF StreamIsOfCall
  <2>2. Accepted(received'.chunks \cup a.chunks, call.snapshot)
    BY <1>11, <2>1
  <2>3. calls' = calls /\ call' = call /\ analyses'[calls] = a
    BY <1>2, <1>6
  <2>. QED BY <1>2, <1>5, <1>8, <2>1, <2>2, <2>3 DEF StreamIsOfCall
<1>13. CachesAreSound' /\ WorkersAreOwned' /\ CallHasProcess' /\ AnswersAreCurrent'
  BY <1>2, CachesKept, OwnedKept, CallKept, AnswerKept
<1>. QED BY <1>9, <1>10, <1>12, <1>13

(* An analysis that ends leaves the others.                                 *)
LEMMA EndOfCall ==
    ASSUME WorkerInv, call.pc = "streaming", analyses' = [analyses EXCEPT ![calls] = Ended]
    PROVE  /\ analyses' \in [Calls -> AnalysisRecords] /\ AnalysesRun'
           /\ analyses'[calls] = Ended
<1>. USE DEF WorkerInv
<1>1. calls \in Calls
  BY DEF CallHasProcess
<1>2. /\ analyses' \in [Calls -> AnalysisRecords]
      /\ \A c \in Calls : analyses'[c] = IF c = calls THEN Ended ELSE analyses[c]
  BY <1>1, AbsentType DEF StateType
<1>3. AnalysesRun'
  BY <1>2, AbsentType DEF AnalysesRun
<1>. QED BY <1>1, <1>2, <1>3

(* receive_completed: what was received is the contribution.                *)
LEMMA ReceiveCompletedInv ==
    ASSUME WorkerInv, receive_completed
    PROVE  WorkerInv'
<1>. USE DEF WorkerInv
<1>1. /\ call.pc = "streaming" /\ analyses[calls].pc = "sending" /\ analyses[calls].chunks = {}
      /\ received' = [received EXCEPT !.completed = TRUE]
      /\ analyses' = [analyses EXCEPT ![calls] = Ended]
      /\ UNCHANGED <<persistent, session, call, calls, processes, disk, answer, faults>>
  BY DEF receive_completed, stream
<1>2. /\ analyses' \in [Calls -> AnalysisRecords] /\ AnalysesRun'
      /\ analyses'[calls] = Ended
  BY <1>1, EndOfCall
<1>3. /\ received' \in [chunks : SUBSET Chunks, completed : BOOLEAN]
      /\ received'.chunks = received.chunks /\ received'.completed
  BY <1>1 DEF StateType
<1>4. StateType'
  BY <1>1, <1>2, <1>3 DEF StateType
<1>5. StreamIsOfCall'
  <2>1. Accepted(received.chunks \cup analyses[calls].chunks, call.snapshot)
    BY <1>1 DEF StreamIsOfCall
  <2>2. received.chunks \cup analyses[calls].chunks = received'.chunks
    BY <1>1, <1>3
  <2>3. Accepted(received'.chunks, call.snapshot)
    BY <2>1, <2>2
  <2>4. calls' = calls /\ call' = call /\ analyses'[calls].pc = "done"
    BY <1>1, <1>2, AbsentType
  <2>. QED BY <1>1, <1>3, <2>3, <2>4 DEF StreamIsOfCall
<1>6. CachesAreSound' /\ WorkersAreOwned' /\ CallHasProcess' /\ AnswersAreCurrent'
  BY <1>1, CachesKept, OwnedKept, CallKept, AnswerKept
<1>. QED BY <1>2, <1>4, <1>5, <1>6

(* finish: only a completed contribution becomes the answer.                *)
LEMMA FinishInv ==
    ASSUME WorkerInv, finish
    PROVE  WorkerInv'
<1>. USE DEF WorkerInv
<1>1. /\ call.pc = "streaming" /\ call.process = session /\ session \in Processes
      /\ call.snapshot \in Snapshots /\ return /\ UNCHANGED <<persistent, calls, disk, faults>>
  BY DEF CallHasProcess, finish
<1>a. PICK accepted \in {received.completed, FALSE} :
        /\ IF accepted
             THEN answer' = [snapshot |-> call.snapshot, contribution |-> received.chunks]
             ELSE UNCHANGED answer
        /\ IF accepted /\ ~persistent
             THEN session' = NoProcess /\ kill(call.process)
             ELSE UNCHANGED <<session, processes, analyses>>
  BY DEF finish
<1>2. AnswersAreCurrent'
  <2>1. CASE accepted
    <3>1. Accepted(received.chunks, call.snapshot)
      BY <1>1, <1>a, <2>1 DEF StreamIsOfCall
    <3>2. answer' = [snapshot |-> call.snapshot, contribution |-> received.chunks]
      BY <1>a, <2>1
    <3>3. answer'.snapshot = call.snapshot /\ answer'.contribution = received.chunks
      BY <3>2
    <3>4. \/ answer'.contribution = Unavailable
          \/ Current(answer'.contribution, answer'.snapshot)
      BY <3>1, <3>3 DEF Accepted
    <3>. QED BY <3>4, Zenon DEF AnswersAreCurrent, Current
  <2>2. CASE ~accepted
    BY <1>a, <2>2, AnswerKept
  <2>. QED BY <2>1, <2>2
<1>3. CASE accepted /\ ~persistent
  <2>1. session' = NoProcess /\ kill(call.process)
    BY <1>a, <1>3
  <2>2. /\ processes' \in [Processes -> ProcessRecords]
        /\ analyses' \in [Calls -> AnalysisRecords]
        /\ AnalysesRun' /\ CachesAreSound'
        /\ \A q \in Processes : processes'[q] = IF q = call.process THEN Down ELSE processes[q]
    BY <1>1, <2>1, KillStep
  <2>3. \A q \in Processes : processes'[q].status \in {"spawned", "listening"} => q = session'
    BY <1>1, <2>2, AbsentType, ProcessIds DEF WorkersAreOwned, up
  <2>. QED BY <1>1, <1>2, <2>1, <2>2, <2>3, ReturnStep
<1>4. CASE ~(accepted /\ ~persistent)
  <2>1. UNCHANGED <<session, processes, analyses>>
    BY <1>a, <1>4
  <2>2. AnalysesRun' /\ CachesAreSound'
    BY <1>1, <2>1, CachesKept DEF AnalysesRun
  <2>3. \A q \in Processes : processes'[q].status \in {"spawned", "listening"} => q = session'
    BY <1>1, <2>1, ProcessIds DEF WorkersAreOwned, up
  <2>. QED BY <1>1, <1>2, <2>1, <2>2, <2>3, ReturnStep DEF StateType
<1>. QED BY <1>3, <1>4

(* inactivity_timeout: the call gives up, its analysis may go on.           *)
LEMMA InactivityTimeoutInv ==
    ASSUME WorkerInv, inactivity_timeout
    PROVE  WorkerInv'
<1>. USE DEF WorkerInv
<1>1. /\ call.pc = "streaming" /\ calls \in Calls /\ return
      /\ UNCHANGED <<persistent, session, calls, processes, disk, answer, faults>>
  BY DEF CallHasProcess, inactivity_timeout
<1>2. PICK a : a = analyses[calls]
  OBVIOUS
<1>3. PICK b : b = IF a.pc = "sending" THEN Ended ELSE [a EXCEPT !.open = FALSE]
  OBVIOUS
<1>4. analyses' = [analyses EXCEPT ![calls] = b]
  BY <1>1, <1>2, <1>3 DEF inactivity_timeout, StateType
<1>5. /\ b \in AnalysisRecords
      /\ \/ b.pc = a.pc /\ b.process = a.process /\ b.snapshot = a.snapshot
         \/ b.pc = "done"
  BY <1>1, <1>2, <1>3, AbsentType DEF StateType, AnalysisRecords
<1>6. /\ analyses' \in [Calls -> AnalysisRecords]
      /\ \A c \in Calls : analyses'[c] = IF c = calls THEN b ELSE analyses[c]
  BY <1>1, <1>4, <1>5 DEF StateType
<1>7. AnalysesRun'
  BY <1>1, <1>2, <1>5, <1>6 DEF AnalysesRun
<1>8. CachesAreSound' /\ AnswersAreCurrent'
  BY <1>1, CachesKept, AnswerKept
<1>9. \A q \in Processes : processes'[q].status \in {"spawned", "listening"} => q = session'
  BY <1>1, ProcessIds DEF WorkersAreOwned, up
<1>. QED BY <1>1, <1>6, <1>7, <1>8, <1>9, ReturnStep DEF StateType

-----------------------------------------------------------------------------
(***************************************************************************)
(* The theorems.                                                           *)
(***************************************************************************)
(* Every step preserves the invariant.                                      *)
LEMMA NextInv == WorkerInv /\ [Next]_vars => WorkerInv'
<1>. SUFFICES ASSUME WorkerInv, [Next]_vars
              PROVE  WorkerInv'
  OBVIOUS
<1>1. ASSUME UNCHANGED vars
      PROVE  WorkerInv'
  <2>1. UNCHANGED <<persistent, session, call, calls, processes, analyses, received, disk, answer, faults>>
    BY <1>1 DEF vars
  <2>2. CachesAreSound' /\ StreamIsOfCall' /\ AnalysesRun'
    BY <2>1, CachesKept, StreamKept DEF WorkerInv, AnalysesRun
  <2>. QED BY <2>1, <2>2, WorkerStep DEF WorkerInv, StateType
<1>2. ASSUME Client
      PROVE  WorkerInv'
  BY <1>2, EnrichInv, ConnectInv, StartSessionInv, ConnectFailsInv, TerminateInv, ReceiveInv,
     ReceiveCompletedInv, FinishInv, InactivityTimeoutInv DEF Client
<1>3. ASSUME Worker
      PROVE  WorkerInv'
  BY <1>3, ServeInv, PersistInv, AnalyzeInv, EnrichSemanticsInv, VerificationFailsInv,
     PreparationFailsInv, PanicInv DEF Worker
<1>4. ASSUME NEW p \in Processes, die(p) \/ sample(p)
      PROVE  WorkerInv'
  BY <1>4, DieInv, SampleInv
<1>. QED BY <1>1, <1>2, <1>3, <1>4 DEF Next

(* Every reachable state of the session satisfies the invariant.            *)
THEOREM WorkerInvariant == Spec => []WorkerInv
<1>1. Init => WorkerInv
  BY InitInv
<1>2. WorkerInv /\ [Next]_vars => WorkerInv'
  BY NextInv
<1>. QED BY <1>1, <1>2, PTL DEF Spec

(* The state of the session has its shape.                                  *)
THEOREM SessionTyped == Spec => []TypeOK
<1>1. WorkerInv => TypeOK
  BY DEF WorkerInv, StateType, CallHasProcess, TypeOK, CallRecords, ProcessRecords,
         AnalysisRecords, NoCall
<1>. QED BY <1>1, WorkerInvariant, PTL

(* start_session and the ends of a call: whatever dies, exceeds its limit   *)
(* or times out, a running worker is the session's or is being started.     *)
THEOREM WorkersOwned == Spec => []WorkersAreOwned
<1>1. WorkerInv => WorkersAreOwned
  BY DEF WorkerInv
<1>. QED BY <1>1, WorkerInvariant, PTL

(* update_file_analyses and the caches: an accepted contribution says of    *)
(* every imported call what the compiler would say from scratch.            *)
THEOREM AnswersCurrent == Spec => []AnswersAreCurrent
<1>1. WorkerInv => AnswersAreCurrent
  BY DEF WorkerInv
<1>. QED BY <1>1, WorkerInvariant, PTL
=============================================================================
