---------------------------- MODULE Workers_proofs ----------------------------
(***************************************************************************)
(* Proofs about Workers: for every set of servers, every number of workers *)
(* wanted, every maxConcurrentHeals and every kind of failure, healing     *)
(* spares healthy workers though it points into a slice that changes under *)
(* it, a scale-up fills the gap and no more, a scale-down is gradual.      *)
(***************************************************************************)
EXTENDS Workers, FiniteSetTheorems, TLAPS

-----------------------------------------------------------------------------
(***************************************************************************)
(* Sets in order.                                                          *)
(***************************************************************************)

\* A strict total order of S.
StrictlyOrders(before, S) ==
  /\ \A x \in S : <<x, x>> \notin before
  /\ \A x, y, z \in S : <<x, y>> \in before /\ <<y, z>> \in before => <<x, z>> \in before
  /\ \A x, y \in S : x # y => <<x, y>> \in before \/ <<y, x>> \in before

\* How many elements of S come before x.
Rank(S, before, x) == Cardinality({y \in S : <<y, x>> \in before})

\* An element has fewer before it than a later one.
LEMMA RanksGrow ==
  ASSUME NEW S, NEW before, IsFiniteSet(S), StrictlyOrders(before, S),
         NEW x \in S, NEW y \in S, <<x, y>> \in before
  PROVE  Rank(S, before, x) < Rank(S, before, y)
<1> DEFINE X == {z \in S : <<z, x>> \in before}
           Y == {z \in S : <<z, y>> \in before}
<1>1. IsFiniteSet(X) /\ IsFiniteSet(Y)
  <2>1. X \in SUBSET S /\ Y \in SUBSET S OBVIOUS
  <2> QED BY <2>1, FS_Subset
<1>2. Cardinality(X) \in Nat /\ Cardinality(Y) \in Nat BY <1>1, FS_CardinalityType
<1>3. X \in SUBSET Y /\ x \in Y /\ x \notin X BY DEF StrictlyOrders
<1>4. Cardinality(X) <= Cardinality(Y) /\ Cardinality(X) # Cardinality(Y)
  BY <1>1, <1>3, FS_Subset
<1> QED BY <1>2, <1>4 DEF Rank

\* The ranks are 0 up to the size of S, each held by one element.
LEMMA Ranks ==
  ASSUME NEW S, NEW before, IsFiniteSet(S), StrictlyOrders(before, S)
  PROVE  /\ Cardinality(S) \in Nat
         /\ \A x \in S : Rank(S, before, x) + 1 \in 1..Cardinality(S)
         /\ \A x, y \in S : Rank(S, before, x) = Rank(S, before, y) => x = y
         /\ \A k \in 1..Cardinality(S) : \E x \in S : Rank(S, before, x) = k - 1
<1> DEFINE N == Cardinality(S)
           rank == [x \in S |-> Rank(S, before, x) + 1]
<1>1. N \in Nat BY FS_CardinalityType
<1>2. \A x \in S : Rank(S, before, x) + 1 \in 1..N /\ Rank(S, before, x) \in Nat
  <2> TAKE x \in S
  <2> DEFINE X == {y \in S : <<y, x>> \in before}
  <2>1. X \in SUBSET S /\ X # S BY DEF StrictlyOrders
  <2>2. IsFiniteSet(X) /\ Cardinality(X) <= N /\ Cardinality(X) # N BY <2>1, FS_Subset
  <2>3. Cardinality(X) \in Nat BY <2>2, FS_CardinalityType
  <2> QED BY <1>1, <2>2, <2>3 DEF Rank
<1>3. \A x, y \in S : Rank(S, before, x) = Rank(S, before, y) => x = y
  <2> SUFFICES ASSUME NEW x \in S, NEW y \in S, Rank(S, before, x) = Rank(S, before, y), x # y
               PROVE  FALSE
    OBVIOUS
  <2>1. CASE <<x, y>> \in before
    <3>1. Rank(S, before, x) < Rank(S, before, y) BY <2>1, RanksGrow
    <3> QED BY <3>1, <1>2
  <2>2. CASE <<y, x>> \in before
    <3>1. Rank(S, before, y) < Rank(S, before, x) BY <2>2, RanksGrow
    <3> QED BY <3>1, <1>2
  <2> QED BY <2>1, <2>2 DEF StrictlyOrders
<1>4. rank \in Injection(S, 1..N)
  <2>1. rank \in [S -> 1..N] BY <1>2
  <2>2. \A x, y \in S : rank[x] = rank[y] => x = y BY <1>2, <1>3
  <2> QED BY <2>1, <2>2 DEF Injection, IsInjective
<1>5. IsFiniteSet(1..N) /\ Cardinality(1..N) = N BY <1>1, FS_Interval
<1>6. rank \in Surjection(S, 1..N) BY <1>4, <1>5, FS_Injection
<1>7. ASSUME NEW k \in 1..N PROVE \E x \in S : Rank(S, before, x) = k - 1
  <2>1. PICK x \in S : rank[x] = k BY <1>6 DEF Surjection
  <2> QED BY <2>1, <1>2, <1>1
<1> HIDE DEF N, rank
<1> QED BY <1>1, <1>2, <1>3, <1>7 DEF N

\* What InOrder returns: S in order, each element once.
LEMMA InOrderSorts ==
  ASSUME NEW S, NEW before, IsFiniteSet(S), StrictlyOrders(before, S)
  PROVE  LET o == InOrder(S, before)
         IN /\ Cardinality(S) \in Nat
            /\ o \in [1..Cardinality(S) -> S]
            /\ \A k, l \in 1..Cardinality(S) : k < l => <<o[k], o[l]>> \in before
            /\ \A x \in S : \E k \in 1..Cardinality(S) : o[k] = x
<1> DEFINE o == InOrder(S, before)
           N == Cardinality(S)
<1>1. \A k \in 1..N : o[k] \in S /\ Rank(S, before, o[k]) = k - 1
  <2> TAKE k \in 1..N
  <2>1. o[k] = CHOOSE x \in S : Rank(S, before, x) = k - 1 BY DEF InOrder, Rank
  <2>2. \E x \in S : Rank(S, before, x) = k - 1 BY Ranks
  <2> QED BY <2>1, <2>2
<1>2. o \in [1..N -> S]
  <2> DEFINE nth(k) == CHOOSE x \in S : Cardinality({y \in S : <<y, x>> \in before}) = k - 1
  <2>1. o = [k \in 1..N |-> nth(k)] BY DEF InOrder
  <2> HIDE DEF nth, o
  <2>2. \A k \in 1..N : nth(k) \in S BY <2>1, <1>1
  <2> QED BY <2>1, <2>2
<1>3. \A k, l \in 1..N : k < l => <<o[k], o[l]>> \in before
  <2> SUFFICES ASSUME NEW k \in 1..N, NEW l \in 1..N, k < l PROVE <<o[k], o[l]>> \in before
    OBVIOUS
  <2>1. o[k] # o[l] BY <1>1
  <2>2. <<o[l], o[k]>> \notin before
    <3> SUFFICES ASSUME <<o[l], o[k]>> \in before PROVE FALSE OBVIOUS
    <3>1. Rank(S, before, o[l]) < Rank(S, before, o[k]) BY <1>1, RanksGrow
    <3> QED BY <3>1, <1>1
  <2> QED BY <1>1, <2>1, <2>2 DEF StrictlyOrders
<1>4. \A x \in S : \E k \in 1..N : o[k] = x
  <2> TAKE x \in S
  <2>1. Rank(S, before, x) + 1 \in 1..N BY Ranks
  <2> DEFINE k == Rank(S, before, x) + 1
  <2>2. Rank(S, before, o[k]) = k - 1 /\ o[k] \in S BY <2>1, <1>1
  <2>3. o[k] = x
    <3>1. N \in Nat BY Ranks
    <3>2. k - 1 = Rank(S, before, x)
      <4>1. Rank(S, before, x) \in Nat
        <5>1. {y \in S : <<y, x>> \in before} \in SUBSET S OBVIOUS
        <5> QED BY <5>1, FS_Subset, FS_CardinalityType DEF Rank
      <4> QED BY <4>1
    <3> QED BY <2>2, <3>2, Ranks
  <2> QED BY <2>1, <2>3
<1>5. N \in Nat BY Ranks
<1> HIDE DEF o, N
<1> QED BY <1>2, <1>3, <1>4, <1>5 DEF o, N

\* An order of a finite set there always is.
LEMMA OrdersExist ==
  ASSUME NEW S, IsFiniteSet(S)
  PROVE  /\ Cardinality(S) \in Nat
         /\ Orders(S) # {}
         /\ (CHOOSE o \in Orders(S) : TRUE) \in Orders(S)
         /\ \A o \in Orders(S) : \A x \in S : \E k \in 1..Cardinality(S) : o[k] = x
<1> DEFINE N == Cardinality(S)
<1>1. N \in Nat /\ ExistsBijection(1..N, S) BY FS_CardinalityType
<1>2. PICK f \in Bijection(1..N, S) : TRUE BY <1>1 DEF ExistsBijection
<1>3. f \in Orders(S) BY <1>2 DEF Orders, Bijection, Injection, IsInjective
<1>4. ASSUME NEW o \in Orders(S) PROVE \A x \in S : \E k \in 1..N : o[k] = x
  <2>1. o \in Injection(1..N, S)
    <3>1. o \in [1..N -> S] /\ \A i, j \in DOMAIN o : i # j => o[i] # o[j] BY DEF Orders
    <3>2. \A i, j \in DOMAIN o : o[i] = o[j] => i = j BY <3>1
    <3> QED BY <3>1, <3>2 DEF Injection, IsInjective
  <2>2. IsFiniteSet(1..N) /\ Cardinality(1..N) = N BY <1>1, FS_Interval
  <2>3. o \in Surjection(1..N, S) BY <2>1, <2>2, FS_Injection
  <2> QED BY <2>3 DEF Surjection
<1> QED BY <1>1, <1>3, <1>4

-----------------------------------------------------------------------------
(***************************************************************************)
(* The slice: updating, appending and removing an entry.                   *)
(***************************************************************************)

\* A status whose slice fits its array.
Sound(st) == st \in Status /\ st.len <= Len(st.nodes)

\* No two live entries have one name.
Distinct(st) == \A i, j \in Slots(st) : st.nodes[i].name = st.nodes[j].name => i = j

\* The parts of a status.
LEMMA StatusParts ==
  ASSUME NEW st, Sound(st)
  PROVE  /\ st.nodes \in Seq(Entry) /\ st.len \in Nat /\ st.ready \in Nat /\ st.phase \in Phases
         /\ Len(st.nodes) \in Nat /\ DOMAIN st.nodes = 1..Len(st.nodes)
         /\ \A i \in 1..Len(st.nodes) : st.nodes[i] \in Entry
         /\ Slots(st) \subseteq 1..Len(st.nodes)
BY DEF Sound, Status, Slots

\* The parts of an entry.
LEMMA EntryParts ==
  ASSUME NEW e \in Entry
  PROVE  e.name \in Servers /\ e.phase \in Classes /\ e.health \in Healths
BY DEF Entry

\* A status made of such parts.
LEMMA StatusFrom ==
  ASSUME NEW nodes, NEW n \in Nat, NEW m \in Nat, m <= n,
         DOMAIN nodes = 1..n, nodes = [i \in 1..n |-> nodes[i]],
         \A i \in 1..n : nodes[i] \in Entry,
         NEW ready \in Nat, NEW phase \in Phases
  PROVE  /\ Sound([nodes |-> nodes, len |-> m, ready |-> ready, phase |-> phase])
         /\ Len(nodes) = n
<1>1. nodes \in Seq(Entry) /\ Len(nodes) = n
  <2>1. nodes \in [1..n -> Entry] OBVIOUS
  <2> QED BY <2>1
<1> QED BY <1>1 DEF Sound, Status

\* A status is what its parts are.
LEMMA StatusIs ==
  ASSUME NEW st, Sound(st)
  PROVE  st = [nodes |-> st.nodes, len |-> st.len, ready |-> st.ready, phase |-> st.phase]
BY DEF Sound, Status

\* Such a status with other nodes, and another length.
LEMMA StatusWith ==
  ASSUME NEW st, Sound(st), NEW nodes, NEW len
  PROVE  /\ [st EXCEPT !.nodes = nodes] =
              [nodes |-> nodes, len |-> st.len, ready |-> st.ready, phase |-> st.phase]
         /\ [st EXCEPT !.nodes = nodes, !.len = len] =
              [nodes |-> nodes, len |-> len, ready |-> st.ready, phase |-> st.phase]
         /\ [st EXCEPT !.len = len, !.nodes = nodes] =
              [nodes |-> nodes, len |-> len, ready |-> st.ready, phase |-> st.phase]
<1>1. DOMAIN st = {"nodes", "len", "ready", "phase"} BY DEF Sound, Status
<1>2. [st EXCEPT !.nodes = nodes] =
        [f \in DOMAIN st |-> IF f = "nodes" THEN nodes ELSE st[f]]
  BY <1>1
<1>3. [st EXCEPT !.nodes = nodes, !.len = len] =
        [f \in DOMAIN st |-> IF f = "len" THEN len ELSE IF f = "nodes" THEN nodes ELSE st[f]]
  BY <1>1
<1>4. [st EXCEPT !.len = len, !.nodes = nodes] =
        [f \in DOMAIN st |-> IF f = "len" THEN len ELSE IF f = "nodes" THEN nodes ELSE st[f]]
  BY <1>1
<1>5. [f \in DOMAIN st |-> IF f = "nodes" THEN nodes ELSE st[f]] =
        [nodes |-> nodes, len |-> st.len, ready |-> st.ready, phase |-> st.phase]
  BY <1>1
<1>6. [f \in DOMAIN st |-> IF f = "len" THEN len ELSE IF f = "nodes" THEN nodes ELSE st[f]] =
        [nodes |-> nodes, len |-> len, ready |-> st.ready, phase |-> st.phase]
  BY <1>1
<1> QED BY <1>2, <1>3, <1>4, <1>5, <1>6

\* Updating the entry of a name that has one: names stay, and so does lateness.
LEMMA SetPhaseUpdates ==
  ASSUME NEW st, Sound(st), NEW n \in Servers, n \in Names(st), NEW p, p # "Ready"
  PROVE  LET r == SetPhase(st, n, p)
         IN /\ Sound(r) /\ r.len = st.len /\ Len(r.nodes) = Len(st.nodes)
            /\ r.ready = st.ready /\ r.phase = st.phase
            /\ \A i \in 1..Len(st.nodes) :
                 /\ r.nodes[i].name = st.nodes[i].name
                 /\ st.nodes[i].health = "late" => r.nodes[i].health = "late"
<1> DEFINE L == Len(st.nodes)
           Health(h) == IF h = "late" THEN "late" ELSE "unhealthy"
           new(i) == [name |-> n, phase |-> ClassOf(p), health |-> Health(st.nodes[i].health)]
           nodes == [i \in 1..L |-> IF i \in Where(st, n) THEN new(i) ELSE st.nodes[i]]
<1>1. Where(st, n) # {} BY DEF Where, Names
<1>2. DOMAIN st.nodes = 1..L /\ L \in Nat /\ \A i \in 1..L : st.nodes[i] \in Entry BY StatusParts
<1>3. SetPhase(st, n, p) = [st EXCEPT !.nodes = nodes] BY <1>1, <1>2 DEF SetPhase
<1>4. \A i \in Where(st, n) :
                      /\ new(i) \in Entry /\ new(i).name = st.nodes[i].name
                      /\ st.nodes[i].health = "late" => new(i).health = "late"
  <2>1. ClassOf(p) \in Classes BY DEF ClassOf, Classes
  <2>2. \A h : Health(h) \in Healths BY DEF Healths
  <2> HIDE DEF Health
  <2>3. \A i \in Where(st, n) : new(i) \in Entry /\ new(i).name = st.nodes[i].name
    BY <2>1, <2>2 DEF Entry, Where
  <2>4. \A i : new(i).health = Health(st.nodes[i].health) OBVIOUS
  <2> QED BY <2>3, <2>4 DEF Health
<1> HIDE DEF new
<1>5. /\ DOMAIN nodes = 1..L /\ nodes = [i \in 1..L |-> nodes[i]]
      /\ \A i \in 1..L : nodes[i] \in Entry
      /\ \A i \in 1..L : /\ nodes[i].name = st.nodes[i].name
                         /\ st.nodes[i].health = "late" => nodes[i].health = "late"
  BY <1>2, <1>4
<1>6. [st EXCEPT !.nodes = nodes] =
        [nodes |-> nodes, len |-> st.len, ready |-> st.ready, phase |-> st.phase]
  BY StatusWith
<1> HIDE DEF nodes, L
<1>7. Sound([st EXCEPT !.nodes = nodes]) /\ Len(nodes) = L
  <2>1. st.len \in Nat /\ st.len <= L BY StatusParts DEF Sound, L
  <2>2. st.ready \in Nat /\ st.phase \in Phases BY StatusParts
  <2> QED BY <1>2, <1>5, <1>6, <2>1, <2>2, StatusFrom
<1> QED BY <1>3, <1>5, <1>6, <1>7 DEF L

\* Appending an entry: in the slot after the slice, and nothing else changes.
LEMMA SetPhaseAppends ==
  ASSUME NEW st, Sound(st), NEW n \in Servers, n \notin Names(st), NEW p, p # "Ready"
  PROVE  LET r == SetPhase(st, n, p)
         IN /\ Sound(r) /\ r.len = st.len + 1
            /\ Len(st.nodes) <= Len(r.nodes)
            /\ r.ready = st.ready /\ r.phase = st.phase
            /\ r.nodes[r.len].name = n
            /\ \A i \in 1..Len(st.nodes) : i # r.len => r.nodes[i] = st.nodes[i]
<1> DEFINE L == Len(st.nodes)
           new == [name |-> n, phase |-> ClassOf(p), health |-> "unhealthy"]
           nodes == [i \in 1..L \cup {st.len + 1} |-> IF i = st.len + 1 THEN new ELSE st.nodes[i]]
           M == IF st.len = L THEN L + 1 ELSE L
<1>1. Where(st, n) = {} BY DEF Where, Names
<1>2. /\ DOMAIN st.nodes = 1..L /\ L \in Nat /\ \A i \in 1..L : st.nodes[i] \in Entry
      /\ st.len \in Nat /\ st.len <= L
  BY StatusParts DEF Sound
<1>3. SetPhase(st, n, p) = [st EXCEPT !.len = st.len + 1, !.nodes = nodes]
  BY <1>1, <1>2 DEF SetPhase
<1>4. new \in Entry /\ new.name = n BY DEF Entry, ClassOf, Classes, Healths
<1> HIDE DEF new
<1>5. M \in Nat /\ 1..L \cup {st.len + 1} = 1..M /\ st.len + 1 <= M /\ L <= M BY <1>2
<1>6. /\ DOMAIN nodes = 1..M /\ nodes = [i \in 1..M |-> nodes[i]]
      /\ nodes[st.len + 1] = new
      /\ \A i \in 1..L : i # st.len + 1 => nodes[i] = st.nodes[i]
      /\ \A i \in 1..M : nodes[i] \in Entry
  <2> HIDE DEF M
  <2>1. nodes = [i \in 1..M |-> IF i = st.len + 1 THEN new ELSE st.nodes[i]] BY <1>5
  <2>2. \A i \in 1..M : i = st.len + 1 \/ i \in 1..L BY <1>5
  <2> HIDE DEF nodes
  <2>3. st.len + 1 \in 1..M BY <1>5, <1>2
  <2> QED BY <1>2, <1>4, <1>5, <2>1, <2>2, <2>3
<1> HIDE DEF nodes, M
<1>7. [st EXCEPT !.len = st.len + 1, !.nodes = nodes] =
        [nodes |-> nodes, len |-> st.len + 1, ready |-> st.ready, phase |-> st.phase]
  BY StatusWith
<1>8. Sound([st EXCEPT !.len = st.len + 1, !.nodes = nodes]) /\ Len(nodes) = M
  <2>1. st.len + 1 \in Nat /\ st.ready \in Nat /\ st.phase \in Phases BY <1>2, StatusParts
  <2> QED BY <1>5, <1>6, <1>7, <2>1, StatusFrom
<1> QED BY <1>3, <1>4, <1>5, <1>6, <1>7, <1>8

\* Removing the entry of a name: the last entry takes its slot.
LEMMA RemoveMoves ==
  ASSUME NEW st, Sound(st), NEW n, n \in Names(st)
  PROVE  LET r == Remove(st, n)
         IN /\ Sound(r) /\ r.len = st.len - 1 /\ Len(r.nodes) = Len(st.nodes)
            /\ r.ready = st.ready /\ r.phase = st.phase
            /\ \E i \in Where(st, n) :
                 /\ r.nodes[i] = st.nodes[st.len]
                 /\ \A j \in 1..Len(st.nodes) : j # i => r.nodes[j] = st.nodes[j]
<1> DEFINE L == Len(st.nodes)
           i == CHOOSE i \in Where(st, n) : TRUE
           nodes == [st.nodes EXCEPT ![i] = st.nodes[st.len]]
<1>1. Where(st, n) # {} /\ i \in Where(st, n) BY DEF Where, Names
<1>2. /\ DOMAIN st.nodes = 1..L /\ L \in Nat /\ \A j \in 1..L : st.nodes[j] \in Entry
      /\ st.len \in Nat /\ st.len <= L
  BY StatusParts DEF Sound
<1>3. i \in 1..L /\ st.len \in 1..L BY <1>1, <1>2 DEF Where, Slots
<1>4. Remove(st, n) = [st EXCEPT !.nodes = nodes, !.len = st.len - 1]
  BY <1>1 DEF Remove
<1> HIDE DEF i
<1>5. /\ DOMAIN nodes = 1..L /\ nodes = [j \in 1..L |-> nodes[j]]
      /\ nodes[i] = st.nodes[st.len]
      /\ \A j \in 1..L : j # i => nodes[j] = st.nodes[j]
      /\ \A j \in 1..L : nodes[j] \in Entry
  BY <1>2, <1>3
<1> HIDE DEF nodes, L
<1>6. [st EXCEPT !.nodes = nodes, !.len = st.len - 1] =
        [nodes |-> nodes, len |-> st.len - 1, ready |-> st.ready, phase |-> st.phase]
  BY StatusWith
<1>7. Sound([st EXCEPT !.nodes = nodes, !.len = st.len - 1]) /\ Len(nodes) = L
  <2>1. st.len - 1 \in Nat /\ st.len - 1 <= L BY <1>2, <1>3
  <2>2. st.ready \in Nat /\ st.phase \in Phases BY StatusParts
  <2> QED BY <1>2, <1>5, <1>6, <2>1, <2>2, StatusFrom
<1> QED BY <1>1, <1>4, <1>5, <1>6, <1>7 DEF L

\* Removing a name that has no entry.
LEMMA RemoveNothing ==
  ASSUME NEW st, NEW n, n \notin Names(st)
  PROVE  Remove(st, n) = st
BY DEF Remove, Names, Where

\* A name's phase update adds the name, and keeps the names apart.
LEMMA SetPhaseNames ==
  ASSUME NEW st, Sound(st), NEW n \in Servers, NEW p, p # "Ready"
  PROVE  /\ Sound(SetPhase(st, n, p))
         /\ Names(SetPhase(st, n, p)) = Names(st) \cup {n}
         /\ Distinct(st) => Distinct(SetPhase(st, n, p))
<1> DEFINE r == SetPhase(st, n, p)
<1>0. st.len \in Nat /\ Slots(st) \subseteq 1..Len(st.nodes) BY StatusParts
<1>1. CASE n \in Names(st)
  <2>1. /\ Sound(r) /\ r.len = st.len
        /\ \A i \in 1..Len(st.nodes) : r.nodes[i].name = st.nodes[i].name
    BY <1>1, SetPhaseUpdates
  <2> HIDE DEF r
  <2>2. Slots(r) = Slots(st) BY <2>1 DEF Slots
  <2>3. \A i \in Slots(st) : r.nodes[i].name = st.nodes[i].name BY <2>1, <1>0
  <2>4. Names(r) = Names(st) BY <2>2, <2>3 DEF Names
  <2> QED BY <1>1, <2>1, <2>2, <2>3, <2>4 DEF Distinct, r
<1>2. CASE n \notin Names(st)
  <2>1. /\ Sound(r) /\ r.len = st.len + 1 /\ r.nodes[r.len].name = n
        /\ \A i \in 1..Len(st.nodes) : i # r.len => r.nodes[i] = st.nodes[i]
    BY <1>2, SetPhaseAppends
  <2> HIDE DEF r
  <2>2. Slots(r) = Slots(st) \cup {r.len} /\ r.len \notin Slots(st) BY <1>0, <2>1 DEF Slots
  <2>3. \A i \in Slots(st) : r.nodes[i] = st.nodes[i] BY <2>1, <2>2, <1>0
  <2>4. Names(r) = Names(st) \cup {n} BY <2>1, <2>2, <2>3 DEF Names
  <2>5. \A i \in Slots(st) : r.nodes[i].name # n BY <1>2, <2>3 DEF Names
  <2>6. Distinct(st) => Distinct(r) BY <2>1, <2>2, <2>3, <2>5 DEF Distinct
  <2> QED BY <2>1, <2>4, <2>6 DEF r
<1> QED BY <1>1, <1>2

\* A removal removes the name, and keeps the names apart.
LEMMA RemoveNames ==
  ASSUME NEW st, Sound(st), NEW n
  PROVE  /\ Sound(Remove(st, n))
         /\ Names(Remove(st, n)) \subseteq Names(st)
         /\ Distinct(st) => /\ Distinct(Remove(st, n))
                            /\ Names(Remove(st, n)) = Names(st) \ {n}
<1> DEFINE r == Remove(st, n)
<1>0. st.len \in Nat /\ Slots(st) \subseteq 1..Len(st.nodes) BY StatusParts
<1>1. CASE n \notin Names(st)
  BY <1>1, RemoveNothing
<1>2. CASE n \in Names(st)
  <2>1. Sound(r) /\ r.len = st.len - 1 BY <1>2, RemoveMoves
  <2>2. PICK i \in Where(st, n) :
          /\ r.nodes[i] = st.nodes[st.len]
          /\ \A j \in 1..Len(st.nodes) : j # i => r.nodes[j] = st.nodes[j]
    BY <1>2, RemoveMoves
  <2> HIDE DEF r
  <2>3. i \in Slots(st) /\ st.nodes[i].name = n BY DEF Where
  <2>4. st.len \in Slots(st) BY <1>0, <2>3 DEF Slots
  <2>5. Slots(r) = Slots(st) \ {st.len} BY <1>0, <2>1, <2>4 DEF Slots
  <2>6. \A j \in Slots(r) : r.nodes[j] = IF j = i THEN st.nodes[st.len] ELSE st.nodes[j]
    BY <1>0, <2>2, <2>5
  <2>7. Names(r) \subseteq Names(st) BY <2>4, <2>5, <2>6 DEF Names
  <2>8. ASSUME Distinct(st) PROVE Distinct(r) /\ Names(r) = Names(st) \ {n}
    <3>1. Distinct(r) BY <2>8, <2>3, <2>4, <2>5, <2>6 DEF Distinct
    <3>2. n \notin Names(r) BY <2>8, <2>3, <2>4, <2>5, <2>6 DEF Names, Distinct
    <3>3. ASSUME NEW j \in Slots(st), st.nodes[j].name # n PROVE st.nodes[j].name \in Names(r)
      <4>1. CASE j = st.len
        <5>1. i # st.len BY <2>3, <3>3, <4>1
        <5> QED BY <2>3, <2>5, <2>6, <4>1, <5>1 DEF Names
      <4>2. CASE j # st.len
        <5>1. j # i BY <2>3, <3>3
        <5> QED BY <2>5, <2>6, <4>2, <5>1 DEF Names
      <4> QED BY <4>1, <4>2
    <3> QED BY <2>7, <3>1, <3>2, <3>3 DEF Names
  <2> QED BY <2>1, <2>7, <2>8 DEF r
<1> QED BY <1>1, <1>2

\* Removing the last entry of a slice moves nothing.
LEMMA RemoveLast ==
  ASSUME NEW st, Sound(st), Distinct(st), NEW n, st.len > 0, st.nodes[st.len].name = n
  PROVE  LET r == Remove(st, n)
         IN /\ r.len = st.len - 1 /\ Len(r.nodes) = Len(st.nodes)
            /\ \A j \in 1..Len(st.nodes) : r.nodes[j] = st.nodes[j]
<1> DEFINE r == Remove(st, n)
<1>0. st.len \in Nat /\ st.len \in Slots(st) BY StatusParts DEF Slots
<1>1. n \in Names(st) BY <1>0 DEF Names
<1>2. r.len = st.len - 1 /\ Len(r.nodes) = Len(st.nodes) BY <1>1, RemoveMoves
<1>3. PICK i \in Where(st, n) :
        /\ r.nodes[i] = st.nodes[st.len]
        /\ \A j \in 1..Len(st.nodes) : j # i => r.nodes[j] = st.nodes[j]
  BY <1>1, RemoveMoves
<1>4. i = st.len BY <1>0 DEF Where, Distinct
<1> HIDE DEF r
<1> QED BY <1>2, <1>3, <1>4 DEF r

\* What a status update stores has its type.
LEMMA RecordOfType ==
  ASSUME NEW st, Sound(st)
  PROVE  RecordOf(st) \in Record
<1>1. ASSUME NEW n \in Servers PROVE PhaseOf(st, n) \in Classes \cup {Untracked}
  <2>1. CASE Where(st, n) = {} BY <2>1 DEF PhaseOf
  <2>2. CASE Where(st, n) # {}
    <3> DEFINE i == CHOOSE i \in Where(st, n) : TRUE
    <3>1. i \in Where(st, n) BY <2>2
    <3> HIDE DEF i
    <3>2. i \in 1..Len(st.nodes) BY <3>1, StatusParts DEF Where
    <3>3. st.nodes[i].phase \in Classes BY <3>2, StatusParts, EntryParts
    <3> QED BY <2>2, <3>3 DEF PhaseOf, i
  <2> QED BY <2>1, <2>2
<1>2. st.phase \in Phases BY StatusParts
<1> QED BY <1>1, <1>2 DEF RecordOf, Record

\* An order of some workers.
LEMMA OrderParts ==
  ASSUME NEW S \in SUBSET Servers, NEW order \in Orders(S)
  PROVE  /\ Len(order) \in Nat /\ DOMAIN order = 1..Len(order)
         /\ \A i \in DOMAIN order : order[i] \in S
         /\ \A i, j \in DOMAIN order : i # j => order[i] # order[j]
<1>0. IsFiniteSet(S) BY ServersAssumption, FS_Subset
<1>1. Cardinality(S) \in Nat BY <1>0, FS_CardinalityType
<1>2. /\ order \in [1..Cardinality(S) -> S]
      /\ \A i, j \in DOMAIN order : i # j => order[i] # order[j]
  BY DEF Orders
<1> QED BY <1>1, <1>2

\* A status whose slice is its whole array, of entries with different names.
LEMMA WholeSlice ==
  ASSUME NEW st, NEW n \in Nat,
         st = [nodes |-> st.nodes, len |-> n, ready |-> st.ready, phase |-> st.phase],
         DOMAIN st.nodes = 1..n, st.nodes = [i \in 1..n |-> st.nodes[i]],
         \A i \in 1..n : st.nodes[i] \in Entry,
         \A i, j \in 1..n : i # j => st.nodes[i].name # st.nodes[j].name,
         st.ready \in Nat, st.phase \in Phases
  PROVE  Sound(st) /\ Distinct(st) /\ st.len = Len(st.nodes)
<1> DEFINE nodes == st.nodes
<1>1. nodes \in Seq(Entry) /\ Len(nodes) = n
  <2>1. nodes \in [1..n -> Entry] OBVIOUS
  <2> HIDE DEF nodes
  <2> QED BY <2>1
<1>2. st.len = n OBVIOUS
<1>3. st \in Status BY <1>1 DEF Status
<1> QED BY <1>1, <1>2, <1>3 DEF Sound, Distinct, Slots

\* A status read back from what was stored.
LEMMA StatusOfType ==
  ASSUME NEW rec \in Record
  PROVE  LET st == StatusOf(rec)
         IN Sound(st) /\ Distinct(st) /\ st.len = Len(st.nodes)
<1> DEFINE S == {n \in Servers : rec.entry[n] # Untracked}
           order == CHOOSE o \in Orders(S) : TRUE
           nodes == [i \in DOMAIN order |-> [name |-> order[i], phase |-> rec.entry[order[i]],
                                             health |-> "unhealthy"]]
<1>0. S \in SUBSET Servers /\ IsFiniteSet(S)
  <2>1. S \in SUBSET Servers OBVIOUS
  <2> QED BY <2>1, ServersAssumption, FS_Subset
<1>1. order \in Orders(S) BY <1>0, OrdersExist
<1> HIDE DEF order
<1>2. \A i \in DOMAIN order : order[i] \in S BY <1>1 DEF Orders
<1>3. \A n \in S : rec.entry[n] \in Classes BY DEF Record
<1>4. \A i \in DOMAIN order : nodes[i] \in Entry /\ nodes[i].name = order[i]
  <2> HIDE DEF S
  <2>1. "unhealthy" \in Healths BY DEF Healths
  <2>2. S \subseteq Servers BY <1>0
  <2> QED BY <1>2, <1>3, <2>1, <2>2 DEF Entry
<1> DEFINE n == Len(order)
           st == StatusOf(rec)
<1>5. n \in Nat /\ DOMAIN order = 1..n /\ \A i, j \in DOMAIN order : i # j => order[i] # order[j]
  BY <1>0, <1>1, OrderParts
<1>6. st = [nodes |-> nodes, len |-> n, ready |-> 0, phase |-> rec.phase]
  BY DEF StatusOf, order
<1>7. nodes = [i \in 1..n |-> nodes[i]] /\ DOMAIN nodes = 1..n BY <1>5
<1> HIDE DEF nodes, S, n, st
<1>8. st.nodes = nodes /\ st.ready = 0 /\ st.phase = rec.phase BY <1>6
<1>9. rec.phase \in Phases BY DEF Record
<1>10. Sound(st) /\ Distinct(st) /\ st.len = Len(st.nodes)
  BY <1>4, <1>5, <1>6, <1>7, <1>8, <1>9, WholeSlice
<1> QED BY <1>10 DEF st

\* The same for the status in memory once its order no longer matters.
LEMMA SettledType ==
  ASSUME NEW st, Sound(st)
  PROVE  /\ Sound(Settled(st)) /\ Distinct(Settled(st))
         /\ Settled(st).len = Len(Settled(st).nodes)
BY RecordOfType, StatusOfType DEF Settled

-----------------------------------------------------------------------------
(***************************************************************************)
(* The slice: pointers, selections, the entries a health check rebuilds.   *)
(***************************************************************************)

\* The slots of a status are finitely many numbers.
LEMMA SlotsAreNumbers ==
  ASSUME NEW st, Sound(st)
  PROVE  /\ Slots(st) \subseteq Nat /\ IsFiniteSet(Slots(st)) /\ Cardinality(Slots(st)) = st.len
         /\ st.len \in Nat
         /\ \A S \in SUBSET Slots(st) : IsFiniteSet(S) /\ Cardinality(S) \in Nat
                                          /\ Cardinality(S) <= st.len
<1>1. st.len \in Nat BY StatusParts
<1>2. Slots(st) \subseteq Nat BY <1>1 DEF Slots
<1>3. IsFiniteSet(Slots(st)) /\ Cardinality(Slots(st)) = st.len BY <1>1, FS_Interval DEF Slots
<1>4. \A S \in SUBSET Slots(st) : IsFiniteSet(S) /\ Cardinality(S) \in Nat
                                    /\ Cardinality(S) <= st.len
  BY <1>3, FS_Subset, FS_CardinalityType
<1> QED BY <1>1, <1>2, <1>3, <1>4

\* Ascending orders numbers.
LEMMA AscendingOrders ==
  ASSUME NEW T \in SUBSET Nat, NEW S \in SUBSET T
  PROVE  StrictlyOrders(Ascending(T), S)
BY DEF StrictlyOrders, Ascending

\* The pointers healing takes: to late entries of the slice, in order.
LEMMA LateSlotsPoint ==
  ASSUME NEW st, Sound(st)
  PROVE  /\ LateSlots(st) \in Seq(Nat)
         /\ \A k \in 1..Len(LateSlots(st)) :
              LateSlots(st)[k] \in Slots(st) /\ st.nodes[LateSlots(st)[k]].health = "late"
         /\ \A k, l \in 1..Len(LateSlots(st)) : k < l => LateSlots(st)[k] < LateSlots(st)[l]
<1> DEFINE S == {i \in Slots(st) : st.nodes[i].health = "late"}
           o == LateSlots(st)
           N == Cardinality(S)
<1>1. IsFiniteSet(S) /\ S \subseteq Nat BY SlotsAreNumbers
<1>2. StrictlyOrders(Ascending(Slots(st)), S) BY AscendingOrders, SlotsAreNumbers
<1>3. o = InOrder(S, Ascending(Slots(st))) BY DEF LateSlots
<1> HIDE DEF o
<1>4. /\ N \in Nat /\ o \in [1..N -> S]
      /\ \A k, l \in 1..N : k < l => <<o[k], o[l]>> \in Ascending(Slots(st))
  BY <1>1, <1>2, <1>3, InOrderSorts
<1>5. o \in Seq(Nat) /\ Len(o) = N
  <2> HIDE DEF S, N
  <2>1. o \in [1..N -> Nat] BY <1>1, <1>4
  <2> QED BY <1>4, <2>1
<1>6. \A k \in 1..Len(o) : o[k] \in S BY <1>4, <1>5
<1>7. \A k, l \in 1..Len(o) : k < l => o[k] < o[l] BY <1>4, <1>5 DEF Ascending
<1> QED BY <1>5, <1>6, <1>7 DEF o

\* The order workers are removed in is one.
LEMMA RemovalOrders ==
  ASSUME NEW st, Sound(st)
  PROVE  StrictlyOrders(RemovalOrder(st), Slots(st))
<1>1. Slots(st) \subseteq Nat BY SlotsAreNumbers
<1> DEFINE healthy == [i \in Slots(st) |-> st.nodes[i].health = "healthy"]
           before == RemovalOrder(st)
<1>2. \A x, y \in Slots(st) :
        <<x, y>> \in before <=> IF healthy[y] THEN healthy[x] => x > y ELSE ~healthy[x] /\ x < y
  BY DEF RemovalOrder
<1> HIDE DEF healthy, before
<1>3. \A x \in Slots(st) : <<x, x>> \notin before BY <1>1, <1>2
<1>4. \A x, y \in Slots(st) : x # y => <<x, y>> \in before \/ <<y, x>> \in before
  BY <1>1, <1>2
<1>5. \A x, y, z \in Slots(st) :
        <<x, y>> \in before /\ <<y, z>> \in before => <<x, z>> \in before
  BY <1>1, <1>2
<1> QED BY <1>3, <1>4, <1>5 DEF StrictlyOrders, before

\* The workers selected for removal: as many as asked for, each after every one
\* that is not Ready if it is Ready itself.
LEMMA SelectionSpares ==
  ASSUME NEW st, Sound(st), Distinct(st), NEW count \in Nat, count <= st.len
  PROVE  LET s == SelectForRemoval(st, count)
         IN /\ s \in Seq(Servers) /\ Len(s) = count
            /\ \A k \in 1..count : \A i, j \in Slots(st) :
                 st.nodes[i].name = s[k] /\ st.nodes[i].health = "healthy"
                   /\ st.nodes[j].health # "healthy"
                 => \E l \in 1..(k - 1) : s[l] = st.nodes[j].name
<1> DEFINE o == InOrder(Slots(st), RemovalOrder(st))
           s == SelectForRemoval(st, count)
           N == st.len
<1>1. IsFiniteSet(Slots(st)) /\ N \in Nat /\ Cardinality(Slots(st)) = N BY SlotsAreNumbers
<1>2. /\ o \in [1..N -> Slots(st)]
      /\ \A k, l \in 1..N : k < l => <<o[k], o[l]>> \in RemovalOrder(st)
      /\ \A x \in Slots(st) : \E k \in 1..N : o[k] = x
  BY <1>1, RemovalOrders, InOrderSorts
<1>3. s = [k \in 1..count |-> st.nodes[o[k]].name] BY DEF SelectForRemoval
<1> HIDE DEF o, s
<1>4. 1..count \subseteq 1..N /\ N \in Nat BY <1>1
<1>5. \A k \in 1..count : o[k] \in Slots(st) BY <1>2, <1>4
<1>6. \A k \in 1..count : s[k] = st.nodes[o[k]].name /\ s[k] \in Servers
  BY <1>3, <1>5, StatusParts, EntryParts
<1>7. s \in Seq(Servers) /\ Len(s) = count
  <2>1. s \in [1..count -> Servers] BY <1>3, <1>6
  <2> QED BY <2>1
<1>8. ASSUME NEW k \in 1..count, NEW i \in Slots(st), NEW j \in Slots(st),
             st.nodes[i].name = s[k], st.nodes[i].health = "healthy",
             st.nodes[j].health # "healthy"
      PROVE  \E l \in 1..(k - 1) : s[l] = st.nodes[j].name
  <2>1. o[k] = i BY <1>5, <1>6, <1>8 DEF Distinct
  <2>2. PICK l \in 1..N : o[l] = j BY <1>2
  <2>3. <<i, j>> \notin RemovalOrder(st) BY <1>8 DEF RemovalOrder
  <2>4. ~(k < l) BY <1>2, <1>4, <2>1, <2>2, <2>3
  <2>5. k # l BY <1>8, <2>1, <2>2
  <2>6. l \in 1..(k - 1) /\ l \in 1..count BY <1>1, <2>4, <2>5
  <2> QED BY <1>6, <2>2, <2>6
<1> QED BY <1>7, <1>8 DEF s

\* The slice without some names.
LEMMA RemoveAllType ==
  ASSUME NEW st, Sound(st), NEW names
  PROVE  Sound(RemoveAll(st, names))
<1> DEFINE S == {i \in Slots(st) : st.nodes[i].name \notin names}
           rest == InOrder(S, Ascending(Slots(st)))
           nodes == [k \in DOMAIN rest |-> st.nodes[rest[k]]]
           N == Cardinality(S)
<1>1. IsFiniteSet(S) /\ S \subseteq Slots(st) BY SlotsAreNumbers
<1>2. StrictlyOrders(Ascending(Slots(st)), S) BY AscendingOrders, SlotsAreNumbers
<1>3. N \in Nat /\ rest \in [1..N -> S] BY <1>1, <1>2, InOrderSorts
<1>4. RemoveAll(st, names) = [st EXCEPT !.nodes = nodes, !.len = Len(rest)]
  BY DEF RemoveAll
<1> HIDE DEF rest, N
<1>5. DOMAIN rest = 1..N /\ Len(rest) = N BY <1>3
<1>6. /\ DOMAIN nodes = 1..N /\ nodes = [k \in 1..N |-> nodes[k]]
      /\ \A k \in 1..N : nodes[k] \in Entry
  <2>1. \A k \in 1..N : rest[k] \in 1..Len(st.nodes) BY <1>1, <1>3, StatusParts
  <2> QED BY <1>5, <2>1, StatusParts
<1> HIDE DEF nodes
<1>7. [st EXCEPT !.nodes = nodes, !.len = Len(rest)] =
        [nodes |-> nodes, len |-> Len(rest), ready |-> st.ready, phase |-> st.phase]
  BY StatusWith
<1>8. Sound([nodes |-> nodes, len |-> N, ready |-> st.ready, phase |-> st.phase])
  <2>1. N <= N /\ st.ready \in Nat /\ st.phase \in Phases BY <1>3, StatusParts
  <2> QED BY <1>3, <1>6, <2>1, StatusFrom
<1> QED BY <1>4, <1>5, <1>7, <1>8

\* The status has its type, and no name twice.
MemHolds == Sound(mem) /\ Distinct(mem)

\* A status with the entries, the length and the count of another.
LEMMA StatusListed ==
  ASSUME NEW st, Sound(st), NEW nodes, NEW len, NEW ready
  PROVE  [st EXCEPT !.nodes = nodes, !.len = len, !.ready = ready] =
           [nodes |-> nodes, len |-> len, ready |-> ready, phase |-> st.phase]
<1>1. DOMAIN st = {"nodes", "len", "ready", "phase"} BY DEF Sound, Status
<1>2. [st EXCEPT !.nodes = nodes, !.len = len, !.ready = ready] =
        [f \in DOMAIN st |-> IF f = "ready" THEN ready ELSE IF f = "len" THEN len
                             ELSE IF f = "nodes" THEN nodes ELSE st[f]]
  BY <1>1
<1>3. [f \in DOMAIN st |-> IF f = "ready" THEN ready ELSE IF f = "len" THEN len
                             ELSE IF f = "nodes" THEN nodes ELSE st[f]] =
        [nodes |-> nodes, len |-> len, ready |-> ready, phase |-> st.phase]
  BY <1>1
<1> QED BY <1>2, <1>3

\* With the count and the entries of another.
LEMMA StatusVerified ==
  ASSUME NEW st, Sound(st), NEW nodes, NEW ready
  PROVE  [st EXCEPT !.ready = ready, !.nodes = nodes] =
           [nodes |-> nodes, len |-> st.len, ready |-> ready, phase |-> st.phase]
<1>1. DOMAIN st = {"nodes", "len", "ready", "phase"} BY DEF Sound, Status
<1>2. [st EXCEPT !.ready = ready, !.nodes = nodes] =
        [f \in DOMAIN st |-> IF f = "ready" THEN ready ELSE IF f = "nodes" THEN nodes ELSE st[f]]
  BY <1>1
<1>3. [f \in DOMAIN st |-> IF f = "ready" THEN ready ELSE IF f = "nodes" THEN nodes ELSE st[f]] =
        [nodes |-> nodes, len |-> st.len, ready |-> ready, phase |-> st.phase]
  BY <1>1
<1> QED BY <1>2, <1>3

\* In another provisioning phase.
LEMMA StatusPhased ==
  ASSUME NEW st, Sound(st), NEW phase
  PROVE  [st EXCEPT !.phase = phase] =
           [nodes |-> st.nodes, len |-> st.len, ready |-> st.ready, phase |-> phase]
<1>1. DOMAIN st = {"nodes", "len", "ready", "phase"} BY DEF Sound, Status
<1>2. [st EXCEPT !.phase = phase] =
        [f \in DOMAIN st |-> IF f = "phase" THEN phase ELSE st[f]]
  BY <1>1
<1>3. [f \in DOMAIN st |-> IF f = "phase" THEN phase ELSE st[f]] =
        [nodes |-> st.nodes, len |-> st.len, ready |-> st.ready, phase |-> phase]
  BY <1>1
<1> QED BY <1>2, <1>3

\* Moving on to another provisioning phase changes no entry.
LEMMA PhasedType ==
  ASSUME NEW st, Sound(st), Distinct(st), NEW phase \in Phases
  PROVE  Sound([st EXCEPT !.phase = phase]) /\ Distinct([st EXCEPT !.phase = phase])
<1> DEFINE r == [st EXCEPT !.phase = phase]
<1>1. r = [nodes |-> st.nodes, len |-> st.len, ready |-> st.ready, phase |-> phase]
  BY StatusPhased
<1> HIDE DEF r
<1>2. r.nodes = st.nodes /\ r.len = st.len BY <1>1
<1>3. Sound(r) BY <1>1, <1>2, StatusParts DEF Sound, Status
<1>4. Distinct(r) BY <1>2 DEF Distinct, Slots
<1> QED BY <1>3, <1>4 DEF r

\* The entries a health check rebuilds: live all of them, under different names.
LEMMA ListedType ==
  ASSUME MemHolds, kube \in [Servers -> KubeStates],
         NEW S \in SUBSET Servers, NEW order \in Orders(S), HealthCheck(order)
  PROVE  /\ Sound(mem') /\ Distinct(mem')
         /\ mem'.len = Len(mem'.nodes) /\ mem'.phase = mem.phase
<1> DEFINE nodes == ListedAs(order)
           ready == Cardinality({n \in Servers : kube[n] = "ready"})
           len == Len(order)
<1>1. ready \in Nat
  <2>1. {n \in Servers : kube[n] = "ready"} \in SUBSET Servers OBVIOUS
  <2> QED BY <2>1, ServersAssumption, FS_Subset, FS_CardinalityType
<1>2. /\ len \in Nat /\ DOMAIN order = 1..len
      /\ \A i \in DOMAIN order : order[i] \in Servers
      /\ \A i, j \in DOMAIN order : i # j => order[i] # order[j]
  BY OrderParts
<1>3. nodes = [i \in 1..len |-> nodes[i]] /\ DOMAIN nodes = 1..len
  <2> DEFINE entry(i) == [name |-> order[i], phase |-> "settled",
                          health |-> CASE kube[order[i]] = "ready" -> "healthy"
                                       [] kube[order[i]] = "late"  -> "late"
                                       [] OTHER                    -> "unhealthy"]
  <2>1. nodes = [i \in DOMAIN order |-> entry(i)] BY DEF ListedAs
  <2> HIDE DEF entry, nodes
  <2> QED BY <1>2, <2>1
<1>4. \A i \in DOMAIN order : nodes[i] \in Entry /\ nodes[i].name = order[i]
  BY <1>2 DEF ListedAs, Entry, Classes, Healths
<1>5. mem' = [mem EXCEPT !.nodes = nodes, !.len = len, !.ready = ready]
  BY DEF HealthCheck
<1> DEFINE st == mem'
<1> HIDE DEF nodes, ready, len
<1>6. st = [nodes |-> nodes, len |-> len, ready |-> ready, phase |-> mem.phase]
  BY <1>5, StatusListed DEF MemHolds
<1> HIDE DEF st
<1>7. st.nodes = nodes /\ st.ready = ready /\ st.phase = mem.phase BY <1>6
<1>8. mem.phase \in Phases BY StatusParts DEF MemHolds
<1>9. Sound(st) /\ Distinct(st) /\ st.len = Len(st.nodes)
  BY <1>1, <1>2, <1>3, <1>4, <1>6, <1>7, <1>8, WholeSlice
<1> QED BY <1>7, <1>9 DEF st

\* Verification changes the phases of the entries alone.
LEMMA VerifiedType ==
  ASSUME MemHolds, VerifyNodeStates
  PROVE  Sound(mem') /\ Distinct(mem') /\ mem'.phase = mem.phase
<1>1. PICK p \in [Slots(mem) -> NodePhases \cup {Listed}], ready \in 0..mem.len :
        mem' = [mem EXCEPT !.ready = ready, !.nodes = [i \in Slots(mem) |->
                 IF p[i] = Listed THEN mem.nodes[i]
                 ELSE [mem.nodes[i] EXCEPT !.phase = ClassOf(p[i])]]]
  BY DEF VerifyNodeStates
<1> DEFINE entry(i) == IF p[i] = Listed THEN mem.nodes[i]
                       ELSE [mem.nodes[i] EXCEPT !.phase = ClassOf(p[i])]
           nodes == [i \in Slots(mem) |-> entry(i)]
<1>2. mem.len \in Nat /\ Slots(mem) = 1..mem.len /\ mem.phase \in Phases
      /\ \A i \in Slots(mem) : mem.nodes[i] \in Entry
  BY StatusParts DEF MemHolds, Slots
<1>3. \A i \in Slots(mem) : entry(i) \in Entry /\ entry(i).name = mem.nodes[i].name
  <2>1. \A q : ClassOf(q) \in Classes BY DEF ClassOf, Classes
  <2> QED BY <1>2, <2>1 DEF Entry
<1> HIDE DEF entry
<1>4. nodes = [i \in 1..mem.len |-> nodes[i]] /\ DOMAIN nodes = 1..mem.len BY <1>2
<1>5. \A i \in Slots(mem) : nodes[i] \in Entry /\ nodes[i].name = mem.nodes[i].name BY <1>3
<1>6. mem' = [mem EXCEPT !.ready = ready, !.nodes = nodes] BY <1>1 DEF entry
<1> HIDE DEF nodes
<1>7. mem' = [nodes |-> nodes, len |-> mem.len, ready |-> ready, phase |-> mem.phase]
  BY <1>6, StatusVerified DEF MemHolds
<1>8. Sound(mem')
  <2>1. mem.len <= mem.len /\ ready \in Nat BY <1>2
  <2> QED BY <1>2, <1>4, <1>5, <1>7, <2>1, StatusFrom
<1>9. Slots(mem') = Slots(mem) /\ \A i \in Slots(mem) : mem'.nodes[i].name = mem.nodes[i].name
  BY <1>5, <1>7 DEF Slots
<1>10. Distinct(mem') BY <1>9 DEF Distinct, MemHolds
<1> QED BY <1>7, <1>8, <1>10

\* The status of an operator that is not reconciling.
LEMMA EmptyType == Sound(Empty) /\ Distinct(Empty) /\ Empty.nodes = <<>> /\ Empty.len = 0
<1>1. Empty.nodes = <<>> /\ Empty.len = 0 BY DEF Empty
<1>2. <<>> \in Seq(Entry) /\ Len(<<>>) = 0 OBVIOUS
<1>3. Empty \in Status BY <1>2 DEF Empty, Status, Phases
<1>4. Distinct(Empty) BY <1>1 DEF Distinct, Slots
<1> QED BY <1>1, <1>2, <1>3, <1>4 DEF Sound

-----------------------------------------------------------------------------
(***************************************************************************)
(* The invariant.                                                          *)
(***************************************************************************)

\* The types, one part for each group of variables; MemHolds is mem's.
WorldType ==
  /\ server \in [Servers -> {"none", "up", "gone"}]
  /\ talos \in [Servers -> {"maintenance", "configured"}]
  /\ kube \in [Servers -> KubeStates]
StoredType == stored \in Record
LoopType ==
  /\ pc \in Steps
  /\ work \in Seq(Servers) \cup Seq(Nat)
  /\ at \in Nat \ {0} /\ removed \in Nat
  /\ target \in Servers \cup {NoServer}
StageType  == stage \in [Servers -> Stages]
FaultsType == faults \in FaultSets

\* What the loop goes through, and whether a worker is being torn down.
LoopFits ==
  /\ pc = "stuck" => work \in Seq(Servers)
  /\ pc \in {"healNode", "healServer", "prepareHeal", "downServer"} => target \in Servers
  /\ pc \in {"idle", "stuck", "health", "addons", "running", "prepareUp"} => target = NoServer

\* A provisioning that is over, or has not begun.
Past == {"none", "over", "failed"}

\* Workers are made while pc is "provision", configured while it is "configure";
\* otherwise none is half provisioned.
StagesAreOver ==
  /\ pc \notin {"provision", "configure"} => \A n \in Servers : stage[n] \in Past
  /\ pc = "provision" =>
       \A n \in Servers : stage[n] \in Past \cup {"create", "await", "provisioned"}
  /\ pc = "configure" =>
       \A n \in Servers :
         stage[n] \in Past \cup {"provisioned", "apply", "wait", "done", "skipped"}

\* Scale-down goes through its selection, of a status that stays as it is.
SelectionHolds ==
  pc \in {"downNode", "downServer"} =>
    /\ mem.len > Desired
    /\ work = SelectForRemoval(mem, mem.len - Desired)
    /\ removed < at /\ at <= Len(work) + 1 /\ removed <= MaxHeals
    /\ pc = "downServer" => at <= Len(work) /\ target = work[at] /\ removed < MaxHeals

\* reconcileWorkers is healing, or provisioning a replacement for it.
Healing ==
  \/ pc \in {"heal", "healNode", "healServer", "prepareHeal"}
  \/ pc \in {"provision", "configure"} /\ Replacing

\* The pointers healing has not come to, what they name, and whether a worker is
\* one that this reconcile has not made.
Ahead     == at..Len(work)
NameAt(i) == mem.nodes[i].name
Old(n)    == stage[n] = "none"

\* A pointer ahead points into the array; if it names an old worker then at the
\* late entry it was taken for, which is still listed and which no other names.
PointersHold ==
  Healing =>
    /\ work \in Seq(Nat)
    /\ \A k, l \in 1..Len(work) : k < l => work[k] < work[l]
    /\ \A k \in Ahead : work[k] \in 1..Len(mem.nodes)
    /\ \A k \in Ahead : Old(NameAt(work[k])) =>
         /\ mem.nodes[work[k]].health = "late"
         /\ NameAt(work[k]) \in Names(mem)
         /\ \A l \in Ahead : NameAt(work[l]) = NameAt(work[k]) => l = k

\* The worker being torn down is listed before all pointers ahead, none of which
\* names it as long as it is an old one; and if it is, its entry is late.
TargetIsApart ==
  pc \in {"healNode", "healServer"} =>
    /\ target \in Names(mem)
    /\ \A i \in Where(mem, target) : \A k \in Ahead : i < work[k]
    /\ Old(target) =>
         /\ \A k \in Ahead : NameAt(work[k]) # target
         /\ \E i \in 1..Len(mem.nodes) : NameAt(i) = target /\ mem.nodes[i].health = "late"

\* A replacement is the only worker being provisioned, and the last one listed.
ReplacementIsLast ==
  pc \in {"provision", "configure"} /\ Replacing =>
    /\ \A m, n \in Servers :
         stage[m] \notin Past /\ stage[n] \notin Past => m = n
    /\ \A n \in Servers :
         /\ stage[n] = "create" => n \notin Names(mem)
         /\ stage[n] \in {"await", "provisioned", "apply", "wait"} =>
              mem.len > 0 /\ NameAt(mem.len) = n

\* A replacement that was made for good is counted, and none is made beyond
\* MaxHeals: while none is counted, healing has made none for good.
SuccessCounts ==
  /\ \/ pc \in {"idle", "stuck", "health", "addons", "running"}
     \/ Healing /\ removed = 0
     => \A n \in Servers : stage[n] # "over"
  /\ pc \in {"healNode", "healServer"} => removed < MaxHeals

IInv ==
  /\ WorldType /\ StoredType /\ MemHolds /\ LoopType /\ StageType /\ FaultsType
  /\ LoopFits /\ StagesAreOver /\ SelectionHolds
  /\ PointersHold /\ TargetIsApart /\ ReplacementIsLast
  /\ SuccessCounts /\ ScaleUpFillsOnly

-----------------------------------------------------------------------------
(***************************************************************************)
(* The types.                                                              *)
(***************************************************************************)

\* The type invariant is its parts.
LEMMA TypeParts ==
  TypeOK <=> /\ WorldType /\ StoredType /\ Sound(mem) /\ LoopType /\ StageType /\ FaultsType
BY DEF TypeOK, WorldType, StoredType, Sound, LoopType, StageType, FaultsType

\* The world keeps its types.
LEMMA WorldStays ==
  ASSUME WorldType, [Next]_vars
  PROVE  WorldType'
<1>1. ASSUME HandleStuckNode \/ DeleteOldServer \/ DecommissionServer PROVE WorldType'
  BY <1>1
  DEF WorldType, HandleStuckNode, DeleteOldServer, DecommissionServer, DeleteServer,
      DeleteServerFails
<1>2. ASSUME DeleteKubeNode \/ Decommission PROVE WorldType'
  BY <1>2 DEF WorldType, DeleteKubeNode, Decommission, KubeStates
<1>3. ASSUME NEW n \in Servers, CreateServer(n) PROVE WorldType'
  BY <1>3 DEF WorldType, CreateServer
<1>4. ASSUME NEW n \in Servers, AwaitServer(n) \/ ApplyConfigFails(n) \/ WorkerReady(n)
              PROVE WorldType'
  BY <1>4
  DEF WorldType, AwaitServer, ApplyConfigFails, WorkerReady, GiveUp, DeleteServer,
      DeleteServerFails
<1>5. ASSUME NEW n \in Servers, ApplyConfig(n) PROVE WorldType'
  BY <1>5 DEF WorldType, ApplyConfig
<1>6. ASSUME NEW n \in Servers, World(n) PROVE WorldType'
  BY <1>6
  DEF WorldType, World, RegisterNode, NodeBecomesReady, NodeBecomesNotReady,
      NotReadyTooLong, NodeCollected, KubeStates
<1>7. ASSUME Fetch \/ StuckNodesHandled \/ ReconcileHealth \/ EnsureWorkersReady \/
              RunningHealthCheck \/ ReplaceWorker \/ LeaveWorkers \/ ScaleUp \/ ScaleDown \/
              ScaledDown \/ PrepareForProvisioning \/ PersistProvisioned \/ AllConfigured \/
              UpdateStatus \/ (\E n \in Servers : BeginConfigure(n)) \/ (\E n \in Servers :
              SkipConfig(n)) \/ Crash \/ UNCHANGED vars
      PROVE  WorldType'
  BY <1>7
  DEF Fetch, StuckNodesHandled, ReconcileHealth, EnsureWorkersReady, RunningHealthCheck,
      ReplaceWorker, LeaveWorkers, ScaleUp, ScaleDown, ScaledDown, PrepareForProvisioning,
      PersistProvisioned, AllConfigured, UpdateStatus, BeginConfigure, SkipConfig, Crash,
      WorldType, worldVars, vars
<1> QED BY <1>1, <1>2, <1>3, <1>4, <1>5, <1>6, <1>7 DEF Next, Reconcile, ReconcileStep, NodeStep

\* The status keeps its type and its names apart.
LEMMA MemStays ==
  ASSUME MemHolds, WorldType, StoredType, LoopType, PointersHold, [Next]_vars
  PROVE  MemHolds'
<1>1. ASSUME Fetch PROVE MemHolds'
  BY <1>1, StatusOfType DEF MemHolds, Fetch, StoredType
<1>2. ASSUME HandleStuckNode PROVE MemHolds'
  <2>1. mem' = Settled(Remove(mem, Head(work))) BY <1>2 DEF HandleStuckNode
  <2> QED BY <2>1, RemoveNames, SettledType DEF MemHolds
<1>3. ASSUME ReconcileHealth PROVE MemHolds'
  <2> DEFINE listed == {n \in Servers : kube[n] # "absent"}
  <2>1. listed \in SUBSET Servers /\ kube \in [Servers -> KubeStates] BY DEF WorldType
  <2>2. CASE HealthCheck(CHOOSE o \in Orders(listed) : TRUE)
    <3>1. IsFiniteSet(listed) BY <2>1, ServersAssumption, FS_Subset
    <3>2. (CHOOSE o \in Orders(listed) : TRUE) \in Orders(listed) BY <3>1, OrdersExist
    <3> QED BY <2>1, <2>2, <3>2, ListedType DEF MemHolds
  <2>3. CASE VerifyNodeStates BY <2>3, VerifiedType DEF MemHolds
  <2> QED BY <1>3, <2>2, <2>3 DEF ReconcileHealth
<1>4. ASSUME EnsureWorkersReady PROVE MemHolds'
  <2>1. \/ mem' = Settled(mem)
        \/ \E p \in Phases : mem' = [Settled(mem) EXCEPT !.phase = p]
    BY <1>4 DEF EnsureWorkersReady
  <2> QED BY <2>1, SettledType, PhasedType DEF MemHolds
<1>5. ASSUME RunningHealthCheck PROVE MemHolds'
  <2> DEFINE listed == {n \in Servers : kube[n] # "absent"}
  <2>1. listed \in SUBSET Servers /\ kube \in [Servers -> KubeStates] BY DEF WorldType
  <2>2. (\E order \in Orders(listed) : HealthCheck(order)) \/ UNCHANGED mem
    BY <1>5 DEF RunningHealthCheck
  <2> QED BY <2>1, <2>2, ListedType DEF MemHolds
<1>6. ASSUME ReplaceWorker PROVE MemHolds'
  <2>1. /\ pc = "heal" /\ at <= Len(work) /\ target' = mem.nodes[work[at]].name
        /\ mem' = SetPhase(mem, target', "DeletingServer")
    BY <1>6 DEF ReplaceWorker
  <2>2. work[at] \in 1..Len(mem.nodes) BY <2>1 DEF PointersHold, Healing, Ahead, LoopType
  <2>3. target' \in Servers BY <2>1, <2>2, StatusParts, EntryParts DEF MemHolds
  <2> QED BY <2>1, <2>3, SetPhaseNames DEF MemHolds
<1>7. ASSUME DeleteOldServer PROVE MemHolds'
  BY <1>7, RemoveNames DEF MemHolds, DeleteOldServer
<1>8. ASSUME LeaveWorkers \/ ScaleUp PROVE MemHolds'
  BY <1>8, SettledType DEF MemHolds, LeaveWorkers, ScaleUp
<1>9. ASSUME ScaledDown PROVE MemHolds'
  <2>1. mem' = Settled(RemoveAll(mem, {work[i] : i \in 1..removed})) BY <1>9 DEF ScaledDown
  <2> QED BY <2>1, RemoveAllType, SettledType DEF MemHolds
<1>10. ASSUME NEW n \in Servers, CreateServer(n) PROVE MemHolds'
  <2>1. mem' = SetPhase(mem, n, "WaitingForIP") \/ mem' = SetPhase(mem, n, "Failed")
    BY <1>10 DEF CreateServer
  <2> QED BY <2>1, SetPhaseNames DEF MemHolds
<1>11. ASSUME NEW n \in Servers, AwaitServer(n) PROVE MemHolds'
  <2>1. UNCHANGED mem \/ mem' = Remove(mem, n) BY <1>11 DEF AwaitServer, GiveUp
  <2> QED BY <2>1, RemoveNames DEF MemHolds
<1>12. ASSUME NEW n \in Servers, BeginConfigure(n) PROVE MemHolds'
  <2>1. mem' = SetPhase(mem, n, "WaitingForTalosAPI") BY <1>12 DEF BeginConfigure
  <2> QED BY <2>1, SetPhaseNames DEF MemHolds
<1>13. ASSUME NEW n \in Servers, SkipConfig(n) PROVE MemHolds'
  <2>1. mem' = SetPhase(mem, n, "WaitingForK8s") BY <1>13 DEF SkipConfig
  <2> QED BY <2>1, SetPhaseNames DEF MemHolds
<1>14. ASSUME NEW n \in Servers, ApplyConfig(n) PROVE MemHolds'
  <2>1. mem' = SetPhase(mem, n, "WaitingForK8s") BY <1>14 DEF ApplyConfig
  <2> QED BY <2>1, SetPhaseNames DEF MemHolds
<1>15. ASSUME NEW n \in Servers, ApplyConfigFails(n) PROVE MemHolds'
  <2>1. mem' = Remove(mem, n) BY <1>15 DEF ApplyConfigFails, GiveUp
  <2> QED BY <2>1, RemoveNames DEF MemHolds
<1>16. ASSUME NEW n \in Servers, WorkerReady(n) PROVE MemHolds'
  <2>1. mem' = SetPhase(mem, n, "NodeInitializing") \/ mem' = Remove(mem, n) BY <1>16 DEF WorkerReady, GiveUp
  <2> QED BY <2>1, SetPhaseNames, RemoveNames DEF MemHolds
<1>17. ASSUME UpdateStatus \/ Crash PROVE MemHolds'
  BY <1>17, EmptyType DEF MemHolds, UpdateStatus, Crash, Forget
<1>18. ASSUME StuckNodesHandled \/ DeleteKubeNode \/ ScaleDown \/ Decommission \/
              DecommissionServer \/ PrepareForProvisioning \/ PersistProvisioned \/
              AllConfigured \/ (\E n \in Servers : World(n)) \/ UNCHANGED vars
      PROVE  MemHolds'
  BY <1>18
  DEF StuckNodesHandled, DeleteKubeNode, ScaleDown, Decommission, DecommissionServer,
      PrepareForProvisioning, PersistProvisioned, AllConfigured, World, MemHolds, World,
      RegisterNode, NodeBecomesReady, NodeBecomesNotReady, NotReadyTooLong, NodeCollected,
      operatorVars, loopVars, vars
<1> QED BY <1>1, <1>2, <1>3, <1>4, <1>5, <1>6, <1>7, <1>8, <1>9, <1>10, <1>11, <1>12, <1>13,
           <1>14, <1>15, <1>16, <1>17, <1>18 DEF Next, Reconcile, ReconcileStep, NodeStep

\* So does what is stored.
LEMMA StoredStays ==
  ASSUME StoredType, MemHolds, MemHolds', [Next]_vars
  PROVE  StoredType'
<1>1. ASSUME PersistProvisioned \/ AllConfigured \/ UpdateStatus PROVE StoredType'
  BY <1>1, RecordOfType
  DEF StoredType, MemHolds, PersistProvisioned, AllConfigured, UpdateStatus, PersistStatus
<1>2. ASSUME NEW n \in Servers, BeginConfigure(n) PROVE StoredType'
  BY <1>2, RecordOfType DEF StoredType, MemHolds, BeginConfigure, PersistStatus
<1>3. ASSUME Fetch \/ HandleStuckNode \/ StuckNodesHandled \/ ReconcileHealth \/
              EnsureWorkersReady \/ RunningHealthCheck \/ ReplaceWorker \/ DeleteKubeNode \/
              DeleteOldServer \/ LeaveWorkers \/ ScaleUp \/ ScaleDown \/ Decommission \/
              DecommissionServer \/ ScaledDown \/ PrepareForProvisioning \/ (\E n \in
              Servers : CreateServer(n)) \/ (\E n \in Servers : AwaitServer(n)) \/ (\E n \in
              Servers : SkipConfig(n)) \/ (\E n \in Servers : ApplyConfig(n)) \/ (\E n \in
              Servers : ApplyConfigFails(n)) \/ (\E n \in Servers : WorkerReady(n)) \/ Crash
              \/ (\E n \in Servers : World(n)) \/ UNCHANGED vars
      PROVE  StoredType'
  BY <1>3
  DEF Fetch, HandleStuckNode, StuckNodesHandled, ReconcileHealth, EnsureWorkersReady,
      RunningHealthCheck, ReplaceWorker, DeleteKubeNode, DeleteOldServer, LeaveWorkers,
      ScaleUp, ScaleDown, Decommission, DecommissionServer, ScaledDown,
      PrepareForProvisioning, CreateServer, AwaitServer, SkipConfig, ApplyConfig,
      ApplyConfigFails, WorkerReady, Crash, World, StoredType, World, RegisterNode,
      NodeBecomesReady, NodeBecomesNotReady, NotReadyTooLong, NodeCollected, operatorVars,
      vars
<1> QED BY <1>1, <1>2, <1>3 DEF Next, Reconcile, ReconcileStep, NodeStep

\* The stages keep their type.
LEMMA StagesStay ==
  ASSUME StageType, [Next]_vars
  PROVE  StageType'
<1>1. ASSUME PrepareForProvisioning PROVE StageType'
  BY <1>1 DEF StageType, PrepareForProvisioning, Stages
<1>2. ASSUME PersistProvisioned \/ AllConfigured PROVE StageType'
  BY <1>2 DEF StageType, PersistProvisioned, AllConfigured, Retire, Stages
<1>3. ASSUME NEW n \in Servers, CreateServer(n) \/ AwaitServer(n) \/ BeginConfigure(n) \/
              SkipConfig(n) \/ ApplyConfig(n) \/ ApplyConfigFails(n) \/ WorkerReady(n) PROVE
              StageType'
  BY <1>3
  DEF StageType, CreateServer, AwaitServer, BeginConfigure, SkipConfig, ApplyConfig,
      ApplyConfigFails, WorkerReady, GiveUp, Stages
<1>4. ASSUME UpdateStatus \/ Crash PROVE StageType'
  BY <1>4 DEF StageType, UpdateStatus, Crash, Forget, Stages
<1>5. ASSUME Fetch \/ HandleStuckNode \/ StuckNodesHandled \/ ReconcileHealth \/
              EnsureWorkersReady \/ RunningHealthCheck \/ ReplaceWorker \/ DeleteKubeNode \/
              DeleteOldServer \/ LeaveWorkers \/ ScaleUp \/ ScaleDown \/ Decommission \/
              DecommissionServer \/ ScaledDown \/ (\E n \in Servers : World(n)) \/ UNCHANGED
              vars
      PROVE  StageType'
  BY <1>5
  DEF Fetch, HandleStuckNode, StuckNodesHandled, ReconcileHealth, EnsureWorkersReady,
      RunningHealthCheck, ReplaceWorker, DeleteKubeNode, DeleteOldServer, LeaveWorkers,
      ScaleUp, ScaleDown, Decommission, DecommissionServer, ScaledDown, World, StageType,
      World, RegisterNode, NodeBecomesReady, NodeBecomesNotReady, NotReadyTooLong,
      NodeCollected, operatorVars, vars
<1> QED BY <1>1, <1>2, <1>3, <1>4, <1>5 DEF Next, Reconcile, ReconcileStep, NodeStep

\* A provisioning leaves no worker half provisioned.
LEMMA StagesEnd ==
  ASSUME StageType, StagesAreOver, MemHolds, [Next]_vars
  PROVE  StagesAreOver'
<1>1. ASSUME ReconcileHealth PROVE StagesAreOver'
  BY <1>1, StatusParts DEF StagesAreOver, ReconcileHealth, MemHolds, Phases, Past
<1>2. ASSUME PrepareForProvisioning PROVE StagesAreOver'
  BY <1>2 DEF StagesAreOver, PrepareForProvisioning, AfterProvisioning, Past
<1>3. ASSUME PersistProvisioned \/ AllConfigured PROVE StagesAreOver'
  <2>1. \/ /\ pc = "provision" /\ InStage({"create", "await"}) = {}
           /\ pc' = "configure" /\ UNCHANGED stage
        \/ Retire /\ pc' \in {"heal", "finish"}
    BY <1>3 DEF PersistProvisioned, AllCreated, AllConfigured, AfterProvisioning
  <2>2. Retire => \A n \in Servers : stage'[n] \in Past BY DEF Retire, Past
  <2>3. CASE pc' = "configure"
    BY <2>1, <2>3 DEF StagesAreOver, InStage, Past
  <2> QED BY <2>1, <2>2, <2>3 DEF StagesAreOver
<1>4. ASSUME NEW n \in Servers, CreateServer(n) \/ AwaitServer(n) \/ BeginConfigure(n) \/
              SkipConfig(n) \/ ApplyConfig(n) \/ ApplyConfigFails(n) \/ WorkerReady(n) PROVE
              StagesAreOver'
  BY <1>4
  DEF StagesAreOver, StageType, Past, GiveUp, CreateServer, AwaitServer, BeginConfigure, SkipConfig, ApplyConfig,
      ApplyConfigFails, WorkerReady
<1>5. ASSUME UpdateStatus \/ Crash PROVE StagesAreOver'
  BY <1>5 DEF StagesAreOver, UpdateStatus, Crash, Forget, Past
<1>6. ASSUME Fetch \/ HandleStuckNode \/ StuckNodesHandled \/ EnsureWorkersReady \/
              RunningHealthCheck \/ ReplaceWorker \/ DeleteKubeNode \/ DeleteOldServer \/
              LeaveWorkers \/ ScaleUp \/ ScaleDown \/ Decommission \/ DecommissionServer \/
              ScaledDown \/ (\E n \in Servers : World(n)) \/ UNCHANGED vars
      PROVE  StagesAreOver'
  BY <1>6
  DEF Fetch, HandleStuckNode, StuckNodesHandled, EnsureWorkersReady, RunningHealthCheck,
      ReplaceWorker, DeleteKubeNode, DeleteOldServer, LeaveWorkers, ScaleUp, ScaleDown,
      Decommission, DecommissionServer, ScaledDown, World, StagesAreOver, HealingOver,
      World, RegisterNode, NodeBecomesReady, NodeBecomesNotReady, NotReadyTooLong,
      NodeCollected, operatorVars, vars
<1> QED BY <1>1, <1>2, <1>3, <1>4, <1>5, <1>6 DEF Next, Reconcile, ReconcileStep, NodeStep

\* A loop that is over.
LEMMA LoopIsOver ==
  ASSUME NoLoop
  PROVE  /\ work' \in Seq(Servers) \cup Seq(Nat)
         /\ at' \in Nat \ {0} /\ removed' \in Nat
         /\ target' \in Servers \cup {NoServer}
<1> DEFINE nothing == <<>>
<1>1. nothing \in Seq(Servers) OBVIOUS
<1>2. work' = nothing BY DEF NoLoop
<1> HIDE DEF nothing
<1> QED BY <1>1, <1>2 DEF NoLoop

\* The steps a phase can be dispatched to.
LEMMA PhasesAreSteps == mem \in Status => mem.phase \in {"addons", "running"}
BY DEF Status, Phases

\* What a scale-down goes through are workers, as many as there are too many.
LEMMA SelectionType ==
  ASSUME MemHolds, mem.len > Desired
  PROVE  LET s == SelectForRemoval(mem, mem.len - Desired)
         IN s \in Seq(Servers) /\ Len(s) = mem.len - Desired
<1>1. mem.len \in Nat BY StatusParts DEF MemHolds
<1>2. mem.len - Desired \in Nat /\ mem.len - Desired <= mem.len BY <1>1, DesiredAssumption
<1> QED BY <1>2, SelectionSpares DEF MemHolds

\* A worker the next pointer names is one.
LEMMA NextIsWorker ==
  ASSUME MemHolds, LoopType, PointersHold, pc = "heal", at <= Len(work)
  PROVE  work[at] \in 1..Len(mem.nodes) /\ NameAt(work[at]) \in Servers /\ at \in Ahead
<1>1. work \in Seq(Nat) /\ at \in Ahead BY DEF PointersHold, Healing, Ahead, LoopType
<1>2. work[at] \in 1..Len(mem.nodes) BY <1>1 DEF PointersHold, Healing
<1> QED BY <1>1, <1>2, StatusParts, EntryParts DEF MemHolds, NameAt

\* The loop's variables keep their types.
LEMMA LoopStays ==
  ASSUME LoopType, LoopFits, MemHolds, MemHolds', SelectionHolds, PointersHold, [Next]_vars
  PROVE  LoopType'
<1>1. ASSUME Fetch PROVE LoopType'
  <2>1. \E stuck \in SUBSET Servers : work' = CHOOSE order \in Orders(stuck) : TRUE
    BY <1>1 DEF Fetch
  <2>2. PICK stuck \in SUBSET Servers : work' = CHOOSE order \in Orders(stuck) : TRUE BY <2>1
  <2>3. IsFiniteSet(stuck) BY ServersAssumption, FS_Subset
  <2>4. work' \in Orders(stuck) BY <2>2, <2>3, OrdersExist
  <2>5. Cardinality(stuck) \in Nat BY <2>3, FS_CardinalityType
  <2>6. work' \in [1..Cardinality(stuck) -> Servers] BY <2>4 DEF Orders
  <2>7. work' \in Seq(Servers) BY <2>5, <2>6
  <2> QED BY <1>1, <2>7 DEF LoopType, Fetch, Steps
<1>2. ASSUME HandleStuckNode PROVE LoopType'
  <2>1. work \in Seq(Servers) /\ work # <<>> /\ work' = Tail(work)
    BY <1>2 DEF HandleStuckNode, LoopFits
  <2>2. work' \in Seq(Servers) BY <2>1
  <2> QED BY <1>2, <2>2 DEF LoopType, HandleStuckNode
<1>3. ASSUME ReconcileHealth PROVE LoopType'
  BY <1>3, PhasesAreSteps DEF LoopType, ReconcileHealth, loopVars, MemHolds, Sound, Steps
<1>4. ASSUME StuckNodesHandled \/ EnsureWorkersReady PROVE LoopType'
  BY <1>4 DEF LoopType, StuckNodesHandled, EnsureWorkersReady, loopVars, Steps
<1>5. ASSUME RunningHealthCheck PROVE LoopType'
  <2>1. LateSlots(mem') \in Seq(Nat) BY LateSlotsPoint DEF MemHolds
  <2> QED BY <1>5, <2>1 DEF LoopType, RunningHealthCheck, Steps
<1>6. ASSUME ReplaceWorker PROVE LoopType'
  <2>1. pc = "heal" /\ at <= Len(work) /\ target' = NameAt(work[at])
    BY <1>6 DEF ReplaceWorker, NameAt
  <2>2. target' \in Servers BY <2>1, NextIsWorker
  <2>3. at' = at + 1 /\ pc' = "healNode" /\ UNCHANGED <<work, removed>>
    BY <1>6 DEF ReplaceWorker
  <2> QED BY <2>2, <2>3 DEF LoopType, Steps
<1>7. ASSUME DeleteKubeNode \/ DeleteOldServer PROVE LoopType'
  BY <1>7 DEF LoopType, DeleteKubeNode, DeleteOldServer, loopVars, Steps
<1>8. ASSUME LeaveWorkers \/ ScaleUp PROVE LoopType'
  BY <1>8, LoopIsOver DEF LoopType, LeaveWorkers, ScaleUp, Steps
<1>9. ASSUME ScaleDown PROVE LoopType'
  <2>1. mem.len > Desired /\ work' = SelectForRemoval(mem, mem.len - Desired)
    BY <1>9 DEF ScaleDown
  <2>2. work' \in Seq(Servers) BY <2>1, SelectionType
  <2> QED BY <1>9, <2>2 DEF LoopType, ScaleDown, Steps
<1>10. ASSUME Decommission PROVE LoopType'
  <2>1. pc = "downNode" /\ at <= Len(work) /\ target' = work[at] BY <1>10 DEF Decommission
  <2>2. work \in Seq(Servers) BY <2>1, SelectionType DEF SelectionHolds
  <2>3. target' \in Servers BY <2>1, <2>2 DEF LoopType
  <2> QED BY <1>10, <2>3 DEF LoopType, Decommission, Steps
<1>11. ASSUME DecommissionServer \/ ScaledDown PROVE LoopType'
  BY <1>11, LoopIsOver DEF LoopType, DecommissionServer, ScaledDown, Steps
<1>12. ASSUME PrepareForProvisioning PROVE LoopType'
  BY <1>12 DEF LoopType, PrepareForProvisioning, AfterProvisioning, Steps
<1>13. ASSUME PersistProvisioned \/ AllConfigured PROVE LoopType'
  BY <1>13 DEF LoopType, PersistProvisioned, AllConfigured, AfterProvisioning, Steps
<1>14. ASSUME NEW n \in Servers, CreateServer(n) \/ AwaitServer(n) \/ BeginConfigure(n) \/
              SkipConfig(n) \/ ApplyConfig(n) \/ ApplyConfigFails(n) \/ WorkerReady(n) PROVE
              LoopType'
  BY <1>14
  DEF LoopType, CreateServer, AwaitServer, BeginConfigure, SkipConfig, ApplyConfig,
      ApplyConfigFails, WorkerReady, loopVars
<1>15. ASSUME UpdateStatus \/ Crash PROVE LoopType'
  BY <1>15, LoopIsOver DEF LoopType, UpdateStatus, Crash, Forget, Steps
<1>16. ASSUME (\E n \in Servers : World(n)) \/ UNCHANGED vars
      PROVE  LoopType'
  BY <1>16
  DEF World, LoopType, World, RegisterNode, NodeBecomesReady, NodeBecomesNotReady,
      NotReadyTooLong, NodeCollected, operatorVars, loopVars, vars
<1> QED BY <1>1, <1>2, <1>3, <1>4, <1>5, <1>6, <1>7, <1>8, <1>9, <1>10, <1>11, <1>12, <1>13,
           <1>14, <1>15, <1>16 DEF Next, Reconcile, ReconcileStep, NodeStep

\* And fit the step.
LEMMA LoopStaysFit ==
  ASSUME LoopType, LoopType', LoopFits, MemHolds, SelectionHolds, PointersHold, [Next]_vars
  PROVE  LoopFits'
<1>1. ASSUME Fetch PROVE LoopFits'
  <2>1. \E stuck \in SUBSET Servers : work' = CHOOSE order \in Orders(stuck) : TRUE
    BY <1>1 DEF Fetch
  <2>2. PICK stuck \in SUBSET Servers : work' = CHOOSE order \in Orders(stuck) : TRUE BY <2>1
  <2>3. IsFiniteSet(stuck) BY ServersAssumption, FS_Subset
  <2>4. work' \in Orders(stuck) BY <2>2, <2>3, OrdersExist
  <2>5. Cardinality(stuck) \in Nat BY <2>3, FS_CardinalityType
  <2>6. work' \in [1..Cardinality(stuck) -> Servers] BY <2>4 DEF Orders
  <2>7. work' \in Seq(Servers) BY <2>5, <2>6
  <2> QED BY <1>1, <2>7 DEF LoopFits, Fetch
<1>2. ASSUME HandleStuckNode PROVE LoopFits'
  <2>1. work \in Seq(Servers) /\ work # <<>> /\ work' = Tail(work)
    BY <1>2 DEF HandleStuckNode, LoopFits
  <2>2. work' \in Seq(Servers) BY <2>1
  <2> QED BY <1>2, <2>2 DEF LoopFits, HandleStuckNode
<1>3. ASSUME ReconcileHealth PROVE LoopFits'
  BY <1>3, PhasesAreSteps DEF LoopFits, ReconcileHealth, loopVars, MemHolds, Sound
<1>4. ASSUME StuckNodesHandled \/ EnsureWorkersReady \/ RunningHealthCheck PROVE LoopFits'
  BY <1>4 DEF LoopFits, StuckNodesHandled, EnsureWorkersReady, RunningHealthCheck, loopVars
<1>5. ASSUME ReplaceWorker PROVE LoopFits'
  <2>1. pc = "heal" /\ at <= Len(work) /\ target' = NameAt(work[at])
    BY <1>5 DEF ReplaceWorker, NameAt
  <2>2. target' \in Servers /\ pc' = "healNode" BY <1>5, <2>1, NextIsWorker DEF ReplaceWorker
  <2> QED BY <2>2 DEF LoopFits
<1>6. ASSUME DeleteKubeNode \/ DeleteOldServer PROVE LoopFits'
  BY <1>6 DEF LoopFits, DeleteKubeNode, DeleteOldServer, loopVars
<1>7. ASSUME LeaveWorkers \/ ScaleUp \/ ScaleDown PROVE LoopFits'
  BY <1>7 DEF LoopFits, LeaveWorkers, ScaleUp, ScaleDown, NoLoop
<1>8. ASSUME Decommission PROVE LoopFits'
  <2>1. pc = "downNode" /\ at <= Len(work) /\ target' = work[at] BY <1>8 DEF Decommission
  <2>2. work \in Seq(Servers) BY <2>1, SelectionType DEF SelectionHolds
  <2>3. target' \in Servers BY <2>1, <2>2 DEF LoopType
  <2> QED BY <1>8, <2>3 DEF LoopFits, Decommission
<1>9. ASSUME DecommissionServer \/ ScaledDown PROVE LoopFits'
  BY <1>9 DEF LoopFits, DecommissionServer, ScaledDown, NoLoop
<1>10. ASSUME PrepareForProvisioning PROVE LoopFits'
  BY <1>10 DEF LoopFits, PrepareForProvisioning, AfterProvisioning
<1>11. ASSUME PersistProvisioned \/ AllConfigured PROVE LoopFits'
  BY <1>11 DEF LoopFits, PersistProvisioned, AllConfigured, AfterProvisioning
<1>12. ASSUME NEW n \in Servers, CreateServer(n) \/ AwaitServer(n) \/ BeginConfigure(n) \/
              SkipConfig(n) \/ ApplyConfig(n) \/ ApplyConfigFails(n) \/ WorkerReady(n) PROVE
              LoopFits'
  BY <1>12
  DEF LoopFits, CreateServer, AwaitServer, BeginConfigure, SkipConfig, ApplyConfig,
      ApplyConfigFails, WorkerReady, loopVars
<1>13. ASSUME UpdateStatus \/ Crash PROVE LoopFits'
  BY <1>13 DEF LoopFits, UpdateStatus, Crash, Forget, NoLoop
<1>14. ASSUME (\E n \in Servers : World(n)) \/ UNCHANGED vars
      PROVE  LoopFits'
  BY <1>14
  DEF World, LoopFits, World, RegisterNode, NodeBecomesReady, NodeBecomesNotReady,
      NotReadyTooLong, NodeCollected, operatorVars, loopVars, vars
<1> QED BY <1>1, <1>2, <1>3, <1>4, <1>5, <1>6, <1>7, <1>8, <1>9, <1>10, <1>11, <1>12, <1>13,
           <1>14 DEF Next, Reconcile, ReconcileStep, NodeStep

\* Scale-down goes through its selection one by one.
LEMMA SelectionStays ==
  ASSUME LoopType, LoopFits, MemHolds, SelectionHolds, [Next]_vars
  PROVE  SelectionHolds'
<1>1. ASSUME ScaleDown PROVE SelectionHolds'
  <2>1. /\ mem.len > Desired /\ UNCHANGED mem
        /\ work' = SelectForRemoval(mem, mem.len - Desired)
        /\ at' = 1 /\ removed' = 0 /\ pc' = "downNode"
    BY <1>1 DEF ScaleDown
  <2>2. Len(work') = mem.len - Desired /\ mem.len \in Nat
    BY <2>1, SelectionType, StatusParts DEF MemHolds
  <2>3. removed' < at' /\ at' <= Len(work') + 1 /\ removed' <= MaxHeals
    BY <2>1, <2>2, DesiredAssumption, MaxHealsAssumption
  <2> QED BY <2>1, <2>3 DEF SelectionHolds
<1>2. ASSUME Decommission PROVE SelectionHolds'
  BY <1>2 DEF SelectionHolds, Decommission
<1>3. ASSUME DecommissionServer PROVE SelectionHolds'
  <2>1. /\ pc = "downServer" /\ pc' = "downNode" /\ UNCHANGED <<mem, work>>
        /\ at' = at + 1 /\ removed' \in {removed, removed + 1}
    BY <1>3 DEF DecommissionServer
  <2>2. work = SelectForRemoval(mem, mem.len - Desired) /\ mem.len > Desired
        /\ removed < at /\ at <= Len(work) /\ removed < MaxHeals
    BY <2>1 DEF SelectionHolds
  <2>3. Len(work) \in Nat BY DEF LoopType
  <2>4. removed' < at' /\ at' <= Len(work) + 1 /\ removed' <= MaxHeals
    BY <2>1, <2>2, <2>3, MaxHealsAssumption DEF LoopType
  <2> QED BY <2>1, <2>2, <2>4 DEF SelectionHolds
<1>4. ASSUME ReconcileHealth PROVE SelectionHolds'
  BY <1>4, PhasesAreSteps DEF SelectionHolds, ReconcileHealth, MemHolds, Sound
<1>5. ASSUME NEW n \in Servers, World(n) PROVE SelectionHolds'
  BY <1>5
  DEF SelectionHolds, World, RegisterNode, NodeBecomesReady, NodeBecomesNotReady,
      NotReadyTooLong, NodeCollected, operatorVars, loopVars
<1>6. ASSUME NEW n \in Servers, CreateServer(n) \/ AwaitServer(n) \/ BeginConfigure(n) \/
              SkipConfig(n) \/ ApplyConfig(n) \/ ApplyConfigFails(n) \/ WorkerReady(n) PROVE
              SelectionHolds'
  BY <1>6
  DEF SelectionHolds, CreateServer, AwaitServer, BeginConfigure, SkipConfig, ApplyConfig,
      ApplyConfigFails, WorkerReady
<1>7. ASSUME PrepareForProvisioning \/ PersistProvisioned \/ AllConfigured PROVE
              SelectionHolds'
  BY <1>7
  DEF SelectionHolds, PrepareForProvisioning, PersistProvisioned, AllConfigured,
      AfterProvisioning
<1>8. ASSUME Fetch \/ HandleStuckNode \/ StuckNodesHandled \/ EnsureWorkersReady \/
              RunningHealthCheck \/ ReplaceWorker \/ DeleteKubeNode \/ DeleteOldServer \/
              LeaveWorkers \/ ScaleUp \/ ScaledDown \/ UpdateStatus \/ Crash \/ UNCHANGED
              vars
      PROVE  SelectionHolds'
  BY <1>8
  DEF Fetch, HandleStuckNode, StuckNodesHandled, EnsureWorkersReady, RunningHealthCheck,
      ReplaceWorker, DeleteKubeNode, DeleteOldServer, LeaveWorkers, ScaleUp, ScaledDown,
      UpdateStatus, Crash, SelectionHolds, Forget, operatorVars, loopVars, vars
<1> QED BY <1>1, <1>2, <1>3, <1>4, <1>5, <1>6, <1>7, <1>8 DEF Next, Reconcile, ReconcileStep, NodeStep

-----------------------------------------------------------------------------
(***************************************************************************)
(* Healing and its pointers.                                               *)
(***************************************************************************)

\* What a step may do to the slice without a pointer coming to name another old
\* worker: each entry ahead stays the old worker's, late and listed, or is one of
\* a worker this reconcile has made.
PointersSpared ==
  /\ Len(mem.nodes) <= Len(mem'.nodes)
  /\ \A i \in {work[k] : k \in Ahead'} :
       LET n == mem'.nodes[i].name
       IN stage'[n] = "none" =>
            /\ n = NameAt(i) /\ Old(n)
            /\ mem.nodes[i].health = "late" => mem'.nodes[i].health = "late"
            /\ n \in Names(mem) => n \in Names(mem')

\* Such a step keeps the pointers as they should be.
LEMMA PointersCarryOver ==
  ASSUME LoopType, MemHolds, MemHolds', PointersHold, Healing,
         work' = work, at' \in {at, at + 1}, PointersSpared
  PROVE  PointersHold'
<1> DEFINE len == Len(mem.nodes)
           len2 == Len(mem'.nodes)
<1>1. len \in Nat /\ len2 \in Nat /\ len <= len2 BY StatusParts DEF MemHolds, PointersSpared
<1>2. Ahead' \subseteq Ahead BY DEF Ahead, LoopType
<1>3. \A k \in Ahead' : work[k] \in 1..len2
  <2>1. \A k \in Ahead' : work[k] \in 1..len BY <1>2 DEF PointersHold
  <2> HIDE DEF len, len2
  <2> QED BY <1>1, <2>1
<1>4. ASSUME NEW k \in Ahead', stage'[mem'.nodes[work[k]].name] = "none"
      PROVE  LET n == mem'.nodes[work[k]].name
             IN /\ n = NameAt(work[k]) /\ Old(n)
                /\ mem'.nodes[work[k]].health = "late" /\ n \in Names(mem')
  <2>1. LET n == mem'.nodes[work[k]].name
        IN /\ n = NameAt(work[k]) /\ Old(n)
           /\ mem.nodes[work[k]].health = "late" => mem'.nodes[work[k]].health = "late"
           /\ n \in Names(mem) => n \in Names(mem')
    BY <1>4 DEF PointersSpared
  <2>2. mem.nodes[work[k]].health = "late" /\ NameAt(work[k]) \in Names(mem)
    BY <1>2, <2>1 DEF PointersHold
  <2> QED BY <2>1, <2>2
<1>5. ASSUME NEW k \in Ahead', NEW l \in Ahead', stage'[mem'.nodes[work[k]].name] = "none",
             mem'.nodes[work[l]].name = mem'.nodes[work[k]].name
      PROVE  l = k
  <2>1. NameAt(work[k]) = NameAt(work[l]) /\ Old(NameAt(work[k])) BY <1>4, <1>5
  <2> QED BY <1>2, <2>1 DEF PointersHold
<1>6. work \in Seq(Nat) /\ \A k, l \in 1..Len(work) : k < l => work[k] < work[l]
  BY DEF PointersHold
<1> QED BY <1>3, <1>4, <1>5, <1>6 DEF PointersHold, Old, NameAt

\* Setting the phase of a worker this reconcile has made.
LEMMA SetPhaseSpares ==
  ASSUME MemHolds, NEW n \in Servers, stage'[n] # "none",
         \A m \in Servers : stage'[m] = "none" => stage[m] = "none",
         NEW p, p # "Ready", mem' = SetPhase(mem, n, p), work' = work, at' = at,
         PointersHold, Healing
  PROVE  PointersSpared
<1>1. Names(mem) \subseteq Names(mem') /\ Sound(mem') BY SetPhaseNames DEF MemHolds
<1>2. Ahead' = Ahead /\ \A k \in Ahead : work[k] \in 1..Len(mem.nodes)
  BY DEF Ahead, PointersHold
<1>3. \A i \in 1..Len(mem'.nodes) : mem'.nodes[i].name \in Servers
  BY <1>1, StatusParts, EntryParts
<1>4. /\ Len(mem.nodes) <= Len(mem'.nodes)
      /\ \A i \in 1..Len(mem.nodes) :
           stage'[mem'.nodes[i].name] = "none" =>
             /\ mem'.nodes[i].name = mem.nodes[i].name
             /\ mem.nodes[i].health = "late" => mem'.nodes[i].health = "late"
  <2>0. Len(mem.nodes) \in Nat BY StatusParts DEF MemHolds
  <2>1. CASE n \in Names(mem) BY <2>0, <2>1, SetPhaseUpdates DEF MemHolds
  <2>2. CASE n \notin Names(mem) BY <2>0, <2>2, SetPhaseAppends DEF MemHolds
  <2> QED BY <2>1, <2>2
<1>5. ASSUME NEW k \in Ahead', stage'[mem'.nodes[work[k]].name] = "none"
      PROVE  LET m == mem'.nodes[work[k]].name
             IN /\ m = NameAt(work[k]) /\ Old(m)
                /\ mem.nodes[work[k]].health = "late" => mem'.nodes[work[k]].health = "late"
                /\ m \in Names(mem) => m \in Names(mem')
  <2>1. work[k] \in 1..Len(mem.nodes) BY <1>2
  <2>2. mem.nodes[work[k]].name \in Servers BY <2>1, StatusParts, EntryParts DEF MemHolds
  <2> QED BY <1>1, <1>4, <1>5, <2>1, <2>2 DEF NameAt, Old
<1> QED BY <1>4, <1>5 DEF PointersSpared

\* Removing one from the end of the list.
LEMMA GiveUpSpares ==
  ASSUME MemHolds, NEW n \in Servers, stage'[n] # "none",
         \A m \in Servers : stage'[m] = "none" => stage[m] = "none",
         mem.len > 0, NameAt(mem.len) = n, mem' = Remove(mem, n), work' = work, at' = at,
         PointersHold, Healing
  PROVE  PointersSpared
<1>1. Names(mem') = Names(mem) \ {n} BY RemoveNames DEF MemHolds
<1>2. Ahead' = Ahead /\ \A k \in Ahead : work[k] \in 1..Len(mem.nodes)
  BY DEF Ahead, PointersHold
<1>3. /\ Len(mem.nodes) = Len(mem'.nodes)
      /\ \A i \in 1..Len(mem.nodes) : mem'.nodes[i] = mem.nodes[i]
  BY RemoveLast DEF MemHolds, NameAt
<1>4. ASSUME NEW k \in Ahead', stage'[mem'.nodes[work[k]].name] = "none"
      PROVE  LET m == mem'.nodes[work[k]].name
             IN /\ m = NameAt(work[k]) /\ Old(m)
                /\ mem.nodes[work[k]].health = "late" => mem'.nodes[work[k]].health = "late"
                /\ m \in Names(mem) => m \in Names(mem')
  <2>1. work[k] \in 1..Len(mem.nodes) BY <1>2
  <2>2. mem.nodes[work[k]].name \in Servers BY <2>1, StatusParts, EntryParts DEF MemHolds
  <2> QED BY <1>1, <1>3, <1>4, <2>1, <2>2 DEF NameAt, Old
<1>5. Len(mem.nodes) \in Nat BY StatusParts DEF MemHolds
<1> QED BY <1>3, <1>4, <1>5 DEF PointersSpared

\* A step that leaves the slice alone, and makes no worker old.
LEMMA SameSpares ==
  ASSUME MemHolds, PointersHold, Healing, LoopType,
         \A m \in Servers : stage'[m] = "none" => stage[m] = "none",
         mem' = mem, work' = work, at' = at
  PROVE  PointersSpared
<1>1. Ahead' = Ahead /\ \A k \in Ahead : work[k] \in 1..Len(mem.nodes)
  BY DEF Ahead, PointersHold
<1>2. \A k \in Ahead : mem.nodes[work[k]].name \in Servers
  BY <1>1, StatusParts, EntryParts DEF MemHolds
<1>3. Len(mem.nodes) \in Nat BY StatusParts DEF MemHolds
<1> QED BY <1>1, <1>2, <1>3 DEF PointersSpared, NameAt, Old

\* Taking the next pointer: its slot comes before those ahead, and if it names an
\* old worker then one that no pointer ahead does.
LEMMA NextIsApart ==
  ASSUME MemHolds, LoopType, PointersHold, pc = "heal", at <= Len(work), at' = at + 1,
         work' = work
  PROVE  /\ Ahead' \subseteq Ahead
         /\ \A k \in Ahead' : work[at] < work[k]
         /\ Old(NameAt(work[at])) =>
              /\ mem.nodes[work[at]].health = "late" /\ NameAt(work[at]) \in Names(mem)
              /\ \A k \in Ahead' : NameAt(work[k]) # NameAt(work[at])
<1>1. Healing /\ at \in Ahead BY NextIsWorker DEF Healing
<1>2. Len(work) \in Nat /\ at \in Nat /\ at > 0 BY <1>1 DEF PointersHold, LoopType
<1>3. Ahead' \subseteq Ahead /\ \A k \in Ahead' : k # at /\ at < k /\ k \in 1..Len(work)
  BY <1>2 DEF Ahead
<1>4. \A k \in Ahead' : work[at] < work[k]
  <2>1. at \in 1..Len(work) BY <1>2
  <2> QED BY <1>1, <1>3, <2>1 DEF PointersHold
<1>5. ASSUME Old(NameAt(work[at]))
      PROVE  /\ mem.nodes[work[at]].health = "late" /\ NameAt(work[at]) \in Names(mem)
             /\ \A k \in Ahead' : NameAt(work[k]) # NameAt(work[at])
  BY <1>1, <1>3, <1>5 DEF PointersHold
<1> QED BY <1>3, <1>4, <1>5

\* Tearing down the worker the next pointer names.
LEMMA ReplaceWorkerSpares ==
  ASSUME MemHolds, LoopType, PointersHold, ReplaceWorker
  PROVE  PointersSpared /\ TargetIsApart'
<1> DEFINE n == NameAt(work[at])
           s == work[at]
<1>1. /\ pc = "heal" /\ at <= Len(work) /\ target' = n /\ at' = at + 1
      /\ mem' = SetPhase(mem, n, "DeletingServer") /\ work' = work /\ stage' = stage
  BY DEF ReplaceWorker, NameAt
<1>2. s \in 1..Len(mem.nodes) /\ n \in Servers BY <1>1, NextIsWorker
<1>3. /\ Ahead' \subseteq Ahead
      /\ \A k \in Ahead' : s < work[k]
      /\ Old(n) => /\ mem.nodes[s].health = "late" /\ n \in Names(mem)
                   /\ \A k \in Ahead' : NameAt(work[k]) # n
  BY <1>1, NextIsApart
<1>4. \A k \in Ahead' : work[k] \in 1..Len(mem.nodes) BY <1>1, <1>3 DEF PointersHold, Healing
<1>5. /\ Sound(mem) /\ Distinct(mem) /\ Len(mem.nodes) \in Nat /\ mem.len \in Nat
      /\ mem.len <= Len(mem.nodes) /\ Slots(mem) = 1..mem.len
  BY StatusParts DEF MemHolds, Sound, Slots
<1>6. /\ Sound(mem') /\ Names(mem') = Names(mem) \cup {n}
  BY <1>1, <1>2, SetPhaseNames DEF MemHolds
<1>7. n \in Names(mem') BY <1>6
<1> HIDE DEF n, s
<1>8. CASE n \in Names(mem)
  <2>1. /\ mem'.len = mem.len /\ Len(mem'.nodes) = Len(mem.nodes)
        /\ \A i \in 1..Len(mem.nodes) :
             /\ mem'.nodes[i].name = mem.nodes[i].name
             /\ mem.nodes[i].health = "late" => mem'.nodes[i].health = "late"
    BY <1>1, <1>2, <1>8, SetPhaseUpdates DEF MemHolds
  <2>2. PointersSpared
    <3>1. Len(mem.nodes) <= Len(mem'.nodes) BY <1>5, <2>1
    <3>2. ASSUME NEW k \in Ahead', stage'[mem'.nodes[work[k]].name] = "none"
          PROVE  LET m == mem'.nodes[work[k]].name
                 IN /\ m = NameAt(work[k]) /\ Old(m)
                    /\ mem.nodes[work[k]].health = "late" => mem'.nodes[work[k]].health = "late"
                    /\ m \in Names(mem) => m \in Names(mem')
      BY <1>1, <1>4, <1>6, <2>1, <3>2 DEF NameAt, Old
    <3> QED BY <3>1, <3>2 DEF PointersSpared
  <2>3. Slots(mem') = Slots(mem) /\ Where(mem', n) = Where(mem, n)
    <3>1. Slots(mem') = Slots(mem) BY <2>1 DEF Slots
    <3>2. \A i \in Slots(mem) : mem'.nodes[i].name = mem.nodes[i].name BY <1>5, <2>1
    <3> QED BY <3>1, <3>2 DEF Where
  <2>4. ASSUME NEW i \in Where(mem, n) PROVE i <= s
    <3>1. i \in Slots(mem) /\ mem.nodes[i].name = n BY DEF Where
    <3>2. CASE s \in Slots(mem)
      <4>1. mem.nodes[s].name = n BY DEF n, s, NameAt
      <4>2. i = s BY <1>5, <3>1, <3>2, <4>1 DEF Distinct
      <4> QED BY <1>5, <3>1, <4>2
    <3>3. CASE s \notin Slots(mem) BY <1>2, <1>5, <3>1, <3>3
    <3> QED BY <3>2, <3>3
  <2>5. \A i \in Where(mem', n) : \A k \in Ahead' : i < work[k]
    <3>1. \A i \in Where(mem, n) : i \in Nat BY <1>5 DEF Where
    <3> QED BY <1>2, <1>3, <1>4, <2>3, <2>4, <3>1
  <2>6. ASSUME Old(n)
        PROVE  /\ \A k \in Ahead' : mem'.nodes[work[k]].name # n
               /\ \E i \in 1..Len(mem'.nodes) :
                    mem'.nodes[i].name = n /\ mem'.nodes[i].health = "late"
    <3>1. \A k \in Ahead' : mem'.nodes[work[k]].name # n BY <1>3, <1>4, <2>1, <2>6 DEF NameAt
    <3>2. mem'.nodes[s].name = n /\ mem'.nodes[s].health = "late"
      BY <1>2, <1>3, <2>1, <2>6 DEF n, s, NameAt
    <3> QED BY <1>2, <2>1, <3>1, <3>2
  <2> QED BY <1>1, <1>7, <2>2, <2>5, <2>6 DEF TargetIsApart, NameAt, Old
<1>9. CASE n \notin Names(mem)
  <2>1. /\ mem'.len = mem.len + 1 /\ Len(mem.nodes) <= Len(mem'.nodes)
        /\ mem'.nodes[mem'.len].name = n
        /\ \A i \in 1..Len(mem.nodes) : i # mem'.len => mem'.nodes[i] = mem.nodes[i]
    BY <1>1, <1>2, <1>9, SetPhaseAppends DEF MemHolds
  <2>2. ~Old(n) BY <1>3, <1>9
  <2>3. PointersSpared
    <3>1. ASSUME NEW k \in Ahead', stage'[mem'.nodes[work[k]].name] = "none"
          PROVE  LET m == mem'.nodes[work[k]].name
                 IN /\ m = NameAt(work[k]) /\ Old(m)
                    /\ mem.nodes[work[k]].health = "late" => mem'.nodes[work[k]].health = "late"
                    /\ m \in Names(mem) => m \in Names(mem')
      <4>1. work[k] # mem'.len BY <1>1, <2>1, <2>2, <3>1 DEF Old
      <4> QED BY <1>1, <1>4, <1>6, <2>1, <3>1, <4>1 DEF NameAt, Old
    <3> QED BY <2>1, <3>1 DEF PointersSpared
  <2>4. ASSUME NEW i \in Where(mem', n) PROVE i = mem'.len
    <3>1. i \in 1..mem'.len /\ mem'.nodes[i].name = n BY DEF Where, Slots
    <3>2. i \notin Slots(mem) \/ i = mem'.len
      <4> SUFFICES ASSUME i \in Slots(mem), i # mem'.len PROVE FALSE OBVIOUS
      <4>1. mem.nodes[i].name = n BY <1>5, <2>1, <3>1
      <4> QED BY <1>9, <4>1 DEF Names
    <3> QED BY <1>5, <2>1, <3>1, <3>2
  <2>5. mem.len + 1 <= s
    <3>1. s \notin Slots(mem) BY <1>9 DEF Names, n, s, NameAt
    <3> QED BY <1>2, <1>5, <3>1
  <2>6. \A i \in Where(mem', n) : \A k \in Ahead' : i < work[k]
    BY <1>2, <1>3, <1>4, <1>5, <2>1, <2>4, <2>5
  <2> QED BY <1>1, <1>7, <2>2, <2>3, <2>6 DEF TargetIsApart, Old
<1> QED BY <1>8, <1>9

\* Deleting its server and its entry: the last entry moves to a slot that no
\* pointer ahead points to.
LEMMA DeleteOldServerSpares ==
  ASSUME MemHolds, LoopType, PointersHold, TargetIsApart, DeleteOldServer
  PROVE  PointersSpared
<1>1. /\ pc = "healServer" /\ mem' = Remove(mem, target) /\ work' = work /\ at' = at
      /\ stage' = stage
  BY DEF DeleteOldServer, loopVars
<1>2. /\ target \in Names(mem)
      /\ \A i \in Where(mem, target) : \A k \in Ahead : i < work[k]
      /\ Old(target) => \A k \in Ahead : NameAt(work[k]) # target
  BY <1>1 DEF TargetIsApart
<1>3. Names(mem') = Names(mem) \ {target} BY <1>1, RemoveNames DEF MemHolds
<1>4. Len(mem'.nodes) = Len(mem.nodes) BY <1>1, <1>2, RemoveMoves DEF MemHolds
<1>5. PICK i \in Where(mem, target) :
        \A j \in 1..Len(mem.nodes) : j # i => mem'.nodes[j] = mem.nodes[j]
  BY <1>1, <1>2, RemoveMoves DEF MemHolds
<1>6. Ahead' = Ahead BY <1>1 DEF Ahead
<1>7. \A k \in Ahead : work[k] \in 1..Len(mem.nodes) BY <1>1 DEF PointersHold, Healing
<1>8. Len(mem.nodes) \in Nat /\ i \in Nat BY StatusParts DEF MemHolds, Where, Slots
<1>9. \A k \in Ahead : mem'.nodes[work[k]] = mem.nodes[work[k]]
  <2> SUFFICES ASSUME NEW k \in Ahead PROVE mem'.nodes[work[k]] = mem.nodes[work[k]] OBVIOUS
  <2>1. work[k] # i BY <1>2, <1>7, <1>8
  <2> QED BY <1>5, <1>7, <2>1
<1>10. ASSUME NEW k \in Ahead', stage'[mem'.nodes[work[k]].name] = "none"
       PROVE  LET m == mem'.nodes[work[k]].name
              IN /\ m = NameAt(work[k]) /\ Old(m)
                 /\ mem.nodes[work[k]].health = "late" => mem'.nodes[work[k]].health = "late"
                 /\ m \in Names(mem) => m \in Names(mem')
  <2>1. mem'.nodes[work[k]] = mem.nodes[work[k]] BY <1>6, <1>9
  <2>2. Old(NameAt(work[k])) BY <1>1, <1>10, <2>1 DEF Old, NameAt
  <2>3. NameAt(work[k]) # target BY <1>2, <1>6, <2>2
  <2> QED BY <1>3, <2>1, <2>2, <2>3 DEF NameAt
<1> QED BY <1>1, <1>4, <1>8, <1>10 DEF PointersSpared

\* The pointers stay as they should be.
LEMMA PointersStay ==
  ASSUME LoopType, LoopFits, MemHolds, MemHolds', StageType, StagesAreOver, PointersHold,
         TargetIsApart, ReplacementIsLast, [Next]_vars
  PROVE  PointersHold'
<1>1. ASSUME ReconcileHealth PROVE PointersHold'
  BY <1>1, PhasesAreSteps DEF PointersHold, Healing, ReconcileHealth, MemHolds, Sound
<1>2. ASSUME RunningHealthCheck PROVE PointersHold'
  <2> SUFFICES ASSUME Healing' PROVE PointersHold' BY DEF PointersHold
  <2>1. /\ work' = LateSlots(mem') /\ UNCHANGED <<at, target, stage>>
        /\ \E order \in Orders({n \in Servers : kube[n] # "absent"}) : HealthCheck(order)
    BY <1>2 DEF RunningHealthCheck, Healing, Replacing
  <2>2. /\ work' \in Seq(Nat)
        /\ \A k \in 1..Len(work') :
             work'[k] \in Slots(mem') /\ mem'.nodes[work'[k]].health = "late"
        /\ \A k, l \in 1..Len(work') : k < l => work'[k] < work'[l]
    BY <2>1, LateSlotsPoint DEF MemHolds
  <2>3. Slots(mem') \subseteq 1..Len(mem'.nodes) BY StatusParts DEF MemHolds
  <2>4. Ahead' \subseteq 1..Len(work') BY <2>1, <2>2 DEF Ahead, LoopType
  <2>5. ASSUME NEW k \in Ahead', NEW l \in Ahead',
               mem'.nodes[work'[l]].name = mem'.nodes[work'[k]].name
        PROVE  l = k
    <3>1. k \in Nat /\ l \in Nat /\ work'[k] \in Nat /\ work'[l] \in Nat
      BY <2>2, <2>4
    <3>2. work'[k] = work'[l] BY <2>2, <2>4, <2>5 DEF MemHolds, Distinct
    <3> QED BY <2>2, <2>4, <3>1, <3>2
  <2>6. \A k \in Ahead' : work'[k] \in 1..Len(mem'.nodes) BY <2>2, <2>3, <2>4
  <2>7. \A k \in Ahead' : mem'.nodes[work'[k]].health = "late"
                            /\ mem'.nodes[work'[k]].name \in Names(mem')
    BY <2>2, <2>4 DEF Names
  <2> QED BY <2>2, <2>5, <2>6, <2>7 DEF PointersHold, NameAt, Old
<1>3. ASSUME ReplaceWorker PROVE PointersHold'
  <2>1. PointersSpared BY <1>3, ReplaceWorkerSpares
  <2>2. Healing /\ work' = work /\ at' = at + 1 BY <1>3 DEF ReplaceWorker, Healing
  <2> QED BY <2>1, <2>2, PointersCarryOver
<1>4. ASSUME DeleteKubeNode PROVE PointersHold'
  <2>1. Healing /\ UNCHANGED <<mem, work, at, stage>>
    BY <1>4 DEF DeleteKubeNode, Healing, loopVars
  <2>2. PointersSpared BY <2>1, SameSpares
  <2> QED BY <2>1, <2>2, PointersCarryOver
<1>5. ASSUME DeleteOldServer PROVE PointersHold'
  <2>1. PointersSpared BY <1>5, DeleteOldServerSpares
  <2>2. Healing /\ work' = work /\ at' = at BY <1>5 DEF DeleteOldServer, Healing, loopVars
  <2> QED BY <2>1, <2>2, PointersCarryOver
<1>6. ASSUME PrepareForProvisioning PROVE PointersHold'
  <2> SUFFICES ASSUME Healing' PROVE PointersHold' BY DEF PointersHold
  <2>1. Healing
    <3>1. pc = "prepareUp" => ~Replacing BY DEF LoopFits, Replacing
    <3> QED BY <1>6, <3>1 DEF PrepareForProvisioning, Healing, AfterProvisioning, Replacing
  <2>2. UNCHANGED <<mem, work, at>> BY <1>6 DEF PrepareForProvisioning
  <2>3. \A m \in Servers : stage'[m] = "none" => stage[m] = "none"
    BY <1>6 DEF PrepareForProvisioning
  <2>4. PointersSpared BY <2>1, <2>2, <2>3, SameSpares
  <2> QED BY <2>1, <2>2, <2>4, PointersCarryOver
<1>7. ASSUME PersistProvisioned \/ AllConfigured PROVE PointersHold'
  <2> SUFFICES ASSUME Healing' PROVE PointersHold' BY DEF PointersHold
  <2>1. Healing
    BY <1>7 DEF PersistProvisioned, AllCreated, AllConfigured, AfterProvisioning, Healing,
                Replacing
  <2>2. UNCHANGED <<mem, work, at>> BY <1>7 DEF PersistProvisioned, AllConfigured
  <2>3. \A m \in Servers : stage'[m] = "none" => stage[m] = "none"
    BY <1>7 DEF PersistProvisioned, AllConfigured, Retire
  <2>4. PointersSpared BY <2>1, <2>2, <2>3, SameSpares
  <2> QED BY <2>1, <2>2, <2>4, PointersCarryOver
<1>8. ASSUME NEW n \in Servers, CreateServer(n) PROVE PointersHold'
  <2> SUFFICES ASSUME Healing' PROVE PointersHold' BY DEF PointersHold
  <2>1. Healing BY <1>8 DEF CreateServer, Healing, Replacing, loopVars
  <2>2. /\ mem' = SetPhase(mem, n, "WaitingForIP") \/ mem' = SetPhase(mem, n, "Failed")
        /\ UNCHANGED <<work, at>>
    BY <1>8 DEF CreateServer, loopVars
  <2>3. stage'[n] # "none" /\ \A m \in Servers : stage'[m] = "none" => stage[m] = "none"
    BY <1>8 DEF CreateServer, StageType
  <2>4. PointersSpared BY <2>1, <2>2, <2>3, SetPhaseSpares
  <2> QED BY <2>1, <2>2, <2>4, PointersCarryOver
<1>9. ASSUME NEW n \in Servers, AwaitServer(n) PROVE PointersHold'
  <2> SUFFICES ASSUME Healing' PROVE PointersHold' BY DEF PointersHold
  <2>1. Healing /\ Replacing BY <1>9 DEF AwaitServer, Healing, Replacing, loopVars
  <2>2. (UNCHANGED mem \/ mem' = Remove(mem, n)) /\ UNCHANGED <<work, at>>
    BY <1>9 DEF AwaitServer, GiveUp, loopVars
  <2>3. stage'[n] # "none" /\ \A m \in Servers : stage'[m] = "none" => stage[m] = "none"
    BY <1>9 DEF AwaitServer, GiveUp, StageType
  <2>4. mem.len > 0 /\ NameAt(mem.len) = n
    BY <1>9, <2>1 DEF AwaitServer, ReplacementIsLast
  <2>5. PointersSpared BY <2>1, <2>2, <2>3, <2>4, GiveUpSpares, SameSpares
  <2> QED BY <2>1, <2>2, <2>5, PointersCarryOver
<1>10. ASSUME NEW n \in Servers, ApplyConfigFails(n) PROVE PointersHold'
  <2> SUFFICES ASSUME Healing' PROVE PointersHold' BY DEF PointersHold
  <2>1. Healing /\ Replacing BY <1>10 DEF ApplyConfigFails, Healing, Replacing, loopVars
  <2>2. (UNCHANGED mem \/ mem' = Remove(mem, n)) /\ UNCHANGED <<work, at>>
    BY <1>10 DEF ApplyConfigFails, GiveUp, loopVars
  <2>3. stage'[n] # "none" /\ \A m \in Servers : stage'[m] = "none" => stage[m] = "none"
    BY <1>10 DEF ApplyConfigFails, GiveUp, StageType
  <2>4. mem.len > 0 /\ NameAt(mem.len) = n
    BY <1>10, <2>1 DEF ApplyConfigFails, ReplacementIsLast
  <2>5. PointersSpared BY <2>1, <2>2, <2>3, <2>4, GiveUpSpares, SameSpares
  <2> QED BY <2>1, <2>2, <2>5, PointersCarryOver
<1>11. ASSUME NEW n \in Servers, BeginConfigure(n) PROVE PointersHold'
  <2> SUFFICES ASSUME Healing' PROVE PointersHold' BY DEF PointersHold
  <2>1. Healing BY <1>11 DEF BeginConfigure, Healing, Replacing, loopVars
  <2>2. mem' = SetPhase(mem, n, "WaitingForTalosAPI") /\ UNCHANGED <<work, at>>
    BY <1>11 DEF BeginConfigure, loopVars
  <2>3. stage'[n] # "none" /\ \A m \in Servers : stage'[m] = "none" => stage[m] = "none"
    BY <1>11 DEF BeginConfigure, StageType
  <2>4. PointersSpared BY <2>1, <2>2, <2>3, SetPhaseSpares
  <2> QED BY <2>1, <2>2, <2>4, PointersCarryOver
<1>12. ASSUME NEW n \in Servers, SkipConfig(n) PROVE PointersHold'
  <2> SUFFICES ASSUME Healing' PROVE PointersHold' BY DEF PointersHold
  <2>1. Healing BY <1>12 DEF SkipConfig, Healing, Replacing, loopVars
  <2>2. mem' = SetPhase(mem, n, "WaitingForK8s") /\ UNCHANGED <<work, at>>
    BY <1>12 DEF SkipConfig, loopVars
  <2>3. stage'[n] # "none" /\ \A m \in Servers : stage'[m] = "none" => stage[m] = "none"
    BY <1>12 DEF SkipConfig, StageType
  <2>4. PointersSpared BY <2>1, <2>2, <2>3, SetPhaseSpares
  <2> QED BY <2>1, <2>2, <2>4, PointersCarryOver
<1>13. ASSUME NEW n \in Servers, ApplyConfig(n) PROVE PointersHold'
  <2> SUFFICES ASSUME Healing' PROVE PointersHold' BY DEF PointersHold
  <2>1. Healing BY <1>13 DEF ApplyConfig, Healing, Replacing, loopVars
  <2>2. mem' = SetPhase(mem, n, "WaitingForK8s") /\ UNCHANGED <<work, at>>
    BY <1>13 DEF ApplyConfig, loopVars
  <2>3. stage'[n] # "none" /\ \A m \in Servers : stage'[m] = "none" => stage[m] = "none"
    BY <1>13 DEF ApplyConfig, StageType
  <2>4. PointersSpared BY <2>1, <2>2, <2>3, SetPhaseSpares
  <2> QED BY <2>1, <2>2, <2>4, PointersCarryOver
<1>14. ASSUME NEW n \in Servers, WorkerReady(n) PROVE PointersHold'
  <2> SUFFICES ASSUME Healing' PROVE PointersHold' BY DEF PointersHold
  <2>1. Healing /\ Replacing BY <1>14 DEF WorkerReady, Healing, Replacing, loopVars
  <2>2. /\ mem' = SetPhase(mem, n, "NodeInitializing") \/ mem' = Remove(mem, n)
        /\ UNCHANGED <<work, at>>
    BY <1>14 DEF WorkerReady, GiveUp, loopVars
  <2>3. stage'[n] # "none" /\ \A m \in Servers : stage'[m] = "none" => stage[m] = "none"
    BY <1>14 DEF WorkerReady, GiveUp, StageType
  <2>4. mem.len > 0 /\ NameAt(mem.len) = n BY <1>14, <2>1 DEF WorkerReady, ReplacementIsLast
  <2>5. PointersSpared BY <2>1, <2>2, <2>3, <2>4, GiveUpSpares, SetPhaseSpares
  <2> QED BY <2>1, <2>2, <2>5, PointersCarryOver
<1>15. ASSUME NEW n \in Servers, World(n) PROVE PointersHold'
  <2>1. UNCHANGED operatorVars BY <1>15 DEF World, RegisterNode, NodeBecomesReady, NodeBecomesNotReady, NotReadyTooLong, NodeCollected
  <2> QED BY <2>1 DEF PointersHold, Healing, Replacing, Ahead, NameAt, Old, Names, Slots, operatorVars, loopVars
<1>16. CASE UNCHANGED vars
  BY <1>16 DEF PointersHold, Healing, Replacing, Ahead, NameAt, Old, Names, Slots, vars,
            operatorVars, loopVars
<1>17. ASSUME Fetch \/ HandleStuckNode \/ StuckNodesHandled \/ EnsureWorkersReady \/
              LeaveWorkers \/ ScaleUp \/ ScaleDown \/ Decommission \/ DecommissionServer \/
              ScaledDown \/ UpdateStatus \/ Crash
      PROVE  PointersHold'
  BY <1>17
  DEF Fetch, HandleStuckNode, StuckNodesHandled, EnsureWorkersReady, LeaveWorkers, ScaleUp,
      ScaleDown, Decommission, DecommissionServer, ScaledDown, UpdateStatus, Crash,
      PointersHold, Healing, Forget
<1> QED BY <1>1, <1>2, <1>3, <1>4, <1>5, <1>6, <1>7, <1>8, <1>9, <1>10, <1>11, <1>12, <1>13,
           <1>14, <1>15, <1>16, <1>17 DEF Next, Reconcile, ReconcileStep, NodeStep

\* So does the worker being torn down.
LEMMA TargetStaysApart ==
  ASSUME LoopType, MemHolds, PointersHold, TargetIsApart, [Next]_vars
  PROVE  TargetIsApart'
<1>1. ASSUME ReplaceWorker PROVE TargetIsApart'
  BY <1>1, ReplaceWorkerSpares
<1>2. ASSUME DeleteKubeNode PROVE TargetIsApart'
  <2>1. pc = "healNode" /\ UNCHANGED <<mem, work, at, target, stage>>
    BY <1>2 DEF DeleteKubeNode, loopVars
  <2> QED BY <2>1 DEF TargetIsApart, Ahead, NameAt, Old, Names, Where, Slots
<1>3. ASSUME ReconcileHealth PROVE TargetIsApart'
  BY <1>3, PhasesAreSteps DEF TargetIsApart, ReconcileHealth, MemHolds, Sound
<1>4. ASSUME NEW n \in Servers, CreateServer(n) \/ AwaitServer(n) \/ BeginConfigure(n) \/
              SkipConfig(n) \/ ApplyConfig(n) \/ ApplyConfigFails(n) \/ WorkerReady(n) PROVE
              TargetIsApart'
  BY <1>4
  DEF TargetIsApart, CreateServer, AwaitServer, BeginConfigure, SkipConfig, ApplyConfig,
      ApplyConfigFails, WorkerReady
<1>5. ASSUME NEW n \in Servers, World(n) PROVE TargetIsApart'
  <2>1. UNCHANGED operatorVars
    BY <1>5 DEF World, RegisterNode, NodeBecomesReady, NodeBecomesNotReady, NotReadyTooLong,
                NodeCollected
  <2> QED BY <2>1 DEF TargetIsApart, Ahead, NameAt, Old, Names, Where, Slots, operatorVars, loopVars
<1>6. CASE UNCHANGED vars
  BY <1>6 DEF TargetIsApart, Ahead, NameAt, Old, Names, Where, Slots, vars, operatorVars,
            loopVars
<1>7. ASSUME Fetch \/ HandleStuckNode \/ StuckNodesHandled \/ EnsureWorkersReady \/
              RunningHealthCheck \/ DeleteOldServer \/ LeaveWorkers \/ ScaleUp \/ ScaleDown
              \/ Decommission \/ DecommissionServer \/ ScaledDown \/ PrepareForProvisioning
              \/ PersistProvisioned \/ AllConfigured \/ UpdateStatus \/ Crash
      PROVE  TargetIsApart'
  BY <1>7
  DEF Fetch, HandleStuckNode, StuckNodesHandled, EnsureWorkersReady, RunningHealthCheck,
      DeleteOldServer, LeaveWorkers, ScaleUp, ScaleDown, Decommission, DecommissionServer,
      ScaledDown, PrepareForProvisioning, PersistProvisioned, AllConfigured, UpdateStatus,
      Crash, TargetIsApart, AfterProvisioning, Forget
<1> QED BY <1>1, <1>2, <1>3, <1>4, <1>5, <1>6, <1>7 DEF Next, Reconcile, ReconcileStep, NodeStep

\* A step that sets the phase of the worker being provisioned.
LEMMA PhaseOfLast ==
  ASSUME MemHolds, StageType, ReplacementIsLast, pc = "configure", Replacing,
         NEW n \in Servers, stage[n] \in {"provisioned", "apply", "wait"},
         NEW p, p # "Ready", mem' = SetPhase(mem, n, p),
         NEW s, s # "create", stage' = [stage EXCEPT ![n] = s]
  PROVE  ReplacementIsLast'
<1>1. mem.len > 0 /\ NameAt(mem.len) = n BY DEF ReplacementIsLast
<1>2. mem.len \in Slots(mem) /\ mem.len \in 1..Len(mem.nodes)
  BY <1>1, StatusParts DEF MemHolds, Sound, Slots
<1>3. n \in Names(mem) BY <1>1, <1>2 DEF Names, NameAt
<1>4. mem'.len = mem.len /\ mem'.nodes[mem.len].name = n
  BY <1>1, <1>2, <1>3, SetPhaseUpdates DEF MemHolds, NameAt
<1>5. \A m \in Servers : m # n => stage'[m] = stage[m] /\ stage[m] \in Past
  BY DEF ReplacementIsLast, StageType, Past
<1>6. stage'[n] # "create" BY DEF StageType
<1> QED BY <1>1, <1>4, <1>5, <1>6 DEF ReplacementIsLast, NameAt, Past

\* So does the replacement.
LEMMA ReplacementStaysLast ==
  ASSUME LoopType, LoopFits, MemHolds, StageType, StagesAreOver, ReplacementIsLast,
         [Next]_vars
  PROVE  ReplacementIsLast'
<1>1. ASSUME ReconcileHealth PROVE ReplacementIsLast'
  BY <1>1, PhasesAreSteps DEF ReplacementIsLast, ReconcileHealth, MemHolds, Sound
<1>2. ASSUME PrepareForProvisioning PROVE ReplacementIsLast'
  <2> SUFFICES ASSUME pc' \in {"provision", "configure"}, Replacing' PROVE ReplacementIsLast'
    BY DEF ReplacementIsLast
  <2>1. Replacing BY <1>2 DEF PrepareForProvisioning, AfterProvisioning, Replacing
  <2>2. pc \notin {"provision", "configure"} /\ mem' = mem BY <1>2 DEF PrepareForProvisioning
  <2>3. \E names \in SUBSET Fresh :
          /\ Cardinality(names) = 1
          /\ stage' = [n \in Servers |-> IF n \in names THEN "create" ELSE stage[n]]
    BY <1>2, <2>1 DEF PrepareForProvisioning, ToCreate, AfterProvisioning
  <2>4. PICK names \in SUBSET Fresh :
          /\ Cardinality(names) = 1
          /\ stage' = [n \in Servers |-> IF n \in names THEN "create" ELSE stage[n]]
    BY <2>3
  <2>5. names \in SUBSET Servers /\ \A n \in names : n \notin Names(mem) BY DEF Fresh
  <2>6. \E x : names = {x} BY <2>4, <2>5, ServersAssumption, FS_Subset, FS_Singleton
  <2>7. \A n \in Servers : n \notin names => stage'[n] \in Past
    BY <2>2, <2>4 DEF StagesAreOver, Past
  <2>8. \A n \in names : stage'[n] = "create" BY <2>4, <2>5
  <2>9. \A m, n \in Servers :
          stage'[m] \notin Past /\ stage'[n] \notin Past => m = n
    BY <2>6, <2>7 DEF Past
  <2>10. \A n \in Servers :
           /\ stage'[n] = "create" => n \notin Names(mem')
           /\ stage'[n] \notin {"await", "provisioned", "apply", "wait"}
    BY <2>2, <2>5, <2>7, <2>8 DEF Past
  <2> QED BY <2>9, <2>10 DEF ReplacementIsLast
<1>3. ASSUME NEW n \in Servers, CreateServer(n) PROVE ReplacementIsLast'
  <2> SUFFICES ASSUME pc' \in {"provision", "configure"}, Replacing' PROVE ReplacementIsLast'
    BY DEF ReplacementIsLast
  <2>1. pc = "provision" /\ Replacing /\ stage[n] = "create"
    BY <1>3 DEF CreateServer, Replacing, loopVars
  <2>2. /\ mem' = SetPhase(mem, n, "WaitingForIP") \/ mem' = SetPhase(mem, n, "Failed")
        /\ \E s \in {"await", "failed"} : stage' = [stage EXCEPT ![n] = s]
    BY <1>3 DEF CreateServer
  <2>3. n \notin Names(mem) BY <2>1 DEF ReplacementIsLast
  <2>4. mem'.len = mem.len + 1 /\ mem'.nodes[mem'.len].name = n
    BY <2>2, <2>3, SetPhaseAppends DEF MemHolds
  <2>5. mem.len \in Nat BY StatusParts DEF MemHolds
  <2>6. \A m \in Servers : m # n => stage'[m] = stage[m] /\ stage[m] \in Past
    BY <2>1, <2>2 DEF ReplacementIsLast, StageType, Past
  <2>7. stage'[n] # "create" BY <2>2 DEF StageType
  <2> QED BY <2>4, <2>5, <2>6, <2>7 DEF ReplacementIsLast, NameAt, Past
<1>4. ASSUME NEW n \in Servers, AwaitServer(n) PROVE ReplacementIsLast'
  <2> SUFFICES ASSUME pc' \in {"provision", "configure"}, Replacing' PROVE ReplacementIsLast'
    BY DEF ReplacementIsLast
  <2>1. pc = "provision" /\ Replacing /\ stage[n] = "await"
    BY <1>4 DEF AwaitServer, Replacing, loopVars
  <2>2. \/ stage' = [stage EXCEPT ![n] = "provisioned"] /\ UNCHANGED mem
        \/ stage' = [stage EXCEPT ![n] = "failed"]
    BY <1>4 DEF AwaitServer, GiveUp
  <2>3. \A m \in Servers : m # n => stage'[m] = stage[m] /\ stage[m] \in Past
    BY <2>1, <2>2 DEF ReplacementIsLast, StageType, Past
  <2>4. mem.len > 0 /\ NameAt(mem.len) = n BY <2>1 DEF ReplacementIsLast
  <2>5. \/ stage'[n] = "provisioned" /\ UNCHANGED mem
        \/ stage'[n] = "failed"
    BY <2>2 DEF StageType
  <2> QED BY <2>3, <2>4, <2>5 DEF ReplacementIsLast, NameAt, Past
<1>5. ASSUME PersistProvisioned PROVE ReplacementIsLast'
  <2> SUFFICES ASSUME pc' \in {"provision", "configure"}, Replacing' PROVE ReplacementIsLast'
    BY DEF ReplacementIsLast
  <2>1. pc = "provision" /\ UNCHANGED <<mem, stage, target>>
    BY <1>5 DEF PersistProvisioned, AllCreated
  <2> QED BY <2>1 DEF ReplacementIsLast, Replacing, NameAt, Names, Slots
<1>6. ASSUME NEW n \in Servers, BeginConfigure(n) PROVE ReplacementIsLast'
  <2> SUFFICES ASSUME pc' \in {"provision", "configure"}, Replacing' PROVE ReplacementIsLast'
    BY DEF ReplacementIsLast
  <2>1. pc = "configure" /\ Replacing BY <1>6 DEF BeginConfigure, Replacing, loopVars
  <2>2. /\ mem' = SetPhase(mem, n, "WaitingForTalosAPI")
        /\ stage[n] = "provisioned" /\ stage' = [stage EXCEPT ![n] = "apply"]
    BY <1>6 DEF BeginConfigure
  <2> QED BY <2>1, <2>2, PhaseOfLast DEF ReplacementIsLast
<1>7. ASSUME NEW n \in Servers, SkipConfig(n) PROVE ReplacementIsLast'
  <2> SUFFICES ASSUME pc' \in {"provision", "configure"}, Replacing' PROVE ReplacementIsLast'
    BY DEF ReplacementIsLast
  <2>1. pc = "configure" /\ Replacing BY <1>7 DEF SkipConfig, Replacing, loopVars
  <2>2. /\ mem' = SetPhase(mem, n, "WaitingForK8s")
        /\ stage[n] = "apply" /\ stage' = [stage EXCEPT ![n] = "skipped"]
    BY <1>7 DEF SkipConfig
  <2> QED BY <2>1, <2>2, PhaseOfLast DEF ReplacementIsLast
<1>8. ASSUME NEW n \in Servers, ApplyConfig(n) PROVE ReplacementIsLast'
  <2> SUFFICES ASSUME pc' \in {"provision", "configure"}, Replacing' PROVE ReplacementIsLast'
    BY DEF ReplacementIsLast
  <2>1. pc = "configure" /\ Replacing BY <1>8 DEF ApplyConfig, Replacing, loopVars
  <2>2. /\ mem' = SetPhase(mem, n, "WaitingForK8s")
        /\ stage[n] = "apply" /\ stage' = [stage EXCEPT ![n] = "wait"]
    BY <1>8 DEF ApplyConfig
  <2> QED BY <2>1, <2>2, PhaseOfLast DEF ReplacementIsLast
<1>9. ASSUME NEW n \in Servers, ApplyConfigFails(n) \/ WorkerReady(n) PROVE
              ReplacementIsLast'
  <2> SUFFICES ASSUME pc' \in {"provision", "configure"}, Replacing' PROVE ReplacementIsLast'
    BY DEF ReplacementIsLast
  <2>1. /\ pc = "configure" /\ Replacing /\ stage[n] \in {"apply", "wait"}
        /\ \/ stage' = [stage EXCEPT ![n] = "failed"]
           \/ /\ stage' = [stage EXCEPT ![n] = "done"]
              /\ mem' = SetPhase(mem, n, "NodeInitializing")
    BY <1>9 DEF ApplyConfigFails, WorkerReady, GiveUp, Replacing, loopVars
  <2>2. \A m \in Servers : m # n => stage'[m] = stage[m] /\ stage[m] \in Past
    BY <2>1 DEF ReplacementIsLast, StageType, Past
  <2>3. stage'[n] \in {"failed", "done"} BY <2>1 DEF StageType
  <2> QED BY <2>2, <2>3 DEF ReplacementIsLast, Past
<1>10. ASSUME NEW n \in Servers, World(n) PROVE ReplacementIsLast'
  <2>1. UNCHANGED operatorVars
    BY <1>10 DEF World, RegisterNode, NodeBecomesReady, NodeBecomesNotReady, NotReadyTooLong,
                NodeCollected
  <2> QED BY <2>1 DEF ReplacementIsLast, Replacing, NameAt, Names, Slots, operatorVars, loopVars
<1>11. ASSUME AllConfigured \/ UpdateStatus \/ Crash PROVE ReplacementIsLast'
  BY <1>11
  DEF ReplacementIsLast, AllConfigured, AfterProvisioning, UpdateStatus, Crash, Forget
<1>12. CASE UNCHANGED vars
  BY <1>12 DEF ReplacementIsLast, Replacing, NameAt, Names, Slots, vars, operatorVars, loopVars
<1>13. ASSUME Fetch \/ HandleStuckNode \/ StuckNodesHandled \/ EnsureWorkersReady \/
              RunningHealthCheck \/ ReplaceWorker \/ DeleteKubeNode \/ DeleteOldServer \/
              LeaveWorkers \/ ScaleUp \/ ScaleDown \/ Decommission \/ DecommissionServer \/
              ScaledDown
      PROVE  ReplacementIsLast'
  BY <1>13
  DEF Fetch, HandleStuckNode, StuckNodesHandled, EnsureWorkersReady, RunningHealthCheck,
      ReplaceWorker, DeleteKubeNode, DeleteOldServer, LeaveWorkers, ScaleUp, ScaleDown,
      Decommission, DecommissionServer, ScaledDown, ReplacementIsLast
<1> QED BY <1>1, <1>2, <1>3, <1>4, <1>5, <1>6, <1>7, <1>8, <1>9, <1>10, <1>11, <1>12, <1>13 DEF Next, Reconcile, ReconcileStep, NodeStep

\* The loop counts what it has made for good.
LEMMA SuccessIsCounted ==
  ASSUME LoopType, LoopFits, MemHolds, StageType, StagesAreOver, SuccessCounts, [Next]_vars
  PROVE  SuccessCounts'
<1>1. ASSUME Fetch \/ HandleStuckNode \/ StuckNodesHandled \/ EnsureWorkersReady \/
              RunningHealthCheck
      PROVE  SuccessCounts'
  BY <1>1
  DEF SuccessCounts, Healing, Fetch, HandleStuckNode, StuckNodesHandled, EnsureWorkersReady,
      RunningHealthCheck
<1>2. ASSUME ReconcileHealth PROVE SuccessCounts'
  BY <1>2, PhasesAreSteps DEF SuccessCounts, Healing, ReconcileHealth, MemHolds, Sound
<1>3. ASSUME ReplaceWorker \/ DeleteKubeNode \/ DeleteOldServer PROVE SuccessCounts'
  BY <1>3 DEF SuccessCounts, Healing, ReplaceWorker, DeleteKubeNode, DeleteOldServer, loopVars
<1>4. ASSUME LeaveWorkers \/ ScaleUp \/ ScaleDown \/ Decommission \/ DecommissionServer \/
              ScaledDown
      PROVE  SuccessCounts'
  BY <1>4
  DEF SuccessCounts, Healing, LeaveWorkers, ScaleUp, ScaleDown, Decommission,
      DecommissionServer, ScaledDown
<1>5. ASSUME PrepareForProvisioning PROVE SuccessCounts'
  <2>1. /\ pc \in {"prepareHeal", "prepareUp"} /\ removed' = removed
        /\ pc' \in {"provision", "heal", "finish"}
        /\ pc' = "heal" => Replacing
        /\ Replacing' => Replacing
        /\ \A n \in Servers : stage'[n] = "over" => stage[n] = "over"
    BY <1>5 DEF PrepareForProvisioning, AfterProvisioning, Replacing
  <2>2. pc = "prepareUp" => ~Replacing BY DEF LoopFits, Replacing
  <2> QED BY <2>1, <2>2 DEF SuccessCounts, Healing
<1>6. ASSUME PersistProvisioned PROVE SuccessCounts'
  <2>1. pc = "provision" /\ removed' = removed /\ InStage({"create", "await"}) = {}
    BY <1>6 DEF PersistProvisioned, AllCreated
  <2>2. CASE Replacing /\ InStage({"provisioned"}) = {}
    <3>1. pc' = "heal" /\ Retire BY <1>6, <2>2 DEF PersistProvisioned
    <3>2. \A n \in Servers : stage[n] \in Past BY <2>1, <2>2 DEF StagesAreOver, InStage, Past
    <3>3. \A n \in Servers : stage'[n] = "over" => stage[n] = "over"
      BY <3>1, <3>2 DEF Retire, Past
    <3> QED BY <2>1, <2>2, <3>1, <3>3 DEF SuccessCounts, Healing
  <2>3. CASE ~(Replacing /\ InStage({"provisioned"}) = {})
    <3>1. pc' = "configure" /\ UNCHANGED <<target, stage>> BY <1>6, <2>3 DEF PersistProvisioned
    <3> QED BY <2>1, <3>1 DEF SuccessCounts, Healing, Replacing
  <2> QED BY <2>2, <2>3
<1>7. ASSUME AllConfigured PROVE SuccessCounts'
  <2>1. /\ pc = "configure" /\ pc' = AfterProvisioning /\ Retire
        /\ InStage({"provisioned", "apply", "wait"}) = {}
    BY <1>7 DEF AllConfigured
  <2>2. CASE ~Replacing
    BY <2>1, <2>2 DEF AfterProvisioning, SuccessCounts, Healing
  <2>3. CASE Replacing /\ InStage({"done", "skipped"}) = {}
    <3>1. removed' = removed /\ pc' = "heal" BY <1>7, <2>1, <2>3 DEF AllConfigured, AfterProvisioning
    <3>2. \A n \in Servers : stage[n] \in Past BY <2>1, <2>3 DEF StagesAreOver, InStage, Past
    <3>3. \A n \in Servers : stage'[n] = "over" => stage[n] = "over"
      BY <2>1, <3>2 DEF Retire, Past
    <3> QED BY <2>1, <2>3, <3>1, <3>3 DEF SuccessCounts, Healing
  <2>4. CASE Replacing /\ InStage({"done", "skipped"}) # {}
    <3>1. removed' = removed + 1 /\ pc' = "heal"
      BY <1>7, <2>1, <2>4 DEF AllConfigured, AfterProvisioning
    <3>2. removed' # 0 BY <3>1 DEF LoopType
    <3> QED BY <3>1, <3>2 DEF SuccessCounts, Healing
  <2> QED BY <2>2, <2>3, <2>4
<1>8. ASSUME NEW n \in Servers, NodeStep(n) PROVE SuccessCounts'
  <2>1. /\ pc \in {"provision", "configure"} /\ UNCHANGED <<pc, removed, target>>
        /\ \E s \in Stages \ {"over"} : stage' = [stage EXCEPT ![n] = s]
    BY <1>8 DEF NodeStep, CreateServer, AwaitServer, BeginConfigure, SkipConfig, ApplyConfig,
                ApplyConfigFails, WorkerReady, GiveUp, loopVars, Stages
  <2>2. \A m \in Servers : stage'[m] = "over" => stage[m] = "over" BY <2>1 DEF StageType
  <2> QED BY <2>1, <2>2 DEF SuccessCounts, Healing, Replacing
<1>9. ASSUME UpdateStatus \/ Crash PROVE SuccessCounts'
  BY <1>9 DEF SuccessCounts, Healing, UpdateStatus, Crash, Forget
<1>10. ASSUME NEW n \in Servers, World(n) PROVE SuccessCounts'
  <2>1. UNCHANGED operatorVars
    BY <1>10 DEF World, RegisterNode, NodeBecomesReady, NodeBecomesNotReady, NotReadyTooLong,
                NodeCollected
  <2> QED BY <2>1 DEF SuccessCounts, Healing, Replacing, operatorVars, loopVars
<1>11. CASE UNCHANGED vars
  BY <1>11 DEF SuccessCounts, Healing, Replacing, vars, operatorVars, loopVars
<1> QED BY <1>1, <1>2, <1>3, <1>4, <1>5, <1>6, <1>7, <1>8, <1>9, <1>10, <1>11
        DEF Next, Reconcile, ReconcileStep

-----------------------------------------------------------------------------
(***************************************************************************)
(* Scale-up.                                                               *)
(***************************************************************************)

\* The workers there are, and those that are being made.
Coming == {"create", "await", "provisioned", "apply", "wait"}
Taken  == Names(mem) \cup InStage(Coming)

\* They are workers, finitely many.
LEMMA TakenType ==
  ASSUME MemHolds
  PROVE  Taken \in SUBSET Servers /\ IsFiniteSet(Taken) /\ Cardinality(Taken) \in Nat
<1>1. Names(mem) \subseteq Servers
  <2>1. \A i \in Slots(mem) : mem.nodes[i].name \in Servers
    BY StatusParts, EntryParts DEF MemHolds
  <2> QED BY <2>1 DEF Names
<1>2. Taken \in SUBSET Servers BY <1>1 DEF Taken, InStage
<1> QED BY <1>2, ServersAssumption, FS_Subset, FS_CardinalityType

\* There are no more names than entries.
LEMMA NamesAreFew ==
  ASSUME MemHolds
  PROVE  /\ IsFiniteSet(Names(mem)) /\ Cardinality(Names(mem)) \in Nat
         /\ Cardinality(Names(mem)) <= mem.len /\ mem.len \in Nat
<1> DEFINE name == [i \in Slots(mem) |-> mem.nodes[i].name]
<1>1. name \in Surjection(Slots(mem), Names(mem)) BY DEF Surjection, Names
<1> HIDE DEF name
<1>2. IsFiniteSet(Slots(mem)) /\ Cardinality(Slots(mem)) = mem.len /\ mem.len \in Nat
  BY SlotsAreNumbers DEF MemHolds
<1>3. IsFiniteSet(Names(mem)) /\ Cardinality(Names(mem)) <= mem.len BY <1>1, <1>2, FS_Surjection
<1> QED BY <1>2, <1>3, FS_CardinalityType

\* Scale-up is provisioning.
ScalingUp == pc \in {"provision", "configure"} /\ ~Replacing

\* With no more workers taken than before, there are no more than desired.
LEMMA FewerAreFine ==
  ASSUME MemHolds, MemHolds', ScaleUpFillsOnly, ScalingUp, Taken' \subseteq Taken
  PROVE  ScaleUpFillsOnly'
<1>1. Cardinality(Taken) <= Desired BY DEF ScaleUpFillsOnly, ScalingUp, Taken, Coming
<1>2. IsFiniteSet(Taken) /\ Cardinality(Taken) \in Nat BY TakenType
<1>3. Cardinality(Taken') <= Cardinality(Taken) /\ IsFiniteSet(Taken') BY <1>2, FS_Subset
<1>4. Cardinality(Taken') \in Nat BY <1>3, FS_CardinalityType
<1>5. Cardinality(Taken') <= Desired BY <1>1, <1>2, <1>3, <1>4, DesiredAssumption
<1> QED BY <1>5 DEF ScaleUpFillsOnly, Taken, Coming

\* A scale-up that is decided on takes no more workers.
LEMMA ScaleUpStaysBelow ==
  ASSUME MemHolds, MemHolds', StageType, LoopFits, StagesAreOver, ScaleUpFillsOnly,
         [Next]_vars
  PROVE  ScaleUpFillsOnly'
<1>1. ASSUME ReconcileHealth PROVE ScaleUpFillsOnly'
  BY <1>1, PhasesAreSteps DEF ScaleUpFillsOnly, ReconcileHealth, MemHolds, Sound
<1>2. ASSUME PrepareForProvisioning PROVE ScaleUpFillsOnly'
  <2> SUFFICES ASSUME ScalingUp' PROVE ScaleUpFillsOnly' BY DEF ScaleUpFillsOnly, ScalingUp
  <2>1. ~Replacing
    BY <1>2 DEF PrepareForProvisioning, ScalingUp, Replacing, AfterProvisioning
  <2>2. pc \notin {"provision", "configure"} /\ mem' = mem BY <1>2 DEF PrepareForProvisioning
  <2>3. \E names \in SUBSET Fresh :
          /\ Cardinality(names) = Desired - mem.len
          /\ stage' = [n \in Servers |-> IF n \in names THEN "create" ELSE stage[n]]
    BY <1>2, <2>1 DEF PrepareForProvisioning, ToCreate, ScalingUp, AfterProvisioning
  <2>4. PICK names \in SUBSET Fresh :
          /\ Cardinality(names) = Desired - mem.len
          /\ stage' = [n \in Servers |-> IF n \in names THEN "create" ELSE stage[n]]
    BY <2>3
  <2>5. names \in SUBSET Servers BY DEF Fresh
  <2>6. InStage(Coming)' \subseteq names
    BY <2>2, <2>4 DEF InStage, Coming, StagesAreOver, Past
  <2>7. IsFiniteSet(names) /\ Cardinality(names) \in Nat
    BY <2>5, ServersAssumption, FS_Subset, FS_CardinalityType
  <2>8. /\ IsFiniteSet(Names(mem)) /\ Cardinality(Names(mem)) \in Nat
        /\ Cardinality(Names(mem)) <= mem.len /\ mem.len \in Nat
    BY NamesAreFew
  <2> DEFINE union == Names(mem) \cup names
             both  == Names(mem) \cap names
  <2>9. /\ IsFiniteSet(union)
        /\ Cardinality(union) = Cardinality(Names(mem)) + Cardinality(names) - Cardinality(both)
    BY <2>7, <2>8, FS_Union
  <2>10. Cardinality(both) \in Nat BY <2>8, FS_Intersection, FS_CardinalityType
  <2>11. Cardinality(union) \in Nat BY <2>9, FS_CardinalityType
  <2>12. Cardinality(union) <= Desired
    <3> HIDE DEF union, both
    <3> QED BY <2>4, <2>7, <2>8, <2>9, <2>10, <2>11, DesiredAssumption
  <2>13. Taken' \subseteq union BY <2>2, <2>6 DEF Taken
  <2> HIDE DEF union
  <2>14. IsFiniteSet(Taken') /\ Cardinality(Taken') <= Cardinality(union)
    BY <2>9, <2>13, FS_Subset
  <2>15. Cardinality(Taken') \in Nat BY <2>14, FS_CardinalityType
  <2>16. Cardinality(Taken') <= Desired
    BY <2>11, <2>12, <2>14, <2>15, DesiredAssumption
  <2> QED BY <2>16 DEF ScaleUpFillsOnly, Taken, Coming
<1>3. ASSUME PersistProvisioned PROVE ScaleUpFillsOnly'
  <2> SUFFICES ASSUME ScalingUp' PROVE ScaleUpFillsOnly' BY DEF ScaleUpFillsOnly, ScalingUp
  <2>1. pc = "provision" /\ UNCHANGED <<mem, stage, target>>
    BY <1>3 DEF PersistProvisioned, AllCreated, ScalingUp
  <2>2. ScalingUp BY <2>1 DEF ScalingUp, Replacing
  <2>3. Taken' = Taken BY <2>1 DEF Taken, InStage
  <2> QED BY <2>2, <2>3, FewerAreFine
<1>4. ASSUME NEW n \in Servers, CreateServer(n) PROVE ScaleUpFillsOnly'
  <2> SUFFICES ASSUME ScalingUp' PROVE ScaleUpFillsOnly' BY DEF ScaleUpFillsOnly, ScalingUp
  <2>1. ScalingUp BY <1>4 DEF CreateServer, ScalingUp, Replacing, loopVars
  <2>2. Names(mem') \subseteq Names(mem) \cup {n}
    BY <1>4, SetPhaseNames, RemoveNames DEF CreateServer, GiveUp, MemHolds
  <2>3. n \in InStage(Coming) BY <1>4 DEF CreateServer, InStage, Coming
  <2>4. \A m \in Servers : m # n => stage'[m] = stage[m] BY <1>4 DEF CreateServer, GiveUp, StageType
  <2>5. InStage(Coming)' \subseteq InStage(Coming) BY <2>3, <2>4 DEF InStage
  <2>6. Taken' \subseteq Taken BY <2>2, <2>3, <2>5 DEF Taken
  <2> QED BY <2>1, <2>6, FewerAreFine
<1>5. ASSUME NEW n \in Servers, AwaitServer(n) PROVE ScaleUpFillsOnly'
  <2> SUFFICES ASSUME ScalingUp' PROVE ScaleUpFillsOnly' BY DEF ScaleUpFillsOnly, ScalingUp
  <2>1. ScalingUp BY <1>5 DEF AwaitServer, ScalingUp, Replacing, loopVars
  <2>2. Names(mem') \subseteq Names(mem) \cup {n}
    BY <1>5, SetPhaseNames, RemoveNames DEF AwaitServer, GiveUp, MemHolds
  <2>3. n \in InStage(Coming) BY <1>5 DEF AwaitServer, InStage, Coming
  <2>4. \A m \in Servers : m # n => stage'[m] = stage[m] BY <1>5 DEF AwaitServer, GiveUp, StageType
  <2>5. InStage(Coming)' \subseteq InStage(Coming) BY <2>3, <2>4 DEF InStage
  <2>6. Taken' \subseteq Taken BY <2>2, <2>3, <2>5 DEF Taken
  <2> QED BY <2>1, <2>6, FewerAreFine
<1>6. ASSUME NEW n \in Servers, BeginConfigure(n) PROVE ScaleUpFillsOnly'
  <2> SUFFICES ASSUME ScalingUp' PROVE ScaleUpFillsOnly' BY DEF ScaleUpFillsOnly, ScalingUp
  <2>1. ScalingUp BY <1>6 DEF BeginConfigure, ScalingUp, Replacing, loopVars
  <2>2. Names(mem') \subseteq Names(mem) \cup {n}
    BY <1>6, SetPhaseNames, RemoveNames DEF BeginConfigure, GiveUp, MemHolds
  <2>3. n \in InStage(Coming) BY <1>6 DEF BeginConfigure, InStage, Coming
  <2>4. \A m \in Servers : m # n => stage'[m] = stage[m] BY <1>6 DEF BeginConfigure, GiveUp, StageType
  <2>5. InStage(Coming)' \subseteq InStage(Coming) BY <2>3, <2>4 DEF InStage
  <2>6. Taken' \subseteq Taken BY <2>2, <2>3, <2>5 DEF Taken
  <2> QED BY <2>1, <2>6, FewerAreFine
<1>7. ASSUME NEW n \in Servers, SkipConfig(n) PROVE ScaleUpFillsOnly'
  <2> SUFFICES ASSUME ScalingUp' PROVE ScaleUpFillsOnly' BY DEF ScaleUpFillsOnly, ScalingUp
  <2>1. ScalingUp BY <1>7 DEF SkipConfig, ScalingUp, Replacing, loopVars
  <2>2. Names(mem') \subseteq Names(mem) \cup {n}
    BY <1>7, SetPhaseNames, RemoveNames DEF SkipConfig, GiveUp, MemHolds
  <2>3. n \in InStage(Coming) BY <1>7 DEF SkipConfig, InStage, Coming
  <2>4. \A m \in Servers : m # n => stage'[m] = stage[m] BY <1>7 DEF SkipConfig, GiveUp, StageType
  <2>5. InStage(Coming)' \subseteq InStage(Coming) BY <2>3, <2>4 DEF InStage
  <2>6. Taken' \subseteq Taken BY <2>2, <2>3, <2>5 DEF Taken
  <2> QED BY <2>1, <2>6, FewerAreFine
<1>8. ASSUME NEW n \in Servers, ApplyConfig(n) PROVE ScaleUpFillsOnly'
  <2> SUFFICES ASSUME ScalingUp' PROVE ScaleUpFillsOnly' BY DEF ScaleUpFillsOnly, ScalingUp
  <2>1. ScalingUp BY <1>8 DEF ApplyConfig, ScalingUp, Replacing, loopVars
  <2>2. Names(mem') \subseteq Names(mem) \cup {n}
    BY <1>8, SetPhaseNames, RemoveNames DEF ApplyConfig, GiveUp, MemHolds
  <2>3. n \in InStage(Coming) BY <1>8 DEF ApplyConfig, InStage, Coming
  <2>4. \A m \in Servers : m # n => stage'[m] = stage[m] BY <1>8 DEF ApplyConfig, GiveUp, StageType
  <2>5. InStage(Coming)' \subseteq InStage(Coming) BY <2>3, <2>4 DEF InStage
  <2>6. Taken' \subseteq Taken BY <2>2, <2>3, <2>5 DEF Taken
  <2> QED BY <2>1, <2>6, FewerAreFine
<1>9. ASSUME NEW n \in Servers, ApplyConfigFails(n) PROVE ScaleUpFillsOnly'
  <2> SUFFICES ASSUME ScalingUp' PROVE ScaleUpFillsOnly' BY DEF ScaleUpFillsOnly, ScalingUp
  <2>1. ScalingUp BY <1>9 DEF ApplyConfigFails, ScalingUp, Replacing, loopVars
  <2>2. Names(mem') \subseteq Names(mem) \cup {n}
    BY <1>9, SetPhaseNames, RemoveNames DEF ApplyConfigFails, GiveUp, MemHolds
  <2>3. n \in InStage(Coming) BY <1>9 DEF ApplyConfigFails, InStage, Coming
  <2>4. \A m \in Servers : m # n => stage'[m] = stage[m] BY <1>9 DEF ApplyConfigFails, GiveUp, StageType
  <2>5. InStage(Coming)' \subseteq InStage(Coming) BY <2>3, <2>4 DEF InStage
  <2>6. Taken' \subseteq Taken BY <2>2, <2>3, <2>5 DEF Taken
  <2> QED BY <2>1, <2>6, FewerAreFine
<1>10. ASSUME NEW n \in Servers, WorkerReady(n) PROVE ScaleUpFillsOnly'
  <2> SUFFICES ASSUME ScalingUp' PROVE ScaleUpFillsOnly' BY DEF ScaleUpFillsOnly, ScalingUp
  <2>1. ScalingUp BY <1>10 DEF WorkerReady, ScalingUp, Replacing, loopVars
  <2>2. Names(mem') \subseteq Names(mem) \cup {n}
    BY <1>10, SetPhaseNames, RemoveNames DEF WorkerReady, GiveUp, MemHolds
  <2>3. n \in InStage(Coming) BY <1>10 DEF WorkerReady, InStage, Coming
  <2>4. \A m \in Servers : m # n => stage'[m] = stage[m] BY <1>10 DEF WorkerReady, GiveUp, StageType
  <2>5. InStage(Coming)' \subseteq InStage(Coming) BY <2>3, <2>4 DEF InStage
  <2>6. Taken' \subseteq Taken BY <2>2, <2>3, <2>5 DEF Taken
  <2> QED BY <2>1, <2>6, FewerAreFine
<1>11. ASSUME NEW n \in Servers, World(n) PROVE ScaleUpFillsOnly'
  <2>1. UNCHANGED operatorVars
    BY <1>11 DEF World, RegisterNode, NodeBecomesReady, NodeBecomesNotReady, NotReadyTooLong,
                NodeCollected
  <2> QED BY <2>1 DEF ScaleUpFillsOnly, Replacing, Names, Slots, InStage, operatorVars, loopVars
<1>12. ASSUME AllConfigured \/ UpdateStatus \/ Crash PROVE ScaleUpFillsOnly'
  BY <1>12
  DEF ScaleUpFillsOnly, AllConfigured, AfterProvisioning, UpdateStatus, Crash, Forget
<1>13. CASE UNCHANGED vars
  BY <1>13 DEF ScaleUpFillsOnly, Replacing, Names, Slots, InStage, vars, operatorVars, loopVars
<1>14. ASSUME Fetch \/ HandleStuckNode \/ StuckNodesHandled \/ EnsureWorkersReady \/
              RunningHealthCheck \/ ReplaceWorker \/ DeleteKubeNode \/ DeleteOldServer \/
              LeaveWorkers \/ ScaleUp \/ ScaleDown \/ Decommission \/ DecommissionServer \/
              ScaledDown
      PROVE  ScaleUpFillsOnly'
  BY <1>14
  DEF Fetch, HandleStuckNode, StuckNodesHandled, EnsureWorkersReady, RunningHealthCheck,
      ReplaceWorker, DeleteKubeNode, DeleteOldServer, LeaveWorkers, ScaleUp, ScaleDown,
      Decommission, DecommissionServer, ScaledDown, ScaleUpFillsOnly
<1> QED BY <1>1, <1>2, <1>3, <1>4, <1>5, <1>6, <1>7, <1>8, <1>9, <1>10, <1>11, <1>12, <1>13,
           <1>14 DEF Next, Reconcile, ReconcileStep, NodeStep

-----------------------------------------------------------------------------
(***************************************************************************)
(* The theorems.                                                           *)
(***************************************************************************)

\* Nothing is being reconciled at first.
LEMMA InitHolds == Init => IInv
<1> SUFFICES ASSUME Init PROVE IInv OBVIOUS
<1>1. WorldType BY DEF Init, WorldType, KubeStates
<1>2. StoredType BY DEF Init, StoredType, Record, Classes
<1>3. MemHolds BY EmptyType DEF Init, MemHolds
<1>4. LoopType
  <2> DEFINE nothing == <<>>
  <2>1. nothing \in Seq(Servers) OBVIOUS
  <2>2. work = nothing /\ at = 1 /\ removed = 0 /\ target = NoServer /\ pc = "idle" BY DEF Init
  <2> HIDE DEF nothing
  <2> QED BY <2>1, <2>2 DEF LoopType, Steps
<1>5. StageType BY DEF Init, StageType, Stages
<1>6. FaultsType BY DEF Init, FaultsType
<1>7. pc = "idle" /\ target = NoServer /\ \A n \in Servers : stage[n] = "none" BY DEF Init
<1>8. LoopFits /\ StagesAreOver BY <1>7 DEF LoopFits, StagesAreOver, Past
<1>9. SelectionHolds /\ PointersHold /\ TargetIsApart /\ ReplacementIsLast
  BY <1>7 DEF SelectionHolds, PointersHold, Healing, TargetIsApart, ReplacementIsLast
<1>10. SuccessCounts /\ ScaleUpFillsOnly BY <1>7 DEF SuccessCounts, Healing, ScaleUpFillsOnly
<1> QED BY <1>1, <1>2, <1>3, <1>4, <1>5, <1>6, <1>8, <1>9, <1>10 DEF IInv

\* The kinds of failure of a behaviour stay what they are.
LEMMA FaultsStay == FaultsType /\ [Next]_vars => FaultsType'
BY DEF FaultsType, Next, vars

\* Every step keeps the invariant.
LEMMA StepHolds == IInv /\ [Next]_vars => IInv'
<1> SUFFICES ASSUME IInv, [Next]_vars PROVE IInv' OBVIOUS
<1> USE DEF IInv
<1>1. MemHolds' BY MemStays
<1>2. WorldType' /\ StageType' /\ FaultsType' BY WorldStays, StagesStay, FaultsStay
<1>3. StoredType' BY <1>1, StoredStays
<1>4. LoopType' BY <1>1, LoopStays
<1>5. LoopFits' BY <1>4, LoopStaysFit
<1>6. StagesAreOver' BY StagesEnd
<1>7. SelectionHolds' BY SelectionStays
<1>8. PointersHold' BY <1>1, PointersStay
<1>9. TargetIsApart' BY TargetStaysApart
<1>10. ReplacementIsLast' BY ReplacementStaysLast
<1>11. SuccessCounts' BY SuccessIsCounted
<1>12. ScaleUpFillsOnly' BY <1>1, ScaleUpStaysBelow
<1> QED BY <1>1, <1>2, <1>3, <1>4, <1>5, <1>6, <1>7, <1>8, <1>9, <1>10, <1>11, <1>12

\* The invariant holds of every behaviour, whatever MaxHeals and the faults.
THEOREM Invariance == Spec => []IInv
<1>1. Init => IInv BY InitHolds
<1>2. IInv /\ [Next]_vars => IInv' BY StepHolds
<1> QED BY <1>1, <1>2, PTL DEF Spec

\* Every variable keeps its type.
THEOREM TypeCorrect == Spec => []TypeOK
<1>1. IInv => TypeOK BY TypeParts DEF IInv, MemHolds
<1> QED BY <1>1, Invariance, PTL

\* A scale-up never makes more workers than the status it was decided on found
\* missing (ensureWorkersReady, scaleUpWorkers).
THEOREM ScaleUpIsExact == Spec => []ScaleUpFillsOnly
<1>1. IInv => ScaleUpFillsOnly BY DEF IInv
<1> QED BY <1>1, Invariance, PTL

\* A scale-down removes surplus only, a few workers at a time, those that are not
\* Ready first (scaleDownWorkers, selectWorkersForRemoval).
THEOREM ScaleDownIsCareful == Spec => []ScaleDownIsGradual
<1>1. IInv => ScaleDownIsGradual
  <2> SUFFICES ASSUME IInv, pc = "downServer" PROVE ScaleDownIsGradual
    BY DEF ScaleDownIsGradual
  <2> DEFINE count == mem.len - Desired
  <2>1. /\ mem.len > Desired /\ work = SelectForRemoval(mem, count)
        /\ removed < at /\ at <= Len(work) /\ target = work[at] /\ removed < MaxHeals
    BY DEF IInv, SelectionHolds
  <2>2. mem.len \in Nat BY StatusParts DEF IInv, MemHolds
  <2>3. count \in Nat /\ count <= mem.len BY <2>1, <2>2, DesiredAssumption
  <2> HIDE DEF count
  <2>4. /\ Len(work) = count
        /\ \A k \in 1..count : \A i, j \in Slots(mem) :
             mem.nodes[i].name = work[k] /\ mem.nodes[i].health = "healthy"
               /\ mem.nodes[j].health # "healthy"
             => \E l \in 1..(k - 1) : work[l] = mem.nodes[j].name
    BY <2>1, <2>3, SelectionSpares DEF IInv, MemHolds
  <2>5. at \in Nat \ {0} /\ removed \in Nat BY DEF IInv, LoopType
  <2>6. at \in 1..count BY <2>1, <2>3, <2>4, <2>5
  <2>7. mem.len - removed > Desired
    BY <2>1, <2>2, <2>4, <2>5, DesiredAssumption DEF count
  <2> QED BY <2>1, <2>4, <2>6, <2>7 DEF ScaleDownIsGradual
<1> QED BY <1>1, Invariance, PTL

\* Only the worker being torn down loses its server at that step.
LEMMA OnlyTargetDies ==
  ASSUME IInv, [Next]_vars, pc = "healServer", NEW n \in Servers, Deleted(n)
  PROVE  n = target
<1>1. server' # server BY DEF Deleted
<1>2. CASE DeleteOldServer
  BY <1>2 DEF DeleteOldServer, DeleteServer, DeleteServerFails, Deleted, IInv, WorldType
<1>3. CASE ~DeleteOldServer
  <2>1. \A m \in Servers : ~NodeStep(m)
    BY DEF NodeStep, CreateServer, AwaitServer, BeginConfigure, SkipConfig, ApplyConfig,
           ApplyConfigFails, WorkerReady
  <2>2. ~ReconcileStep
    BY <1>3 DEF ReconcileStep, HandleStuckNode, StuckNodesHandled, ReconcileHealth,
                EnsureWorkersReady, RunningHealthCheck, ReplaceWorker, DeleteKubeNode,
                LeaveWorkers, ScaleUp, ScaleDown, HealingOver, Decommission, DecommissionServer,
                ScaledDown, PrepareForProvisioning, PersistProvisioned, AllCreated,
                AllConfigured, UpdateStatus
  <2>3. (Fetch \/ Crash \/ \E m \in Servers : World(m)) => server' = server
    BY DEF Fetch, Crash, World, RegisterNode, NodeBecomesReady, NodeBecomesNotReady,
           NotReadyTooLong, NodeCollected, worldVars
  <2>4. UNCHANGED vars => server' = server BY DEF vars, worldVars
  <2> QED BY <1>1, <2>1, <2>2, <2>3, <2>4 DEF Next, Reconcile
<1> QED BY <1>2, <1>3

\* With one heal a reconcile, as the operator is started, healing deletes the
\* servers of workers it found NotReady past the threshold, and of ones that it
\* failed to make itself; the worker it made for good is the end of its loop, so
\* that no pointer taken before comes to name it (replaceUnhealthyWorkers).
THEOREM HealthyAreSpared ==
  ASSUME MaxHeals = 1
  PROVE  Spec => HealingSparesHealthy
<1> DEFINE A == \A n \in Servers :
                  pc = "healServer" /\ Deleted(n) =>
                    \/ stage[n] = "failed"
                    \/ \E i \in 1..Len(mem.nodes) :
                         mem.nodes[i].name = n /\ mem.nodes[i].health = "late"
<1>1. IInv /\ [Next]_vars => A
  <2> SUFFICES ASSUME IInv, [Next]_vars, NEW n \in Servers, pc = "healServer", Deleted(n)
               PROVE  \/ stage[n] = "failed"
                      \/ \E i \in 1..Len(mem.nodes) :
                           mem.nodes[i].name = n /\ mem.nodes[i].health = "late"
    OBVIOUS
  <2>1. n = target BY OnlyTargetDies
  <2>2. removed = 0 BY DEF IInv, SuccessCounts, LoopType
  <2>3. stage[n] \in Past \ {"over"}
    BY <2>2 DEF IInv, StagesAreOver, SuccessCounts, Healing
  <2> QED BY <2>1, <2>3 DEF IInv, TargetIsApart, Old, NameAt, Past
<1>2. IInv /\ [Next]_vars => [A]_vars BY <1>1
<1> HIDE DEF A
<1>3. Spec => [][A]_vars BY <1>2, Invariance, PTL DEF Spec
<1> QED BY <1>3 DEF HealingSparesHealthy, A

=============================================================================
