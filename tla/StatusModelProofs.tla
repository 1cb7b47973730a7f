------------------------- MODULE StatusModelProofs -------------------------
(***************************************************************************)
(* Theorems about StatusModel, for every set of modes, zones, capabilities *)
(* and frames: the fold over a payload is followed by an induction on its  *)
(* items.                                                                  *)
(***************************************************************************)
EXTENDS StatusModel, SequenceTheorems, WellFoundedInduction, TLAPS

\* A set that has 0 and every successor has all natural numbers.
LEMMA Induction ==
  ASSUME NEW T, 0 \in T, \A n \in Nat : n \in T => n + 1 \in T
  PROVE  Nat \subseteq T
<1> DEFINE R == {p \in Nat \X Nat : p[1] < p[2]}
<1>1. IsWellFoundedOn(R, Nat)
  BY NatLessThanWellFounded DEF OpToRel
<1> SUFFICES ASSUME Nat \ T # {} PROVE FALSE
  OBVIOUS
<1>2. PICK m \in Nat \ T : \A k \in Nat \ T : ~ (<<k, m>> \in R)
  <2> HIDE DEF R
  <2> QED BY <1>1, WFMin
<1>3. m # 0 /\ m - 1 \in Nat
  OBVIOUS
<1>4. m - 1 \in T
  <2>1. <<m - 1, m>> \in R
    BY <1>3
  <2> QED BY <1>2, <1>3, <2>1
<1>5. m - 1 + 1 \in T
  BY <1>3, <1>4
<1> QED BY <1>2, <1>5

\* The greatest element of a set that has one.
LEMMA MaxIs ==
  ASSUME NEW S, NEW i \in S, S \subseteq Int, \A j \in S : j <= i PROVE Max(S) = i
<1> DEFINE P(x) == x \in S /\ \A y \in S : x >= y
<1>1. P(i)
  OBVIOUS
<1>2. \A x : P(x) => x = i
  OBVIOUS
<1>3. P(CHOOSE x : P(x))
  BY <1>1
<1>4. Max(S) \in S /\ \A y \in S : Max(S) >= y
  BY <1>1 DEF Max
<1> QED BY <1>2, <1>4

\* A set of positions has one.
LEMMA MaxExists ==
  ASSUME NEW n \in Nat, NEW S \in SUBSET (1 .. n), S # {}
  PROVE  Max(S) \in S
<1> DEFINE T == {m \in Nat : \A P \in SUBSET (1 .. m) : P # {} => \E i \in P : \A j \in P : j <= i}
<1>1. 0 \in T
  <2>1. 1 .. 0 = {}
    OBVIOUS
  <2> QED BY <2>1
<1>2. ASSUME NEW m \in Nat, m \in T PROVE m + 1 \in T
  <2> SUFFICES ASSUME NEW P \in SUBSET (1 .. m + 1), P # {}
               PROVE  \E i \in P : \A j \in P : j <= i
    OBVIOUS
  <2>1. CASE m + 1 \in P
    BY <2>1
  <2>2. CASE m + 1 \notin P
    <3>1. P \in SUBSET (1 .. m)
      BY <2>2
    <3> QED BY <1>2, <3>1
  <2> QED BY <2>1, <2>2
<1>3. Nat \subseteq T
  <2>1. \A m \in Nat : m \in T => m + 1 \in T
    BY <1>2
  <2> HIDE DEF T
  <2> QED BY <1>1, <2>1, Induction
<1>4. PICK i \in S : \A j \in S : j <= i
  <2>1. n \in T
    BY <1>3
  <2> QED BY <2>1
<1>5. Max(S) = i
  <2>1. S \subseteq Int
    OBVIOUS
  <2> QED BY <1>4, <2>1, MaxIs
<1> QED BY <1>5

\* What the recursive function of AbsorbAll is: the state after each item.
LEMMA AbsorbAllFolds ==
  ASSUME NEW st, NEW S, NEW payload \in Seq(S)
  PROVE  \E f : /\ AbsorbAll(st, payload) = f[Len(payload)]
                /\ f[0] = st
                /\ \A k \in 1 .. Len(payload) : f[k] = Absorb(f[k - 1], payload[k])
<1> DEFINE Def(f, n) == f = [k \in 0 .. n |-> IF k = 0 THEN st ELSE Absorb(f[k - 1], payload[k])]
           T == {n \in Nat : \E f : Def(f, n)}
           after == CHOOSE after : Def(after, Len(payload))
<1>1. 0 \in T
  <2> DEFINE f == [k \in 0 .. 0 |-> st]
  <2>1. Def(f, 0)
    OBVIOUS
  <2> QED BY <2>1
<1>2. ASSUME NEW n \in Nat, n \in T PROVE n + 1 \in T
  <2>1. PICK f : Def(f, n)
    BY <1>2
  <2> DEFINE g == [k \in 0 .. n + 1 |-> IF k = n + 1 THEN Absorb(f[n], payload[n + 1]) ELSE f[k]]
  <2>2. Def(g, n + 1)
    BY <2>1
  <2>3. \E h : Def(h, n + 1)
    <3> HIDE DEF Def, g
    <3> QED BY <2>2
  <2> HIDE DEF Def
  <2> QED BY <2>3
<1>3. Len(payload) \in Nat
  BY LenProperties
<1>4. Nat \subseteq T
  <2>1. \A n \in Nat : n \in T => n + 1 \in T
    BY <1>2
  <2> HIDE DEF T
  <2> QED BY <1>1, <2>1, Induction
<1>5. Def(after, Len(payload))
  BY <1>3, <1>4
<1>6. AbsorbAll(st, payload) = after[Len(payload)]
  BY DEF AbsorbAll
<1>7. after[0] = st /\ \A k \in 1 .. Len(payload) : after[k] = Absorb(after[k - 1], payload[k])
  <2> HIDE DEF after
  <2> QED BY <1>3, <1>5
<1> QED
  <2> HIDE DEF after
  <2> QED BY <1>6, <1>7

\* The fields of a model, written one by one.
Fields(groups, capabilities, labels, observed, installed) ==
  [groups |-> groups, capabilities |-> capabilities, labels |-> labels,
   observed |-> observed, installed |-> installed]

\* The three changes the model makes to them.
WithGroup(st, g, v) == [st EXCEPT !.groups[g] = v]
WithSystem(st, p, q, r) == [st EXCEPT !.capabilities = p, !.labels = q, !.observed = r]
WithZones(st, p, q) == [st EXCEPT !.observed = p, !.installed = q]

\* Storing a group, field by field.
LEMMA StoredFields ==
  ASSUME NEW a, NEW b, NEW c, NEW d, NEW e, NEW g, NEW v
  PROVE  WithGroup(Fields(a, b, c, d, e), g, v) = Fields([a EXCEPT ![g] = v], b, c, d, e)
  BY DEF Fields, WithGroup

\* Two and three changes are made one after the other.
LEMMA SystemFields ==
  ASSUME NEW a, NEW b, NEW c, NEW d, NEW e, NEW p, NEW q, NEW r
  PROVE  WithSystem(Fields(a, b, c, d, e), p, q, r) = Fields(a, p, q, r, e)
<1>1. ASSUME NEW s
      PROVE  [s EXCEPT !.capabilities = p, !.labels = q, !.observed = r]
                = [[[s EXCEPT !.capabilities = p] EXCEPT !.labels = q] EXCEPT !.observed = r]
  OBVIOUS
<1>2. [Fields(a, b, c, d, e) EXCEPT !.capabilities = p] = Fields(a, p, c, d, e)
  BY DEF Fields
<1>3. [Fields(a, p, c, d, e) EXCEPT !.labels = q] = Fields(a, p, q, d, e)
  BY DEF Fields
<1>4. [Fields(a, p, q, d, e) EXCEPT !.observed = r] = Fields(a, p, q, r, e)
  BY DEF Fields
<1>5. [Fields(a, b, c, d, e) EXCEPT !.capabilities = p, !.labels = q, !.observed = r]
         = [[[Fields(a, b, c, d, e) EXCEPT !.capabilities = p] EXCEPT !.labels = q]
              EXCEPT !.observed = r]
  BY <1>1
<1>6. [[[Fields(a, b, c, d, e) EXCEPT !.capabilities = p] EXCEPT !.labels = q]
         EXCEPT !.observed = r]
         = [[Fields(a, p, c, d, e) EXCEPT !.labels = q] EXCEPT !.observed = r]
  BY <1>2
<1>7. [[Fields(a, p, c, d, e) EXCEPT !.labels = q] EXCEPT !.observed = r]
         = [Fields(a, p, q, d, e) EXCEPT !.observed = r]
  BY <1>3
<1> QED BY <1>4, <1>5, <1>6, <1>7 DEF WithSystem

\* The same for a mode group's two fields.
LEMMA ZonesFields ==
  ASSUME NEW a, NEW b, NEW c, NEW d, NEW e, NEW p, NEW q
  PROVE  WithZones(Fields(a, b, c, d, e), p, q) = Fields(a, b, c, p, q)
<1>1. ASSUME NEW s
      PROVE  [s EXCEPT !.observed = p, !.installed = q]
                = [[s EXCEPT !.observed = p] EXCEPT !.installed = q]
  OBVIOUS
<1>2. [Fields(a, b, c, d, e) EXCEPT !.observed = p] = Fields(a, b, c, p, e)
  BY DEF Fields
<1>3. [Fields(a, b, c, p, e) EXCEPT !.installed = q] = Fields(a, b, c, p, q)
  BY DEF Fields
<1>4. [Fields(a, b, c, d, e) EXCEPT !.observed = p, !.installed = q]
         = [[Fields(a, b, c, d, e) EXCEPT !.observed = p] EXCEPT !.installed = q]
  BY <1>1
<1>5. [[Fields(a, b, c, d, e) EXCEPT !.observed = p] EXCEPT !.installed = q]
         = [Fields(a, b, c, p, e) EXCEPT !.installed = q]
  BY <1>2
<1> QED BY <1>3, <1>4, <1>5 DEF WithZones

\* Observing a SYST group, field by field.
LEMMA ObserveSystemFields ==
  ASSUME NEW a, NEW b, NEW c, NEW d, NEW e, NEW x
  PROVE  ObserveSystem(Fields(a, b, c, d, e), x) =
            Fields(a, b \cup {k \in Flagged : x.available[k] = "Y"},
                   [l \in DOMAIN c |-> IF Named(x.labels[l]) THEN x.labels[l] ELSE c[l]],
                   d \cup {z \in Zones : Named(x.labels[z])}, e)
<1> DEFINE old == Fields(a, b, c, d, e)
           caps == {k \in Flagged : x.available[k] = "Y"}
           zones == {z \in Zones : Named(x.labels[z])}
           Labels(f) == [l \in DOMAIN f |-> IF Named(x.labels[l]) THEN x.labels[l] ELSE f[l]]
           p == old.capabilities \cup caps
           q == Labels(old.labels)
           r == old.observed \cup zones
<1>1. ObserveSystem(old, x) = WithSystem(old, p, q, r)
  <2> HIDE DEF old
  <2> QED BY DEF ObserveSystem, WithSystem
<1>2. WithSystem(old, p, q, r) = Fields(a, p, q, r, e)
  <2> HIDE DEF p, q, r
  <2> QED BY SystemFields
<1>3. p = b \cup caps /\ q = Labels(c) /\ r = d \cup zones
  <2>1. old.capabilities = b /\ old.labels = c /\ old.observed = d
    BY DEF Fields
  <2> HIDE DEF old, Labels, caps, zones
  <2> QED BY <2>1
<1> QED
  <2>1. ObserveSystem(old, x) = Fields(a, b \cup caps, Labels(c), d \cup zones, e)
    <3> HIDE DEF old, p, q, r, caps, zones, Labels
    <3> QED BY <1>1, <1>2, <1>3
  <2> QED BY <2>1

\* Observing a mode group, field by field.
LEMMA ObserveModeGroupFields ==
  ASSUME NEW a, NEW b, NEW c, NEW d, NEW e, NEW x
  PROVE  ObserveModeGroup(Fields(a, b, c, d, e), x) =
            Fields(a, b, c,
                   d \cup {z \in Zones : x.installed[z] # "-" \/ x.reading[z] # Absent},
                   e \cup {z \in Zones : x.installed[z] = "Y"})
<1> DEFINE old == Fields(a, b, c, d, e)
           zones == {z \in Zones : x.installed[z] # "-" \/ x.reading[z] # Absent}
           latched == {z \in Zones : x.installed[z] = "Y"}
           p == old.observed \cup zones
           q == old.installed \cup latched
<1>1. ObserveModeGroup(old, x) = WithZones(old, p, q)
  <2> HIDE DEF old
  <2> QED BY DEF ObserveModeGroup, WithZones
<1>2. WithZones(old, p, q) = Fields(a, b, c, p, q)
  <2> HIDE DEF p, q
  <2> QED BY ZonesFields
<1>3. p = d \cup zones /\ q = e \cup latched
  <2>1. old.observed = d /\ old.installed = e
    BY DEF Fields
  <2> HIDE DEF old, zones, latched
  <2> QED BY <2>1
<1> QED
  <2>1. ObserveModeGroup(old, x) = Fields(a, b, c, d \cup zones, e \cup latched)
    <3> HIDE DEF old, p, q, zones, latched
    <3> QED BY <1>1, <1>2, <1>3
  <2> QED BY <2>1

\* One more item says what absorbing it does.
LEMMA SaidOneMore ==
  ASSUME NEW st, NEW n \in Nat, NEW before, DOMAIN before = 1 .. n,
         NEW items, DOMAIN items = 1 .. n + 1, \A i \in 1 .. n : items[i] = before[i]
  PROVE  Said(st, items) = Absorb(Said(st, before), items[n + 1])
<1> DEFINE x == items[n + 1]
           spoken == x.value # Opaque
           old == Said(st, before)
<1>1. ASSUME NEW S \in SUBSET (1 .. n + 1), n + 1 \in S PROVE Max(S) = n + 1
  <2>1. \A j \in S : j <= n + 1
    OBVIOUS
  <2>2. S \subseteq Int
    OBVIOUS
  <2> QED BY <1>1, <2>1, <2>2, MaxIs
<1>2. ASSUME NEW g PROVE Of(items, g) = Of(before, g) \cup (IF x.group = g THEN {n + 1} ELSE {})
  BY DEF Of
<1>3. ASSUME NEW g
      PROVE  Objects(items, g) = Objects(before, g)
                \cup (IF x.group = g /\ spoken THEN {n + 1} ELSE {})
  BY DEF Objects, Of
<1>4. ModeObjects(items) = ModeObjects(before)
         \cup (IF x.group \in Modes /\ spoken THEN {n + 1} ELSE {})
  BY DEF ModeObjects
<1>5. ASSUME NEW l
      PROVE  Naming(items, l) = Naming(before, l)
                \cup (IF x.group = System /\ spoken /\ Named(x.value.labels[l])
                      THEN {n + 1} ELSE {})
  BY DEF Naming, Objects, Of
<1>6. ASSUME NEW g
      PROVE  LastOf(items, g, st.groups[g]) =
                IF x.group = g THEN x.value ELSE LastOf(before, g, st.groups[g])
  <2>1. CASE x.group = g
    <3>1. n + 1 \in Of(items, g) /\ Of(items, g) \in SUBSET (1 .. n + 1)
      BY <2>1 DEF Of
    <3> QED BY <1>1, <2>1, <3>1 DEF LastOf
  <2>2. CASE x.group # g
    <3>1. Of(items, g) = Of(before, g)
      BY <1>2, <2>2
    <3>2. CASE Of(before, g) = {}
      BY <2>2, <3>1, <3>2 DEF LastOf
    <3>3. CASE Of(before, g) # {}
      <4>1. Max(Of(before, g)) \in 1 .. n
        BY <3>3, MaxExists DEF Of
      <4> QED BY <2>2, <3>1, <3>3, <4>1 DEF LastOf
    <3> QED BY <3>2, <3>3
  <2> QED BY <2>1, <2>2
<1>7. ASSUME NEW l
      PROVE  LastLabel(items, l, st.labels[l]) =
                IF x.group = System /\ spoken /\ Named(x.value.labels[l])
                THEN x.value.labels[l] ELSE LastLabel(before, l, st.labels[l])
  <2> DEFINE named == x.group = System /\ spoken /\ Named(x.value.labels[l])
  <2>1. CASE named
    <3>1. n + 1 \in Naming(items, l) /\ Naming(items, l) \in SUBSET (1 .. n + 1)
      BY <2>1 DEF Naming, Objects, Of
    <3> QED BY <1>1, <2>1, <3>1 DEF LastLabel
  <2>2. CASE ~named
    <3>1. Naming(items, l) = Naming(before, l)
      BY <1>5, <2>2
    <3>2. CASE Naming(before, l) = {}
      BY <2>2, <3>1, <3>2 DEF LastLabel
    <3>3. CASE Naming(before, l) # {}
      <4>1. Max(Naming(before, l)) \in 1 .. n
        BY <3>3, MaxExists DEF Naming, Objects, Of
      <4> QED BY <2>2, <3>1, <3>3, <4>1 DEF LastLabel
    <3> QED BY <3>2, <3>3
  <2> QED BY <2>1, <2>2
<1>8. Shown(items) = Shown(before)
         \cup (IF x.group = System /\ spoken
               THEN {c \in Flagged : x.value.available[c] = "Y"} ELSE {})
  BY <1>3 DEF Shown, Objects, Of
<1>9. Observed(items) = Observed(before)
         \cup (IF x.group = System /\ spoken THEN {z \in Zones : Named(x.value.labels[z])} ELSE {})
         \cup (IF x.group \in Modes /\ spoken
               THEN {z \in Zones : x.value.installed[z] # "-" \/ x.value.reading[z] # Absent}
               ELSE {})
  <2>1. ASSUME NEW z \in Zones
        PROVE  z \in Observed(items) <=>
                  \/ z \in Observed(before)
                  \/ x.group = System /\ spoken /\ Named(x.value.labels[z])
                  \/ /\ x.group \in Modes /\ spoken
                     /\ x.value.installed[z] # "-" \/ x.value.reading[z] # Absent
    <3>1. Naming(items, z) # {} <=>
             Naming(before, z) # {} \/ (x.group = System /\ spoken /\ Named(x.value.labels[z]))
      BY <1>5
    <3>2. (\E i \in ModeObjects(items) : \/ items[i].value.installed[z] # "-"
                                         \/ items[i].value.reading[z] # Absent)
            <=> \/ \E i \in ModeObjects(before) : \/ before[i].value.installed[z] # "-"
                                                  \/ before[i].value.reading[z] # Absent
                \/ /\ x.group \in Modes /\ spoken
                   /\ x.value.installed[z] # "-" \/ x.value.reading[z] # Absent
      <4>1. \A i \in ModeObjects(before) : items[i] = before[i]
        BY DEF ModeObjects
      <4> QED BY <1>4, <4>1
    <3> QED BY <3>1, <3>2 DEF Observed
  <2>2. Observed(items) \subseteq Zones /\ Observed(before) \subseteq Zones
    BY DEF Observed
  <2> QED BY <2>1, <2>2
<1>10. Installed(items) = Installed(before)
          \cup (IF x.group \in Modes /\ spoken
                THEN {z \in Zones : x.value.installed[z] = "Y"} ELSE {})
  <2>1. \A i \in ModeObjects(before) : items[i] = before[i]
    BY DEF ModeObjects
  <2> QED BY <1>4, <2>1 DEF Installed
<1> DEFINE groups == [g \in Groups |-> LastOf(items, g, st.groups[g])]
           labels == [l \in Zones \cup {Unit} |-> LastLabel(items, l, st.labels[l])]
           oldGroups == [g \in Groups |-> LastOf(before, g, st.groups[g])]
           oldLabels == [l \in Zones \cup {Unit} |-> LastLabel(before, l, st.labels[l])]
           oldCaps == st.capabilities \cup Shown(before)
           oldObserved == st.observed \cup Observed(before)
           oldInstalled == st.installed \cup Installed(before)
           stored == Fields(groups, oldCaps, oldLabels, oldObserved, oldInstalled)
           caps == {c \in Flagged : x.value.available[c] = "Y"}
           zonesNamed == {z \in Zones : Named(x.value.labels[z])}
           zonesShown == {z \in Zones : x.value.installed[z] # "-" \/ x.value.reading[z] # Absent}
           zonesInstalled == {z \in Zones : x.value.installed[z] = "Y"}
<1>11. old = Fields(oldGroups, oldCaps, oldLabels, oldObserved, oldInstalled)
  BY DEF Said, Fields
<1>12. Said(st, items) = Fields(groups, st.capabilities \cup Shown(items), labels,
                                st.observed \cup Observed(items),
                                st.installed \cup Installed(items))
  BY DEF Said, Fields
<1>13. Absorb(old, x) = ObserveGroup(stored, x)
  <2>1. [oldGroups EXCEPT ![x.group] = x.value] = groups
    BY <1>6
  <2> HIDE DEF x, oldGroups, groups, oldCaps, oldLabels, oldObserved, oldInstalled, old
  <2>2. WithGroup(old, x.group, x.value) = stored
    BY <1>11, <2>1, StoredFields
  <2> HIDE DEF stored
  <2> QED BY <2>2 DEF Absorb, WithGroup
<1>14. ~(x.group = System /\ spoken) => labels = oldLabels
  BY <1>7
<1>15. x.group = System /\ spoken =>
          labels = [l \in DOMAIN oldLabels |-> IF Named(x.value.labels[l]) THEN x.value.labels[l]
                                                                          ELSE oldLabels[l]]
  BY <1>7
<1> HIDE DEF old, groups, labels, oldGroups, oldLabels
<1>16. CASE ~spoken \/ x.group \notin Modes \cup {System}
  <2>1. ObserveGroup(stored, x) = stored
    BY <1>16 DEF ObserveGroup
  <2>2. /\ Shown(items) = Shown(before) /\ Observed(items) = Observed(before)
        /\ Installed(items) = Installed(before)
    BY <1>8, <1>9, <1>10, <1>16
  <2>3. labels = oldLabels
    BY <1>14, <1>16
  <2> QED BY <1>12, <1>13, <2>1, <2>2, <2>3 DEF old
<1>17. CASE spoken /\ x.group = System
  <2>1. ObserveGroup(stored, x) = ObserveSystem(stored, x.value)
    <3> HIDE DEF stored
    <3> QED BY <1>17, ModesAreCodes DEF ObserveGroup
  <2>2. /\ Shown(items) = Shown(before) \cup caps
        /\ Observed(items) = Observed(before) \cup zonesNamed
        /\ Installed(items) = Installed(before)
    BY <1>8, <1>9, <1>10, <1>17, ModesAreCodes
  <2>3. ObserveSystem(stored, x.value) =
           Fields(groups, oldCaps \cup caps, labels, oldObserved \cup zonesNamed, oldInstalled)
    <3> HIDE DEF oldCaps, oldObserved, oldInstalled
    <3> QED BY <1>15, <1>17, ObserveSystemFields
  <2>4. /\ st.capabilities \cup Shown(items) = oldCaps \cup caps
        /\ st.observed \cup Observed(items) = oldObserved \cup zonesNamed
        /\ st.installed \cup Installed(items) = oldInstalled
    <3> HIDE DEF caps, zonesNamed
    <3> QED BY <2>2
  <2> HIDE DEF stored, oldCaps, oldObserved, oldInstalled, caps, zonesNamed
  <2> QED BY <1>12, <1>13, <2>1, <2>3, <2>4 DEF old
<1>18. CASE spoken /\ x.group \in Modes
  <2>1. ObserveGroup(stored, x) = ObserveModeGroup(stored, x.value)
    <3> HIDE DEF stored
    <3> QED BY <1>18, ModesAreCodes DEF ObserveGroup
  <2>2. /\ Shown(items) = Shown(before)
        /\ Observed(items) = Observed(before) \cup zonesShown
        /\ Installed(items) = Installed(before) \cup zonesInstalled
    BY <1>8, <1>9, <1>10, <1>18, ModesAreCodes
  <2>3. labels = oldLabels
    BY <1>14, <1>18, ModesAreCodes
  <2>4. ObserveModeGroup(stored, x.value) =
           Fields(groups, oldCaps, labels, oldObserved \cup zonesShown,
                  oldInstalled \cup zonesInstalled)
    <3> HIDE DEF oldCaps, oldObserved, oldInstalled
    <3> QED BY <2>3, ObserveModeGroupFields
  <2>5. /\ st.capabilities \cup Shown(items) = oldCaps
        /\ st.observed \cup Observed(items) = oldObserved \cup zonesShown
        /\ st.installed \cup Installed(items) = oldInstalled \cup zonesInstalled
    <3> HIDE DEF zonesShown, zonesInstalled
    <3> QED BY <2>2
  <2> HIDE DEF stored, oldCaps, oldObserved, oldInstalled, zonesShown, zonesInstalled
  <2> QED BY <1>12, <1>13, <2>1, <2>4, <2>5 DEF old
<1> QED BY <1>16, <1>17, <1>18 DEF old

\* Absorbing a payload, item after item, says what the longer list of items says.
LEMMA SaidOfPayload ==
  ASSUME NEW st, NEW S, NEW items \in Seq(S), NEW payload \in Seq(S)
  PROVE  AbsorbAll(Said(st, items), payload) = Said(st, items \o payload)
<1> DEFINE n == Len(items)
           len == Len(payload)
           all == items \o payload
           Upto(k) == [i \in 1 .. n + k |-> all[i]]
<1>1. n \in Nat /\ len \in Nat /\ DOMAIN items = 1 .. n /\ DOMAIN payload = 1 .. len
  BY LenProperties
<1>2. /\ all \in Seq(S) /\ Len(all) = n + len
      /\ \A i \in 1 .. n : all[i] = items[i]
      /\ \A k \in 1 .. len : all[n + k] = payload[k]
  <2>1. \A i \in 1 .. Len(all) : all[i] = IF i <= n THEN items[i] ELSE payload[i - n]
    BY ConcatProperties
  <2>2. all \in Seq(S) /\ Len(all) = n + len
    BY ConcatProperties
  <2> HIDE DEF all, n, len
  <2>3. \A i \in 1 .. n : all[i] = items[i]
    BY <1>1, <2>1, <2>2
  <2>4. ASSUME NEW k \in 1 .. len PROVE all[n + k] = payload[k]
    <3>1. n + k \in 1 .. Len(all) /\ ~(n + k <= n) /\ n + k - n = k
      BY <1>1, <2>2
    <3>2. all[n + k] = payload[n + k - n]
      BY <1>1, <2>1, <3>1
    <3> QED BY <3>1, <3>2
  <2> QED BY <2>2, <2>3, <2>4
<1>3. PICK f : /\ AbsorbAll(Said(st, items), payload) = f[len]
               /\ f[0] = Said(st, items)
               /\ \A k \in 1 .. len : f[k] = Absorb(f[k - 1], payload[k])
  BY AbsorbAllFolds
<1> DEFINE T == {k \in Nat : k <= len => f[k] = Said(st, Upto(k))}
<1> HIDE DEF n, len, all
<1>4. 0 \in T
  <2>1. Upto(0) = items
    <3>1. \E m \in Nat : items \in [1 .. m -> S]
      BY SeqDef
    <3> QED BY <1>1, <1>2, <3>1
  <2> HIDE DEF Upto
  <2> QED BY <1>3, <2>1
<1>5. ASSUME NEW k \in Nat, k \in T PROVE k + 1 \in T
  <2> SUFFICES ASSUME k + 1 <= len PROVE f[k + 1] = Said(st, Upto(k + 1))
    OBVIOUS
  <2>1. f[k] = Said(st, Upto(k))
    BY <1>1, <1>5
  <2>2. k + 1 \in 1 .. len /\ k + 1 - 1 = k
    BY <1>1
  <2>3. f[k + 1] = Absorb(f[k], payload[k + 1])
    BY <1>3, <2>2
  <2>4. /\ n + k \in Nat
        /\ DOMAIN Upto(k) = 1 .. n + k
        /\ DOMAIN Upto(k + 1) = 1 .. n + k + 1
        /\ \A i \in 1 .. n + k : Upto(k + 1)[i] = Upto(k)[i]
    BY <1>1
  <2>5. Upto(k + 1)[n + k + 1] = payload[k + 1]
    BY <1>1, <1>2, <2>2
  <2> HIDE DEF Upto, T
  <2>6. Said(st, Upto(k + 1)) = Absorb(Said(st, Upto(k)), Upto(k + 1)[n + k + 1])
    BY <2>4, SaidOneMore
  <2> QED BY <2>1, <2>3, <2>5, <2>6
<1>6. len \in T
  <2>1. \A k \in Nat : k \in T => k + 1 \in T
    BY <1>5
  <2> HIDE DEF T
  <2> QED BY <1>1, <1>4, <2>1, Induction
<1>7. Upto(len) = all
  <2>1. \E m \in Nat : all \in [1 .. m -> S]
    BY <1>2, SeqDef
  <2>2. DOMAIN all = 1 .. n + len
    BY <1>2, LenProperties
  <2> QED BY <2>1, <2>2
<1>8. f[len] = Said(st, Upto(len))
  BY <1>1, <1>6
<1> QED BY <1>3, <1>7, <1>8 DEF all, len

\* No items say nothing.
LEMMA SaidNothing ==
  ASSUME NEW st, NEW a, NEW b, NEW c, NEW d, NEW e, st = Fields(a, b, c, d, e),
         a = [g \in Groups |-> a[g]], c = [l \in Zones \cup {Unit} |-> c[l]]
  PROVE  Said(st, << >>) = st
<1>1. DOMAIN << >> = {}
  OBVIOUS
<1>2. st.groups = a /\ st.capabilities = b /\ st.labels = c /\ st.observed = d /\ st.installed = e
  BY DEF Fields
<1>3. [g \in Groups |-> LastOf(<< >>, g, st.groups[g])] = a
  BY <1>1, <1>2 DEF LastOf, Of
<1>4. [l \in Zones \cup {Unit} |-> LastLabel(<< >>, l, st.labels[l])] = c
  BY <1>1, <1>2 DEF LastLabel, Naming, Objects, Of
<1>5. Shown(<< >>) = {}
  BY <1>1 DEF Shown, Objects, Of
<1>6. Observed(<< >>) = {} /\ Installed(<< >>) = {}
  BY <1>1 DEF Observed, Installed, ModeObjects, Naming, Objects, Of
<1>7. Said(st, << >>) =
         Fields([g \in Groups |-> LastOf(<< >>, g, st.groups[g])],
                st.capabilities \cup Shown(<< >>),
                [l \in Zones \cup {Unit} |-> LastLabel(<< >>, l, st.labels[l])],
                st.observed \cup Observed(<< >>), st.installed \cup Installed(<< >>))
  BY DEF Said, Fields
<1>8. b \cup {} = b /\ d \cup {} = d /\ e \cup {} = e
  OBVIOUS
<1> QED BY <1>2, <1>3, <1>4, <1>5, <1>6, <1>7, <1>8

\* An empty model, and any model that says something, has nothing to add.
LEMMA SaidNothingMore ==
  ASSUME NEW items
  PROVE  Said(Empty, << >>) = Empty /\ Said(Said(Empty, items), << >>) = Said(Empty, items)
<1>1. Said(Empty, << >>) = Empty
  <2> DEFINE a == [g \in Groups |-> None]
             c == [l \in Zones \cup {Unit} |-> None]
  <2>1. Empty = Fields(a, {}, c, {}, {})
    BY DEF Empty, Fields
  <2>2. a = [g \in Groups |-> a[g]] /\ c = [l \in Zones \cup {Unit} |-> c[l]]
    OBVIOUS
  <2> HIDE DEF a, c
  <2> QED BY <2>1, <2>2, SaidNothing
<1>2. Said(Said(Empty, items), << >>) = Said(Empty, items)
  <2> DEFINE a == [g \in Groups |-> LastOf(items, g, Empty.groups[g])]
             b == Empty.capabilities \cup Shown(items)
             c == [l \in Zones \cup {Unit} |-> LastLabel(items, l, Empty.labels[l])]
             d == Empty.observed \cup Observed(items)
             e == Empty.installed \cup Installed(items)
  <2>1. Said(Empty, items) = Fields(a, b, c, d, e)
    BY DEF Said, Fields
  <2>2. a = [g \in Groups |-> a[g]] /\ c = [l \in Zones \cup {Unit} |-> c[l]]
    OBVIOUS
  <2> HIDE DEF a, b, c, d, e
  <2> QED BY <2>1, <2>2, SaidNothing
<1> QED BY <1>1, <1>2

----------------------------------------------------------------------------
\* The model is what the items of its life say, and the snapshot shows it.

LEMMA ModelInit == Init => ModelInv
<1> SUFFICES ASSUME Init PROVE ModelInv
  OBVIOUS
<1>1. history = << >> /\ model = Empty /\ snapshot = None
  BY DEF Init
<1>2. << >> \in Seq(Range(<< >>))
  OBVIOUS
<1> QED BY <1>1, <1>2, SaidNothingMore DEF ModelInv

LEMMA ModelStep == ModelInv /\ [Next]_vars => ModelInv'
<1> SUFFICES ASSUME ModelInv, [Next]_vars PROVE ModelInv'
  OBVIOUS
<1>1. ASSUME NEW frame \in Frames, Apply(frame) PROVE ModelInv'
  <2> DEFINE payload == frame.payload
             S == Range(history) \cup Range(payload)
  <2>1. history \in Seq(S) /\ payload \in Seq(S)
    <3>1. history \in Seq(Range(history)) /\ payload \in Seq(Range(payload))
      BY PayloadsAreLists DEF ModelInv
    <3> HIDE DEF payload
    <3>2. \A A, B : A \subseteq B => Seq(A) \subseteq Seq(B)
      OBVIOUS
    <3> QED BY <3>1, <3>2
  <2>2. history' = history \o payload /\ model' = AbsorbAll(model, payload)
        /\ snapshot' = Snapshot(model', frame.sequence)
    BY <1>1 DEF Apply
  <2> HIDE DEF payload, S
  <2>3. history' \in Seq(Range(history'))
    <3>1. history' \in Seq(S)
      BY <2>1, <2>2, ConcatProperties
    <3>2. \A s \in Seq(S) : s \in Seq(Range(s))
      <4> SUFFICES ASSUME NEW s \in Seq(S) PROVE s \in Seq(Range(s))
        OBVIOUS
      <4>1. PICK m \in Nat : s \in [1 .. m -> S]
        BY SeqDef
      <4>2. s \in [1 .. m -> Range(s)]
        BY <4>1 DEF Range
      <4> QED BY <4>2, SeqDef
    <3> QED BY <3>1, <3>2
  <2>4. model' = Said(Empty, history')
    BY <2>1, <2>2, SaidOfPayload DEF ModelInv
  <2>5. snapshot' = Snapshot(model', snapshot'.sequence)
    <3>1. snapshot'.sequence = frame.sequence
      BY <2>2 DEF Snapshot
    <3> QED BY <2>2, <3>1
  <2> QED BY <2>3, <2>4, <2>5 DEF ModelInv
<1>2. CASE UNCHANGED vars
  BY <1>2 DEF vars, ModelInv
<1> QED BY <1>1, <1>2 DEF Next

\* The fields of the model are exactly what the frames of its life said: what
\* apply() stored and observed item by item adds up, and the published snapshot
\* is the one of the model as it is.
THEOREM ModelInvariant == Spec => []ModelInv
  BY ModelInit, ModelStep, PTL DEF Spec

\* The fields of the model, read from the invariant.
LEMMA ModelFields ==
  ModelInv =>
    /\ model.groups = [g \in Groups |-> LastOf(history, g, None)]
    /\ model.capabilities = Shown(history)
    /\ model.labels = [l \in Zones \cup {Unit} |-> LastLabel(history, l, None)]
    /\ model.observed = Observed(history)
    /\ model.installed = Installed(history)
<1> SUFFICES ASSUME ModelInv
             PROVE  /\ model.groups = [g \in Groups |-> LastOf(history, g, None)]
                    /\ model.capabilities = Shown(history)
                    /\ model.labels = [l \in Zones \cup {Unit} |-> LastLabel(history, l, None)]
                    /\ model.observed = Observed(history)
                    /\ model.installed = Installed(history)
  OBVIOUS
<1>1. model = Said(Empty, history)
  BY DEF ModelInv
<1>2. /\ model.groups = [g \in Groups |-> LastOf(history, g, Empty.groups[g])]
      /\ model.capabilities = Empty.capabilities \cup Shown(history)
      /\ model.labels = [l \in Zones \cup {Unit} |-> LastLabel(history, l, Empty.labels[l])]
      /\ model.observed = Empty.observed \cup Observed(history)
      /\ model.installed = Empty.installed \cup Installed(history)
  BY <1>1 DEF Said
<1>3. /\ \A g \in Groups : Empty.groups[g] = None
      /\ \A l \in Zones \cup {Unit} : Empty.labels[l] = None
      /\ Empty.capabilities = {} /\ Empty.observed = {} /\ Empty.installed = {}
  BY DEF Empty
<1>4. [g \in Groups |-> LastOf(history, g, Empty.groups[g])]
         = [g \in Groups |-> LastOf(history, g, None)]
  BY <1>3
<1>5. [l \in Zones \cup {Unit} |-> LastLabel(history, l, Empty.labels[l])]
         = [l \in Zones \cup {Unit} |-> LastLabel(history, l, None)]
  BY <1>3
<1> QED BY <1>2, <1>3, <1>4, <1>5

\* The fields of a snapshot.
LEMMA SnapshotFields ==
  ASSUME NEW st, NEW sequence
  PROVE  LET shown == Snapshot(st, sequence) IN
         /\ shown.sequence = sequence
         /\ shown.capabilities = st.capabilities /\ shown.unit = st.labels[Unit]
         /\ DOMAIN shown.zones = st.observed
         /\ \A z \in st.observed : /\ shown.zones[z].name = st.labels[z]
                                   /\ shown.zones[z].installed = (z \in st.installed)
                                   /\ shown.zones[z].current = ZoneStatus(st, z)
  BY DEF Snapshot

\* The sets and functions of the model keep their type, and the snapshot has
\* the zones observed.
THEOREM TypeCorrect == Spec => []TypeOK
<1>1. ModelInv => TypeOK
  <2> SUFFICES ASSUME ModelInv PROVE TypeOK
    OBVIOUS
  <2>1. DOMAIN model.groups = Groups /\ DOMAIN model.labels = Zones \cup {Unit}
    BY ModelFields
  <2>2. model.capabilities \subseteq Flagged
    BY ModelFields DEF Shown
  <2>3. model.installed \subseteq model.observed /\ model.observed \subseteq Zones
    BY ModelFields DEF Installed, Observed
  <2>4. snapshot # None => DOMAIN snapshot.zones = model.observed
    BY SnapshotFields DEF ModelInv
  <2> QED BY <2>1, <2>2, <2>3, <2>4 DEF TypeOK
<1> QED BY <1>1, ModelInvariant, PTL

\* Capabilities, installed zones and observed zones of every published snapshot
\* are those some frame showed, and a name is the last one that was not blank.
THEOREM ObservationsOnlyAddUp == Spec => []ObservationsAddUp
<1>1. ModelInv => ObservationsAddUp
  <2> SUFFICES ASSUME ModelInv, snapshot # None PROVE ObservationsAddUp
    BY DEF ObservationsAddUp
  <2>1. snapshot = Snapshot(model, snapshot.sequence)
    BY DEF ModelInv
  <2>2. /\ snapshot.capabilities = model.capabilities
        /\ snapshot.unit = model.labels[Unit]
        /\ DOMAIN snapshot.zones = model.observed
        /\ \A z \in model.observed : /\ snapshot.zones[z].name = model.labels[z]
                                     /\ snapshot.zones[z].installed = (z \in model.installed)
    BY <2>1, SnapshotFields
  <2>3. Observed(history) \subseteq Zones
    BY DEF Observed
  <2>4. \A l \in Zones \cup {Unit} : model.labels[l] = LastLabel(history, l, None)
    BY ModelFields
  <2>5. /\ model.capabilities = Shown(history) /\ model.observed = Observed(history)
        /\ model.installed = Installed(history)
    BY ModelFields
  <2> QED BY <2>2, <2>3, <2>4, <2>5 DEF ObservationsAddUp
<1> QED BY <1>1, ModelInvariant, PTL

\* A zone's reading is of the group the latest SYST makes active, it is a number
\* the module sent there, and never the sentinel for no reading.
THEOREM ReadingsAreOfTheActiveMode == Spec => []ReadingIsOfTheActiveMode
<1>1. ModelInv => ReadingIsOfTheActiveMode
  <2> DEFINE system == LastOf(history, System, None)
             named  == IF system \in {None, Opaque} THEN None ELSE system.mode
             latest == IF named \in Modes THEN LastOf(history, named, None) ELSE None
  <2> SUFFICES ASSUME ModelInv, snapshot # None, NEW z \in DOMAIN snapshot.zones
               PROVE  LET status == snapshot.zones[z].current IN
                      /\ status # None => /\ latest \notin {None, Opaque}
                                          /\ status.measured \in {None, latest.reading[z]}
                      /\ status = None =>
                           \/ latest \in {None, Opaque}
                           \/ latest.reading[z] \in {Absent, Opaque}
                      /\ status # None => status.measured # Sentinel
    BY DEF ReadingIsOfTheActiveMode
  <2>1. snapshot.zones[z].current = ZoneStatus(model, z)
    BY SnapshotFields DEF ModelInv
  <2>2. \A g \in Groups : model.groups[g] = LastOf(history, g, None)
    BY ModelFields
  <2>3. Latest(model, "mode") = named
    BY <2>2 DEF Latest, Groups
  <2>4. ActiveGroup(model) = IF named \in Modes THEN named ELSE None
    BY <2>3 DEF ActiveGroup
  <2> HIDE DEF named
  <2>5. CASE named \notin Modes
    <3>1. ZoneStatus(model, z) = None
      BY <2>4, <2>5 DEF ZoneStatus
    <3> QED BY <2>1, <2>5, <3>1
  <2>6. CASE named \in Modes
    <3>1. /\ ActiveGroup(model) = named /\ named # None
          /\ model.groups[named] = latest
      BY <2>2, <2>4, <2>6, ModesAreCodes DEF Groups
    <3> HIDE DEF latest
    <3>2. CASE latest \in {None, Opaque} \/ latest.reading[z] \in {Absent, Opaque}
      <4>1. ZoneStatus(model, z) = None
        BY <3>1, <3>2 DEF ZoneStatus
      <4> QED BY <2>1, <3>2, <4>1
    <3>3. CASE latest \notin {None, Opaque} /\ latest.reading[z] \notin {Absent, Opaque}
      <4> DEFINE raw == latest.reading[z]
      <4>1. ZoneStatus(model, z) = [measured |-> Measured(raw)]
        BY <3>1, <3>3 DEF ZoneStatus
      <4>2. Measured(raw) \in Int \cup {None} /\ Measured(raw) \in {None, raw}
        BY DEF Measured
      <4>3. Measured(raw) # Sentinel
        BY NoneIsNoStatus DEF Measured, Sentinel
      <4> HIDE DEF raw
      <4>4. ZoneStatus(model, z) # None
        BY <4>1, <4>2, NoneIsNoStatus
      <4>5. ZoneStatus(model, z).measured = Measured(raw)
        BY <4>1
      <4> QED BY <2>1, <3>3, <4>2, <4>3, <4>4, <4>5 DEF raw
    <3> QED BY <3>2, <3>3
  <2> QED BY <2>5, <2>6
<1> QED BY <1>1, ModelInvariant, PTL

----------------------------------------------------------------------------
\* The order of the groups of one frame.

\* Where each group is listed once, the one copy is the last.
LEMMA OnlyCopyIsLast ==
  ASSUME NEW n \in Nat, NEW p, DOMAIN p = 1 .. n, Distinct(p)
  PROVE  /\ \A g, o : \A i \in Of(p, g) : LastOf(p, g, o) = p[i].value
         /\ \A l, o : \A i \in Naming(p, l) : LastLabel(p, l, o) = p[i].value.labels[l]
<1>1. ASSUME NEW g, NEW i \in Of(p, g), NEW R \in SUBSET Of(p, g), i \in R PROVE Max(R) = i
  <2>1. Of(p, g) \subseteq 1 .. n
    BY DEF Of
  <2>2. \A j \in R : j = i
    BY <1>1 DEF Of, Distinct
  <2>3. R \subseteq Int /\ \A j \in R : j <= i
    BY <2>1, <2>2
  <2> QED BY <1>1, <2>3, MaxIs
<1>2. ASSUME NEW g, NEW o, NEW i \in Of(p, g) PROVE LastOf(p, g, o) = p[i].value
  BY <1>1 DEF LastOf
<1>3. ASSUME NEW l, NEW o, NEW i \in Naming(p, l) PROVE LastLabel(p, l, o) = p[i].value.labels[l]
  <2>1. Naming(p, l) \in SUBSET Of(p, System)
    BY DEF Naming, Objects
  <2>2. Max(Naming(p, l)) = i
    BY <1>1, <2>1
  <2> QED BY <2>2 DEF LastLabel
<1> QED BY <1>2, <1>3

\* Reversing such a payload changes nothing it says.
LEMMA ReverseSaysTheSame ==
  ASSUME NEW st, NEW S, NEW p \in Seq(S), Distinct(p)
  PROVE  Reverse(p) \in Seq(S) /\ Said(st, Reverse(p)) = Said(st, p)
<1> DEFINE n == Len(p)
           q == Reverse(p)
           to(i) == n - i + 1
<1>1. n \in Nat /\ DOMAIN p = 1 .. n /\ p \in [1 .. n -> S]
  BY LenProperties
<1>2. q = [i \in 1 .. n |-> p[to(i)]]
  BY DEF Reverse
<1> HIDE DEF n, q
<1>3. \A i \in 1 .. n : to(i) \in 1 .. n /\ to(to(i)) = i
  BY <1>1
<1> HIDE DEF to
<1>4. q \in [1 .. n -> S] /\ q \in Seq(S)
  <2>1. q \in [1 .. n -> S]
    BY <1>1, <1>2, <1>3
  <2> QED BY <1>1, <2>1, SeqDef
<1>5. DOMAIN q = 1 .. n /\ \A i \in 1 .. n : q[i] = p[to(i)] /\ p[i] = q[to(i)]
  BY <1>2, <1>3
<1>6. Distinct(q)
  <2> SUFFICES ASSUME NEW i \in 1 .. n, NEW j \in 1 .. n, i # j PROVE q[i].group # q[j].group
    BY <1>5 DEF Distinct
  <2>1. to(i) \in 1 .. n /\ to(j) \in 1 .. n /\ to(i) # to(j)
    BY <1>3
  <2> QED BY <1>1, <1>5, <2>1 DEF Distinct
<1>7. ASSUME NEW g
      PROVE  /\ \A i \in Of(p, g) : to(i) \in Of(q, g)
             /\ \A i \in Of(q, g) : to(i) \in Of(p, g)
  BY <1>1, <1>3, <1>5 DEF Of
<1>8. /\ \A i \in Objects(p, System) : to(i) \in Objects(q, System) /\ q[to(i)] = p[i]
      /\ \A i \in Objects(q, System) : to(i) \in Objects(p, System) /\ p[to(i)] = q[i]
  BY <1>1, <1>3, <1>5, <1>7 DEF Objects, Of
<1>9. /\ \A i \in ModeObjects(p) : to(i) \in ModeObjects(q) /\ q[to(i)] = p[i]
      /\ \A i \in ModeObjects(q) : to(i) \in ModeObjects(p) /\ p[to(i)] = q[i]
  BY <1>1, <1>3, <1>5 DEF ModeObjects
<1>10. ASSUME NEW l
       PROVE  /\ \A i \in Naming(p, l) : to(i) \in Naming(q, l) /\ q[to(i)] = p[i]
              /\ \A i \in Naming(q, l) : to(i) \in Naming(p, l) /\ p[to(i)] = q[i]
  BY <1>8 DEF Naming
<1>11. ASSUME NEW g, NEW o PROVE LastOf(q, g, o) = LastOf(p, g, o)
  <2>1. CASE Of(p, g) = {}
    <3>1. Of(q, g) = {}
      BY <1>7, <2>1
    <3> QED BY <2>1, <3>1 DEF LastOf
  <2>2. CASE Of(p, g) # {}
    <3>1. PICK i \in Of(p, g) : TRUE
      BY <2>2
    <3>2. to(i) \in Of(q, g) /\ q[to(i)] = p[i]
      BY <1>1, <1>5, <1>7 DEF Of
    <3> QED BY <1>1, <1>5, <1>6, <3>1, <3>2, OnlyCopyIsLast
  <2> QED BY <2>1, <2>2
<1>12. ASSUME NEW l, NEW o PROVE LastLabel(q, l, o) = LastLabel(p, l, o)
  <2>1. CASE Naming(p, l) = {}
    <3>1. Naming(q, l) = {}
      BY <1>10, <2>1
    <3> QED BY <2>1, <3>1 DEF LastLabel
  <2>2. CASE Naming(p, l) # {}
    <3>1. PICK i \in Naming(p, l) : TRUE
      BY <2>2
    <3>2. to(i) \in Naming(q, l) /\ q[to(i)] = p[i]
      BY <1>10
    <3> QED BY <1>1, <1>5, <1>6, <3>1, <3>2, OnlyCopyIsLast
  <2> QED BY <2>1, <2>2
<1>13. Shown(q) = Shown(p)
  BY <1>8 DEF Shown
<1>14. Installed(q) = Installed(p)
  BY <1>9 DEF Installed
<1>15. Observed(q) = Observed(p)
  <2>1. \A z : Naming(q, z) # {} <=> Naming(p, z) # {}
    BY <1>10
  <2>2. ASSUME NEW z
        PROVE  (\E i \in ModeObjects(q) : \/ q[i].value.installed[z] # "-"
                                         \/ q[i].value.reading[z] # Absent)
                 <=> (\E i \in ModeObjects(p) : \/ p[i].value.installed[z] # "-"
                                               \/ p[i].value.reading[z] # Absent)
    BY <1>9
  <2> QED BY <2>1, <2>2 DEF Observed
<1>16. Said(st, q) = Said(st, p)
  <2>1. [g \in Groups |-> LastOf(q, g, st.groups[g])]
           = [g \in Groups |-> LastOf(p, g, st.groups[g])]
    BY <1>11
  <2>2. [l \in Zones \cup {Unit} |-> LastLabel(q, l, st.labels[l])]
           = [l \in Zones \cup {Unit} |-> LastLabel(p, l, st.labels[l])]
    BY <1>12
  <2> QED BY <1>13, <1>14, <1>15, <2>1, <2>2 DEF Said
<1> QED BY <1>4, <1>16 DEF q

\* A frame that lists every group once publishes the same snapshot in reverse
\* order: the SYST group may come after the mode group it selects.
THEOREM OrderDoesNotMatter == Spec => OrderIsIrrelevant
<1>1. ModelInv /\ [Next]_vars =>
        [\A frame \in Frames : Apply(frame) /\ Distinct(frame.payload) =>
           snapshot' = Snapshot(AbsorbAll(model, Reverse(frame.payload)), frame.sequence)]_vars
  <2> SUFFICES ASSUME ModelInv, NEW frame \in Frames, Apply(frame), Distinct(frame.payload)
               PROVE  snapshot' = Snapshot(AbsorbAll(model, Reverse(frame.payload)), frame.sequence)
    OBVIOUS
  <2> DEFINE payload == frame.payload
             S == Range(payload)
             other == Reverse(payload)
  <2>1. snapshot' = Snapshot(AbsorbAll(model, payload), frame.sequence)
    BY DEF Apply
  <2>2. payload \in Seq(S)
    BY PayloadsAreLists
  <2> HIDE DEF payload, S
  <2>3. other \in Seq(S) /\ Said(model, other) = Said(model, payload)
    BY <2>2, ReverseSaysTheSame DEF payload
  <2> HIDE DEF other
  <2>4. Said(model, << >>) = model
    BY SaidNothingMore DEF ModelInv
  <2>5. ASSUME NEW p \in Seq(S) PROVE AbsorbAll(model, p) = Said(model, p)
    <3>1. << >> \in Seq(S) /\ << >> \o p = p
      OBVIOUS
    <3>2. AbsorbAll(Said(model, << >>), p) = Said(model, << >> \o p)
      BY <3>1, SaidOfPayload
    <3> QED BY <2>4, <3>1, <3>2
  <2>6. AbsorbAll(model, payload) = AbsorbAll(model, other)
    BY <2>2, <2>3, <2>5
  <2> QED BY <2>1, <2>6 DEF payload, other
<1>2. [][\A frame \in Frames : Apply(frame) /\ Distinct(frame.payload) =>
           snapshot' = Snapshot(AbsorbAll(model, Reverse(frame.payload)), frame.sequence)]_vars
        => OrderIsIrrelevant
  BY DEF OrderIsIrrelevant
<1> QED BY <1>1, <1>2, ModelInvariant, PTL DEF Spec
=============================================================================
