------------------------- MODULE HealthCheckLogProofs -------------------------
(***************************************************************************)
(* Proofs about HealthCheckLog, for sectors of any size, readers that ask  *)
(* for any number of entries, and any number of faults, power cuts and     *)
(* appends.                                                                *)
(*                                                                         *)
(* At every moment one sector leads: a start would find it and go on in    *)
(* it.  Most of the predicates are about the contents of two sectors, the  *)
(* first of which leads or is written to, so that the lemmas can be used   *)
(* with the sectors in either role.                                        *)
(***************************************************************************)
EXTENDS HealthCheckLog, FiniteSetTheorems, WellFoundedInduction, TLAPS

Contents == [SlotNumbers -> Record \cup {Blank, Torn}]

Recs(f) == {i \in SlotNumbers : f[i] \in Record}

Full(f) == \A i \in SlotNumbers : f[i] # Blank

Ordered(f) == \A i, j \in Recs(f) : i < j => Older(f[i], f[j])

(* Every record of f is newer than every one of g.                         *)
After(f, g) == \A i \in Recs(f), j \in Recs(g) : Older(g[j], f[i])

(* What is used of a sector is a prefix of it.                             *)
Compact(f) == \A i, j \in SlotNumbers : i < j /\ f[i] = Blank => f[j] = Blank

(* There was an append for each used slot of f since the records of g; n   *)
(* is the number of appends so far.                                        *)
Distant(f, g, n) ==
  \A i \in SlotNumbers, j \in Recs(g) : f[i] # Blank => g[j].stamp + i + 1 <= n

(* f leads: it has the newest records, and none only if there are none.    *)
Lead(f, g, n) ==
  /\ Ordered(f) /\ Ordered(g) /\ After(f, g)
  /\ Distant(f, g, n)
  /\ IF Recs(f) = {} THEN Recs(g) = {} ELSE Compact(f)

(* f was blank when the log rolled to it: its first used slots are         *)
(* programmed since, for which there were length appends.                  *)
Fresh(f, g, used, length, n) ==
  /\ \A i \in SlotNumbers : f[i] = Blank <=> i >= used
  /\ Ordered(f) /\ Ordered(g) /\ After(f, g)
  /\ Recs(f) = {} => Recs(g) = {} \/ Full(g)
  /\ \A j \in Recs(g) : g[j].stamp + length <= n

(* f was full when the log rolled to it, since its erase was ignored: what *)
(* is programmed there is lost, and g still leads.                         *)
Vain(f, g, used, n) ==
  /\ Lead(g, f, n)
  /\ Full(f)
  /\ Full(g) \/ Recs(f) = {}
  /\ \A i \in Recs(f) : i >= used

(* h is what an erase that was cut short may leave of g.                   *)
Remains(g, h) == \A i \in SlotNumbers : h[i] \in {g[i], Blank, Torn}

(* The following are about the contents F of both sectors, and a set Q of  *)
(* acknowledged records.                                                   *)

(* The next start goes on in one of the sectors.                           *)
Led(F, n) == \E a \in Sectors : Lead(F[a], F[Other(a)], n)

(* All records have lower sequence numbers than the one to be given next.  *)
Below(F, m) == \A s \in Sectors : \A i \in Recs(F[s]) : F[s][i].sequence < m

(* For each acknowledged record there is one at least as high.             *)
Covers(F, Q) ==
  \A q \in Q : \E s \in Sectors : \E i \in Recs(F[s]) : q.sequence <= F[s][i].sequence

(* An acknowledged record is in the flash until there were as many appends *)
(* as a sector has slots, and a reader finds it there: it is not behind a  *)
(* blank slot.                                                             *)
Keeps(F, Q, n) ==
  /\ \A q \in Q : q.stamp + Slots <= n
                  \/ \E s \in Sectors : \E i \in Recs(F[s]) : F[s][i] = q
  /\ \A s \in Sectors : \A i \in SlotNumbers : \A j \in Recs(F[s]) :
       i < j /\ F[s][i] = Blank => F[s][j].stamp + Slots <= n

-------------------------------------------------------------------------------
(* Numbers and sets of numbers.                                            *)

(* Every set of naturals has a least element.                              *)
LEMMA LeastExists ==
  ASSUME NEW S \in SUBSET Nat, S # {}
  PROVE  \E x \in S : \A y \in S : x <= y
<1> DEFINE R == OpToRel(<, Nat)
<1>1. IsWellFoundedOn(R, Nat)
  BY NatLessThanWellFounded, Zenon
<1>2. \A y, x \in Nat : y < x => <<y, x>> \in R
  BY DEF OpToRel
<1> HIDE DEF R
<1>3. PICK x \in S : \A y \in S : ~(<<y, x>> \in R)
  BY <1>1, WFMin, Zenon
<1>4. \A y \in S : x <= y
  <2> TAKE y \in S
  <2>1. ~(<<y, x>> \in R) /\ x \in Nat /\ y \in Nat
    BY <1>3
  <2>2. ~(y < x)
    BY <1>2, <2>1
  <2> QED
    BY <2>1, <2>2
<1> QED
  BY <1>4

(* Least is what its name says.                                            *)
LEMMA LeastIs ==
  ASSUME NEW S \in SUBSET Nat, S # {}
  PROVE  Least(S) \in S /\ \A y \in S : Least(S) <= y
<1>1. \E x \in S : \A y \in S : x <= y
  BY LeastExists
<1> QED
  BY <1>1, Zenon DEF Least

(* Greatest is what its name says, for a bounded set.                      *)
LEMMA GreatestIs ==
  ASSUME NEW n \in Nat, NEW S \in SUBSET 0..n, S # {}
  PROVE  Greatest(S) \in S /\ \A y \in S : Greatest(S) >= y
<1> DEFINE T == {n - i : i \in S}
<1>1. T # {}
  BY Zenon
<1>2. T \in SUBSET Nat
  OBVIOUS
<1>3. PICK x \in T : \A y \in T : x <= y
  BY <1>1, <1>2, LeastExists, Zenon
<1>4. PICK i \in S : x = n - i
  OBVIOUS
<1>5. \A j \in S : i >= j
  BY <1>3, <1>4
<1> QED
  BY <1>5, Zenon DEF Greatest

(* The other sector.                                                       *)
LEMMA Others ==
  ASSUME NEW s \in Sectors
  PROVE  /\ Other(s) \in Sectors /\ Other(s) # s /\ Other(Other(s)) = s
         /\ Sectors = {s, Other(s)}
BY DEF Sectors, Other

(* The fields of a record; a record is neither blank nor torn.             *)
LEMMA Records ==
  /\ \A r \in Record : r.sequence \in Nat /\ r.stamp \in Nat /\ r.sequence >= 1
                       /\ r.stamp >= 1
  /\ Blank \notin Record /\ Torn \notin Record /\ Blank # Torn
BY LogAssumption, SectorStates DEF Record

-------------------------------------------------------------------------------
(* The two sectors.                                                        *)

(* What an interrupted erase leaves has no record of its own.              *)
LEMMA RemainsRecs ==
  ASSUME NEW g \in Contents, NEW h \in Contents, Remains(g, h)
  PROVE  Recs(h) \subseteq Recs(g) /\ \A i \in Recs(h) : h[i] = g[i]
BY Records DEF Remains, Recs, Contents

(* The leading sector still leads when the other one loses records.        *)
LEMMA LeadRemains ==
  ASSUME NEW f \in Contents, NEW g \in Contents, NEW h \in Contents, NEW n \in Nat,
         Lead(f, g, n), Remains(g, h)
  PROVE  Lead(f, h, n)
<1>1. Recs(h) \subseteq Recs(g) /\ \A i \in Recs(h) : h[i] = g[i]
  BY RemainsRecs
<1>2. Ordered(h)
  BY <1>1 DEF Lead, Ordered
<1>3. After(f, h)
  BY <1>1 DEF Lead, After
<1>4. Distant(f, h, n)
  BY <1>1 DEF Lead, Distant
<1> QED
  BY <1>1, <1>2, <1>3, <1>4 DEF Lead

(* A leading sector leads when another append begins.                      *)
LEMMA LeadLater ==
  ASSUME NEW f \in Contents, NEW g \in Contents, NEW n \in Nat, Lead(f, g, n)
  PROVE  Lead(f, g, n + 1)
<1>1. \A j \in Recs(g) : g[j].stamp \in Nat
  BY Records DEF Recs
<1>2. Distant(f, g, n + 1)
  BY <1>1 DEF Lead, Distant, SlotNumbers
<1> QED
  BY <1>2 DEF Lead

(* A sector that is being written to leads, or the full one before it      *)
(* still does, because no record was written since.                        *)
LEMMA FreshLeads ==
  ASSUME NEW f \in Contents, NEW g \in Contents, NEW n \in Nat, NEW used \in Nat,
         NEW length \in Nat, Fresh(f, g, used, length, n), used <= length
  PROVE  /\ Lead(f, g, n) \/ Lead(g, f, n)
         /\ Recs(f) # {} => Lead(f, g, n)
<1>1. \A j \in Recs(g) : g[j].stamp \in Nat
  BY Records DEF Recs
<1>2. Compact(f)
  BY DEF Fresh, Compact, SlotNumbers
<1>3. Distant(f, g, n)
  BY <1>1 DEF Fresh, Distant, SlotNumbers
<1>4. Recs(f) # {} \/ Recs(g) = {} => Lead(f, g, n)
  BY <1>2, <1>3 DEF Fresh, Lead
<1>5. ASSUME Recs(f) = {}, Recs(g) # {}
      PROVE  Lead(g, f, n)
  <2>1. Full(g)
    BY <1>5 DEF Fresh
  <2>2. Compact(g)
    BY <2>1 DEF Full, Compact
  <2>3. After(g, f) /\ Distant(g, f, n)
    BY <1>5 DEF After, Distant
  <2> QED
    BY <1>5, <2>2, <2>3 DEF Fresh, Lead
<1> QED
  BY <1>4, <1>5

(* An append begins: the distance to the records of the other sector       *)
(* grows.                                                                  *)
LEMMA FreshLater ==
  ASSUME NEW f \in Contents, NEW g \in Contents, NEW n \in Nat, NEW k \in Nat,
         Fresh(f, g, k, k, n)
  PROVE  Fresh(f, g, k, k + 1, n + 1)
<1>1. \A j \in Recs(g) : g[j].stamp \in Nat
  BY Records DEF Recs
<1> QED
  BY <1>1 DEF Fresh

(* The next slot is programmed, in full or in part.                        *)
LEMMA FreshProgram ==
  ASSUME NEW f \in Contents, NEW g \in Contents, NEW n \in Nat, NEW k \in SlotNumbers,
         NEW c \in Record \cup {Torn}, Fresh(f, g, k, k + 1, n),
         c \in Record => /\ \A i \in Recs(f) : Older(f[i], c)
                         /\ \A j \in Recs(g) : Older(g[j], c)
  PROVE  Fresh([f EXCEPT ![k] = c], g, k + 1, k + 1, n)
<1> DEFINE h == [f EXCEPT ![k] = c]
<1>1. h[k] = c /\ \A i \in SlotNumbers \ {k} : h[i] = f[i]
  BY DEF Contents
<1> HIDE DEF h
<1>2. c # Blank
  BY Records
<1>3. \A i \in SlotNumbers : f[i] = Blank <=> i >= k
  BY DEF Fresh
<1>4. \A i \in SlotNumbers : h[i] = Blank <=> i >= k + 1
  BY <1>1, <1>2, <1>3 DEF SlotNumbers
<1>5. \A i \in Recs(f) : i \in SlotNumbers /\ i < k
  BY <1>3, Records DEF Recs, SlotNumbers
<1>6. \A i \in Recs(h) : i = k \/ i \in Recs(f)
  BY <1>1 DEF Recs
<1>7. k \in Recs(h) => c \in Record
  BY <1>1 DEF Recs
<1>8. Recs(f) \subseteq Recs(h)
  BY <1>1, <1>5 DEF Recs, SlotNumbers
<1>9. \A i \in Recs(f) : h[i] = f[i]
  BY <1>1, <1>5 DEF SlotNumbers
<1>10. Ordered(h)
  <2> SUFFICES ASSUME NEW i \in Recs(h), NEW j \in Recs(h), i < j
               PROVE  Older(h[i], h[j])
    BY DEF Ordered
  <2>1. CASE j = k
    <3>1. i \in Recs(f)
      BY <1>6, <2>1 DEF SlotNumbers
    <3> QED
      BY <1>1, <1>7, <1>9, <2>1, <3>1
  <2>2. CASE j # k
    <3>1. j \in Recs(f) /\ i # k
      BY <1>5, <1>6, <2>2 DEF SlotNumbers
    <3>2. i \in Recs(f)
      BY <1>6, <3>1
    <3> QED
      BY <1>9, <3>1, <3>2 DEF Fresh, Ordered
  <2> QED
    BY <2>1, <2>2
<1>11. After(h, g)
  <2> SUFFICES ASSUME NEW i \in Recs(h), NEW j \in Recs(g)
               PROVE  Older(g[j], h[i])
    BY DEF After
  <2>1. CASE i = k
    BY <1>1, <1>7, <2>1
  <2>2. CASE i # k
    BY <1>6, <1>9, <2>2 DEF Fresh, After
  <2> QED
    BY <2>1, <2>2
<1>12. Recs(h) = {} => Recs(g) = {} \/ Full(g)
  BY <1>8 DEF Fresh
<1>13. Ordered(g) /\ \A j \in Recs(g) : g[j].stamp + (k + 1) <= n
  BY DEF Fresh
<1>14. Fresh(h, g, k + 1, k + 1, n)
  BY <1>4, <1>10, <1>11, <1>12, <1>13 DEF Fresh
<1> QED
  BY <1>14 DEF h

(* A slot is programmed over what the ignored erase left there.            *)
LEMMA VainProgram ==
  ASSUME NEW f \in Contents, NEW g \in Contents, NEW n \in Nat, NEW k \in SlotNumbers,
         Vain(f, g, k, n)
  PROVE  Vain([f EXCEPT ![k] = Torn], g, k + 1, n)
<1> DEFINE h == [f EXCEPT ![k] = Torn]
<1>1. h \in Contents /\ h[k] = Torn /\ \A i \in SlotNumbers \ {k} : h[i] = f[i]
  BY DEF Contents
<1> HIDE DEF h
<1>2. Remains(f, h)
  BY <1>1 DEF Remains
<1>3. Lead(g, h, n)
  BY <1>1, <1>2, LeadRemains DEF Vain
<1>4. Full(h)
  BY <1>1, Records DEF Vain, Full
<1>5. Recs(h) \subseteq Recs(f) \ {k}
  BY <1>1, <1>2, RemainsRecs, Records DEF Recs
<1>6. \A i \in Recs(h) : i >= k + 1
  BY <1>5 DEF Vain, Recs, SlotNumbers
<1>7. Vain(h, g, k + 1, n)
  BY <1>3, <1>4, <1>5, <1>6 DEF Vain
<1> QED
  BY <1>7 DEF h

(* The log rolls from f to a sector that was erased.                       *)
LEMMA RollErased ==
  ASSUME NEW f \in Contents, NEW g \in Contents, NEW n \in Nat, Ordered(f),
         Full(f) \/ Recs(f) = {}, \A i \in Recs(f) : f[i].stamp <= n,
         \A i \in SlotNumbers : g[i] = Blank
  PROVE  Fresh(g, f, 0, 0, n)
<1>1. Recs(g) = {}
  BY Records DEF Recs
<1>2. Ordered(g) /\ After(g, f)
  BY <1>1 DEF Ordered, After
<1>3. \A j \in Recs(f) : f[j].stamp + 0 <= n
  BY Records DEF Recs
<1>4. \A i \in SlotNumbers : g[i] = Blank <=> i >= 0
  BY DEF SlotNumbers
<1> QED
  BY <1>2, <1>3, <1>4 DEF Fresh

(* The log rolls from f to a full sector whose erase was ignored.          *)
LEMMA RollIgnored ==
  ASSUME NEW f \in Contents, NEW g \in Contents, NEW n \in Nat, Lead(f, g, n),
         Full(f) \/ Recs(f) = {}, Full(g)
  PROVE  Vain(g, f, 0, n)
<1>1. \A i \in Recs(g) : i >= 0
  BY DEF Recs, SlotNumbers
<1> QED
  BY <1>1 DEF Lead, Vain

(* The rolls of an append start from a sector with a record, which leads.  *)
LEMMA FullSectorLeads ==
  ASSUME NEW f \in Contents, NEW g \in Contents, NEW n \in Nat, Recs(f) # {},
         Fresh(f, g, Slots, Slots, n) \/ Vain(f, g, Slots, n)
  PROVE  Fresh(f, g, Slots, Slots, n) /\ Lead(f, g, n) /\ Full(f)
<1>1. Slots \in Nat
  BY LogAssumption
<1>2. \A i \in SlotNumbers : ~(i >= Slots)
  BY <1>1 DEF SlotNumbers
<1>3. ~Vain(f, g, Slots, n)
  BY <1>2 DEF Vain, Recs
<1>4. Lead(f, g, n)
  BY <1>1, <1>3, FreshLeads
<1> QED
  BY <1>2, <1>3, <1>4 DEF Fresh, Full

(* A record that is overwritten or erased is an old one: the leading       *)
(* sector is full of newer attempts.                                       *)
LEMMA Expired ==
  ASSUME NEW f \in Contents, NEW g \in Contents, NEW n \in Nat, Lead(f, g, n),
         Full(f) \/ Recs(g) = {}
  PROVE  \A j \in Recs(g) : g[j].stamp + Slots <= n
<1> SUFFICES ASSUME NEW j \in Recs(g)
             PROVE  g[j].stamp + Slots <= n
  OBVIOUS
<1>1. Slots - 1 \in SlotNumbers /\ (Slots - 1) + 1 = Slots /\ Slots \in Nat
  BY LogAssumption DEF SlotNumbers
<1>2. f[Slots - 1] # Blank
  BY <1>1 DEF Full
<1>3. g[j].stamp + (Slots - 1) + 1 <= n
  BY <1>1, <1>2 DEF Lead, Distant
<1>4. g[j].stamp \in Nat
  BY Records DEF Recs
<1> QED
  BY <1>1, <1>3, <1>4

(* The sector that does not lead may lose records.                         *)
LEMMA LossAllowed ==
  ASSUME NEW F \in [Sectors -> Contents], NEW Q \in SUBSET Record, NEW n \in Nat,
         NEW s \in Sectors, NEW h \in Contents, Remains(F[Other(s)], h),
         Lead(F[s], F[Other(s)], n), Full(F[s]) \/ Recs(F[Other(s)]) = {},
         Covers(F, Q), Keeps(F, Q, n)
  PROVE  /\ Covers([F EXCEPT ![Other(s)] = h], Q)
         /\ Keeps([F EXCEPT ![Other(s)] = h], Q, n)
<1> DEFINE G == [F EXCEPT ![Other(s)] = h]
           o == Other(s)
<1>1. o \in Sectors /\ o # s /\ \A t \in Sectors : t = s \/ t = o
  BY Others
<1>2. G[s] = F[s] /\ G[o] = h
  BY <1>1
<1>3. F[s] \in Contents /\ F[o] \in Contents
  BY <1>1
<1> HIDE DEF G, o
<1>4. Recs(h) \subseteq Recs(F[o]) /\ \A i \in Recs(h) : h[i] = F[o][i]
  BY <1>3, RemainsRecs DEF o
<1>5. \A j \in Recs(F[o]) : F[o][j].stamp + Slots <= n
  BY <1>3, Expired DEF o
<1>6. Recs(F[o]) # {} => Recs(F[s]) # {}
  BY DEF Lead, o
<1>7. \A i \in Recs(F[s]), j \in Recs(F[o]) : F[o][j].sequence < F[s][i].sequence
  BY DEF Lead, After, Older, o
<1>8. \A t \in Sectors : \A i \in Recs(F[t]) : F[t][i].sequence \in Nat
  BY Records DEF Recs
<1>9. Covers(G, Q)
  <2> SUFFICES ASSUME NEW q \in Q
               PROVE  \E t \in Sectors : \E i \in Recs(G[t]) : q.sequence <= G[t][i].sequence
    BY DEF Covers
  <2>1. PICK t \in Sectors : \E i \in Recs(F[t]) : q.sequence <= F[t][i].sequence
    BY DEF Covers
  <2>2. PICK i \in Recs(F[t]) : q.sequence <= F[t][i].sequence
    BY <2>1
  <2>3. CASE t = s
    BY <1>2, <2>2, <2>3
  <2>4. CASE t = o
    <3>1. PICK j \in Recs(F[s]) : TRUE
      BY <1>6, <2>4
    <3>2. F[o][i].sequence < F[s][j].sequence
      BY <1>7, <2>4
    <3>3. q.sequence \in Nat
      BY Records
    <3>4. q.sequence <= F[s][j].sequence
      BY <1>1, <1>8, <2>2, <2>4, <3>2, <3>3
    <3> QED
      BY <1>2, <3>4
  <2> QED
    BY <1>1, <2>3, <2>4
<1>10. \A q \in Q : q.stamp + Slots <= n
                    \/ \E t \in Sectors : \E i \in Recs(G[t]) : G[t][i] = q
  <2> SUFFICES ASSUME NEW q \in Q, ~(q.stamp + Slots <= n)
               PROVE  \E t \in Sectors : \E i \in Recs(G[t]) : G[t][i] = q
    OBVIOUS
  <2>1. PICK t \in Sectors : \E i \in Recs(F[t]) : F[t][i] = q
    BY DEF Keeps
  <2>2. t # o
    BY <1>5, <2>1
  <2> QED
    BY <1>1, <1>2, <2>1, <2>2
<1>11. ASSUME NEW t \in Sectors, NEW i \in SlotNumbers, NEW j \in Recs(G[t]),
              i < j, G[t][i] = Blank
       PROVE  G[t][j].stamp + Slots <= n
  <2>1. CASE t = s
    BY <1>2, <1>11, <2>1 DEF Keeps
  <2>2. CASE t = o
    BY <1>2, <1>4, <1>5, <2>2
  <2> QED
    BY <1>1, <2>1, <2>2
<1>12. Keeps(G, Q, n)
  BY <1>10, <1>11 DEF Keeps
<1> QED
  BY <1>9, <1>12 DEF G, o

(* Programming the first blank slot loses and hides nothing.               *)
LEMMA GainAllowed ==
  ASSUME NEW F \in [Sectors -> Contents], NEW Q \in SUBSET Record, NEW n \in Nat,
         NEW s \in Sectors, NEW k \in SlotNumbers, NEW c \in Record \cup {Torn},
         \A i \in SlotNumbers : F[s][i] = Blank <=> i >= k,
         Covers(F, Q), Keeps(F, Q, n)
  PROVE  /\ Covers([F EXCEPT ![s][k] = c], Q)
         /\ Keeps([F EXCEPT ![s][k] = c], Q, n)
<1> DEFINE G == [F EXCEPT ![s][k] = c]
<1>1. \A t \in Sectors \ {s} : G[t] = F[t]
  OBVIOUS
<1>2. G[s][k] = c /\ \A i \in SlotNumbers \ {k} : G[s][i] = F[s][i]
  BY DEF Contents
<1> HIDE DEF G
<1>3. F[s][k] = Blank /\ c # Blank
  BY Records DEF SlotNumbers
<1>4. \A i \in Recs(F[s]) : i \in Recs(G[s]) /\ G[s][i] = F[s][i]
  BY <1>2, <1>3, Records DEF Recs
<1>5. \A t \in Sectors : \A i \in Recs(F[t]) : i \in Recs(G[t]) /\ G[t][i] = F[t][i]
  BY <1>1, <1>4
<1>6. Covers(G, Q)
  BY <1>5 DEF Covers
<1>7. \A q \in Q : q.stamp + Slots <= n
                   \/ \E t \in Sectors : \E i \in Recs(G[t]) : G[t][i] = q
  BY <1>5 DEF Keeps
<1>8. \A i, j \in SlotNumbers : i < j /\ G[s][i] = Blank => G[s][j] = Blank
  <2> SUFFICES ASSUME NEW i \in SlotNumbers, NEW j \in SlotNumbers, i < j, G[s][i] = Blank
               PROVE  G[s][j] = Blank
    OBVIOUS
  <2>1. i # k /\ F[s][i] = Blank
    BY <1>2, <1>3
  <2>2. j # k /\ F[s][j] = Blank
    BY <2>1 DEF SlotNumbers
  <2> QED
    BY <1>2, <2>2
<1>9. ASSUME NEW t \in Sectors, NEW i \in SlotNumbers, NEW j \in Recs(G[t]),
             i < j, G[t][i] = Blank
      PROVE  G[t][j].stamp + Slots <= n
  <2>1. CASE t = s
    BY <1>8, <1>9, <2>1, Records DEF Recs
  <2>2. CASE t # s
    BY <1>1, <1>9, <2>2 DEF Keeps
  <2> QED
    BY <2>1, <2>2
<1>10. Keeps(G, Q, n)
  BY <1>7, <1>9 DEF Keeps
<1> QED
  BY <1>6, <1>10 DEF G

-------------------------------------------------------------------------------
(* The inductive invariant.                                                *)

Active == flash[activeSector]
Passive == flash[Other(activeSector)]

(* Sequence numbers and stamps are bounded by the number of appends.       *)
Reach(F, n) == \A s \in Sectors : \A i \in Recs(F[s]) : F[s][i].sequence <= n
                                                        /\ F[s][i].stamp <= n

Sane ==
  /\ TypeOK
  /\ Reach(flash, appends)
  /\ pc \notin {"off", "halt"} => 1 <= nextSequence /\ nextSequence <= appends + 1
  /\ pc \in {"program", "verify"} => nextSequence <= appends
  /\ pc \in {"rolled", "program", "verify"} => nextSlot < Slots

Position(used, length) ==
  Fresh(Active, Passive, used, length, appends) \/ Vain(Active, Passive, used, appends)

(* Where the log is.                                                       *)
Place ==
  /\ pc = "off" => Led(flash, appends)
  /\ pc \in {"bootRoll", "halt"} =>
       Lead(Active, Passive, appends) /\ (Full(Active) \/ Recs(Active) = {})
  /\ pc \in {"idle", "rolled"} => Position(nextSlot, nextSlot)
  /\ pc = "program" =>
       /\ Position(nextSlot, nextSlot + 1)
       /\ \A s \in Sectors : \A i \in Recs(flash[s]) : flash[s][i].stamp < appends
  /\ pc = "verify" => Position(nextSlot + 1, nextSlot + 1)
  /\ pc = "idle" /\ nextSlot = Slots => Recs(Active) # {}

(* What sequence number comes next.                                        *)
Numbered ==
  /\ pc \notin {"off", "halt", "verify"} => Below(flash, nextSequence)
  /\ pc = "verify" => Below(flash, nextSequence + 1)
  /\ pc \notin {"off", "halt"} => \A q \in acked : q.sequence < nextSequence

Sound ==
  Place /\ Numbered /\ Covers(flash, acked) /\ Keeps(flash, acked, appends)

LogInvariant == Sane /\ (Dependable => Sound)

-------------------------------------------------------------------------------
(* What the steps do.                                                      *)

(* A fault uses up some of what is allowed, and is remembered.             *)
LEMMA Suffering ==
  ASSUME TypeOK, NEW faults \in SUBSET FaultClasses, Suffer(faults),
         faults = {} \/ \E x : faults = {x}
  PROVE  /\ troubles' \in 0..MaxTroubles /\ suffered' \in SUBSET FaultClasses
         /\ suffered \subseteq suffered' /\ faults \subseteq suffered'
<1>1. Cardinality(faults) \in Nat
  <2>1. CASE faults = {}
    <3>1. Cardinality({}) = 0
      BY FS_EmptySet, Zenon
    <3> QED
      BY <2>1, <3>1
  <2>2. ASSUME NEW x, faults = {x}
        PROVE  Cardinality(faults) \in Nat
    <3>1. Cardinality({x}) = 1
      BY FS_Singleton, Zenon
    <3> QED
      BY <2>2, <3>1
  <2> QED
    BY <2>1, <2>2, Zenon
<1>2. troubles \in 0..MaxTroubles /\ MaxTroubles \in Nat
  BY LogAssumption DEF TypeOK
<1>3. troubles' \in 0..MaxTroubles
  BY <1>1, <1>2 DEF Suffer
<1> QED
  BY <1>3 DEF Suffer, TypeOK

(* A program that fails is of one class of fault.                          *)
LEMMA ProgramFaults ==
  ASSUME NEW c
  PROVE  ProgramFault(c) \in {{"torn"}, {"hole"}, {"read"}}
BY DEF ProgramFault

(* An interrupted erase.                                                   *)
LEMMA CutRemains ==
  ASSUME TypeOK, NEW s \in Sectors, NEW h \in Cut(s)
  PROVE  h \in Contents /\ Remains(flash[s], h)
<1>1. flash[s] \in Contents
  BY DEF TypeOK, Contents
<1>2. PICK torn \in SUBSET SlotNumbers, blank \in SUBSET SlotNumbers :
        h = [i \in SlotNumbers |-> IF i \in torn THEN Torn ELSE IF i \in blank THEN Blank
                                   ELSE flash[s][i]]
  BY DEF Cut
<1>3. h \in Contents
  BY <1>1, <1>2 DEF Contents
<1>4. Remains(flash[s], h)
  BY <1>2 DEF Remains
<1> QED
  BY <1>3, <1>4

(* A roll erases the other sector, wholly or in part, or not at all.       *)
LEMMA RollEffect ==
  ASSUME TypeOK, NEW o \in Sectors, NEW good, NEW bad, Roll(o, good, bad)
  PROVE  /\ troubles' \in 0..MaxTroubles /\ suffered' \in SUBSET FaultClasses
         /\ suffered \subseteq suffered'
         /\ spoiled' \in BOOLEAN /\ (spoiled => spoiled')
         /\ \E h \in Contents :
              /\ Remains(flash[o], h)
              /\ flash' = [flash EXCEPT ![o] = h]
              /\ \/ /\ pc' = good /\ activeSector' = o /\ nextSlot' = 0
                    /\ ~spoiled' => Full(h) \/ \A i \in SlotNumbers : h[i] = Blank
                 \/ pc' = bad /\ activeSector' = activeSector /\ nextSlot' = nextSlot
<1>1. flash[o] \in Contents /\ flash \in [Sectors -> Contents] /\ spoiled \in BOOLEAN
  BY DEF TypeOK, Contents
<1>2. CASE /\ Suffer({})
           /\ flash' = [flash EXCEPT ![o] = [i \in SlotNumbers |-> Blank]]
           /\ activeSector' = o
           /\ nextSlot' = 0
           /\ pc' = good
           /\ UNCHANGED spoiled
  <2> DEFINE h == [i \in SlotNumbers |-> Blank]
  <2>1. h \in Contents /\ Remains(flash[o], h) /\ \A i \in SlotNumbers : h[i] = Blank
    BY DEF Contents, Remains
  <2>2. troubles' \in 0..MaxTroubles /\ suffered' \in SUBSET FaultClasses
        /\ suffered \subseteq suffered'
    BY <1>2, Suffering, Zenon
  <2>3. flash' = [flash EXCEPT ![o] = h]
    BY <1>2
  <2> HIDE DEF h
  <2>4. spoiled' \in BOOLEAN /\ (spoiled => spoiled')
    BY <1>1, <1>2, Zenon
  <2> QED
    BY <1>2, <2>1, <2>2, <2>3, <2>4, Zenon
<1>3. CASE /\ Suffer({"erase"})
           /\ \E f \in Cut(o) : flash' = [flash EXCEPT ![o] = f]
           /\ pc' = bad
           /\ UNCHANGED <<activeSector, nextSlot, spoiled>>
  <2>1. PICK h \in Cut(o) : flash' = [flash EXCEPT ![o] = h]
    BY <1>3, Zenon
  <2>2. h \in Contents /\ Remains(flash[o], h)
    BY CutRemains, Zenon
  <2>3. {"erase"} \in SUBSET FaultClasses
    BY DEF FaultClasses
  <2>4. troubles' \in 0..MaxTroubles /\ suffered' \in SUBSET FaultClasses
        /\ suffered \subseteq suffered'
    BY <1>3, <2>3, Suffering, Zenon
  <2>5. activeSector' = activeSector /\ nextSlot' = nextSlot /\ spoiled' = spoiled
    BY <1>3
  <2>6. spoiled' \in BOOLEAN /\ (spoiled => spoiled')
    BY <1>1, <2>5, Zenon
  <2> QED
    BY <1>3, <2>1, <2>2, <2>4, <2>5, <2>6, Zenon
<1>4. CASE /\ Suffer({"ignored"})
           /\ Spoil(HalfErased(o))
           /\ activeSector' = o
           /\ nextSlot' = 0
           /\ pc' = good
           /\ UNCHANGED flash
  <2>1. Remains(flash[o], flash[o])
    BY DEF Remains
  <2>2. flash' = [flash EXCEPT ![o] = flash[o]]
    BY <1>1, <1>4
  <2>3. {"ignored"} \in SUBSET FaultClasses
    BY DEF FaultClasses
  <2>4. troubles' \in 0..MaxTroubles /\ suffered' \in SUBSET FaultClasses
        /\ suffered \subseteq suffered'
    BY <1>4, <2>3, Suffering, Zenon
  <2>5. spoiled' = (spoiled \/ HalfErased(o))
    BY <1>4 DEF Spoil
  <2>6. spoiled' \in BOOLEAN /\ (spoiled => spoiled')
    BY <1>1, <2>5, Zenon
  <2>7. ~HalfErased(o) => Full(flash[o]) \/ \A i \in SlotNumbers : flash[o][i] = Blank
    BY DEF HalfErased, Full
  <2>8. ~spoiled' => Full(flash[o]) \/ \A i \in SlotNumbers : flash[o][i] = Blank
    BY <2>5, <2>7, Zenon
  <2> QED
    BY <1>1, <1>4, <2>1, <2>2, <2>4, <2>6, <2>8, Zenon
<1> QED
  BY <1>2, <1>3, <1>4 DEF Roll

(* A program writes the next slot.  If no program was in vain so far, the  *)
(* slot is not as it was, unless it was torn already.                      *)
LEMMA ProgramEffect ==
  ASSUME Sane, AppendProgram
  PROVE  /\ troubles' \in 0..MaxTroubles /\ suffered' \in SUBSET FaultClasses
         /\ suffered \subseteq suffered'
         /\ spoiled' \in BOOLEAN /\ (spoiled => spoiled')
         /\ \E c \in {Slot, Torn, Programmed(Slot, NewRecord)} :
              /\ flash' = [flash EXCEPT ![activeSector][nextSlot] = c]
              /\ \/ /\ pc' = "verify" /\ nextSlot' = nextSlot /\ nextSequence' = nextSequence
                    /\ c = Programmed(Slot, NewRecord)
                 \/ /\ pc' = "idle" /\ nextSlot' = nextSlot + 1
                    /\ nextSequence' = nextSequence + 1
                    /\ "hole" \notin suffered' => c \in {Torn, Programmed(Slot, NewRecord)}
                    /\ ~spoiled' => ~(nextSlot' = Slots /\ Barren(flash'[activeSector]))
<1>1. PICK r \in Program(Slot, NewRecord, "ready") :
         /\ flash' = [flash EXCEPT ![activeSector][nextSlot] = r.content]
         /\ \/ /\ r.status = "ok"
               /\ Suffer({})
               /\ pc' = "verify"
               /\ UNCHANGED <<nextSlot, nextSequence, spoiled>>
            \/ /\ r.status = "error"
               /\ Suffer(ProgramFault(r.content))
               /\ Advance
  BY Zenon DEF AppendProgram
<1>2. /\ r.content \in {Slot, Torn, Programmed(Slot, NewRecord)}
      /\ r.status = "ok" => r.content = Programmed(Slot, NewRecord)
  <2>1. CASE r = Result("ok", Programmed(Slot, NewRecord), "ready")
    BY <2>1 DEF Result
  <2>2. ASSUME NEW c \in {Slot, Torn, Programmed(Slot, NewRecord)}, NEW after \in ChipStates,
               r = Result("error", c, after)
        PROVE  r.content = c /\ r.status = "error"
    BY <2>2 DEF Result
  <2>3. \/ r = Result("ok", Programmed(Slot, NewRecord), "ready")
        \/ \E c \in {Slot, Torn, Programmed(Slot, NewRecord)} : \E after \in ChipStates :
             r = Result("error", c, after)
    BY DEF Program
  <2> QED
    BY <2>1, <2>2, <2>3
<1> DEFINE c == r.content
<1> HIDE DEF c
<1>3. spoiled \in BOOLEAN /\ TypeOK
  BY DEF Sane, TypeOK
<1>4. CASE /\ r.status = "ok"
           /\ Suffer({})
           /\ pc' = "verify"
           /\ UNCHANGED <<nextSlot, nextSequence, spoiled>>
  <2>1. troubles' \in 0..MaxTroubles /\ suffered' \in SUBSET FaultClasses
        /\ suffered \subseteq suffered'
    BY <1>3, <1>4, Suffering, Zenon
  <2>2. nextSlot' = nextSlot /\ nextSequence' = nextSequence /\ spoiled' = spoiled
    BY <1>4
  <2>3. spoiled' \in BOOLEAN /\ (spoiled => spoiled')
    BY <1>3, <2>2, Zenon
  <2> QED
    BY <1>1, <1>2, <1>4, <2>1, <2>2, <2>3, Zenon
<1>5. CASE /\ r.status = "error"
           /\ Suffer(ProgramFault(r.content))
           /\ Advance
  <2>1. ProgramFault(c) \in SUBSET FaultClasses /\ \E x : ProgramFault(c) = {x}
    BY ProgramFaults DEF FaultClasses
  <2>2. troubles' \in 0..MaxTroubles /\ suffered' \in SUBSET FaultClasses
        /\ suffered \subseteq suffered' /\ ProgramFault(c) \subseteq suffered'
    BY <1>3, <1>5, <2>1, Suffering, Zenon DEF c
  <2>3. c = Slot /\ c # Torn => "hole" \in suffered'
    <3>1. ASSUME c = Slot, c # Torn
          PROVE  "hole" \in ProgramFault(c)
      BY <3>1 DEF ProgramFault
    <3> QED
      BY <2>2, <3>1
  <2>4. /\ pc' = "idle" /\ nextSlot' = nextSlot + 1 /\ nextSequence' = nextSequence + 1
        /\ spoiled' = (spoiled \/ (nextSlot' = Slots /\ Barren(flash'[activeSector])))
    BY <1>5 DEF Advance, Spoil
  <2>5. /\ spoiled' \in BOOLEAN /\ (spoiled => spoiled')
        /\ ~spoiled' => ~(nextSlot' = Slots /\ Barren(flash'[activeSector]))
    BY <1>3, <2>4, Zenon
  <2>6. "hole" \notin suffered' => c \in {Torn, Programmed(Slot, NewRecord)}
    BY <1>2, <2>3 DEF c
  <2>7. /\ c \in {Slot, Torn, Programmed(Slot, NewRecord)}
        /\ flash' = [flash EXCEPT ![activeSector][nextSlot] = c]
    BY <1>1, <1>2 DEF c
  <2> QED
    BY <2>2, <2>4, <2>5, <2>6, <2>7, Zenon
<1> QED
  BY <1>1, <1>4, <1>5, Zenon

(* A program, complete or not, leaves a slot that is of its type.          *)
LEMMA SlotTyped ==
  ASSUME Sane, pc \in {"program", "verify"},
         NEW c \in {Slot, Torn, Programmed(Slot, NewRecord)}
  PROVE  /\ NewRecord \in Record /\ NewRecord.sequence = nextSequence
         /\ NewRecord.stamp = appends /\ nextSlot \in SlotNumbers
         /\ Slot \in Record \cup {Blank, Torn}
         /\ c \in Record \cup {Blank, Torn} /\ (c \in Record => c \in {Slot, NewRecord})
<1>1. nextSequence \in 1..MaxAppends /\ appends \in 1..MaxAppends
  BY LogAssumption DEF Sane, TypeOK
<1>2. nextSlot \in SlotNumbers
  BY LogAssumption DEF Sane, TypeOK, SlotNumbers
<1>3. NewRecord \in Record /\ NewRecord.sequence = nextSequence /\ NewRecord.stamp = appends
  BY <1>1 DEF NewRecord, Record
<1>4. Slot \in Record \cup {Blank, Torn}
  BY <1>2 DEF Sane, TypeOK, Slot
<1>5. Programmed(Slot, NewRecord) \in {NewRecord, Torn}
  BY DEF Programmed
<1> QED
  BY <1>2, <1>3, <1>4, <1>5, Records

(* The verification of a record, whatever it reads.                        *)
LEMMA VerifyEffect ==
  ASSUME Sane, AppendVerify
  PROVE  /\ troubles' \in 0..MaxTroubles /\ suffered' \in SUBSET FaultClasses
         /\ suffered \subseteq suffered'
         /\ spoiled' \in BOOLEAN /\ (spoiled => spoiled')
         /\ flash' = flash /\ activeSector' = activeSector /\ appends' = appends
         /\ pc' = "idle" /\ nextSlot' = nextSlot + 1 /\ nextSequence' = nextSequence + 1
         /\ ~spoiled' => ~(nextSlot' = Slots /\ Barren(flash[activeSector]))
         /\ acked' = acked \/ (Slot = NewRecord /\ acked' = acked \cup {NewRecord})
<1>1. spoiled \in BOOLEAN /\ TypeOK
  BY DEF Sane, TypeOK
<1>2. \E faults \in {{}, {"read"}} : Suffer(faults)
  BY DEF AppendVerify
<1>3. {} \in SUBSET FaultClasses /\ {"read"} \in SUBSET FaultClasses
  BY DEF FaultClasses
<1>4. Suffer({}) \/ Suffer({"read"})
  BY <1>2
<1>5. troubles' \in 0..MaxTroubles /\ suffered' \in SUBSET FaultClasses
      /\ suffered \subseteq suffered'
  BY <1>1, <1>3, <1>4, Suffering, Zenon
<1>6. /\ flash' = flash /\ activeSector' = activeSector /\ appends' = appends
      /\ pc' = "idle" /\ nextSlot' = nextSlot + 1 /\ nextSequence' = nextSequence + 1
      /\ spoiled' = (spoiled \/ (nextSlot' = Slots /\ Barren(flash'[activeSector])))
  BY DEF AppendVerify, Advance, Spoil
<1>7. /\ spoiled' \in BOOLEAN /\ (spoiled => spoiled')
      /\ ~spoiled' => ~(nextSlot' = Slots /\ Barren(flash'[activeSector]))
  BY <1>1, <1>6, Zenon
<1>8. acked' = acked \/ (Slot = NewRecord /\ acked' = acked \cup {NewRecord})
  BY DEF AppendVerify, Verified
<1> QED
  BY <1>5, <1>6, <1>7, <1>8, Zenon

-------------------------------------------------------------------------------
(* The start-up scan.                                                      *)

(* The scan ends at a blank slot, the first one it can read, or at the end *)
(* of the sector.                                                          *)
LEMMA ScanEndIs ==
  ASSUME TypeOK, NEW s \in Sectors, NEW R \in SUBSET SlotNumbers
  PROVE  /\ ScanEnd(s, R) \in 0..Slots
         /\ ScanEnd(s, R) # Slots => ScanEnd(s, R) \in R /\ flash[s][ScanEnd(s, R)] = Blank
         /\ \A i \in R : i < ScanEnd(s, R) => flash[s][i] # Blank
<1> DEFINE S == {i \in R : flash[s][i] = Blank} \cup {Slots}
<1>1. Slots \in Nat /\ \A i \in R : i \in Nat /\ i < Slots
  BY LogAssumption DEF SlotNumbers
<1>2. S \in SUBSET (0..Slots)
  BY <1>1
<1>3. S \in SUBSET Nat /\ S # {}
  BY <1>1, <1>2
<1> DEFINE e == Least(S)
<1>4. e \in S /\ \A y \in S : e <= y
  BY <1>3, LeastIs, Zenon
<1> HIDE DEF e
<1>5. e \in 0..Slots
  BY <1>2, <1>4
<1>6. e # Slots => e \in R /\ flash[s][e] = Blank
  BY <1>4
<1>7. \A i \in R : i < e => flash[s][i] # Blank
  <2> SUFFICES ASSUME NEW i \in R, i < e, flash[s][i] = Blank
               PROVE  FALSE
    OBVIOUS
  <2>1. e <= i
    BY <1>4
  <2> QED
    BY <1>1, <1>5, <2>1
<1>8. e = ScanEnd(s, R)
  BY DEF e, ScanEnd
<1> QED
  BY <1>5, <1>6, <1>7, <1>8

(* The last sequence number of a scan is that of a record, the last one    *)
(* the scan found.                                                         *)
LEMMA LastIs ==
  ASSUME TypeOK, NEW s \in Sectors, NEW R \in SUBSET SlotNumbers
  PROVE  /\ ScanValid(s, R) \subseteq Recs(flash[s])
         /\ ScanValid(s, R) = {} => LastSequence(s, R) = 0
         /\ ScanValid(s, R) # {} =>
              \E i \in ScanValid(s, R) : /\ LastSequence(s, R) = flash[s][i].sequence
                                         /\ \A j \in ScanValid(s, R) : j <= i
<1>1. ScanValid(s, R) \subseteq Recs(flash[s])
  BY DEF ScanValid, Recs
<1>2. Slots - 1 \in Nat /\ ScanValid(s, R) \in SUBSET (0..(Slots - 1))
  <2>1. Slots - 1 \in Nat
    BY LogAssumption
  <2>2. ScanValid(s, R) \in SUBSET SlotNumbers
    BY DEF ScanValid
  <2> QED
    BY <2>1, <2>2 DEF SlotNumbers
<1>3. ASSUME ScanValid(s, R) # {}
      PROVE  \E i \in ScanValid(s, R) : /\ LastSequence(s, R) = flash[s][i].sequence
                                        /\ \A j \in ScanValid(s, R) : j <= i
  <2> DEFINE V == ScanValid(s, R)
             g == Greatest(V)
  <2> HIDE DEF V
  <2>1. V \in SUBSET (0..(Slots - 1)) /\ V # {}
    BY <1>2, <1>3 DEF V
  <2>2. g \in V /\ \A y \in V : g >= y
    BY <1>2, <2>1, GreatestIs, Zenon
  <2>3. LastSequence(s, R) = flash[s][g].sequence
    BY <1>3 DEF LastSequence, V
  <2> HIDE DEF g
  <2>4. \A j \in V : j <= g
    BY <2>1, <2>2
  <2> QED
    BY <2>2, <2>3, <2>4 DEF V
<1> QED
  BY <1>1, <1>3 DEF LastSequence

(* The scan finds all records of a leading sector, the last of which is    *)
(* the newest one of the log.                                              *)
LEMMA ScanOfLead ==
  ASSUME TypeOK, NEW a \in Sectors, Lead(flash[a], flash[Other(a)], appends),
         Recs(flash[a]) # {}
  PROVE  /\ \A i \in SlotNumbers : flash[a][i] = Blank <=> i >= ScanEnd(a, SlotNumbers)
         /\ ScanEnd(a, SlotNumbers) >= 1
         /\ ScanValid(a, SlotNumbers) # {}
         /\ Below(flash, LastSequence(a, SlotNumbers) + 1)
         /\ LastSequence(Other(a), SlotNumbers) < LastSequence(a, SlotNumbers)
<1> DEFINE e == ScanEnd(a, SlotNumbers)
           V == ScanValid(a, SlotNumbers)
           l == LastSequence(a, SlotNumbers)
           o == Other(a)
<1>1. /\ e \in 0..Slots
      /\ e # Slots => e \in SlotNumbers /\ flash[a][e] = Blank
      /\ \A i \in SlotNumbers : i < e => flash[a][i] # Blank
  BY ScanEndIs
<1>2. /\ V \subseteq Recs(flash[a])
      /\ V # {} => \E i \in V : l = flash[a][i].sequence /\ \A j \in V : j <= i
  BY LastIs
<1>3. V = {i \in SlotNumbers : i < e /\ flash[a][i] \in Record}
  BY DEF ScanValid
<1>4. o \in Sectors /\ \A s \in Sectors : s = a \/ s = o
  BY Others
<1>5. /\ ScanValid(o, SlotNumbers) \subseteq Recs(flash[o])
      /\ ScanValid(o, SlotNumbers) = {} => LastSequence(o, SlotNumbers) = 0
      /\ ScanValid(o, SlotNumbers) # {} =>
           \E i \in ScanValid(o, SlotNumbers) : LastSequence(o, SlotNumbers) = flash[o][i].sequence
  BY <1>4, LastIs
<1> HIDE DEF e, V, l, o
<1>6. Compact(flash[a])
  BY DEF Lead
<1>7. Slots \in Nat
  BY LogAssumption
<1>8. \A i \in SlotNumbers : i >= e => flash[a][i] = Blank
  <2> SUFFICES ASSUME NEW i \in SlotNumbers, i >= e
               PROVE  flash[a][i] = Blank
    OBVIOUS
  <2>1. e # Slots
    BY <1>1, <1>7 DEF SlotNumbers
  <2>2. e = i \/ e < i
    BY <1>1 DEF SlotNumbers
  <2> QED
    BY <1>1, <1>6, <2>1, <2>2 DEF Compact
<1>9. \A i \in SlotNumbers : flash[a][i] = Blank <=> i >= e
  BY <1>1, <1>8 DEF SlotNumbers
<1>10. V = Recs(flash[a])
  <2>1. \A i \in Recs(flash[a]) : i \in SlotNumbers /\ flash[a][i] # Blank
    BY Records DEF Recs
  <2>2. \A i \in Recs(flash[a]) : i < e
    BY <1>1, <1>9, <2>1 DEF SlotNumbers
  <2> QED
    BY <1>2, <1>3, <2>1, <2>2 DEF Recs
<1>11. e >= 1
  BY <1>1, <1>3, <1>10 DEF SlotNumbers
<1>12. PICK i \in Recs(flash[a]) : l = flash[a][i].sequence /\ \A j \in Recs(flash[a]) : j <= i
  BY <1>2, <1>10
<1>13. \A s \in Sectors : \A j \in Recs(flash[s]) :
         flash[s][j] \in Record /\ flash[s][j].sequence \in Nat /\ flash[s][j].sequence >= 1
  BY Records DEF Recs
<1>14. l \in Nat /\ l >= 1
  BY <1>12, <1>13
<1>15. \A j \in Recs(flash[a]) : flash[a][j].sequence < l + 1
  <2> SUFFICES ASSUME NEW j \in Recs(flash[a])
               PROVE  flash[a][j].sequence < l + 1
    OBVIOUS
  <2>1. j = i \/ j < i
    BY <1>12 DEF Recs, SlotNumbers
  <2>2. j < i => Older(flash[a][j], flash[a][i])
    BY DEF Lead, Ordered
  <2> QED
    BY <1>12, <1>13, <1>14, <2>1, <2>2 DEF Older
<1>16. \A j \in Recs(flash[o]) : flash[o][j].sequence < l
  BY <1>12 DEF Lead, After, Older, o
<1>17. Below(flash, l + 1)
  <2>1. \A j \in Recs(flash[o]) : flash[o][j].sequence < l + 1
    BY <1>4, <1>13, <1>14, <1>16
  <2> QED
    BY <1>4, <1>15, <2>1 DEF Below
<1>18. LastSequence(o, SlotNumbers) < l
  BY <1>5, <1>14, <1>16
<1> QED
  BY <1>9, <1>10, <1>11, <1>17, <1>18 DEF e, V, l, o

(* A start: the numbers it finds are within bounds, whatever could not be  *)
(* read.                                                                   *)
LEMMA BootSane ==
  ASSUME Sane, Boot
  PROVE  Sane' /\ suffered \subseteq suffered' /\ spoiled' = spoiled
<1>1. PICK U \in {{}} \cup {{slot} : slot \in Sectors \X SlotNumbers} :
       LET readable(s) == {i \in SlotNumbers : <<s, i>> \notin U}
           last == [s \in Sectors |-> LastSequence(s, readable(s))]
           active == Preferred(last)
           empty == \A s \in Sectors : ScanValid(s, readable(s)) = {}
           available == ScanEnd(active, readable(active))
       IN /\ Suffer(IF U = {} THEN {} ELSE {"scan"})
          /\ nextSequence' = IF empty THEN 1 ELSE last[active] + 1
          /\ activeSector' = IF empty THEN 1 ELSE active
          /\ nextSlot' = IF empty THEN Slots ELSE available
          /\ pc' = IF empty \/ available = Slots THEN "bootRoll" ELSE "idle"
  BY Zenon DEF Boot
<1> DEFINE readable(s) == {i \in SlotNumbers : <<s, i>> \notin U}
           last == [s \in Sectors |-> LastSequence(s, readable(s))]
           active == Preferred(last)
           empty == \A s \in Sectors : ScanValid(s, readable(s)) = {}
           available == ScanEnd(active, readable(active))
<1>2. /\ Suffer(IF U = {} THEN {} ELSE {"scan"})
      /\ nextSequence' = IF empty THEN 1 ELSE last[active] + 1
      /\ activeSector' = IF empty THEN 1 ELSE active
      /\ nextSlot' = IF empty THEN Slots ELSE available
      /\ pc' = IF empty \/ available = Slots THEN "bootRoll" ELSE "idle"
  BY <1>1
<1>3. \A s \in Sectors : readable(s) \in SUBSET SlotNumbers
  OBVIOUS
<1>4. active \in Sectors
  BY DEF Preferred, Sectors
<1>5. TypeOK /\ appends \in 0..MaxAppends /\ MaxAppends \in Nat /\ Slots \in Nat
  BY LogAssumption DEF Sane, TypeOK
<1>6. \A s \in Sectors : last[s] = LastSequence(s, readable(s))
  OBVIOUS
<1> HIDE DEF last, readable
<1>7. available \in 0..Slots
  BY <1>3, <1>4, <1>5, ScanEndIs
<1> HIDE DEF available, active
<1>8. last[active] \in 0..appends
  <2> DEFINE R == readable(active)
  <2>1. R \in SUBSET SlotNumbers /\ last[active] = LastSequence(active, R)
    BY <1>3, <1>4, <1>6
  <2> HIDE DEF R
  <2>2. CASE ScanValid(active, R) = {}
    BY <1>4, <1>5, <2>1, <2>2, LastIs
  <2>3. CASE ScanValid(active, R) # {}
    <3>1. PICK i \in Recs(flash[active]) : last[active] = flash[active][i].sequence
      BY <1>4, <1>5, <2>1, <2>3, LastIs
    <3>2. flash[active][i].sequence \in Nat
      BY Records DEF Recs
    <3>3. flash[active][i].sequence <= appends
      BY <1>4 DEF Sane, Reach
    <3> QED
      BY <1>5, <3>1, <3>2, <3>3
  <2> QED
    BY <2>2, <2>3
<1> HIDE DEF empty
<1>9. \E faults \in {{}, {"scan"}} : Suffer(faults)
  BY <1>2
<1>10. Suffer({}) \/ Suffer({"scan"})
  BY <1>9
<1>11. {} \in SUBSET FaultClasses /\ {"scan"} \in SUBSET FaultClasses
  BY DEF FaultClasses
<1>12. troubles' \in 0..MaxTroubles /\ suffered' \in SUBSET FaultClasses
       /\ suffered \subseteq suffered'
  BY <1>5, <1>10, <1>11, Suffering, Zenon
<1>13. flash' = flash /\ spoiled' = spoiled /\ appends' = appends /\ acked' = acked
  BY DEF Boot
<1>14. /\ nextSequence' \in 1..(appends + 1)
       /\ nextSlot' \in 0..Slots
       /\ pc' \in {"bootRoll", "idle"}
  BY <1>2, <1>5, <1>7, <1>8
<1>15. activeSector' \in Sectors
  BY <1>2, <1>4 DEF Sectors
<1>16. TypeOK'
  <2>1. nextSequence' \in 0..(MaxAppends + 1)
    BY <1>5, <1>14
  <2> QED
    BY <1>5, <1>12, <1>13, <1>14, <1>15, <2>1 DEF TypeOK
<1>17. Reach(flash', appends')
  BY <1>13 DEF Sane
<1> QED
  BY <1>5, <1>12, <1>13, <1>14, <1>16, <1>17 DEF Sane

(* A start from an orderly flash finds the leading sector and goes on in   *)
(* it.                                                                     *)
LEMMA BootSound ==
  ASSUME Sane, Sane', Sound, Boot, "scan" \notin suffered'
  PROVE  Sound'
<1>1. PICK U \in {{}} \cup {{slot} : slot \in Sectors \X SlotNumbers} :
       LET readable(s) == {i \in SlotNumbers : <<s, i>> \notin U}
           last == [s \in Sectors |-> LastSequence(s, readable(s))]
           active == Preferred(last)
           empty == \A s \in Sectors : ScanValid(s, readable(s)) = {}
           available == ScanEnd(active, readable(active))
       IN /\ Suffer(IF U = {} THEN {} ELSE {"scan"})
          /\ nextSequence' = IF empty THEN 1 ELSE last[active] + 1
          /\ activeSector' = IF empty THEN 1 ELSE active
          /\ nextSlot' = IF empty THEN Slots ELSE available
          /\ pc' = IF empty \/ available = Slots THEN "bootRoll" ELSE "idle"
  BY Zenon DEF Boot
<1>2. U = {}
  <2>1. U # {} => Suffer({"scan"})
    BY <1>1
  <2> QED
    BY <2>1 DEF Suffer
<1>3. \A s : {i \in SlotNumbers : <<s, i>> \notin U} = SlotNumbers
  BY <1>2
<1> DEFINE last == [s \in Sectors |-> LastSequence(s, SlotNumbers)]
           active == Preferred(last)
           empty == \A s \in Sectors : ScanValid(s, SlotNumbers) = {}
           available == ScanEnd(active, SlotNumbers)
<1>4. /\ nextSequence' = IF empty THEN 1 ELSE last[active] + 1
      /\ activeSector' = IF empty THEN 1 ELSE active
      /\ nextSlot' = IF empty THEN Slots ELSE available
      /\ pc' = IF empty \/ available = Slots THEN "bootRoll" ELSE "idle"
  <2> DEFINE readable(s) == {i \in SlotNumbers : <<s, i>> \notin U}
             found == [s \in Sectors |-> LastSequence(s, readable(s))]
             none == \A s \in Sectors : ScanValid(s, readable(s)) = {}
             next == ScanEnd(Preferred(found), readable(Preferred(found)))
  <2>1. /\ nextSequence' = IF none THEN 1 ELSE found[Preferred(found)] + 1
        /\ activeSector' = IF none THEN 1 ELSE Preferred(found)
        /\ nextSlot' = IF none THEN Slots ELSE next
        /\ pc' = IF none \/ next = Slots THEN "bootRoll" ELSE "idle"
    BY <1>1
  <2>2. \A s : readable(s) = SlotNumbers
    BY <1>3
  <2> HIDE DEF readable
  <2>3. found = last /\ (none <=> empty)
    BY <2>2
  <2>4. next = available
    BY <2>2, <2>3
  <2> HIDE DEF found, none, next, last, empty, available
  <2> QED
    BY <2>1, <2>3, <2>4
<1>5. flash' = flash /\ appends' = appends /\ acked' = acked /\ pc = "off"
  BY DEF Boot
<1>6. PICK a \in Sectors : Lead(flash[a], flash[Other(a)], appends)
  BY <1>5 DEF Sound, Place, Led
<1>7. TypeOK /\ flash[a] \in Contents /\ flash[Other(a)] \in Contents /\ appends \in Nat
      /\ Other(a) \in Sectors /\ \A s \in Sectors : s = a \/ s = Other(a)
  BY Others DEF Sane, TypeOK, Contents
<1>8. Covers(flash, acked) /\ Keeps(flash, acked, appends)
  BY DEF Sound
<1>9. CASE Recs(flash[a]) = {}
  <2>1. \A s \in Sectors : Recs(flash[s]) = {}
    BY <1>6, <1>7, <1>9 DEF Lead
  <2>2. empty
    BY <1>7, <2>1, LastIs
  <2>3. nextSequence' = 1 /\ activeSector' = 1 /\ pc' = "bootRoll"
    BY <1>4, <2>2
  <2>4. Recs(flash[1]) = {} /\ Recs(flash[Other(1)]) = {}
    BY <2>1 DEF Sectors, Other
  <2>5. Lead(flash[1], flash[Other(1)], appends)
    BY <2>4 DEF Lead, Ordered, After, Distant
  <2>6. Place'
    BY <1>5, <2>3, <2>4, <2>5 DEF Place, Active, Passive
  <2>7. Below(flash, 1) /\ acked = {}
    BY <1>8, <2>1 DEF Below, Covers
  <2>8. Numbered'
    BY <1>5, <2>3, <2>7 DEF Numbered
  <2> QED
    BY <1>5, <1>8, <2>6, <2>8 DEF Sound
<1>10. CASE Recs(flash[a]) # {}
  <2> DEFINE e == ScanEnd(a, SlotNumbers)
             l == LastSequence(a, SlotNumbers)
  <2>1. /\ \A i \in SlotNumbers : flash[a][i] = Blank <=> i >= e
        /\ e >= 1
        /\ ScanValid(a, SlotNumbers) # {}
        /\ Below(flash, l + 1)
        /\ LastSequence(Other(a), SlotNumbers) < l
    BY <1>6, <1>7, <1>10, ScanOfLead
  <2>2. e \in 0..Slots /\ Slots \in Nat
    BY <1>7, ScanEndIs, LogAssumption
  <2>3. \A s \in Sectors : LastSequence(s, SlotNumbers) \in Nat
    <3> SUFFICES ASSUME NEW s \in Sectors
                 PROVE  LastSequence(s, SlotNumbers) \in Nat
      OBVIOUS
    <3>1. \A i \in Recs(flash[s]) : flash[s][i].sequence \in Nat
      BY Records DEF Recs
    <3> QED
      BY <1>7, <3>1, LastIs
  <2>4. active = a
    <3>1. last[a] = l /\ last[Other(a)] = LastSequence(Other(a), SlotNumbers)
      BY <1>7
    <3>2. last[a] \in Nat /\ last[Other(a)] \in Nat /\ last[Other(a)] < last[a]
      BY <1>7, <2>1, <2>3, <3>1
    <3> HIDE DEF last
    <3>3. CASE a = 0
      BY <3>2, <3>3 DEF Preferred, Other
    <3>4. CASE a = 1
      BY <3>2, <3>4 DEF Preferred, Other
    <3> QED
      BY <3>3, <3>4 DEF Sectors
  <2>5. ~empty /\ last[a] = l
    BY <2>1
  <2>6. nextSequence' = l + 1 /\ activeSector' = a /\ nextSlot' = e
        /\ pc' = IF e = Slots THEN "bootRoll" ELSE "idle"
    BY <1>4, <2>4, <2>5
  <2> HIDE DEF e, l
  <2>7. \A q \in acked : q.sequence < l + 1
    <3> SUFFICES ASSUME NEW q \in acked
                 PROVE  q.sequence < l + 1
      OBVIOUS
    <3>1. PICK s \in Sectors : \E i \in Recs(flash[s]) : q.sequence <= flash[s][i].sequence
      BY <1>8 DEF Covers
    <3>2. PICK i \in Recs(flash[s]) : q.sequence <= flash[s][i].sequence
      BY <3>1
    <3>3. flash[s][i].sequence < l + 1
      BY <2>1 DEF Below
    <3>4. flash[s][i].sequence \in Nat /\ q.sequence \in Nat /\ l \in Nat
      BY <1>7, <2>3, Records DEF Recs, TypeOK, l
    <3> QED
      BY <3>2, <3>3, <3>4
  <2>8. Numbered'
    BY <1>5, <2>1, <2>6, <2>7 DEF Numbered
  <2>9. CASE e = Slots
    <3>1. Full(flash[a])
      BY <2>1, <2>2, <2>9 DEF Full, SlotNumbers
    <3>2. Place'
      BY <1>5, <1>6, <2>6, <2>9, <3>1 DEF Place, Active, Passive
    <3> QED
      BY <1>5, <1>8, <2>8, <3>2 DEF Sound
  <2>10. CASE e # Slots
    <3>1. e - 1 \in SlotNumbers /\ (e - 1) + 1 = e /\ ~(e - 1 >= e)
      BY <2>1, <2>2 DEF SlotNumbers
    <3>2. flash[a][e - 1] # Blank
      BY <2>1, <3>1
    <3>3. \A j \in Recs(flash[Other(a)]) : flash[Other(a)][j].stamp + e <= appends
      <4> SUFFICES ASSUME NEW j \in Recs(flash[Other(a)])
                   PROVE  flash[Other(a)][j].stamp + e <= appends
        OBVIOUS
      <4>1. flash[Other(a)][j].stamp + (e - 1) + 1 <= appends
        BY <1>6, <3>1, <3>2 DEF Lead, Distant
      <4>2. flash[Other(a)][j].stamp \in Nat
        BY Records DEF Recs
      <4> QED
        BY <1>7, <2>2, <4>1, <4>2
    <3>4. Fresh(flash[a], flash[Other(a)], e, e, appends)
      BY <1>6, <1>10, <2>1, <3>3 DEF Fresh, Lead
    <3>5. Place'
      BY <1>5, <2>6, <2>10, <3>4 DEF Place, Active, Passive, Position
    <3> QED
      BY <1>5, <1>8, <2>8, <3>5 DEF Sound
  <2> QED
    BY <2>9, <2>10
<1> QED
  BY <1>9, <1>10

-------------------------------------------------------------------------------
(* Rolls and appends.                                                      *)

(* The sectors before and after a step that replaces one of them.          *)
LEMMA Replaced ==
  ASSUME TypeOK, NEW s \in Sectors, NEW h \in Contents, flash' = [flash EXCEPT ![s] = h]
  PROVE  /\ flash' \in [Sectors -> Contents] /\ flash'[s] = h
         /\ flash'[Other(s)] = flash[Other(s)]
         /\ flash \in [Sectors -> Contents] /\ flash[s] \in Contents
         /\ flash[Other(s)] \in Contents
<1>1. flash \in [Sectors -> Contents]
  BY DEF TypeOK, Contents
<1> QED
  BY <1>1, Others

(* A sector that loses records keeps the bounds and the numbering.         *)
LEMMA LossBounded ==
  ASSUME TypeOK, NEW s \in Sectors, NEW h \in Contents, Remains(flash[s], h),
         flash' = [flash EXCEPT ![s] = h]
  PROVE  /\ \A n : Reach(flash, n) => Reach(flash', n)
         /\ \A m : Below(flash, m) => Below(flash', m)
<1>1. /\ flash'[s] = h /\ flash'[Other(s)] = flash[Other(s)] /\ flash[s] \in Contents
      /\ \A t \in Sectors : t = s \/ t = Other(s)
  BY Replaced, Others, Zenon
<1>2. Recs(h) \subseteq Recs(flash[s]) /\ \A i \in Recs(h) : h[i] = flash[s][i]
  BY <1>1, RemainsRecs
<1>3. \A t \in Sectors : \A i \in Recs(flash'[t]) :
        i \in Recs(flash[t]) /\ flash'[t][i] = flash[t][i]
  BY <1>1, <1>2
<1> QED
  BY <1>3 DEF Reach, Below

(* Rolls keep the bounds.                                                  *)
LEMMA RollSane ==
  ASSUME Sane, BootRoll \/ AppendRoll
  PROVE  Sane' /\ suffered \subseteq suffered' /\ (spoiled => spoiled')
<1>1. TypeOK /\ Other(activeSector) \in Sectors /\ Slots \in Nat \ {0}
  BY Others, LogAssumption DEF Sane, TypeOK
<1> DEFINE o == Other(activeSector)
<1>2. PICK good \in {"idle", "rolled"}, bad \in {"halt", "idle"} :
        /\ Roll(o, good, bad)
        /\ bad = "idle" => pc = "idle"
        /\ pc \in {"idle", "bootRoll"}
        /\ nextSequence' = nextSequence /\ appends' = appends /\ acked' = acked
  BY DEF BootRoll, AppendRoll
<1> HIDE DEF o
<1>3. /\ troubles' \in 0..MaxTroubles /\ suffered' \in SUBSET FaultClasses
      /\ suffered \subseteq suffered'
      /\ spoiled' \in BOOLEAN /\ (spoiled => spoiled')
      /\ \E h \in Contents :
           /\ Remains(flash[o], h)
           /\ flash' = [flash EXCEPT ![o] = h]
           /\ \/ /\ pc' = good /\ activeSector' = o /\ nextSlot' = 0
                 /\ ~spoiled' => Full(h) \/ \A i \in SlotNumbers : h[i] = Blank
              \/ pc' = bad /\ activeSector' = activeSector /\ nextSlot' = nextSlot
  BY <1>1, <1>2, RollEffect, Zenon DEF o
<1>4. PICK h \in Contents :
        /\ Remains(flash[o], h)
        /\ flash' = [flash EXCEPT ![o] = h]
        /\ \/ pc' = good /\ activeSector' = o /\ nextSlot' = 0
           \/ pc' = bad /\ activeSector' = activeSector /\ nextSlot' = nextSlot
  BY <1>3, Zenon
<1>5. flash' \in [Sectors -> Contents] /\ Reach(flash', appends')
  BY <1>1, <1>2, <1>4, Replaced, LossBounded, Zenon DEF Sane, o
<1>6. activeSector' \in Sectors /\ nextSlot' \in 0..Slots /\ pc' \in {"idle", "rolled", "halt"}
      /\ (pc' = "rolled" => nextSlot' < Slots)
  BY <1>1, <1>2, <1>4 DEF TypeOK, o
<1>7. TypeOK'
  BY <1>1, <1>2, <1>3, <1>5, <1>6 DEF TypeOK, Contents
<1>8. 1 <= nextSequence' /\ nextSequence' <= appends' + 1
  BY <1>2 DEF Sane
<1>9. Sane'
  BY <1>5, <1>6, <1>7, <1>8 DEF Sane
<1> QED
  BY <1>3, <1>9, Zenon

(* What a roll needs and what it gives, at a start and in an append.       *)
LEMMA RollSound ==
  ASSUME Sane, Sound, NEW good \in {"idle", "rolled"}, NEW bad \in {"halt", "idle"},
         pc \in {"idle", "bootRoll"}, ~spoiled',
         Roll(Other(activeSector), good, bad),
         nextSequence' = nextSequence, appends' = appends, acked' = acked,
         Lead(Active, Passive, appends), Full(Active) \/ Recs(Active) = {},
         bad = "idle" => /\ Fresh(Active, Passive, nextSlot, nextSlot, appends)
                         /\ Recs(Active) # {}
  PROVE  Sound'
<1> DEFINE a == activeSector
           o == Other(activeSector)
<1>1. TypeOK /\ a \in Sectors /\ o \in Sectors /\ Other(o) = a /\ appends \in Nat
      /\ acked \in SUBSET Record /\ Slots \in Nat \ {0}
  BY Others, LogAssumption DEF Sane, TypeOK
<1>2. PICK h \in Contents :
        /\ Remains(flash[o], h)
        /\ flash' = [flash EXCEPT ![o] = h]
        /\ \/ /\ pc' = good /\ activeSector' = o /\ nextSlot' = 0
              /\ ~spoiled' => Full(h) \/ \A i \in SlotNumbers : h[i] = Blank
           \/ pc' = bad /\ activeSector' = activeSector /\ nextSlot' = nextSlot
  BY <1>1, RollEffect, Zenon
<1>3. /\ flash'[o] = h /\ flash'[a] = flash[a] /\ flash \in [Sectors -> Contents]
      /\ flash[a] \in Contents /\ flash[o] \in Contents
  BY <1>1, <1>2, Replaced, Zenon
<1>4. Lead(flash[a], flash[o], appends) /\ (Full(flash[a]) \/ Recs(flash[a]) = {})
  BY DEF Active, Passive
<1> HIDE DEF a, o
<1>5. Lead(flash[a], h, appends)
  BY <1>1, <1>2, <1>3, <1>4, LeadRemains
<1>6. Full(flash[a]) \/ Recs(flash[o]) = {}
  BY <1>4 DEF Lead
<1>7. Covers(flash', acked') /\ Keeps(flash', acked', appends')
  BY <1>1, <1>2, <1>3, <1>4, <1>6, LossAllowed, Zenon DEF Sound, o, a
<1>8. Below(flash', nextSequence') /\ \A q \in acked' : q.sequence < nextSequence'
  BY <1>1, <1>2, LossBounded, Zenon DEF Sound, Numbered
<1>9. CASE /\ pc' = good /\ activeSector' = o /\ nextSlot' = 0
           /\ ~spoiled' => Full(h) \/ \A i \in SlotNumbers : h[i] = Blank
  <2>1. \A i \in Recs(flash[a]) : flash[a][i].stamp <= appends
    BY <1>1 DEF Sane, Reach
  <2>2. Fresh(h, flash[a], 0, 0, appends) \/ Vain(h, flash[a], 0, appends)
    <3>1. CASE \A i \in SlotNumbers : h[i] = Blank
      BY <1>1, <1>3, <1>4, <2>1, <3>1, RollErased, Zenon DEF Lead
    <3>2. CASE Full(h)
      BY <1>1, <1>3, <1>4, <1>5, <3>2, RollIgnored
    <3> QED
      BY <1>9, <3>1, <3>2, Zenon
  <2>3. Active' = h /\ Passive' = flash[a]
    BY <1>1, <1>3, <1>9 DEF Active, Passive
  <2>4. Position(nextSlot, nextSlot)'
    BY <1>9, <2>2, <2>3 DEF Position
  <2>5. Place'
    BY <1>1, <1>9, <2>4 DEF Place
  <2>6. Numbered'
    BY <1>8, <1>9 DEF Numbered
  <2> QED
    BY <1>7, <2>5, <2>6 DEF Sound
<1>10. CASE pc' = bad /\ activeSector' = activeSector /\ nextSlot' = nextSlot
  <2>1. Active' = flash[a] /\ Passive' = h /\ Active = flash[a] /\ Passive = flash[o]
    BY <1>3, <1>10 DEF Active, Passive, a, o
  <2>2. CASE bad = "halt"
    <3>1. Place'
      BY <1>4, <1>5, <1>10, <2>1, <2>2 DEF Place
    <3>2. Numbered'
      BY <1>10, <2>2 DEF Numbered
    <3> QED
      BY <1>7, <3>1, <3>2 DEF Sound
  <2>3. CASE bad = "idle"
    <3>1. Recs(h) \subseteq Recs(flash[o]) /\ \A i \in Recs(h) : h[i] = flash[o][i]
      BY <1>2, <1>3, RemainsRecs
    <3>2. Fresh(flash[a], h, nextSlot, nextSlot, appends)
      BY <1>5, <2>1, <2>3, <3>1, Zenon DEF Fresh, Lead
    <3>3. Recs(flash[a]) # {}
      BY <2>1, <2>3
    <3>4. Place'
      BY <1>10, <2>1, <2>3, <3>2, <3>3 DEF Place, Position
    <3>5. Numbered'
      BY <1>8, <1>10, <2>3 DEF Numbered
    <3> QED
      BY <1>7, <3>4, <3>5 DEF Sound
  <2> QED
    BY <2>2, <2>3
<1> QED
  BY <1>2, <1>9, <1>10

(* The roll of a start.                                                    *)
LEMMA BootRollSound ==
  ASSUME Sane, Sound, BootRoll, ~spoiled'
  PROVE  Sound'
<1>1. Lead(Active, Passive, appends) /\ (Full(Active) \/ Recs(Active) = {})
  BY DEF BootRoll, Sound, Place
<1>2. /\ pc = "bootRoll" /\ Roll(Other(activeSector), "idle", "halt")
      /\ nextSequence' = nextSequence /\ appends' = appends /\ acked' = acked
  BY DEF BootRoll
<1>3. "halt" # "idle"
  OBVIOUS
<1> QED
  BY <1>1, <1>2, <1>3, RollSound, Zenon

(* The roll of an append.                                                  *)
LEMMA AppendRollSound ==
  ASSUME Sane, Sound, AppendRoll, ~spoiled'
  PROVE  Sound'
<1>1. /\ pc = "idle" /\ Roll(Other(activeSector), "rolled", "idle")
      /\ nextSequence' = nextSequence /\ appends' = appends /\ acked' = acked
  BY DEF AppendRoll
<1>2. nextSlot = Slots
  BY LogAssumption DEF AppendRoll, Sane, TypeOK
<1>3. Position(Slots, Slots) /\ Recs(Active) # {}
  BY <1>1, <1>2 DEF Sound, Place
<1>4. Active \in Contents /\ Passive \in Contents /\ appends \in Nat
  BY Others DEF Sane, TypeOK, Contents, Active, Passive
<1>5. Fresh(Active, Passive, Slots, Slots, appends) /\ Lead(Active, Passive, appends)
      /\ Full(Active)
  BY <1>3, <1>4, FullSectorLeads DEF Position
<1> QED
  BY <1>1, <1>2, <1>3, <1>5, RollSound, Zenon

(* An append begins.                                                       *)
LEMMA AppendStartSane ==
  ASSUME Sane, AppendStart
  PROVE  Sane' /\ suffered' = suffered /\ spoiled' = spoiled
<1>1. /\ flash' = flash /\ activeSector' = activeSector /\ nextSlot' = nextSlot
      /\ nextSequence' = nextSequence /\ troubles' = troubles /\ suffered' = suffered
      /\ spoiled' = spoiled /\ acked' = acked
      /\ appends' = appends + 1 /\ appends < MaxAppends /\ pc' = "program"
      /\ pc = "rolled" \/ (pc = "idle" /\ nextSlot < Slots)
  BY DEF AppendStart
<1>2. appends \in Nat /\ appends' \in 0..MaxAppends
  BY <1>1, LogAssumption DEF Sane, TypeOK
<1>3. TypeOK'
  BY <1>1, <1>2 DEF Sane, TypeOK
<1>4. Reach(flash', appends')
  <2>1. \A s \in Sectors : \A i \in Recs(flash[s]) :
          flash[s][i].sequence \in Nat /\ flash[s][i].stamp \in Nat
    BY Records DEF Recs
  <2> QED
    BY <1>1, <1>2, <2>1 DEF Sane, Reach
<1>5. 1 <= nextSequence' /\ nextSequence' <= appends' + 1 /\ nextSequence' <= appends'
      /\ nextSlot' < Slots
  <2>1. nextSequence \in Nat
    BY LogAssumption DEF Sane, TypeOK
  <2> QED
    BY <1>1, <1>2, <2>1 DEF Sane
<1> QED
  BY <1>1, <1>3, <1>4, <1>5 DEF Sane

(* The beginning of an append leaves the sectors in order.                 *)
LEMMA AppendStartSound ==
  ASSUME Sane, Sound, AppendStart
  PROVE  Sound'
<1>1. /\ flash' = flash /\ activeSector' = activeSector /\ nextSlot' = nextSlot
      /\ nextSequence' = nextSequence /\ acked' = acked
      /\ appends' = appends + 1 /\ pc' = "program" /\ pc \in {"rolled", "idle"}
  BY DEF AppendStart
<1>2. Active \in Contents /\ Passive \in Contents /\ appends \in Nat /\ nextSlot \in Nat
      /\ Slots \in Nat /\ acked \in SUBSET Record
  BY Others, LogAssumption DEF Sane, TypeOK, Contents, Active, Passive
<1>3. Active' = Active /\ Passive' = Passive
  BY <1>1 DEF Active, Passive
<1>4. Position(nextSlot, nextSlot)
  BY <1>1 DEF Sound, Place
<1>5. Position(nextSlot, nextSlot + 1)'
  <2>1. CASE Fresh(Active, Passive, nextSlot, nextSlot, appends)
    <3>1. Fresh(Active, Passive, nextSlot, nextSlot + 1, appends + 1)
      BY <1>2, <2>1, FreshLater
    <3> QED
      BY <1>1, <1>3, <3>1 DEF Position
  <2>2. CASE Vain(Active, Passive, nextSlot, appends)
    <3>1. Vain(Active, Passive, nextSlot, appends + 1)
      BY <1>2, <2>2, LeadLater DEF Vain
    <3> QED
      BY <1>1, <1>3, <3>1 DEF Position
  <2> QED
    BY <1>4, <2>1, <2>2 DEF Position
<1>6. \A s \in Sectors : \A i \in Recs(flash[s]) :
        flash[s][i].stamp \in Nat /\ flash[s][i].stamp <= appends
  BY Records DEF Recs, Sane, Reach
<1>7. Place'
  BY <1>1, <1>2, <1>5, <1>6 DEF Place
<1>8. Numbered'
  BY <1>1 DEF Sound, Numbered
<1>9. Keeps(flash, acked, appends + 1)
  <2>1. \A q \in acked : q.stamp \in Nat
    BY <1>2, Records
  <2>2. \A q \in acked : q.stamp + Slots <= appends + 1
                  \/ \E s \in Sectors : \E i \in Recs(flash[s]) : flash[s][i] = q
    BY <1>2, <2>1 DEF Sound, Keeps
  <2>3. \A s \in Sectors : \A i \in SlotNumbers : \A j \in Recs(flash[s]) :
          i < j /\ flash[s][i] = Blank => flash[s][j].stamp + Slots <= appends + 1
    BY <1>2, <1>6 DEF Sound, Keeps
  <2> QED
    BY <2>2, <2>3 DEF Keeps
<1> QED
  BY <1>1, <1>7, <1>8, <1>9 DEF Sound

(* The flash after a program.                                              *)
LEMMA Written ==
  ASSUME Sane, pc = "program", NEW c \in {Slot, Torn, Programmed(Slot, NewRecord)},
         flash' = [flash EXCEPT ![activeSector][nextSlot] = c]
  PROVE  /\ flash' \in [Sectors -> Contents]
         /\ flash'[activeSector] = [Active EXCEPT ![nextSlot] = c]
         /\ flash'[Other(activeSector)] = Passive
         /\ flash' = [flash EXCEPT ![activeSector] = [Active EXCEPT ![nextSlot] = c]]
         /\ \A s \in Sectors : \A i \in Recs(flash'[s]) :
              \/ i \in Recs(flash[s]) /\ flash'[s][i] = flash[s][i]
              \/ flash'[s][i] = NewRecord
<1>1. flash \in [Sectors -> Contents] /\ activeSector \in Sectors
      /\ Other(activeSector) \in Sectors /\ Other(activeSector) # activeSector
  BY Others DEF Sane, TypeOK, Contents
<1>2. nextSlot \in SlotNumbers /\ c \in Record \cup {Blank, Torn}
      /\ (c \in Record => c \in {Slot, NewRecord})
  BY SlotTyped
<1>3. flash' = [flash EXCEPT ![activeSector] = [Active EXCEPT ![nextSlot] = c]]
  BY DEF Active
<1> DEFINE h == [Active EXCEPT ![nextSlot] = c]
<1>4. Active \in Contents
  BY <1>1 DEF Active
<1>5. h \in Contents /\ h[nextSlot] = c /\ \A i \in SlotNumbers \ {nextSlot} : h[i] = Active[i]
  BY <1>2, <1>4 DEF Contents
<1>6. flash' = [flash EXCEPT ![activeSector] = h]
  BY <1>3, Zenon
<1> HIDE DEF h
<1>7. /\ flash' \in [Sectors -> Contents] /\ flash'[activeSector] = h
      /\ \A s \in Sectors \ {activeSector} : flash'[s] = flash[s]
  BY <1>1, <1>5, <1>6, Zenon
<1>8. ASSUME NEW s \in Sectors, NEW i \in Recs(flash'[s])
      PROVE  \/ i \in Recs(flash[s]) /\ flash'[s][i] = flash[s][i]
             \/ flash'[s][i] = NewRecord
  <2>1. CASE s # activeSector
    BY <1>7, <2>1
  <2>2. CASE s = activeSector /\ i # nextSlot
    BY <1>5, <1>7, <2>2 DEF Recs, Active
  <2>3. CASE s = activeSector /\ i = nextSlot
    BY <1>2, <1>5, <1>7, <2>3 DEF Recs, Slot
  <2> QED
    BY <2>1, <2>2, <2>3
<1> QED
  BY <1>1, <1>3, <1>7, <1>8, Zenon DEF h, Passive

(* A program keeps the bounds.                                             *)
LEMMA WrittenReach ==
  ASSUME Sane, pc = "program", NEW c \in {Slot, Torn, Programmed(Slot, NewRecord)},
         flash' = [flash EXCEPT ![activeSector][nextSlot] = c]
  PROVE  Reach(flash', appends)
<1>1. \A s \in Sectors : \A i \in Recs(flash'[s]) :
        \/ i \in Recs(flash[s]) /\ flash'[s][i] = flash[s][i]
        \/ flash'[s][i] = NewRecord
  BY Written, Zenon
<1>2. NewRecord.sequence <= appends /\ NewRecord.stamp <= appends
  BY SlotTyped DEF Sane, TypeOK
<1> QED
  BY <1>1, <1>2 DEF Sane, Reach

(* The program of a slot keeps the numbers within bounds.                  *)
LEMMA AppendProgramSane ==
  ASSUME Sane, AppendProgram
  PROVE  Sane' /\ suffered \subseteq suffered' /\ (spoiled => spoiled')
<1>1. pc = "program" /\ activeSector' = activeSector /\ appends' = appends /\ acked' = acked
  BY DEF AppendProgram
<1>2. PICK c \in {Slot, Torn, Programmed(Slot, NewRecord)} :
        /\ flash' = [flash EXCEPT ![activeSector][nextSlot] = c]
        /\ \/ pc' = "verify" /\ nextSlot' = nextSlot /\ nextSequence' = nextSequence
           \/ pc' = "idle" /\ nextSlot' = nextSlot + 1 /\ nextSequence' = nextSequence + 1
  BY ProgramEffect, Zenon
<1>3. flash' \in [Sectors -> Contents] /\ Reach(flash', appends')
  BY <1>1, <1>2, Written, WrittenReach, Zenon
<1>4. /\ nextSlot \in 0..Slots /\ nextSlot < Slots /\ Slots \in Nat
      /\ nextSequence \in Nat /\ 1 <= nextSequence /\ nextSequence <= appends
      /\ appends \in 0..MaxAppends /\ MaxAppends \in Nat
  BY <1>1, LogAssumption DEF Sane, TypeOK
<1>5. /\ nextSlot' \in 0..Slots /\ nextSequence' \in 1..(appends + 1)
      /\ pc' = "verify" => nextSlot' < Slots /\ nextSequence' <= appends
      /\ pc' \in {"verify", "idle"}
  BY <1>2, <1>4
<1>6. nextSequence' \in 0..(MaxAppends + 1)
  BY <1>4, <1>5
<1>7. TypeOK'
  BY <1>1, <1>3, <1>5, <1>6, ProgramEffect DEF Sane, TypeOK, Contents
<1>8. Sane'
  BY <1>1, <1>3, <1>4, <1>5, <1>7 DEF Sane
<1> QED
  BY <1>8, ProgramEffect, Zenon

(* The position after the next slot was programmed.                        *)
LEMMA WrittenSound ==
  ASSUME Sane, Sound, pc = "program", NEW c \in {Torn, Programmed(Slot, NewRecord)},
         flash' = [flash EXCEPT ![activeSector][nextSlot] = c]
  PROVE  /\ \/ Fresh(flash'[activeSector], Passive, nextSlot + 1, nextSlot + 1, appends)
            \/ Vain(flash'[activeSector], Passive, nextSlot + 1, appends)
         /\ Below(flash', nextSequence + 1)
         /\ Covers(flash', acked) /\ Keeps(flash', acked, appends)
<1> DEFINE a == activeSector
           k == nextSlot
<1>1. /\ TypeOK /\ a \in Sectors /\ Other(a) \in Sectors /\ Other(Other(a)) = a
      /\ appends \in Nat /\ acked \in SUBSET Record /\ flash \in [Sectors -> Contents]
      /\ Active \in Contents /\ Passive \in Contents
      /\ Active = flash[a] /\ Passive = flash[Other(a)] /\ nextSequence \in Nat
  BY Others, LogAssumption DEF Sane, TypeOK, Contents, Active, Passive
<1>2. c \in {Slot, Torn, Programmed(Slot, NewRecord)}
  OBVIOUS
<1>3. /\ NewRecord \in Record /\ NewRecord.sequence = nextSequence
      /\ NewRecord.stamp = appends /\ k \in SlotNumbers
  BY <1>2, SlotTyped
<1>4. /\ flash'[a] = [Active EXCEPT ![k] = c] /\ flash'[Other(a)] = Passive
      /\ flash' = [flash EXCEPT ![a] = [Active EXCEPT ![k] = c]]
      /\ \A s \in Sectors : \A i \in Recs(flash'[s]) :
           \/ i \in Recs(flash[s]) /\ flash'[s][i] = flash[s][i]
           \/ flash'[s][i] = NewRecord
  BY <1>2, Written, Zenon
<1>5. \A s \in Sectors : \A i \in Recs(flash[s]) :
        /\ flash[s][i].sequence \in Nat /\ flash[s][i].sequence < nextSequence
        /\ flash[s][i].stamp < appends
  BY Records DEF Recs, Sound, Place, Numbered, Below
<1>6. Position(k, k + 1) /\ Covers(flash, acked) /\ Keeps(flash, acked, appends)
  BY DEF Sound, Place
<1>7. Slot = Active[k]
  BY DEF Slot, Active
<1> HIDE DEF a, k
<1>8. Below(flash', nextSequence + 1)
  BY <1>1, <1>3, <1>4, <1>5 DEF Below
<1>9. \A s \in Sectors : \A i \in Recs(flash[s]) : Older(flash[s][i], NewRecord)
  BY <1>3, <1>5 DEF Older
<1>10. CASE Fresh(Active, Passive, k, k + 1, appends)
  <2>1. \A i \in SlotNumbers : Active[i] = Blank <=> i >= k
    BY <1>10 DEF Fresh
  <2>2. Slot = Blank
    BY <1>3, <1>7, <2>1 DEF SlotNumbers
  <2>3. c \in {Torn, NewRecord}
    BY <2>2 DEF Programmed
  <2>4. c \in Record => /\ \A i \in Recs(Active) : Older(Active[i], c)
                        /\ \A j \in Recs(Passive) : Older(Passive[j], c)
    BY <1>1, <1>9, <2>3, Records
  <2>5. Fresh(flash'[a], Passive, k + 1, k + 1, appends)
    BY <1>1, <1>3, <1>4, <1>10, <2>3, <2>4, FreshProgram
  <2>6. flash' = [flash EXCEPT ![a][k] = c]
    BY DEF a, k
  <2>7. Covers(flash', acked) /\ Keeps(flash', acked, appends)
    <3>1. c \in Record \cup {Torn}
      BY <1>3, <2>3
    <3>2. \A i \in SlotNumbers : flash[a][i] = Blank <=> i >= k
      BY <1>1, <2>1
    <3>3. /\ Covers([flash EXCEPT ![a][k] = c], acked)
          /\ Keeps([flash EXCEPT ![a][k] = c], acked, appends)
      BY <1>1, <1>3, <1>6, <3>1, <3>2, GainAllowed, Zenon
    <3> QED
      BY <2>6, <3>3, Zenon
  <2> QED
    BY <1>8, <2>5, <2>7 DEF a, k
<1>11. CASE Vain(Active, Passive, k, appends)
  <2>1. Slot # Blank
    BY <1>3, <1>7, <1>11 DEF Vain, Full
  <2>2. Slot # NewRecord
    <3>1. ASSUME Slot = NewRecord
          PROVE  FALSE
      <4>1. k \in Recs(flash[a])
        BY <1>1, <1>3, <1>7, <3>1, Zenon DEF Recs
      <4>2. NewRecord.sequence < nextSequence
        BY <1>1, <1>5, <1>7, <3>1, <4>1, Zenon
      <4> QED
        BY <1>1, <1>3, <4>2
    <3> QED
      BY <3>1
  <2>3. c = Torn
    BY <2>1, <2>2 DEF Programmed
  <2>4. Vain(flash'[a], Passive, k + 1, appends)
    BY <1>1, <1>3, <1>4, <1>11, <2>3, VainProgram
  <2> DEFINE h == [Active EXCEPT ![k] = c]
  <2>5. h \in Contents /\ Remains(Active, h)
    BY <1>1, <1>3, <2>3 DEF Contents, Remains
  <2>6. flash' = [flash EXCEPT ![a] = h]
    BY <1>4, Zenon
  <2> HIDE DEF h
  <2>7. Lead(Passive, Active, appends) /\ (Full(Passive) \/ Recs(Active) = {})
    BY <1>11 DEF Vain
  <2>8. Covers(flash', acked) /\ Keeps(flash', acked, appends)
    <3> DEFINE o == Other(a)
    <3>1. o \in Sectors /\ Other(o) = a /\ flash[o] = Passive /\ flash[Other(o)] = Active
      BY <1>1
    <3> HIDE DEF o
    <3>2. flash' = [flash EXCEPT ![Other(o)] = h]
      BY <2>6, <3>1, Zenon
    <3>3. /\ Remains(flash[Other(o)], h) /\ Lead(flash[o], flash[Other(o)], appends)
          /\ Full(flash[o]) \/ Recs(flash[Other(o)]) = {}
      BY <2>5, <2>7, <3>1
    <3>4. /\ Covers([flash EXCEPT ![Other(o)] = h], acked)
          /\ Keeps([flash EXCEPT ![Other(o)] = h], acked, appends)
      BY <1>1, <1>6, <2>5, <3>1, <3>3, LossAllowed, Zenon
    <3> QED
      BY <3>2, <3>4, Zenon
  <2> QED
    BY <1>8, <2>4, <2>8 DEF a, k
<1> QED
  BY <1>6, <1>10, <1>11 DEF Position

(* The program of a slot keeps the sectors in order, unless it left the    *)
(* slot as it was or filled a sector without a record.                     *)
LEMMA AppendProgramSound ==
  ASSUME Sane, Sound, AppendProgram, "hole" \notin suffered', ~spoiled'
  PROVE  Sound'
<1>1. pc = "program" /\ activeSector' = activeSector /\ appends' = appends /\ acked' = acked
  BY DEF AppendProgram
<1>2. PICK c \in {Torn, Programmed(Slot, NewRecord)} :
        /\ flash' = [flash EXCEPT ![activeSector][nextSlot] = c]
        /\ \/ pc' = "verify" /\ nextSlot' = nextSlot /\ nextSequence' = nextSequence
           \/ /\ pc' = "idle" /\ nextSlot' = nextSlot + 1 /\ nextSequence' = nextSequence + 1
              /\ ~(nextSlot' = Slots /\ Barren(flash'[activeSector]))
  BY ProgramEffect, Zenon
<1>3. c \in {Slot, Torn, Programmed(Slot, NewRecord)}
  OBVIOUS
<1>4. Active' = flash'[activeSector] /\ Passive' = Passive
  BY <1>1, <1>2, <1>3, Written, Zenon DEF Active, Passive
<1>5. /\ \/ Fresh(Active', Passive', nextSlot + 1, nextSlot + 1, appends')
         \/ Vain(Active', Passive', nextSlot + 1, appends')
      /\ Below(flash', nextSequence + 1)
      /\ Covers(flash', acked') /\ Keeps(flash', acked', appends')
  BY <1>1, <1>2, <1>4, WrittenSound, Zenon
<1>6. \A q \in acked' : q.sequence < nextSequence
  BY <1>1 DEF Sound, Numbered
<1>7. nextSequence \in Nat /\ \A q \in acked' : q.sequence \in Nat
  BY <1>1, Records, LogAssumption DEF Sane, TypeOK
<1>8. CASE pc' = "verify" /\ nextSlot' = nextSlot /\ nextSequence' = nextSequence
  <2>1. Place'
    BY <1>5, <1>8, Zenon DEF Place, Position
  <2>2. Numbered'
    BY <1>5, <1>6, <1>8 DEF Numbered
  <2> QED
    BY <1>5, <2>1, <2>2 DEF Sound
<1>9. CASE /\ pc' = "idle" /\ nextSlot' = nextSlot + 1 /\ nextSequence' = nextSequence + 1
           /\ ~(nextSlot' = Slots /\ Barren(flash'[activeSector]))
  <2>1. nextSlot' = Slots => Recs(Active') # {}
    BY <1>4, <1>9 DEF Barren, Recs
  <2>2. Place'
    BY <1>5, <1>9, <2>1, Zenon DEF Place, Position
  <2>3. \A q \in acked' : q.sequence < nextSequence'
    BY <1>6, <1>7, <1>9
  <2>4. Numbered'
    BY <1>5, <1>9, <2>3 DEF Numbered
  <2> QED
    BY <1>5, <2>2, <2>4 DEF Sound
<1> QED
  BY <1>2, <1>8, <1>9

(* The end of an append.                                                   *)
LEMMA AppendVerifySane ==
  ASSUME Sane, AppendVerify
  PROVE  Sane' /\ suffered \subseteq suffered' /\ (spoiled => spoiled')
<1>1. /\ flash' = flash /\ activeSector' = activeSector /\ appends' = appends
      /\ pc' = "idle" /\ nextSlot' = nextSlot + 1 /\ nextSequence' = nextSequence + 1
      /\ acked' = acked \/ acked' = acked \cup {NewRecord}
      /\ pc = "verify"
  BY VerifyEffect DEF AppendVerify
<1>2. /\ nextSlot \in 0..Slots /\ nextSlot < Slots /\ Slots \in Nat
      /\ nextSequence \in Nat /\ 1 <= nextSequence /\ nextSequence <= appends
      /\ appends \in 0..MaxAppends /\ MaxAppends \in Nat
  BY <1>1, LogAssumption DEF Sane, TypeOK
<1>3. NewRecord \in Record
  BY <1>1, SlotTyped
<1>4. nextSlot' \in 0..Slots /\ nextSequence' \in 1..(appends + 1)
      /\ nextSequence' \in 0..(MaxAppends + 1)
  BY <1>1, <1>2
<1>5. TypeOK'
  BY <1>1, <1>3, <1>4, VerifyEffect DEF Sane, TypeOK
<1>6. Sane'
  BY <1>1, <1>2, <1>4, <1>5 DEF Sane
<1> QED
  BY <1>6, VerifyEffect, Zenon

(* The end of an append keeps the sectors in order, and the record is kept *)
(* if it was acknowledged.                                                 *)
LEMMA AppendVerifySound ==
  ASSUME Sane, Sound, AppendVerify, ~spoiled'
  PROVE  Sound'
<1>1. /\ flash' = flash /\ activeSector' = activeSector /\ appends' = appends
      /\ pc' = "idle" /\ nextSlot' = nextSlot + 1 /\ nextSequence' = nextSequence + 1
      /\ acked' = acked \/ (Slot = NewRecord /\ acked' = acked \cup {NewRecord})
      /\ ~(nextSlot' = Slots /\ Barren(flash[activeSector]))
      /\ pc = "verify"
  BY VerifyEffect, Zenon DEF AppendVerify
<1>2. Active' = Active /\ Passive' = Passive
  BY <1>1 DEF Active, Passive
<1>3. Position(nextSlot + 1, nextSlot + 1) /\ Below(flash, nextSequence + 1)
      /\ Covers(flash, acked) /\ Keeps(flash, acked, appends)
      /\ \A q \in acked : q.sequence < nextSequence
  BY <1>1, Zenon DEF Sound, Place, Numbered
<1>4. nextSlot' = Slots => Recs(Active') # {}
  BY <1>1, <1>2 DEF Barren, Recs, Active
<1>5. Place'
  BY <1>1, <1>2, <1>3, <1>4, Zenon DEF Place, Position
<1>6. /\ NewRecord \in Record /\ NewRecord.sequence = nextSequence
      /\ nextSlot \in SlotNumbers /\ activeSector \in Sectors /\ nextSequence \in Nat
      /\ acked \in SUBSET Record
  BY <1>1, SlotTyped, LogAssumption DEF Sane, TypeOK
<1>7. \A q \in acked' : q.sequence < nextSequence + 1
  <2>1. \A q \in acked : q.sequence \in Nat
    BY <1>6, Records
  <2> QED
    BY <1>1, <1>3, <1>6, <2>1
<1>8. Numbered'
  BY <1>1, <1>3, <1>7 DEF Numbered
<1>9. Slot = NewRecord => nextSlot \in Recs(flash[activeSector])
                          /\ flash[activeSector][nextSlot] = NewRecord
  BY <1>6 DEF Slot, Recs
<1>10. Covers(flash, acked')
  <2>1. nextSequence <= nextSequence
    BY <1>6
  <2> QED
    BY <1>1, <1>3, <1>6, <1>9, <2>1, Zenon DEF Covers
<1>11. Keeps(flash, acked', appends)
  BY <1>1, <1>3, <1>6, <1>9, Zenon DEF Keeps
<1> QED
  BY <1>1, <1>5, <1>8, <1>10, <1>11 DEF Sound

-------------------------------------------------------------------------------
(* Power cuts.                                                             *)

(* A power cut keeps the bounds.                                           *)
LEMMA PowerLossSane ==
  ASSUME Sane, PowerLoss
  PROVE  Sane' /\ suffered' = suffered /\ spoiled' = spoiled
<1>1. /\ pc' = "off" /\ activeSector' = 0 /\ nextSlot' = 0 /\ nextSequence' = 0
      /\ suffered' = suffered /\ spoiled' = spoiled /\ appends' = appends /\ acked' = acked
      /\ troubles' \in 0..MaxTroubles
  BY LogAssumption DEF PowerLoss, Sane, TypeOK
<1>2. flash' \in [Sectors -> Contents] /\ Reach(flash', appends)
  <2>1. flash \in [Sectors -> Contents] /\ Other(activeSector) \in Sectors
    BY Others DEF Sane, TypeOK, Contents
  <2>2. CASE flash' = flash
    BY <2>1, <2>2 DEF Sane
  <2>3. CASE /\ pc = "program"
             /\ \E c \in ProgramCut(Slot, NewRecord) :
                  flash' = [flash EXCEPT ![activeSector][nextSlot] = c]
    BY <2>3, Written, WrittenReach, Zenon DEF ProgramCut
  <2>4. CASE \E f \in Cut(Other(activeSector)) :
               flash' = [flash EXCEPT ![Other(activeSector)] = f]
    <3>1. PICK f \in Cut(Other(activeSector)) :
               flash' = [flash EXCEPT ![Other(activeSector)] = f]
      BY <2>4, Zenon
    <3>2. TypeOK /\ f \in Contents /\ Remains(flash[Other(activeSector)], f)
      BY <2>1, CutRemains DEF Sane
    <3> QED
      BY <2>1, <3>1, <3>2, Replaced, LossBounded, Zenon DEF Sane
  <2> QED
    BY <2>2, <2>3, <2>4 DEF PowerLoss
<1>3. TypeOK'
  <2>1. 0 \in Sectors /\ 0 \in 0..Slots /\ 0 \in 0..(MaxAppends + 1)
    BY LogAssumption DEF Sectors
  <2> QED
    BY <1>1, <1>2, <2>1 DEF Sane, TypeOK, Contents
<1> QED
  BY <1>1, <1>2, <1>3 DEF Sane

(* Wherever the log is when power fails, one of the sectors leads.         *)
LEMMA PositionLeads ==
  ASSUME NEW f \in Contents, NEW g \in Contents, NEW used \in Nat, NEW length \in Nat,
         used <= length, NEW n \in Nat,
         Fresh(f, g, used, length, n) \/ Vain(f, g, used, n)
  PROVE  Lead(f, g, n) \/ Lead(g, f, n)
BY FreshLeads DEF Vain

(* Either sector may be the one that leads.                                *)
LEMMA LedBy ==
  ASSUME NEW F, NEW n, NEW s \in Sectors,
         Lead(F[s], F[Other(s)], n) \/ Lead(F[Other(s)], F[s], n)
  PROVE  Led(F, n)
BY Others DEF Led

(* A power cut at any point leaves the sectors in order.                   *)
LEMMA PowerLossSound ==
  ASSUME Sane, Sound, PowerLoss
  PROVE  Sound'
<1>1. pc' = "off" /\ appends' = appends /\ acked' = acked
  BY DEF PowerLoss
<1> DEFINE a == activeSector
           o == Other(activeSector)
<1>2. /\ TypeOK /\ a \in Sectors /\ o \in Sectors /\ appends \in Nat
      /\ Other(o) = a /\ acked \in SUBSET Record
      /\ flash \in [Sectors -> Contents] /\ flash[a] \in Contents /\ flash[o] \in Contents
      /\ Active = flash[a] /\ Passive = flash[o] /\ nextSlot \in Nat /\ Slots \in Nat
  BY Others, LogAssumption DEF Sane, TypeOK, Contents, Active, Passive
<1>3. Covers(flash, acked) /\ Keeps(flash, acked, appends)
  BY DEF Sound
<1> SUFFICES Led(flash', appends) /\ Covers(flash', acked) /\ Keeps(flash', acked, appends)
  BY <1>1, Zenon DEF Sound, Place, Numbered
<1>4. Led(flash, appends)
  <2> SUFFICES ASSUME pc \in {"idle", "rolled", "program", "verify"}
               PROVE  Led(flash, appends)
    <3>1. CASE pc \in {"bootRoll", "halt"}
      <4>1. Lead(flash[a], flash[o], appends)
        BY <1>2, <3>1 DEF Sound, Place
      <4> QED
        BY <1>2, <4>1, LedBy
    <3>2. CASE pc = "off"
      BY <3>2 DEF Sound, Place
    <3> QED
      BY <1>2, <3>1, <3>2 DEF TypeOK
  <2>1. PICK used \in {nextSlot, nextSlot + 1}, length \in {nextSlot, nextSlot + 1} :
          used <= length /\ Position(used, length)
    <3>1. nextSlot <= nextSlot /\ nextSlot <= nextSlot + 1 /\ nextSlot + 1 <= nextSlot + 1
      BY <1>2
    <3>2. \/ Position(nextSlot, nextSlot) \/ Position(nextSlot, nextSlot + 1)
          \/ Position(nextSlot + 1, nextSlot + 1)
      BY Zenon DEF Sound, Place
    <3> QED
      BY <3>1, <3>2
  <2>2. used \in Nat /\ length \in Nat
    BY <1>2
  <2>3. Fresh(flash[a], flash[o], used, length, appends) \/ Vain(flash[a], flash[o], used, appends)
    BY <1>2, <2>1 DEF Position
  <2>4. Lead(flash[a], flash[o], appends) \/ Lead(flash[o], flash[a], appends)
    BY <1>2, <2>1, <2>2, <2>3, PositionLeads, Zenon
  <2> QED
    BY <1>2, <2>4, LedBy, Zenon
<1>5. CASE flash' = flash
  BY <1>3, <1>4, <1>5
<1>6. CASE /\ pc = "program"
           /\ \E c \in ProgramCut(Slot, NewRecord) :
                flash' = [flash EXCEPT ![activeSector][nextSlot] = c]
  <2>1. PICK c \in {Slot, Torn, Programmed(Slot, NewRecord)} :
                flash' = [flash EXCEPT ![activeSector][nextSlot] = c]
    BY <1>6, Zenon DEF ProgramCut
  <2>2. CASE c = Slot
    <3>1. nextSlot \in SlotNumbers
      BY <1>6, SlotTyped
    <3>2. flash' = flash
      BY <1>2, <2>1, <2>2, <3>1 DEF Slot, Contents
    <3> QED
      BY <1>3, <1>4, <3>2
  <2>3. CASE c # Slot
    <3>1. /\ \/ Fresh(flash'[a], Passive, nextSlot + 1, nextSlot + 1, appends)
             \/ Vain(flash'[a], Passive, nextSlot + 1, appends)
          /\ Covers(flash', acked) /\ Keeps(flash', acked, appends)
      BY <1>6, <2>1, <2>3, WrittenSound, Zenon
    <3>2. flash'[a] \in Contents /\ flash'[o] = Passive
      BY <1>2, <1>6, <2>1, Written, Zenon
    <3> HIDE DEF a, o
    <3>3. Lead(flash'[a], Passive, appends) \/ Lead(Passive, flash'[a], appends)
      BY <1>2, <3>1, <3>2, PositionLeads
    <3>4. Led(flash', appends)
      BY <1>2, <3>2, <3>3, LedBy DEF a, o
    <3> QED
      BY <3>1, <3>4
  <2> QED
    BY <2>2, <2>3
<1>7. CASE /\ pc = "bootRoll" \/ (pc = "idle" /\ nextSlot >= Slots)
           /\ \E f \in Cut(o) : flash' = [flash EXCEPT ![o] = f]
  <2>1. PICK h \in Cut(o) : flash' = [flash EXCEPT ![o] = h]
    BY <1>7, Zenon
  <2>2. h \in Contents /\ Remains(flash[o], h)
    BY <1>2, CutRemains
  <2>3. flash'[o] = h /\ flash'[a] = flash[a]
    BY <1>2, <2>1, <2>2, Replaced, Zenon
  <2>4. Lead(flash[a], flash[o], appends) /\ (Full(flash[a]) \/ Recs(flash[a]) = {})
    <3>1. CASE pc = "bootRoll"
      BY <1>2, <3>1, Zenon DEF Sound, Place
    <3>2. CASE pc = "idle" /\ nextSlot >= Slots
      <4>1. nextSlot = Slots
        BY <1>2, <3>2 DEF TypeOK
      <4>2. Position(Slots, Slots) /\ Recs(Active) # {}
        BY <3>2, <4>1 DEF Sound, Place
      <4> QED
        BY <1>2, <4>2, FullSectorLeads DEF Position
    <3> QED
      BY <1>7, <3>1, <3>2
  <2> HIDE DEF a
  <2>5. Lead(flash'[a], flash'[o], appends)
    BY <1>2, <2>2, <2>3, <2>4, LeadRemains
  <2>6. Led(flash', appends)
    BY <1>2, <2>5, LedBy DEF a
  <2>7. Full(flash[a]) \/ Recs(flash[o]) = {}
    BY <2>4 DEF Lead
  <2>8. /\ Covers([flash EXCEPT ![o] = h], acked)
        /\ Keeps([flash EXCEPT ![o] = h], acked, appends)
    BY <1>2, <1>3, <2>2, <2>4, <2>7, LossAllowed, Zenon DEF a
  <2> QED
    BY <2>1, <2>6, <2>8
<1> QED
  BY <1>5, <1>6, <1>7 DEF PowerLoss

-------------------------------------------------------------------------------
(* The theorems.                                                           *)

(* What has gone wrong stays so.                                           *)
LEMMA DependableBefore ==
  ASSUME suffered \subseteq suffered', spoiled => spoiled', Dependable'
  PROVE  Dependable /\ "hole" \notin suffered' /\ "scan" \notin suffered' /\ ~spoiled'
BY DEF Dependable

(* The invariant holds before the first start.                             *)
LEMMA LogInit ==
  ASSUME Init
  PROVE  LogInvariant
<1>1. flash \in [Sectors -> Contents] /\ \A s \in Sectors : \A i \in SlotNumbers : flash[s][i] = Blank
  BY DEF Init, Contents
<1>2. \A s \in Sectors : Recs(flash[s]) = {}
  BY <1>1, Records DEF Recs
<1>3. TypeOK
  <2>1. 0 \in Sectors /\ 0 \in 0..Slots /\ 0 \in 0..(MaxAppends + 1) /\ 0 \in 0..MaxAppends
        /\ MaxTroubles \in 0..MaxTroubles
    BY LogAssumption DEF Sectors
  <2>2. activeSector \in Sectors /\ nextSlot \in 0..Slots
        /\ nextSequence \in 0..(MaxAppends + 1) /\ troubles \in 0..MaxTroubles
        /\ appends \in 0..MaxAppends
    BY <2>1 DEF Init
  <2>3. suffered \subseteq FaultClasses /\ acked \subseteq Record /\ spoiled \in BOOLEAN
        /\ pc \in {"off", "bootRoll", "halt", "idle", "rolled", "program", "verify"}
    BY Zenon DEF Init
  <2> QED
    BY <1>1, <2>2, <2>3 DEF TypeOK, Contents
<1>4. Sane
  BY <1>2, <1>3 DEF Init, Sane, Reach
<1>5. Led(flash, appends)
  <2>1. 0 \in Sectors /\ Other(0) \in Sectors
    BY DEF Sectors, Other
  <2>2. Lead(flash[0], flash[Other(0)], appends)
    BY <1>2, <2>1 DEF Lead, Ordered, After, Distant
  <2> QED
    BY <2>1, <2>2 DEF Led
<1>6. Covers(flash, acked) /\ Keeps(flash, acked, appends)
  BY <1>2 DEF Init, Covers, Keeps
<1>7. Place /\ Numbered
  BY <1>5 DEF Init, Place, Numbered
<1> QED
  BY <1>4, <1>6, <1>7 DEF LogInvariant, Sound

(* Every step keeps the invariant.                                         *)
LEMMA LogStep ==
  ASSUME LogInvariant, [Next]_vars
  PROVE  LogInvariant'
<1>1. Sane /\ (Dependable => Sound)
  BY DEF LogInvariant
<1>2. CASE Boot
  <2>1. Sane' /\ suffered \subseteq suffered' /\ (spoiled => spoiled')
    <3>1. Sane' /\ suffered \subseteq suffered' /\ spoiled' = spoiled
      BY <1>1, <1>2, BootSane
    <3>2. spoiled => spoiled'
      BY <3>1
    <3> QED
      BY <3>1, <3>2
  <2> QED
    BY <1>1, <1>2, <2>1, BootSound, DependableBefore, Zenon DEF LogInvariant
<1>3. CASE BootRoll
  BY <1>1, <1>3, RollSane, BootRollSound, DependableBefore, Zenon DEF LogInvariant
<1>4. CASE AppendRoll
  BY <1>1, <1>4, RollSane, AppendRollSound, DependableBefore, Zenon DEF LogInvariant
<1>5. CASE AppendStart
  <2>1. Sane' /\ suffered' = suffered /\ spoiled' = spoiled
    BY <1>1, <1>5, AppendStartSane
  <2>2. Dependable' => Dependable
    BY <2>1, Zenon DEF Dependable
  <2> QED
    BY <1>1, <1>5, <2>1, <2>2, AppendStartSound, Zenon DEF LogInvariant
<1>6. CASE AppendProgram
  BY <1>1, <1>6, AppendProgramSane, AppendProgramSound, DependableBefore, Zenon DEF LogInvariant
<1>7. CASE AppendVerify
  BY <1>1, <1>7, AppendVerifySane, AppendVerifySound, DependableBefore, Zenon DEF LogInvariant
<1>8. CASE PowerLoss
  <2>1. Sane' /\ suffered' = suffered /\ spoiled' = spoiled
    BY <1>1, <1>8, PowerLossSane
  <2>2. Dependable' => Dependable
    BY <2>1, Zenon DEF Dependable
  <2> QED
    BY <1>1, <1>8, <2>1, <2>2, PowerLossSound, Zenon DEF LogInvariant
<1>9. CASE UNCHANGED vars
  <2>1. /\ flash' = flash /\ activeSector' = activeSector /\ nextSlot' = nextSlot
        /\ nextSequence' = nextSequence /\ pc' = pc /\ troubles' = troubles
        /\ suffered' = suffered /\ spoiled' = spoiled /\ appends' = appends /\ acked' = acked
    BY <1>9 DEF vars
  <2>2. Sane'
    BY <1>1, <2>1 DEF Sane, TypeOK
  <2>3. Sound => Sound'
    BY <2>1, Zenon DEF Sound, Place, Numbered, Position, Active, Passive
  <2>4. Dependable' => Dependable
    BY <2>1, Zenon DEF Dependable
  <2> QED
    BY <1>1, <2>2, <2>3, <2>4 DEF LogInvariant
<1> QED
  BY <1>2, <1>3, <1>4, <1>5, <1>6, <1>7, <1>8, <1>9 DEF Next, Bounded

(* The invariant holds in every behaviour of health_check_log.c: numbers   *)
(* and slots stay within bounds whatever fails, and a log that is          *)
(* Dependable has its sectors in order, in the middle of an append or of a *)
(* roll as well as after a power cut.                                      *)
THEOREM LogInvariantHolds == Spec => []LogInvariant
<1>1. Init => LogInvariant
  BY LogInit
<1>2. LogInvariant /\ [Next]_vars => LogInvariant'
  BY LogStep
<1> QED
  BY <1>1, <1>2, PTL DEF Spec

(* The log's variables have their types: in particular the next slot never *)
(* exceeds the sector, and a record is only programmed into a slot that    *)
(* exists.                                                                 *)
THEOREM LogTypeCorrect == Spec => []TypeOK
<1>1. LogInvariant => TypeOK
  BY DEF LogInvariant, Sane
<1> QED
  BY <1>1, LogInvariantHolds, PTL

(* The walk of GetRecent meets newer records first.                        *)
LEMMA WalkOrdered ==
  ASSUME LogInvariant, Dependable, pc = "idle",
         NEW p \in Found, NEW q \in Found, Precedes(p, q)
  PROVE  Older(Content(q), Content(p))
<1>1. /\ Sane /\ Position(nextSlot, nextSlot) /\ activeSector \in Sectors
  BY DEF LogInvariant, Sound, Place, Sane, TypeOK
<1>2. /\ p[1] \in Sectors /\ p[2] \in Recs(flash[p[1]]) /\ p[2] < Count(p[1])
      /\ q[1] \in Sectors /\ q[2] \in Recs(flash[q[1]]) /\ q[2] < Count(q[1])
      /\ Content(p) = flash[p[1]][p[2]] /\ Content(q) = flash[q[1]][q[2]]
  BY Zenon DEF Found, Content, Recs
<1>3. \A s \in Sectors : s = activeSector \/ s = Other(activeSector)
  BY <1>1, Others
<1>4. nextSlot \in Nat /\ Count(activeSector) = nextSlot
  BY <1>1, LogAssumption DEF Sane, TypeOK, Count
<1>5. Ordered(Active) /\ Ordered(Passive)
  BY <1>1 DEF Position, Fresh, Vain, Lead
<1>6. CASE p[1] = q[1] /\ p[2] > q[2]
  <2>1. Ordered(flash[p[1]])
    BY <1>2, <1>3, <1>5 DEF Active, Passive
  <2>2. q[2] < p[2]
    BY <1>2, <1>6 DEF Recs, SlotNumbers
  <2> QED
    BY <1>2, <1>6, <2>1, <2>2 DEF Ordered
<1>7. CASE p[1] = activeSector /\ q[1] # activeSector
  <2>1. q[1] = Other(activeSector)
    BY <1>2, <1>3, <1>7
  <2>2. p[2] \in Recs(Active) /\ q[2] \in Recs(Passive)
        /\ Content(p) = Active[p[2]] /\ Content(q) = Passive[q[2]]
    BY <1>2, <1>7, <2>1 DEF Active, Passive
  <2>3. CASE Fresh(Active, Passive, nextSlot, nextSlot, appends)
    BY <2>2, <2>3 DEF Fresh, After
  <2>4. CASE Vain(Active, Passive, nextSlot, appends)
    <3>1. p[2] >= nextSlot /\ p[2] < nextSlot /\ p[2] \in Nat
      BY <1>2, <1>4, <1>7, <2>2, <2>4 DEF Vain, Recs, SlotNumbers
    <3> QED
      BY <1>4, <3>1
  <2> QED
    BY <1>1, <2>3, <2>4 DEF Position
<1> QED
  BY <1>6, <1>7 DEF Precedes

(* GetRecent returns its entries newest first, by sequence number as well  *)
(* as in truth.                                                            *)
THEOREM NewestFirstCorrect == Spec => []NewestFirst
<1>1. LogInvariant => NewestFirst
  BY WalkOrdered DEF NewestFirst, GetRecent
<1> QED
  BY <1>1, LogInvariantHolds, PTL

(* There are finitely many slots.                                          *)
LEMMA FoundFinite ==
  ASSUME NEW slot
  PROVE  /\ IsFiniteSet({p \in Found : Precedes(p, slot)})
         /\ Cardinality({p \in Found : Precedes(p, slot)}) \in Nat
<1>1. IsFiniteSet(SlotNumbers)
  <2>1. 0 \in Int /\ Slots - 1 \in Int
    BY LogAssumption
  <2> QED
    BY <2>1, FS_Interval DEF SlotNumbers
<1>2. IsFiniteSet(Sectors)
  <2>1. Sectors = 0..1 /\ 0 \in Int /\ 1 \in Int
    BY DEF Sectors
  <2>2. IsFiniteSet(0..1)
    BY <2>1, FS_Interval, Zenon
  <2> QED
    BY <2>1, <2>2
<1>3. IsFiniteSet(Sectors \X SlotNumbers)
  BY <1>1, <1>2, FS_Product
<1>4. {p \in Found : Precedes(p, slot)} \in SUBSET (Sectors \X SlotNumbers)
  BY DEF Found
<1> QED
  BY <1>3, <1>4, FS_Subset, FS_CardinalityType

(* What GetRecent meets before a record are later appends, and no two      *)
(* entries come from the same one.                                         *)
LEMMA FewBefore ==
  ASSUME LogInvariant, Dependable, pc = "idle", NEW slot \in Found
  PROVE  Cardinality({p \in Found : Precedes(p, slot)}) <= appends - Content(slot).stamp
<1> DEFINE P == {p \in Found : Precedes(p, slot)}
           m == Content(slot).stamp
           T == (m + 1)..appends
           stampOf == [p \in P |-> Content(p).stamp]
<1>1. \A p \in Found :
        /\ p = <<p[1], p[2]>> /\ p[1] \in Sectors /\ p[2] \in SlotNumbers
        /\ Content(p) \in Record /\ Content(p) = flash[p[1]][p[2]]
  BY DEF Found, Content
<1>2. \A p \in Found : Content(p).stamp \in Nat /\ Content(p).stamp <= appends
  <2>1. Reach(flash, appends)
    BY DEF LogInvariant, Sane
  <2> QED
    BY <1>1, <2>1, Records DEF Reach, Recs
<1>3. appends \in Nat /\ m \in Nat /\ m <= appends
  BY <1>2, LogAssumption DEF LogInvariant, Sane, TypeOK
<1>4. \A p \in P : p \in Found /\ m < Content(p).stamp
  BY WalkOrdered DEF Older
<1>5. \A p, q \in Found : p = q \/ Precedes(p, q) \/ Precedes(q, p)
  <2> SUFFICES ASSUME NEW p \in Found, NEW q \in Found, p # q
               PROVE  Precedes(p, q) \/ Precedes(q, p)
    OBVIOUS
  <2>1. activeSector \in Sectors
    BY DEF LogInvariant, Sane, TypeOK
  <2>2. CASE p[1] = q[1]
    <3>1. p[2] # q[2]
      BY <1>1, <2>2, Zenon
    <3>2. p[2] > q[2] \/ q[2] > p[2]
      BY <1>1, <3>1 DEF SlotNumbers
    <3> QED
      BY <2>2, <3>2 DEF Precedes
  <2>3. CASE p[1] # q[1]
    <3>1. p[1] = activeSector \/ q[1] = activeSector
      BY <1>1, <2>1, <2>3 DEF Sectors
    <3> QED
      BY <2>3, <3>1 DEF Precedes
  <2> QED
    BY <2>2, <2>3
<1>6. ASSUME NEW p \in P, NEW q \in P, Content(p).stamp = Content(q).stamp
      PROVE  p = q
  <2>1. p \in Found /\ q \in Found
    OBVIOUS
  <2>2. ~Precedes(p, q) /\ ~Precedes(q, p)
    <3>1. Precedes(p, q) => Content(q).stamp < Content(p).stamp
      BY <2>1, WalkOrdered DEF Older
    <3>2. Precedes(q, p) => Content(p).stamp < Content(q).stamp
      BY <2>1, WalkOrdered DEF Older
    <3> QED
      BY <1>2, <1>6, <2>1, <3>1, <3>2
  <2> QED
    BY <1>5, <2>1, <2>2
<1>7. \A p \in P : Content(p).stamp \in T
  BY <1>2, <1>3, <1>4
<1> HIDE DEF P, T, m
<1>8. stampOf \in [P -> T] /\ \A p, q \in P : stampOf[p] = stampOf[q] => p = q
  BY <1>6, <1>7
<1> HIDE DEF stampOf
<1>9. stampOf \in Injection(P, T)
  BY <1>8 DEF Injection, IsInjective
<1>10. IsFiniteSet(T) /\ Cardinality(T) = appends - m
  <2>1. m + 1 \in Int /\ appends \in Int
    BY <1>3
  <2>2. IsFiniteSet(T) /\ Cardinality(T) = IF m + 1 > appends THEN 0 ELSE appends - (m + 1) + 1
    BY <2>1, FS_Interval DEF T
  <2> QED
    BY <1>3, <2>2
<1>11. Cardinality(P) <= Cardinality(T)
  BY <1>9, <1>10, FS_Injection
<1> QED
  BY <1>10, <1>11 DEF P, m

(* A recent acknowledged record is where GetRecent looks.                  *)
LEMMA RecentFound ==
  ASSUME LogInvariant, Dependable, pc = "idle", NEW r \in acked,
         ~(r.stamp + Slots <= appends)
  PROVE  \E slot \in Found : Content(slot) = r
<1>1. /\ Sane /\ TypeOK /\ Position(nextSlot, nextSlot) /\ activeSector \in Sectors
      /\ Keeps(flash, acked, appends)
  BY DEF LogInvariant, Sound, Place, Sane, TypeOK
<1>2. PICK s \in Sectors : \E i \in Recs(flash[s]) : flash[s][i] = r
  BY <1>1 DEF Keeps
<1>3. PICK i \in Recs(flash[s]) : flash[s][i] = r
  BY <1>2
<1>4. i \in SlotNumbers /\ flash[s][i] \in Record /\ i \in Nat /\ i < Slots /\ Slots \in Nat
  BY LogAssumption DEF Recs, SlotNumbers
<1>5. Active \in Contents /\ Passive \in Contents /\ appends \in Nat /\ nextSlot \in Nat
  BY <1>1, Others, LogAssumption DEF TypeOK, Contents, Active, Passive
<1>6. i < Count(s)
  <2>1. CASE s = activeSector
    <3>1. ~Vain(Active, Passive, nextSlot, appends)
      <4>1. ASSUME Vain(Active, Passive, nextSlot, appends)
            PROVE  FALSE
        <5>1. Lead(Passive, Active, appends) /\ (Full(Passive) \/ Recs(Active) = {})
          BY <4>1 DEF Vain
        <5>2. i \in Recs(Active) /\ Active[i] = r
          BY <1>3, <2>1 DEF Active
        <5> QED
          BY <1>5, <5>1, <5>2, Expired
      <4> QED
        BY <4>1
    <3>2. \A j \in SlotNumbers : Active[j] = Blank <=> j >= nextSlot
      BY <1>1, <3>1 DEF Position, Fresh
    <3>3. Active[i] # Blank
      BY <1>4, <2>1, Records DEF Active
    <3> QED
      BY <1>4, <1>5, <2>1, <3>2, <3>3 DEF Count
  <2>2. CASE s # activeSector
    <3> DEFINE e == ScanEnd(s, SlotNumbers)
    <3>1. e \in 0..Slots /\ (e # Slots => e \in SlotNumbers /\ flash[s][e] = Blank)
      BY <1>1, ScanEndIs
    <3>2. Count(s) = e
      BY <2>2 DEF Count
    <3> HIDE DEF e
    <3>3. ASSUME ~(i < e)
          PROVE  FALSE
      <4>1. e # Slots /\ e <= i
        BY <1>4, <3>1, <3>3
      <4>2. e # i
        BY <1>4, <3>1, <4>1, Records
      <4>3. e < i
        BY <1>4, <3>1, <4>1, <4>2
      <4> QED
        BY <1>1, <1>3, <3>1, <4>1, <4>3 DEF Keeps
    <3> QED
      BY <3>2, <3>3
  <2> QED
    BY <2>1, <2>2
<1>7. <<s, i>> \in Found /\ Content(<<s, i>>) = r
  BY <1>3, <1>4, <1>6 DEF Found, Content
<1> QED
  BY <1>7

(* Of the last appends, as many as a sector has slots and a reader asks    *)
(* for, GetRecent returns every one that was acknowledged.                 *)
THEOREM RetainsRecentCorrect == Spec => []RetainsRecent
<1>1. ASSUME LogInvariant
      PROVE  RetainsRecent
  <2> SUFFICES ASSUME Dependable, pc = "idle", NEW r \in acked,
                      r.stamp > appends - Slots, r.stamp > appends - Capacity
               PROVE  \E slot \in GetRecent : Content(slot) = r
    BY DEF RetainsRecent
  <2>1. r.stamp \in Nat /\ appends \in Nat /\ Slots \in Nat /\ Capacity \in Nat
    BY <1>1, Records, LogAssumption DEF LogInvariant, Sane, TypeOK
  <2>2. ~(r.stamp + Slots <= appends)
    BY <2>1
  <2>3. PICK slot \in Found : Content(slot) = r
    BY <1>1, <2>2, RecentFound
  <2> DEFINE n == Cardinality({p \in Found : Precedes(p, slot)})
  <2>4. n <= appends - r.stamp
    BY <1>1, <2>3, FewBefore
  <2>5. n \in Nat
    BY FoundFinite
  <2> HIDE DEF n
  <2>6. n < Capacity
    BY <2>1, <2>4, <2>5
  <2> QED
    BY <2>3, <2>6, Zenon DEF GetRecent, n
<1> QED
  BY <1>1, LogInvariantHolds, PTL

(* As long as the log is Dependable, an acknowledged record has a greater  *)
(* sequence number than every one before it, whatever restarts, failed     *)
(* programs and failed or ignored erases there were in between.            *)
THEOREM SequencesIncreaseCorrect == Spec => SequencesIncrease
<1>1. ASSUME LogInvariant, [Next]_vars
      PROVE  [Dependable => Increases]_vars
  <2> SUFFICES ASSUME Dependable, NEW r \in acked' \ acked, NEW q \in acked
               PROVE  r.sequence > q.sequence
    BY DEF Increases
  <2>1. AppendVerify
    <3>1. acked' # acked
      OBVIOUS
    <3> QED
      BY <1>1, <3>1 DEF Next, vars, Boot, BootRoll, AppendStart, AppendRoll, AppendProgram,
                        PowerLoss, Bounded
  <2>2. Sane /\ Sound /\ pc = "verify"
    BY <1>1, <2>1 DEF LogInvariant, AppendVerify
  <2>3. r = NewRecord
    BY <2>1, <2>2, VerifyEffect
  <2>4. r.sequence = nextSequence
    BY <2>3 DEF NewRecord
  <2>5. q.sequence < nextSequence
    BY <2>2 DEF Sound, Numbered
  <2>6. q.sequence \in Nat /\ nextSequence \in Nat
    BY <2>2, Records, LogAssumption DEF Sane, TypeOK
  <2> QED
    BY <2>4, <2>5, <2>6
<1> QED
  BY <1>1, LogInvariantHolds, PTL DEF Spec, SequencesIncrease

=============================================================================
