--------------------------- MODULE DowntimeProofs ---------------------------
(***************************************************************************)
(* A rollout keeps its regions served: ZeroDowntime, for any number of     *)
(* templates, sizes, edits and interrupted reconciles, as long as no pod   *)
(* that was available fails by itself.                                     *)
(*                                                                         *)
(* ZeroDowntime speaks of the pods that serve a region.  For ReCreate      *)
(* ZeroInv adds what else is true of the store (StoreInv: no subset is of  *)
(* a later template than the one being rolled out, and that one has        *)
(* surplus pods only when it is large enough by itself) and what a running *)
(* reconcile has read, so that what it is still to delete or shrink is not *)
(* needed (LoopInv).  ServedInv does the same for RollingUpdate in one     *)
(* region (RollStore, RollLoop).                                           *)
(***************************************************************************)
EXTENDS StrategyProofs

-----------------------------------------------------------------------------
(* Adding up over the subsets of a region                                  *)

\* The sum of the numbers f of the subsets ts.
Count(f, ts) == Cardinality(Pods(f, ts))

LEMMA CountType ==
    ASSUME NEW f \in [Templates -> Nat], NEW ts \in SUBSET Templates
    PROVE  IsFiniteSet(Pods(f, ts)) /\ Count(f, ts) \in Nat
BY ReplicasFinite DEF Pods, Count

\* More subsets with larger numbers have a larger sum.
LEMMA CountGrows ==
    ASSUME NEW f \in [Templates -> Nat], NEW g \in [Templates -> Nat],
           NEW ts \in SUBSET Templates, NEW us \in SUBSET Templates,
           ts \subseteq us, \A t \in ts : f[t] <= g[t]
    PROVE  Count(f, ts) <= Count(g, us)
<1>1. \A t \in ts : 1..f[t] \subseteq 1..g[t]
  OBVIOUS
<1>2. Pods(f, ts) \subseteq Pods(g, us)
  BY <1>1 DEF Pods
<1> QED BY <1>2, CountType, FS_Subset DEF Count

\* Equal numbers have equal sums.
LEMMA CountSame ==
    ASSUME NEW f \in [Templates -> Nat], NEW g \in [Templates -> Nat],
           NEW ts \in SUBSET Templates, \A t \in ts : f[t] = g[t]
    PROVE  Count(f, ts) = Count(g, ts)
<1>1. Count(f, ts) <= Count(g, ts) /\ Count(g, ts) <= Count(f, ts)
  BY CountGrows
<1>2. Count(f, ts) \in Nat /\ Count(g, ts) \in Nat
  BY CountType
<1> QED BY <1>1, <1>2

\* A sum is that of one subset and of the others.
LEMMA CountSplit ==
    ASSUME NEW f \in [Templates -> Nat], NEW ts \in SUBSET Templates, NEW t \in ts
    PROVE  /\ Count(f, ts) = Count(f, ts \ {t}) + f[t]
           /\ Count(f, ts \ {t}) \in Nat /\ f[t] \in Nat
<1> DEFINE A == Pods(f, ts \ {t})
           B == {t} \X (1..f[t])
<1>1. f[t] \in Nat /\ ts \ {t} \in SUBSET Templates
  OBVIOUS
<1>2. IsFiniteSet(A) /\ Cardinality(A) \in Nat
  BY <1>1, CountType DEF Count
<1>3. Pods(f, ts) = A \cup B
  <2>1. ASSUME NEW x \in Pods(f, ts) PROVE x \in A \cup B
    <3>1. PICK o \in ts : x \in {o} \X (1..f[o])
      BY <2>1 DEF Pods
    <3> QED BY <3>1 DEF Pods
  <2>2. A \cup B \subseteq Pods(f, ts)
    BY DEF Pods
  <2> QED BY <2>1, <2>2
<1>4. IsFiniteSet(B) /\ Cardinality(B) = f[t]
  <2>1. IsFiniteSet(1..f[t]) /\ Cardinality(1..f[t]) = f[t]
    BY <1>1, FS_Interval
  <2>2. IsFiniteSet({t}) /\ Cardinality({t}) = 1
    BY FS_Singleton
  <2>3. IsFiniteSet(B) /\ Cardinality(B) = Cardinality({t}) * Cardinality(1..f[t])
    <3>1. \A S, T : IsFiniteSet(S) /\ IsFiniteSet(T) =>
             IsFiniteSet(S \X T) /\ Cardinality(S \X T) = Cardinality(S) * Cardinality(T)
      BY FS_Product, Zenon
    <3> QED BY <2>1, <2>2, <3>1, Zenon
  <2> HIDE DEF B
  <2> QED BY <1>1, <2>1, <2>2, <2>3
<1>5. Cardinality(A \cap B) = 0
  <2>1. A \cap B = {}
    BY DEF Pods
  <2> QED BY <2>1, FS_EmptySet
<1>6. Cardinality(A \cup B) = Cardinality(A) + Cardinality(B) - Cardinality(A \cap B)
  BY <1>2, <1>4, FS_Union
<1>7. Count(f, ts \ {t}) = Cardinality(A) /\ Count(f, ts) = Cardinality(A \cup B)
  BY <1>3 DEF Count
<1> HIDE DEF A, B
<1> QED BY <1>1, <1>2, <1>4, <1>5, <1>6, <1>7

-----------------------------------------------------------------------------
(* ReCreate: counting the serving pods of a region                         *)

\* The pods of a subset that are available and wanted.
Serve(s) == Lesser(s.spec, s.avail)
ServeOf(ss) == [t \in Templates |-> Serve(ss[t])]
Serving(ss) == Count(ServeOf(ss), Templates)

\* At least the smallest size the user ever asks for.
Enough(k) == \E n \in Sizes : n <= k

LEMMA ServeType ==
    ASSUME NEW ss \in [Templates -> Subset]
    PROVE  /\ ServeOf(ss) \in [Templates -> Nat] /\ SizeOf(ss) \in [Templates -> Nat]
           /\ \A t \in Templates : /\ ss[t].spec \in Nat /\ ss[t].avail \in Nat
                                   /\ Serve(ss[t]) \in Nat
                                   /\ ServeOf(ss)[t] = Serve(ss[t]) /\ SizeOf(ss)[t] = ss[t].spec
           /\ Serving(ss) \in Nat
<1>1. \A t \in Templates : ss[t].spec \in Nat /\ ss[t].avail \in Nat
  BY DEF Subset
<1>2. \A t \in Templates : Serve(ss[t]) \in Nat
  BY <1>1 DEF Serve, Lesser
<1>3. ServeOf(ss) \in [Templates -> Nat] /\ SizeOf(ss) \in [Templates -> Nat]
  BY <1>1, <1>2 DEF ServeOf, SizeOf
<1>4. Serving(ss) \in Nat
  BY <1>3, CountType DEF Serving
<1> QED BY <1>1, <1>2, <1>3, <1>4 DEF ServeOf, SizeOf

LEMMA ServingCounted ==
    ASSUME TypeOK, NEW r \in Regions
    PROVE  ServingPods(r) = Serving(sub[r])
<1>1. {{t} \X (1..Lesser(sub[r][t].spec, sub[r][t].avail)) : t \in Templates}
        = {{t} \X (1..ServeOf(sub[r])[t]) : t \in Templates}
  BY DEF ServeOf, Serve
<1> QED BY <1>1 DEF ServingPods, Serving, Count, Pods

LEMMA EnoughMore ==
    ASSUME NEW k \in Int, NEW j \in Int, Enough(k), k <= j
    PROVE  Enough(j)
<1>1. PICK n \in Sizes : n <= k
  BY DEF Enough
<1>2. n \in Nat /\ n <= j
  BY <1>1, RolloutAssumption
<1> QED BY <1>2 DEF Enough

LEMMA EnoughSize == ASSUME NEW n \in Sizes PROVE Enough(n) /\ n \in Nat
BY RolloutAssumption DEF Enough

\* A region in which every subset serves no less serves no less.
LEMMA ServingGrows ==
    ASSUME NEW ss \in [Templates -> Subset], NEW zz \in [Templates -> Subset],
           \A t \in Templates : Serve(ss[t]) <= Serve(zz[t])
    PROVE  Serving(ss) <= Serving(zz) /\ (Enough(Serving(ss)) => Enough(Serving(zz)))
<1>1. Serving(ss) <= Serving(zz)
  BY ServeType, CountGrows DEF Serving
<1>2. Serving(ss) \in Nat /\ Serving(zz) \in Nat
  BY ServeType
<1> QED BY <1>1, <1>2, EnoughMore

\* It serves no less than one of its subsets.
LEMMA ServingOne ==
    ASSUME NEW ss \in [Templates -> Subset], NEW t \in Templates
    PROVE  Serve(ss[t]) <= Serving(ss) /\ (Enough(Serve(ss[t])) => Enough(Serving(ss)))
<1>1. ServeOf(ss) \in [Templates -> Nat] /\ ServeOf(ss)[t] = Serve(ss[t]) /\ Serve(ss[t]) \in Nat
  BY ServeType
<1>2. /\ Serving(ss) = Count(ServeOf(ss), Templates \ {t}) + ServeOf(ss)[t]
      /\ Count(ServeOf(ss), Templates \ {t}) \in Nat
  <2>1. Templates \in SUBSET Templates
    OBVIOUS
  <2> QED BY <1>1, <2>1, CountSplit DEF Serving
<1>3. Serve(ss[t]) <= Serving(ss) /\ Serving(ss) \in Nat
  BY <1>1, <1>2
<1> QED BY <1>1, <1>3, EnoughMore

\* cleanupUnhealthyReplicas takes c pods of an old subset: its budget and what
\* regionSyncOnce may still take shrink alike.
LEMMA CleanupTakes ==
    ASSUME NEW ss \in [Templates -> Subset], NEW zz \in [Templates -> Subset],
           NEW t \in Templates, NEW o \in Olds(ss, t), NEW c \in Nat, NEW want \in Nat,
           \A u \in Templates \ {o} : zz[u] = ss[u],
           \/ zz[o].live /\ zz[o].spec = ss[o].spec - c
           \/ ~zz[o].live /\ ss[o].spec = c
    PROVE  MaxCleanupCount(zz, t, want) = MaxCleanupCount(ss, t, want) - c
<1> DEFINE olds == Olds(ss, t)
           news == Olds(zz, t)
<1>1. /\ olds \in SUBSET Templates /\ news \in SUBSET Templates /\ o \in Templates /\ o # t
      /\ o \in olds /\ news \ {o} = olds \ {o} /\ olds \ {o} \in SUBSET Templates
  BY DEF Olds
<1>2. /\ SizeOf(ss) \in [Templates -> Nat] /\ SizeOf(zz) \in [Templates -> Nat]
      /\ \A u \in Templates : SizeOf(ss)[u] = ss[u].spec /\ SizeOf(zz)[u] = zz[u].spec
      /\ \A u \in Templates : ss[u].spec \in Nat /\ zz[u].spec \in Nat
  BY ServeType
<1>3. Count(SizeOf(ss), olds \ {o}) = Count(SizeOf(zz), olds \ {o})
  BY <1>1, <1>2, CountSame
<1>4. /\ SpecReplicas(ss, olds) = Count(SizeOf(ss), olds)
      /\ SpecReplicas(zz, news) = Count(SizeOf(zz), news)
  BY <1>1, PodsCounted DEF Count
<1>5. /\ Count(SizeOf(ss), olds) = Count(SizeOf(ss), olds \ {o}) + ss[o].spec
      /\ Count(SizeOf(ss), olds \ {o}) \in Nat
  BY <1>1, <1>2, CountSplit
<1>6. Count(SizeOf(zz), news) = Count(SizeOf(ss), olds \ {o}) + ss[o].spec - c
  <2>1. CASE zz[o].live /\ zz[o].spec = ss[o].spec - c
    <3>1. o \in news
      BY <1>1, <2>1 DEF Olds
    <3>2. Count(SizeOf(zz), news) = Count(SizeOf(zz), news \ {o}) + zz[o].spec
      BY <1>1, <1>2, <3>1, CountSplit
    <3> QED BY <1>1, <1>2, <1>3, <1>5, <2>1, <3>2
  <2>2. CASE ~zz[o].live /\ ss[o].spec = c
    <3>1. news = olds \ {o}
      BY <1>1, <2>2 DEF Olds
    <3> QED BY <1>3, <1>5, <2>2, <3>1
  <2> QED BY <2>1, <2>2
<1>7. zz[t] = ss[t] /\ ss[t].avail \in Nat /\ ss[o].spec \in Nat
  BY <1>1, ServeType
<1> HIDE DEF olds, news
<1>8. /\ MaxCleanupCount(zz, t, want) = SpecReplicas(zz, news) + zz[t].avail - want
      /\ MaxCleanupCount(ss, t, want) = SpecReplicas(ss, olds) + ss[t].avail - want
  BY DEF MaxCleanupCount, olds, news
<1> QED BY <1>4, <1>5, <1>6, <1>7, <1>8

\* regionSyncOnce takes no more than MaxCleanupCount of an old subset, all old
\* pods being available: the size asked for is left, or the surplus new subset.
LEMMA ShrinkLeaves ==
    ASSUME NEW ss \in [Templates -> Subset], NEW zz \in [Templates -> Subset],
           NEW t \in Templates, NEW o \in Olds(ss, t), NEW c \in Nat, NEW want \in Nat,
           c <= MaxCleanupCount(ss, t, want), ss[o].spec - c <= Serve(zz[o]),
           \A u \in Olds(ss, t) : ss[u].spec = ss[u].avail,
           \A u \in Templates \ {o} : Serve(ss[u]) <= Serve(zz[u])
    PROVE  \/ want <= Serving(zz)
           \/ ss[t].avail > ss[t].spec /\ ss[t].spec <= Serving(zz)
<1> DEFINE olds == Olds(ss, t)
           us   == olds \cup {t}
           f    == SizeOf(ss)
           g    == ServeOf(zz)
<1>1. /\ olds \in SUBSET Templates /\ us \in SUBSET Templates /\ o \in olds /\ t \in us
      /\ us \ {t} = olds /\ olds \ {o} \in SUBSET Templates /\ t \notin olds
  BY DEF Olds
<1>2. /\ f \in [Templates -> Nat] /\ g \in [Templates -> Nat]
      /\ \A u \in Templates : f[u] = ss[u].spec /\ g[u] = Serve(zz[u])
      /\ \A u \in Templates : ss[u].spec \in Nat /\ ss[u].avail \in Nat
      /\ Serving(zz) \in Nat
  BY ServeType
<1>3. SpecReplicas(ss, olds) = Count(f, olds)
  BY <1>1, PodsCounted DEF Count
<1>4. MaxCleanupCount(ss, t, want) = Count(f, olds) + ss[t].avail - want
  BY <1>3 DEF MaxCleanupCount
<1>5. Serving(zz) = Count(g, Templates)
  BY DEF Serving
<1>6. \A u \in olds \ {o} : f[u] <= g[u]
  <2> SUFFICES ASSUME NEW u \in olds, u # o PROVE ss[u].spec <= Serve(zz[u])
    BY <1>1, <1>2
  <2>1. ss[u].spec = ss[u].avail /\ Serve(ss[u]) <= Serve(zz[u]) /\ ss[u].spec \in Nat
    BY <1>1, <1>2
  <2>2. Serve(ss[u]) = ss[u].spec
    BY <2>1 DEF Serve, Lesser
  <2> QED BY <2>1, <2>2
<1> HIDE DEF olds, us, f, g
<1>7. Count(f, olds \ {o}) <= Count(g, olds \ {o})
  BY <1>1, <1>2, <1>6, CountGrows
<1>8. /\ Count(f, olds) = Count(f, olds \ {o}) + f[o] /\ Count(f, olds \ {o}) \in Nat
      /\ Count(g, olds) = Count(g, olds \ {o}) + g[o] /\ Count(g, olds \ {o}) \in Nat
      /\ f[o] \in Nat /\ g[o] \in Nat
  BY <1>1, <1>2, CountSplit
<1>9. Count(g, us) = Count(g, olds) + g[t] /\ g[t] \in Nat
  BY <1>1, <1>2, CountSplit
<1>10. Count(g, us) <= Serving(zz) /\ Count(g, us) \in Nat
  <2>1. Count(g, us) <= Count(g, Templates)
    BY <1>1, <1>2, CountGrows
  <2> QED BY <1>1, <1>2, <1>5, <2>1, CountType
<1>11. f[o] - c <= g[o] /\ Serve(ss[t]) <= g[t]
  <2>1. o \in Templates /\ t # o
    BY <1>1
  <2>2. f[o] = ss[o].spec /\ g[o] = Serve(zz[o]) /\ g[t] = Serve(zz[t])
    BY <1>2, <2>1
  <2> QED BY <2>1, <2>2
<1>12. /\ ss[t].avail \in Nat /\ ss[t].spec \in Nat
       /\ Serve(ss[t]) = IF ss[t].avail > ss[t].spec THEN ss[t].spec ELSE ss[t].avail
  BY <1>2 DEF Serve, Lesser
<1>13. Count(f, olds) - c + g[t] <= Serving(zz)
  <2>1. Count(f, olds) - c <= Count(g, olds)
    BY <1>7, <1>8, <1>11
  <2>2. Count(f, olds) \in Nat /\ Count(g, olds) \in Nat
    BY <1>8
  <2> QED BY <1>2, <1>9, <1>10, <2>1, <2>2
<1>14. Count(f, olds) \in Nat /\ c <= Count(f, olds) + ss[t].avail - want
  BY <1>4, <1>8
<1>15. CASE ss[t].avail > ss[t].spec
  <2>1. ss[t].spec <= g[t] /\ g[t] <= Serving(zz)
    <3>1. Count(g, olds) \in Nat
      BY <1>8
    <3> QED BY <1>2, <1>9, <1>10, <1>11, <1>12, <1>15, <3>1
  <2> QED BY <1>2, <1>9, <1>12, <1>15, <2>1
<1>16. CASE ~(ss[t].avail > ss[t].spec)
  <2>1. ss[t].avail <= g[t]
    BY <1>11, <1>12, <1>16
  <2> QED BY <1>2, <1>9, <1>12, <1>13, <1>14, <2>1
<1> QED BY <1>15, <1>16

-----------------------------------------------------------------------------
(* ReCreate: no downtime                                                   *)

\* The deployments the theorem is about: an upgrade of a running deployment by
\* newer templates; the cache of the subsets does not lag (that of the
\* deployment may).
ZeroScope ==
    /\ Installed /\ UpdateStrategy = "ReCreate"
    /\ Rollbacks = FALSE /\ "subsets" \notin Lagging

\* No pod fails in this step; reconciles may be cut off.
PodsHold == \A r \in Regions, t \in Templates : ~PodFails(r, t)

\* The template whose subsets are the new ones of this or of the next reconcile.
Front == IF pc = "idle" THEN Seen.template ELSE snap.tmpl

Ordered ==
    /\ Seen.template <= template
    /\ pc # "idle" => snap.tmpl <= Seen.template /\ snap.want \in [Regions -> Sizes]

\* A subset that does not exist has no pods, there is none of a later template
\* than the new one, and the new one has surplus pods only once it is so large
\* that the user may have asked for no more.
Sound(s, t, front) ==
    /\ ~s.live => s.spec = 0 /\ s.avail = 0
    /\ s.live => t <= front
    /\ t >= front /\ s.avail > s.spec => Enough(s.spec)

StoreInv ==
    /\ cache = sub /\ Ordered
    /\ \A r \in Regions, t \in Templates : Sound(sub[r][t], t, Front)
    /\ \A r \in Regions : Enough(Serving(sub[r]))

\* What the reconcile has read of region r is not more than there is, and enough.
AsRead(r) ==
    /\ \A t \in Templates : /\ sub[r][t].live => info[r][t].spec = sub[r][t].spec
                            /\ Serve(info[r][t]) <= Serve(sub[r][t])
    /\ info[r][snap.tmpl].avail > info[r][snap.tmpl].spec => Enough(info[r][snap.tmpl].spec)
    /\ Enough(Serving(info[r]))

Budget == MaxCleanupCount(info[cur], snap.tmpl, snap.want[cur])
Steady(o) == info[cur][o].spec = info[cur][o].avail

LoopInv ==
    /\ pc \notin {"rollOld", "deleteAll"}
    /\ pc \in {"confirm", "manage", "cleanup", "shrink", "grow"} => \A r \in todo : AsRead(r)
    /\ pc \in {"cleanup", "shrink", "grow"} => cur \notin todo
    /\ pc \in {"cleanup", "shrink"} => AsRead(cur) /\ rest \subseteq Olds(info[cur], snap.tmpl)
    /\ pc = "cleanup" =>
          /\ left = Budget
          /\ left > 0 => \A o \in Olds(info[cur], snap.tmpl) \ rest : Steady(o)
    /\ pc = "shrink" =>
          left \in Nat /\ left <= Budget /\ \A o \in Olds(info[cur], snap.tmpl) : Steady(o)
    /\ pc = "grow" /\ sub[cur][snap.tmpl].live =>
          info[cur][snap.tmpl].spec = sub[cur][snap.tmpl].spec
    /\ pc \in {"saturated", "clean", "sweep", "delete"} =>
          \A r \in Regions : snap.want[r] <= Serve(sub[r][snap.tmpl])
    /\ pc \in {"sweep", "delete"} => snap.tmpl \notin rest

\* The inductive invariant behind ZeroDowntime.
ZeroInv == StoreInv /\ LoopInv

FrontOK == Front \in Nat /\ Seen.template \in Nat /\ template \in Nat

LEMMA FrontType == TypeOK => FrontOK
<1> SUFFICES ASSUME TypeOK PROVE FrontOK
  OBVIOUS
<1>1. Seen.template \in Templates /\ snap.tmpl \in Templates /\ template \in Templates
  BY SeenType DEF TypeOK, LoopOK, UserOK
<1> QED BY <1>1, RolloutAssumption DEF FrontOK, Front

LEMMA FrontNextType == TypeOK' => FrontOK'
BY FrontType, PTL

\* Most steps leave the deployment alone; the reconcile goes on or ends.
LEMMA OrderStep ==
    ASSUME TypeOK, TypeOK', Ordered, UNCHANGED <<template, seen>>,
           pc' = "idle" \/ (pc # "idle" /\ UNCHANGED snap)
    PROVE  Ordered' /\ Front <= Front' /\ (pc' # "idle" => Front = snap.tmpl)
<1>1. (Seen.template)' = Seen.template
  BY DEF Seen, Deployment
<1>2. Ordered'
  BY <1>1 DEF Ordered
<1>3. Front \in Nat /\ Front' \in Nat
  BY FrontType, FrontNextType DEF FrontOK
<1>4. Front' = (IF pc' = "idle" THEN Seen.template ELSE snap.tmpl)
  BY <1>1 DEF Front
<1> QED BY <1>2, <1>3, <1>4 DEF Front, Ordered

\* The subsets that a step changes are sound, and the regions serve enough.
LEMMA StoreStep ==
    ASSUME TypeOK, TypeOK', StoreInv, cache' = sub', Ordered', Front <= Front',
           \A r \in Regions, t \in Templates :
              sub'[r][t] = sub[r][t] \/ Sound(sub'[r][t], t, Front),
           \A r \in Regions : sub'[r] = sub[r] \/ Enough(Serving(sub'[r]))
    PROVE  StoreInv'
<1>1. Front \in Nat /\ Front' \in Nat /\ Templates \subseteq Nat
  BY FrontType, FrontNextType, RolloutAssumption DEF FrontOK
<1>2. ASSUME NEW r \in Regions, NEW t \in Templates PROVE Sound(sub'[r][t], t, Front')
  <2>1. Sound(sub'[r][t], t, Front)
    BY DEF StoreInv
  <2>2. t \in Nat
    BY <1>1
  <2> QED BY <1>1, <2>1, <2>2 DEF Sound
<1>3. \A r \in Regions : Enough(Serving(sub'[r]))
  BY DEF StoreInv
<1> QED BY <1>2, <1>3 DEF StoreInv

\* No subset is written.
LEMMA StoreStays ==
    ASSUME TypeOK, TypeOK', StoreInv, UNCHANGED <<sub, cache>>, Ordered', Front <= Front'
    PROVE  StoreInv'
BY StoreStep DEF StoreInv

\* What has been read of a region lasts while only pods come or surplus ones go.
LEMMA AsReadStays ==
    ASSUME NEW r \in Regions, AsRead(r), UNCHANGED snap, info'[r] = info[r],
           \A t \in Templates :
              /\ sub'[r][t].live = sub[r][t].live /\ sub'[r][t].spec = sub[r][t].spec
              /\ Serve(info[r][t]) <= Serve(sub'[r][t])
    PROVE  AsRead(r)'
BY DEF AsRead

\* The reconcile ends, or waits for its status to be written.
LEMMA LoopEnds == pc' \in {"idle", "refresh", "wait"} => LoopInv'
BY DEF LoopInv

LEMMA ZeroTypes ==
    ASSUME TypeOK
    PROVE  /\ info \in [Regions -> [Templates -> Subset]]
           /\ sub \in [Regions -> [Templates -> Subset]]
           /\ cur \in Regions /\ rest \subseteq Templates /\ todo \subseteq Regions
           /\ snap.tmpl \in Templates /\ snap.want \in [Regions -> Nat] /\ left \in Int
           /\ \A r \in Regions : sub[r] \in [Templates -> Subset] /\ info[r] \in [Templates -> Subset]
           /\ \A r \in Regions, t \in Templates :
                 /\ info[r][t].spec \in Nat /\ info[r][t].avail \in Nat
                 /\ sub[r][t].spec \in Nat /\ sub[r][t].avail \in Nat
                 /\ Serve(info[r][t]) \in Nat /\ Serve(sub[r][t]) \in Nat
<1>1. /\ info \in [Regions -> [Templates -> Subset]] /\ sub \in [Regions -> [Templates -> Subset]]
      /\ cur \in Regions /\ rest \subseteq Templates /\ snap.tmpl \in Templates
      /\ snap.want \in [Regions -> Nat] /\ todo \subseteq Regions /\ left \in Int
  BY DEF TypeOK, StoreOK, LoopOK
<1>2. \A r \in Regions : sub[r] \in [Templates -> Subset] /\ info[r] \in [Templates -> Subset]
  BY <1>1
<1> QED BY <1>1, <1>2, ServeType

\* ScaleSubset sets the size of one subset.
LEMMA ZeroWritten ==
    ASSUME ZeroScope, TypeOK, NEW r \in Regions, NEW t \in Templates, NEW n \in Nat,
           SetReplicas(r, t, n)
    PROVE  /\ cache' = sub' /\ sub[r][t].live
           /\ sub'[r][t].live /\ sub'[r][t].spec = n /\ sub'[r][t].avail = sub[r][t].avail
           /\ \A q \in Regions, u \in Templates : q # r \/ u # t => sub'[q][u] = sub[q][u]
           /\ \A q \in Regions : q # r => sub'[q] = sub[q]
<1>1. /\ sub \in [Regions -> [Templates -> Subset]]
      /\ sub' = [sub EXCEPT ![r][t] = WithSpec(sub[r][t], n)] /\ sub[r][t].live
  BY DEF TypeOK, StoreOK, SetReplicas, CacheCurrent
<1>2. cache' = sub'
  BY DEF ZeroScope, SetReplicas, Published
<1> QED BY <1>1, <1>2 DEF WithSpec

\* Any subset but the new one may be made smaller as long as enough pods serve.
LEMMA ScaleKeeps ==
    ASSUME ZeroScope, TypeOK, TypeOK', StoreInv,
           NEW r \in Regions, NEW t \in Templates, NEW n \in Nat, SetReplicas(r, t, n),
           UNCHANGED <<template, seen, snap>>, pc # "idle",
           t # snap.tmpl \/ n >= sub[r][t].spec \/ Enough(n), Enough(Serving(sub'[r]))
    PROVE  StoreInv'
<1>1. /\ cache' = sub' /\ sub[r][t].live
      /\ sub'[r][t].live /\ sub'[r][t].spec = n /\ sub'[r][t].avail = sub[r][t].avail
      /\ \A q \in Regions, u \in Templates : q # r \/ u # t => sub'[q][u] = sub[q][u]
      /\ \A q \in Regions : q # r => sub'[q] = sub[q]
  BY ZeroWritten
<1>2. Ordered' /\ Front <= Front'
  BY OrderStep DEF StoreInv
<1>3. Front = snap.tmpl /\ Front \in Nat /\ t \in Nat
  BY FrontType, RolloutAssumption DEF Front, FrontOK
<1>4. sub[r][t].spec \in Nat /\ sub[r][t].avail \in Nat
  BY ZeroTypes
<1>5. Sound(sub[r][t], t, Front)
  BY DEF StoreInv
<1>6. t <= Front
  BY <1>1, <1>5 DEF Sound
<1>7. t >= Front /\ sub[r][t].avail > n => Enough(n)
  <2> SUFFICES ASSUME t >= Front, sub[r][t].avail > n PROVE Enough(n)
    OBVIOUS
  <2>1. t = snap.tmpl
    BY <1>3, <1>6
  <2>2. CASE n >= sub[r][t].spec
    <3>1. Enough(sub[r][t].spec)
      BY <1>4, <1>5, <2>2 DEF Sound
    <3> QED BY <1>4, <2>2, <3>1, EnoughMore
  <2> QED BY <2>1, <2>2
<1>8. Sound(sub'[r][t], t, Front)
  BY <1>1, <1>6, <1>7 DEF Sound
<1>9. \A q \in Regions, u \in Templates : sub'[q][u] = sub[q][u] \/ Sound(sub'[q][u], u, Front)
  BY <1>1, <1>8
<1>10. \A q \in Regions : sub'[q] = sub[q] \/ Enough(Serving(sub'[q]))
  BY <1>1
<1> QED BY <1>1, <1>2, <1>9, <1>10, StoreStep

\* cleanupUnhealthyReplicas takes pods that do not serve.
LEMMA ZeroCleanup ==
    ASSUME ZeroScope, TypeOK, TypeOK', ZeroInv,
           NEW o \in Templates, CleanupUnhealthyReplicas(o)
    PROVE  ZeroInv'
<1> DEFINE old   == info[cur][o]
           count == Lesser(old.spec - old.avail, left)
           n     == old.spec - count
           Go    == left' = left - count /\ rest' = rest \ {o} /\ UNCHANGED <<pc, snap, todo, cur>>
<1>a. /\ pc = "cleanup" /\ o \in rest /\ left > 0 /\ UNCHANGED <<template, seen>>
      /\ left = Budget /\ cur \notin todo /\ rest \subseteq Olds(info[cur], snap.tmpl)
      /\ \A r \in todo : AsRead(r)
      /\ AsRead(cur) /\ \A u \in Olds(info[cur], snap.tmpl) \ rest : Steady(u)
  BY DEF CleanupUnhealthyReplicas, ZeroInv, LoopInv, userVars, statusVars
<1>b. o # snap.tmpl /\ old.live /\ o \in Olds(info[cur], snap.tmpl)
  BY <1>a DEF Olds
<1>c. /\ old.spec \in Nat /\ old.avail \in Nat /\ left \in Int /\ cur \in Regions
      /\ snap.tmpl \in Templates /\ snap.want[cur] \in Nat /\ todo \subseteq Regions
      /\ sub[cur] \in [Templates -> Subset] /\ info[cur] \in [Templates -> Subset]
      /\ info \in [Regions -> [Templates -> Subset]] /\ sub \in [Regions -> [Templates -> Subset]]
  BY ZeroTypes
<1>d. sub'[cur] \in [Templates -> Subset] /\ info'[cur] \in [Templates -> Subset]
  BY <1>c DEF TypeOK, StoreOK, LoopOK
<1>e. StoreInv
  BY DEF ZeroInv
<1>1. \/ NoWrite /\ Return
      \/ old.avail = old.spec /\ NoWrite /\ UNCHANGED info /\ Go
      \/ /\ old.avail < old.spec /\ count = old.spec
         /\ sub' = [sub EXCEPT ![cur][o] = Absent] /\ Published
         /\ info' = [info EXCEPT ![cur][o] = Deleted(old)] /\ Go
      \/ /\ old.avail < old.spec /\ count < old.spec /\ SetReplicas(cur, o, n)
         /\ info' = [info EXCEPT ![cur][o] = WithSpec(old, n)] /\ Go
  BY DEF CleanupUnhealthyReplicas, ZeroScope
<1>2. old.avail <= old.spec => count \in Nat /\ count <= old.spec - old.avail /\ n \in Nat /\ n >= old.avail
  BY <1>a, <1>c DEF Lesser
\* The loop goes on with the other old subsets.
<1>3. ASSUME Go, old.avail <= old.spec, StoreInv', AsRead(cur)', Budget' = Budget - count,
             left - count > 0 => o \notin Olds(info'[cur], snap.tmpl) \/ Steady(o)',
             \A r \in Regions : r # cur => sub'[r] = sub[r] /\ info'[r] = info[r],
             \A u \in Templates \ {o} : info'[cur][u] = info[cur][u]
      PROVE  ZeroInv'
  <2>1. pc' = "cleanup" /\ cur' = cur /\ snap' = snap /\ todo' = todo /\ cur' \notin todo'
    BY <1>a, <1>3
  <2>2. \A r \in todo' : AsRead(r)'
    BY <1>a, <1>c, <1>3, <2>1 DEF AsRead
  <2>3. left' = Budget'
    BY <1>a, <1>3
  <2>4. rest' \subseteq Olds(info'[cur'], snap'.tmpl)
    BY <1>a, <1>3, <2>1 DEF Olds
  <2>5. ASSUME left' > 0, NEW u \in Olds(info'[cur'], snap'.tmpl) \ rest' PROVE Steady(u)'
    <3>1. CASE u = o
      BY <1>3, <2>1, <2>5, <3>1
    <3>2. CASE u # o
      <4>1. u \in Olds(info[cur], snap.tmpl) \ rest
        BY <1>3, <2>1, <2>5, <3>2 DEF Olds
      <4>2. u \in Templates /\ info'[cur'][u] = info[cur][u]
        BY <1>3, <2>1, <2>5, <3>2 DEF Olds
      <4> QED BY <1>a, <4>1, <4>2 DEF Steady
    <3> QED BY <3>1, <3>2
  <2> HIDE DEF Go
  <2>6. LoopInv'
    BY <1>3, <2>1, <2>2, <2>3, <2>4, <2>5 DEF LoopInv
  <2> QED BY <1>3, <2>6 DEF ZeroInv
<1>4. CASE NoWrite /\ Return
  <2>1. pc' = "idle" /\ UNCHANGED <<sub, cache>>
    BY <1>4 DEF NoWrite, Return, storeVars
  <2>2. StoreInv'
    BY <1>a, <1>e, <2>1, OrderStep, StoreStays DEF StoreInv
  <2> QED BY <2>1, <2>2, LoopEnds DEF ZeroInv
<1>5. CASE old.avail = old.spec /\ NoWrite /\ UNCHANGED info /\ Go
  <2>1. UNCHANGED <<sub, cache, info, cur, snap>> /\ count = 0
    BY <1>a, <1>c, <1>5 DEF NoWrite, storeVars, Lesser
  <2>2. StoreInv'
    BY <1>a, <1>e, <1>5, <2>1, OrderStep, StoreStays DEF StoreInv
  <2>3. AsRead(cur)' /\ Budget' = Budget /\ Steady(o)'
    BY <1>a, <1>5, <2>1 DEF AsRead, Budget, Steady
  <2>4. Budget' = Budget - count
    BY <1>a, <1>c, <2>1, <2>3
  <2> HIDE DEF count
  <2> QED BY <1>3, <1>5, <1>c, <2>1, <2>2, <2>3, <2>4
\* Both writes leave what serves of the old subset as it was read.
<1>6. ASSUME Serve(info'[cur][o]) = Serve(old), Serve(info'[cur][o]) <= Serve(sub'[cur][o]),
             sub'[cur][o].live => info'[cur][o].spec = sub'[cur][o].spec,
             \A u \in Templates \ {o} : info'[cur][u] = info[cur][u] /\ sub'[cur][u] = sub[cur][u],
             UNCHANGED <<snap, cur>>
      PROVE  AsRead(cur)' /\ Enough(Serving(sub'[cur]))
  <2>1. \A u \in Templates : /\ sub'[cur][u].live => info'[cur][u].spec = sub'[cur][u].spec
                             /\ Serve(info'[cur][u]) <= Serve(sub'[cur][u])
    BY <1>a, <1>6 DEF AsRead
  <2>2. info'[cur][snap.tmpl] = info[cur][snap.tmpl]
    BY <1>b, <1>c, <1>6
  <2>3. \A u \in Templates : Serve(info[cur][u]) <= Serve(info'[cur][u])
    <3>1. \A u \in Templates : Serve(info[cur][u]) \in Nat
      BY <1>c, ServeType
    <3>2. \A u \in Templates : Serve(info'[cur][u]) = Serve(info[cur][u])
      BY <1>6
    <3> QED BY <3>1, <3>2
  <2>4. Enough(Serving(info'[cur]))
    BY <1>a, <1>c, <1>d, <2>3, ServingGrows DEF AsRead
  <2>5. Enough(Serving(sub'[cur]))
    BY <1>d, <2>1, <2>4, ServingGrows
  <2> QED BY <1>a, <1>6, <2>1, <2>2, <2>4, <2>5 DEF AsRead
<1>7. CASE /\ old.avail < old.spec /\ count = old.spec
           /\ sub' = [sub EXCEPT ![cur][o] = Absent] /\ Published
           /\ info' = [info EXCEPT ![cur][o] = Deleted(old)] /\ Go
  <2>1. old.avail = 0
    BY <1>c, <1>2, <1>7
  <2>2. /\ cache' = sub' /\ sub'[cur][o] = Absent /\ info'[cur][o] = Deleted(old)
        /\ \A u \in Templates \ {o} : info'[cur][u] = info[cur][u] /\ sub'[cur][u] = sub[cur][u]
        /\ \A r \in Regions : r # cur => sub'[r] = sub[r] /\ info'[r] = info[r]
    BY <1>c, <1>7 DEF Published, ZeroScope
  <2>3. /\ ~Absent.live /\ Absent.spec = 0 /\ Absent.avail = 0
        /\ ~Deleted(old).live /\ Deleted(old).spec = old.spec /\ Deleted(old).avail = old.avail
    BY DEF Absent, Deleted
  <2>4. /\ Serve(sub'[cur][o]) = 0 /\ Serve(info'[cur][o]) = 0 /\ Serve(old) = 0
    BY <1>c, <2>1, <2>2, <2>3 DEF Serve, Lesser
  <2>5. AsRead(cur)' /\ Enough(Serving(sub'[cur]))
    BY <1>6, <1>7, <2>2, <2>3, <2>4
  <2>6. Sound(sub'[cur][o], o, Front)
    BY <2>2, <2>3 DEF Sound
  <2>7. StoreInv'
    <3>1. Ordered' /\ Front <= Front'
      BY <1>a, <1>e, <1>7, OrderStep DEF StoreInv
    <3>2. \A q \in Regions, u \in Templates : sub'[q][u] = sub[q][u] \/ Sound(sub'[q][u], u, Front)
      BY <2>2, <2>6
    <3>3. \A q \in Regions : sub'[q] = sub[q] \/ Enough(Serving(sub'[q]))
      BY <2>2, <2>5
    <3> QED BY <1>e, <2>2, <3>1, <3>2, <3>3, StoreStep
  <2>8. MaxCleanupCount(info'[cur], snap.tmpl, snap.want[cur])
          = MaxCleanupCount(info[cur], snap.tmpl, snap.want[cur]) - old.spec
    <3>1. ~info'[cur][o].live
      BY <2>2, <2>3
    <3>2. o \in Olds(info[cur], snap.tmpl) /\ info[cur][o].spec = old.spec /\ old.spec \in Nat
      BY <1>b, <1>c
    <3> HIDE DEF old
    <3> QED BY <1>c, <1>d, <2>2, <3>1, <3>2, CleanupTakes
  <2>9. Budget' = Budget - count
    BY <1>7, <2>8 DEF Budget
  <2>10. o \notin Olds(info'[cur], snap.tmpl)
    BY <2>2, <2>3 DEF Olds
  <2> HIDE DEF count
  <2> QED BY <1>3, <1>7, <1>c, <2>2, <2>5, <2>7, <2>9, <2>10
<1>8. CASE /\ old.avail < old.spec /\ count < old.spec /\ SetReplicas(cur, o, n)
           /\ info' = [info EXCEPT ![cur][o] = WithSpec(old, n)] /\ Go
  <2>1. n \in Nat /\ n >= old.avail /\ count \in Nat /\ (left - count > 0 => n = old.avail)
    BY <1>a, <1>c, <1>8, <1>2 DEF Lesser
  <2>2. n = old.spec - count
    OBVIOUS
  <2>3. /\ cache' = sub' /\ sub[cur][o].live
        /\ sub'[cur][o].live /\ sub'[cur][o].spec = n /\ sub'[cur][o].avail = sub[cur][o].avail
        /\ \A q \in Regions, u \in Templates : q # cur \/ u # o => sub'[q][u] = sub[q][u]
        /\ \A q \in Regions : q # cur => sub'[q] = sub[q]
    BY <1>c, <1>8, <2>1, ZeroWritten
  <2>4. /\ info'[cur][o] = WithSpec(old, n)
        /\ \A u \in Templates \ {o} : info'[cur][u] = info[cur][u]
        /\ \A r \in Regions : r # cur => info'[r] = info[r]
    BY <1>c, <1>8
  <2>5. info'[cur][o].live /\ info'[cur][o].spec = n /\ info'[cur][o].avail = old.avail
    BY <1>b, <2>4 DEF WithSpec
  <2> HIDE DEF n, count
  <2>6. Serve(info'[cur][o]) = old.avail /\ Serve(old) = old.avail
    BY <1>c, <1>8, <2>1, <2>5 DEF Serve, Lesser
  <2>7. Serve(info'[cur][o]) <= Serve(sub'[cur][o])
    <3>1. Serve(old) <= Serve(sub[cur][o]) /\ sub[cur][o].avail \in Nat /\ sub[cur][o].spec \in Nat
      BY <1>a, <1>c, ZeroTypes DEF AsRead
    <3>2. old.avail <= sub[cur][o].avail
      BY <1>c, <2>6, <3>1 DEF Serve, Lesser
    <3> QED BY <1>c, <2>1, <2>3, <2>6, <3>1, <3>2 DEF Serve, Lesser
  <2>8. AsRead(cur)' /\ Enough(Serving(sub'[cur]))
    BY <1>6, <1>8, <1>c, <2>3, <2>4, <2>5, <2>6, <2>7
  <2>9. StoreInv'
    BY <1>a, <1>b, <1>c, <1>e, <1>8, <2>1, <2>8, ScaleKeeps
  <2>10. MaxCleanupCount(info'[cur], snap.tmpl, snap.want[cur])
           = MaxCleanupCount(info[cur], snap.tmpl, snap.want[cur]) - count
    <3>1. /\ info'[cur][o].live /\ info'[cur][o].spec = info[cur][o].spec - count
          /\ o \in Olds(info[cur], snap.tmpl) /\ count \in Nat
      BY <1>b, <2>1, <2>2, <2>5
    <3>2. \A u \in Templates \ {o} : info'[cur][u] = info[cur][u]
      BY <2>4
    <3>3. PICK c \in Nat : c = count
      BY <3>1
    <3>4. \/ info'[cur][o].live /\ info'[cur][o].spec = info[cur][o].spec - c
          \/ ~info'[cur][o].live /\ info[cur][o].spec = c
      BY <3>1, <3>3
    <3>5. o \in Olds(info[cur], snap.tmpl)
      BY <3>1
    <3>6. MaxCleanupCount(info'[cur], snap.tmpl, snap.want[cur])
            = MaxCleanupCount(info[cur], snap.tmpl, snap.want[cur]) - c
      <4> HIDE DEF old
      <4>1. /\ info[cur] \in [Templates -> Subset] /\ info'[cur] \in [Templates -> Subset]
            /\ snap.tmpl \in Templates /\ snap.want[cur] \in Nat
        BY <1>c, <1>d
      <4> QED BY <3>2, <3>4, <3>5, <4>1, CleanupTakes
    <3> QED BY <3>3, <3>6
  <2>11. Budget' = Budget - count
    BY <1>8, <2>10 DEF Budget
  <2>12. left - count > 0 => Steady(o)'
    BY <1>8, <2>1, <2>5 DEF Steady
  <2> QED BY <1>3, <1>8, <1>c, <2>3, <2>4, <2>8, <2>9, <2>11, <2>12
<1> HIDE DEF Go, n, count
<1> QED BY <1>1, <1>4, <1>5, <1>7, <1>8

\* What has been read of a region that nobody touches.
LEMMA AsReadSame ==
    ASSUME NEW r \in Regions, AsRead(r), UNCHANGED snap, info'[r] = info[r], sub'[r] = sub[r]
    PROVE  AsRead(r)'
BY DEF AsRead

\* On to the new subset of the region.
LEMMA LoopGrows ==
    ASSUME TypeOK, LoopInv, pc \in {"cleanup", "shrink"}, pc' = "grow",
           UNCHANGED <<snap, info, todo, cur>>, \A r \in Regions : r # cur => sub'[r] = sub[r],
           sub'[cur][snap.tmpl] = sub[cur][snap.tmpl]
    PROVE  LoopInv'
<1>1. cur \notin todo /\ (\A r \in todo : AsRead(r)) /\ AsRead(cur)
  BY DEF LoopInv
<1>2. todo \subseteq Regions /\ cur \in Regions /\ snap.tmpl \in Templates
  BY ZeroTypes
<1>3. \A r \in todo : AsRead(r)'
  BY <1>1, <1>2, AsReadSame
<1>4. sub'[cur'][snap'.tmpl].live => info'[cur'][snap'.tmpl].spec = sub'[cur'][snap'.tmpl].spec
  BY <1>1, <1>2 DEF AsRead
<1> QED BY <1>1, <1>3, <1>4 DEF LoopInv

\* regionSyncOnce scales one old subset down.
LEMMA ZeroShrink ==
    ASSUME ZeroScope, TypeOK, TypeOK', ZeroInv, NEW o \in Templates, ShrinkOld(o)
    PROVE  ZeroInv'
<1> DEFINE old == info[cur][o]
           n   == old.spec - left
<1>a. /\ pc = "shrink" /\ o \in rest /\ UNCHANGED <<template, seen>>
      /\ left \in Nat /\ left <= Budget /\ cur \notin todo
      /\ rest \subseteq Olds(info[cur], snap.tmpl)
      /\ \A r \in todo : AsRead(r)
      /\ AsRead(cur) /\ \A u \in Olds(info[cur], snap.tmpl) : Steady(u)
  BY DEF ShrinkOld, ZeroInv, LoopInv, userVars, statusVars
<1>b. StoreInv /\ LoopInv
  BY DEF ZeroInv
<1>c. /\ old.spec \in Nat /\ old.avail \in Nat /\ cur \in Regions
      /\ snap.tmpl \in Templates /\ snap.want[cur] \in Nat /\ todo \subseteq Regions
      /\ info[cur] \in [Templates -> Subset]
      /\ o \in Olds(info[cur], snap.tmpl) /\ o # snap.tmpl
  BY <1>a, ZeroTypes DEF Olds
<1>d. sub'[cur] \in [Templates -> Subset]
  BY <1>c DEF TypeOK, StoreOK
<1>1. \/ old.spec > left /\ left > 0 /\ SetReplicas(cur, o, n) /\ pc' = "grow" /\ UNCHANGED loopVars
      \/ NoWrite /\ Return
      \/ NoWrite /\ pc' = "grow" /\ UNCHANGED loopVars
      \/ /\ old.spec <= left /\ left' = left - old.spec /\ rest' = rest \ {o}
         /\ NoWrite /\ UNCHANGED <<pc, snap, info, todo, cur>>
  BY DEF ShrinkOld
<1>2. CASE old.spec > left /\ left > 0 /\ SetReplicas(cur, o, n) /\ pc' = "grow"
           /\ UNCHANGED loopVars
  <2>1. n \in Nat /\ n <= old.spec /\ UNCHANGED <<snap, info, todo, cur>>
    BY <1>a, <1>c, <1>2 DEF loopVars
  <2>2. old.spec - left = n
    OBVIOUS
  <2> HIDE DEF n
  <2>3. /\ cache' = sub' /\ sub[cur][o].live
        /\ sub'[cur][o].live /\ sub'[cur][o].spec = n /\ sub'[cur][o].avail = sub[cur][o].avail
        /\ \A q \in Regions, u \in Templates : q # cur \/ u # o => sub'[q][u] = sub[q][u]
        /\ \A q \in Regions : q # cur => sub'[q] = sub[q]
    BY <1>c, <1>2, <2>1, ZeroWritten
  <2>4. old.spec - left <= Serve(sub'[cur][o])
    <3>1. Serve(old) <= Serve(sub[cur][o]) /\ sub[cur][o].avail \in Nat /\ sub[cur][o].spec \in Nat
      BY <1>a, <1>c, ZeroTypes DEF AsRead
    <3>2. old.spec = old.avail
      BY <1>a, <1>c DEF Steady
    <3>3. old.spec <= sub[cur][o].avail
      BY <1>c, <3>1, <3>2 DEF Serve, Lesser
    <3> QED BY <1>c, <2>1, <2>2, <2>3, <3>1, <3>3 DEF Serve, Lesser
  <2>5. \A u \in Templates \ {o} : Serve(info[cur][u]) <= Serve(sub'[cur][u])
    BY <1>a, <1>c, <2>3 DEF AsRead
  <2>6. /\ left <= MaxCleanupCount(info[cur], snap.tmpl, snap.want[cur])
        /\ \A u \in Olds(info[cur], snap.tmpl) : info[cur][u].spec = info[cur][u].avail
    BY <1>a DEF Budget, Steady
  <2>7. \/ snap.want[cur] <= Serving(sub'[cur])
        \/ /\ info[cur][snap.tmpl].avail > info[cur][snap.tmpl].spec
           /\ info[cur][snap.tmpl].spec <= Serving(sub'[cur])
    <3>1. left \in Nat /\ info[cur][o].spec - left <= Serve(sub'[cur][o])
      BY <1>a, <2>4
    <3>2. /\ info[cur] \in [Templates -> Subset] /\ o \in Olds(info[cur], snap.tmpl)
          /\ snap.tmpl \in Templates /\ snap.want[cur] \in Nat
      BY <1>c
    <3> HIDE DEF old
    <3> QED BY <1>d, <2>5, <2>6, <3>1, <3>2, ShrinkLeaves
  <2>8. Enough(Serving(sub'[cur]))
    <3>1. Enough(snap.want[cur])
      BY <1>a, <1>b, <1>c, EnoughSize DEF StoreInv, Ordered
    <3>2. /\ info[cur][snap.tmpl].avail > info[cur][snap.tmpl].spec =>
                Enough(info[cur][snap.tmpl].spec)
          /\ info[cur][snap.tmpl].spec \in Nat /\ Serving(sub'[cur]) \in Nat
      BY <1>a, <1>c, <1>d, ServeType DEF AsRead
    <3> QED BY <1>c, <2>7, <3>1, <3>2, EnoughMore
  <2>9. StoreInv'
    BY <1>a, <1>b, <1>c, <1>2, <2>1, <2>8, ScaleKeeps
  <2>10. LoopInv'
    BY <1>a, <1>b, <1>c, <1>2, <2>1, <2>3, LoopGrows
  <2> QED BY <2>9, <2>10 DEF ZeroInv
<1>e. NoWrite => UNCHANGED <<sub, cache>>
  BY DEF NoWrite, storeVars
<1>3. ASSUME NoWrite, pc' = "idle" \/ UNCHANGED snap PROVE StoreInv'
  BY <1>3, <1>a, <1>b, <1>e, OrderStep, StoreStays DEF StoreInv
<1>4. CASE NoWrite /\ Return
  <2>1. pc' = "idle"
    BY <1>4 DEF Return
  <2> QED BY <1>3, <1>4, <2>1, LoopEnds DEF ZeroInv
<1>5. CASE NoWrite /\ pc' = "grow" /\ UNCHANGED loopVars
  <2>1. UNCHANGED <<sub, snap, info, todo, cur>>
    BY <1>5, <1>e DEF loopVars
  <2>2. LoopInv'
    BY <1>a, <1>b, <1>5, <2>1, LoopGrows
  <2> QED BY <1>3, <1>5, <2>1, <2>2 DEF ZeroInv
<1>6. CASE /\ old.spec <= left /\ left' = left - old.spec /\ rest' = rest \ {o}
           /\ NoWrite /\ UNCHANGED <<pc, snap, info, todo, cur>>
  <2>1. UNCHANGED <<sub, pc, snap, info, todo, cur, Budget>>
    BY <1>6, <1>e DEF Budget
  <2>2. left' \in Nat /\ left' <= Budget'
    <3>1. Budget \in Int
      BY <1>c, CountsType DEF Budget
    <3> QED BY <1>a, <1>c, <1>6, <2>1, <3>1
  <2>3. (\A r \in todo : AsRead(r)') /\ AsRead(cur)'
    BY <1>a, <1>c, <2>1, AsReadSame
  <2>4. \A u \in Olds(info'[cur'], snap'.tmpl) : Steady(u)'
    BY <1>a, <2>1 DEF Steady
  <2>5. rest' \subseteq Olds(info'[cur'], snap'.tmpl) /\ cur' \notin todo' /\ pc' = "shrink"
    BY <1>a, <1>6, <2>1
  <2>6. AsRead(cur)' /\ \A r \in todo' : AsRead(r)'
    BY <2>1, <2>3
  <2>7. LoopInv'
    BY <2>2, <2>4, <2>5, <2>6 DEF LoopInv
  <2> QED BY <1>3, <1>6, <2>7 DEF ZeroInv
<1> HIDE DEF n
<1> QED BY <1>1, <1>2, <1>4, <1>5, <1>6

\* On with the next region.
LEMMA LoopNext ==
    ASSUME TypeOK, LoopInv, pc \in {"confirm", "manage", "grow"}, pc' = "manage",
           UNCHANGED <<snap, info, todo>>, \A r \in todo : sub'[r] = sub[r]
    PROVE  LoopInv'
<1>1. todo \subseteq Regions /\ \A r \in todo : AsRead(r)
  BY ZeroTypes DEF LoopInv
<1>2. \A r \in todo' : AsRead(r)'
  BY <1>1, AsReadSame
<1> QED BY <1>2 DEF LoopInv

\* regionSyncOnce moves the new subset by one step, never below the size asked for.
LEMMA ZeroGrow ==
    ASSUME ZeroScope, TypeOK, TypeOK', ZeroInv, GrowNew
    PROVE  ZeroInv'
<1> DEFINE t    == snap.tmpl
           want == snap.want[cur]
           n    == info[cur][t].spec + CalculateStepSize(want, info[cur][t].spec)
<1>a. /\ pc = "grow" /\ UNCHANGED <<template, seen>> /\ cur \notin todo
      /\ sub[cur][t].live => info[cur][t].spec = sub[cur][t].spec
      /\ StoreInv /\ LoopInv
  BY DEF GrowNew, ZeroInv, LoopInv, userVars, statusVars
<1>b. /\ cur \in Regions /\ t \in Templates /\ todo \subseteq Regions
      /\ info[cur][t].spec \in Nat /\ sub[cur] \in [Templates -> Subset]
      /\ sub[cur][t].spec \in Nat /\ sub[cur][t].avail \in Nat
  BY ZeroTypes
<1>c. want \in Sizes /\ want \in Nat /\ Enough(want)
  BY <1>a, <1>b, EnoughSize DEF StoreInv, Ordered
<1>d. sub'[cur] \in [Templates -> Subset]
  BY <1>b DEF TypeOK, StoreOK
<1>1. n \in Nat /\ (n >= info[cur][t].spec \/ n >= want)
  <2>1. PICK m \in Nat : m = info[cur][t].spec
    BY <1>b
  <2>2. PICK w \in Nat : w = want
    BY <1>c
  <2>3. n = m + CalculateStepSize(w, m)
    BY <2>1, <2>2
  <2>4. n \in Nat /\ (w >= m => n \in m..w) /\ (w < m => n \in w..m)
    <3> HIDE DEF n
    <3> QED BY <2>3, StepSizeType
  <2>5. n \in Nat /\ (n >= m \/ n >= w)
    <3> HIDE DEF n
    <3> QED BY <2>4
  <2> QED BY <2>1, <2>2, <2>5
<1>2. \/ NoWrite /\ pc' = "manage" /\ UNCHANGED loopVars
      \/ SetReplicas(cur, t, n) /\ pc' = "manage" /\ UNCHANGED loopVars
      \/ NoWrite /\ Return
  BY DEF GrowNew, ZeroScope
<1> HIDE DEF n
<1>e. NoWrite => UNCHANGED <<sub, cache>>
  BY DEF NoWrite, storeVars
<1>f. UNCHANGED loopVars => UNCHANGED <<snap, info, todo>>
  BY DEF loopVars
<1>3. CASE NoWrite /\ pc' = "manage" /\ UNCHANGED loopVars
  <2>1. StoreInv'
    BY <1>a, <1>e, <1>f, <1>3, OrderStep, StoreStays DEF StoreInv
  <2>2. LoopInv'
    BY <1>a, <1>e, <1>f, <1>3, LoopNext
  <2> QED BY <2>1, <2>2 DEF ZeroInv
<1>4. CASE NoWrite /\ Return
  <2>1. pc' = "idle"
    BY <1>4 DEF Return
  <2>2. StoreInv'
    BY <1>a, <1>e, <1>4, <2>1, OrderStep, StoreStays DEF StoreInv
  <2> QED BY <2>1, <2>2, LoopEnds DEF ZeroInv
<1>5. CASE SetReplicas(cur, t, n) /\ pc' = "manage" /\ UNCHANGED loopVars
  <2>1. /\ cache' = sub' /\ sub[cur][t].live
        /\ sub'[cur][t].live /\ sub'[cur][t].spec = n /\ sub'[cur][t].avail = sub[cur][t].avail
        /\ \A q \in Regions, u \in Templates : q # cur \/ u # t => sub'[q][u] = sub[q][u]
        /\ \A q \in Regions : q # cur => sub'[q] = sub[q]
    <3> HIDE DEF t
    <3> QED BY <1>b, <1>1, <1>5, ZeroWritten
  <2>2. n >= sub[cur][t].spec \/ n >= want
    BY <1>a, <1>1, <2>1
  <2>3. n >= sub[cur][t].spec \/ Enough(n)
    BY <1>c, <1>1, <2>2, EnoughMore
  <2>4. Enough(Serving(sub[cur]))
    BY <1>a, <1>b DEF StoreInv
  <2>5. ASSUME Serve(sub[cur][t]) <= Serve(sub'[cur][t]) PROVE Enough(Serving(sub'[cur]))
    <3>1. \A u \in Templates : Serve(sub[cur][u]) \in Nat
      BY <1>b, ServeType
    <3>2. \A u \in Templates : Serve(sub[cur][u]) <= Serve(sub'[cur][u])
      BY <1>b, <2>1, <2>5, <3>1
    <3> QED BY <1>b, <1>d, <2>4, <3>2, ServingGrows
  <2>6. ASSUME want <= Serve(sub'[cur][t]) PROVE Enough(Serving(sub'[cur]))
    <3>1. Serve(sub'[cur][t]) \in Nat
      BY <1>b, <1>d, ServeType
    <3>2. Enough(Serve(sub'[cur][t]))
      BY <1>c, <2>6, <3>1, EnoughMore
    <3> QED BY <1>b, <1>d, <3>2, ServingOne
  <2>7. Serve(sub[cur][t]) <= Serve(sub'[cur][t]) \/ want <= Serve(sub'[cur][t])
    <3>1. Serve(sub'[cur][t]) = Lesser(n, sub[cur][t].avail)
      BY <2>1 DEF Serve
    <3>2. Serve(sub[cur][t]) = Lesser(sub[cur][t].spec, sub[cur][t].avail)
      BY DEF Serve
    <3> HIDE DEF t, want
    <3> QED BY <1>b, <1>c, <1>1, <2>2, <3>1, <3>2 DEF Lesser
  <2>8. Enough(Serving(sub'[cur]))
    BY <2>5, <2>6, <2>7
  <2>9. StoreInv'
    <3>1. UNCHANGED <<template, seen, snap>> /\ pc # "idle"
      BY <1>a, <1>f, <1>5
    <3>2. t # snap.tmpl \/ n >= sub[cur][t].spec \/ Enough(n)
      BY <2>3
    <3> HIDE DEF t
    <3> QED BY <1>a, <1>b, <1>1, <1>5, <2>8, <3>1, <3>2, ScaleKeeps
  <2>10. LoopInv'
    BY <1>a, <1>b, <1>f, <1>5, <2>1, LoopNext
  <2> QED BY <2>9, <2>10 DEF ZeroInv
<1> QED BY <1>2, <1>3, <1>4, <1>5

\* A pod becomes available, or surplus ones go: no less serves.
LEMMA ZeroPods ==
    ASSUME ZeroScope, TypeOK, TypeOK', ZeroInv, NEW r \in Regions, NEW t \in Templates,
           PodAvailable(r, t) \/ PodsRemoved(r, t)
    PROVE  ZeroInv'
<1>a. /\ StoreInv /\ LoopInv /\ UNCHANGED <<template, seen, pc, loopVars>>
      /\ UNCHANGED <<snap, info, todo, cur, rest, left>>
  BY DEF ZeroInv, PodAvailable, PodsRemoved, SetAvailable, userVars, statusVars, loopVars
<1>b. /\ sub \in [Regions -> [Templates -> Subset]] /\ sub[r][t].spec \in Nat
      /\ sub[r][t].avail \in Nat /\ todo \subseteq Regions /\ cur \in Regions
      /\ snap.tmpl \in Templates /\ snap.want \in [Regions -> Nat]
      /\ \A q \in Regions, u \in Templates : Serve(sub[q][u]) \in Nat /\ Serve(info[q][u]) \in Nat
  BY ZeroTypes
<1>1. PICK k \in Nat : /\ SetAvailable(r, t, k)
                       /\ \/ k = sub[r][t].avail + 1 /\ sub[r][t].avail < sub[r][t].spec
                          \/ k = sub[r][t].spec /\ sub[r][t].avail > sub[r][t].spec
  BY <1>b DEF PodAvailable, PodsRemoved
<1>2. sub' = [sub EXCEPT ![r][t] = WithAvail(sub[r][t], k)] /\ cache' = sub'
  BY <1>1 DEF SetAvailable, Published, ZeroScope
<1>3. /\ sub'[r][t].live = sub[r][t].live /\ sub'[r][t].spec = sub[r][t].spec
      /\ sub'[r][t].avail = k
      /\ \A q \in Regions, u \in Templates : q # r \/ u # t => sub'[q][u] = sub[q][u]
      /\ \A q \in Regions : q # r => sub'[q] = sub[q]
  BY <1>b, <1>2 DEF WithAvail
<1>4. Serve(sub[r][t]) <= Serve(sub'[r][t])
  BY <1>b, <1>1, <1>3 DEF Serve, Lesser
<1>5. \A q \in Regions, u \in Templates :
         /\ sub'[q][u].live = sub[q][u].live /\ sub'[q][u].spec = sub[q][u].spec
         /\ Serve(sub[q][u]) <= Serve(sub'[q][u])
  BY <1>b, <1>3, <1>4
<1>6. StoreInv'
  <2>1. Ordered' /\ Front <= Front'
    BY <1>a, OrderStep DEF StoreInv
  <2>2. Sound(sub'[r][t], t, Front)
    <3>1. Sound(sub[r][t], t, Front)
      BY <1>a DEF StoreInv
    <3>2. sub[r][t].live
      BY <1>b, <1>1, <3>1 DEF Sound
    <3> QED BY <1>b, <1>1, <1>3, <3>1, <3>2 DEF Sound
  <2>3. Enough(Serving(sub'[r]))
    <3>1. sub[r] \in [Templates -> Subset] /\ sub'[r] \in [Templates -> Subset]
      BY DEF TypeOK, StoreOK
    <3>2. Enough(Serving(sub[r]))
      BY <1>a DEF StoreInv
    <3> QED BY <1>5, <3>1, <3>2, ServingGrows
  <2>4. \A q \in Regions, u \in Templates : sub'[q][u] = sub[q][u] \/ Sound(sub'[q][u], u, Front)
    BY <1>3, <2>2
  <2>5. \A q \in Regions : sub'[q] = sub[q] \/ Enough(Serving(sub'[q]))
    BY <1>3, <2>3
  <2> QED BY <1>a, <1>2, <2>1, <2>4, <2>5, StoreStep
<1>7. ASSUME NEW q \in Regions, AsRead(q) PROVE AsRead(q)'
  <2>1. \A u \in Templates : Serve(info[q][u]) <= Serve(sub'[q][u])
    <3> SUFFICES ASSUME NEW u \in Templates PROVE Serve(info[q][u]) <= Serve(sub'[q][u])
      OBVIOUS
    <3>1. /\ Serve(info[q][u]) <= Serve(sub[q][u]) /\ Serve(sub[q][u]) <= Serve(sub'[q][u])
          /\ Serve(info[q][u]) \in Nat /\ Serve(sub[q][u]) \in Nat
      BY <1>b, <1>5, <1>7 DEF AsRead
    <3>2. Serve(sub'[q][u]) \in Nat
      <4>1. sub'[q] \in [Templates -> Subset]
        BY DEF TypeOK, StoreOK
      <4> QED BY <4>1, ServeType
    <3> QED BY <3>1, <3>2
  <2> QED BY <1>a, <1>5, <1>7, <2>1, AsReadStays
<1>8. \A q \in Regions : snap.want[q] <= Serve(sub[q][snap.tmpl]) =>
                            snap.want[q] <= Serve(sub'[q][snap.tmpl])
  <2> SUFFICES ASSUME NEW q \in Regions, snap.want[q] <= Serve(sub[q][snap.tmpl])
               PROVE  snap.want[q] <= Serve(sub'[q][snap.tmpl])
    OBVIOUS
  <2>1. /\ Serve(sub[q][snap.tmpl]) <= Serve(sub'[q][snap.tmpl])
        /\ Serve(sub[q][snap.tmpl]) \in Nat /\ snap.want[q] \in Nat
    BY <1>b, <1>5
  <2>2. Serve(sub'[q][snap.tmpl]) \in Nat
    <3>1. sub'[q] \in [Templates -> Subset]
      BY DEF TypeOK, StoreOK
    <3> QED BY <1>b, <3>1, ServeType
  <2> QED BY <2>1, <2>2
<1>9. UNCHANGED Budget /\ \A u : Steady(u)' = Steady(u)
  BY <1>a DEF Budget, Steady
<1>10. LoopInv'
  BY <1>a, <1>b, <1>5, <1>7, <1>8, <1>9 DEF LoopInv
<1> QED BY <1>6, <1>10 DEF ZeroInv

\* The deployment that the reconcile reads only ever moves to newer templates.
LEMMA OrderEdits ==
    ASSUME ZeroScope, TypeOK, TypeOK', Ordered, UNCHANGED <<pc, snap>>,
           \/ UNCHANGED <<template, seen>>
           \/ DeploymentSync
           \/ \E t \in Templates : UserApply(t)
    PROVE  Ordered' /\ Front <= Front'
<1>1. CASE UNCHANGED <<template, seen>>
  BY <1>1, OrderStep
<1>2. CASE DeploymentSync \/ \E t \in Templates : UserApply(t)
  <2>1. template <= template' /\ (seen' = seen \/ (seen' = Deployment /\ template' = template))
    <3>1. CASE DeploymentSync
      BY <3>1, FrontType DEF DeploymentSync, userVars, FrontOK
    <3>2. CASE \E t \in Templates : UserApply(t)
      BY <3>2, FrontType, FrontNextType DEF UserApply, statusVars, ZeroScope, FrontOK
    <3> QED BY <1>2, <3>1, <3>2
  <2>2. FrontOK /\ FrontOK'
    BY FrontType, FrontNextType
  <2>3. /\ Seen.template = IF "deployment" \in Lagging THEN seen.template ELSE template
        /\ (Seen.template)' = IF "deployment" \in Lagging THEN seen'.template ELSE template'
        /\ Deployment.template = template
    BY DEF Seen, Deployment
  <2>4. Seen.template <= (Seen.template)' /\ (Seen.template)' <= template'
    BY <2>1, <2>2, <2>3 DEF FrontOK, Ordered
  <2>5. Ordered'
    <3>1. pc' = pc /\ snap' = snap
      OBVIOUS
    <3>2. snap.tmpl \in Nat
      BY RolloutAssumption, ZeroTypes
    <3>3. pc # "idle" => snap.tmpl <= (Seen.template)'
      BY <2>2, <2>4, <3>2 DEF Ordered, FrontOK
    <3> QED BY <2>4, <3>1, <3>3 DEF Ordered
  <2>6. Front <= Front'
    <3>1. Front' = IF pc = "idle" THEN (Seen.template)' ELSE snap.tmpl
      BY DEF Front
    <3> QED BY <2>2, <2>4, <3>1 DEF Front, FrontOK
  <2> QED BY <2>5, <2>6
<1> QED BY <1>1, <1>2

\* The reconcile reads the subsets as they are.
LEMMA ZeroStart ==
    ASSUME ZeroScope, TypeOK, TypeOK', ZeroInv, ReconcileStart
    PROVE  ZeroInv'
<1>a. /\ StoreInv /\ cache = sub
      /\ \A r \in Regions : Enough(Serving(sub[r]))
      /\ \A r \in Regions, t \in Templates : Sound(sub[r][t], t, Front)
  BY DEF ZeroInv, StoreInv
<1>b. /\ pc = "idle" /\ UNCHANGED <<template, seen, sub, cache>> /\ info' = sub /\ todo' = Regions
      /\ snap'.tmpl = Seen.template /\ snap'.want = Seen.desired
      /\ pc' \in {"saturated", "manage", "wait", "confirm"}
  BY <1>a DEF ReconcileStart, TermFlags, userVars, statusVars, storeVars
<1>c. pc' = "saturated" => \A r \in Regions : Saturated(sub[r][Seen.template], Seen.desired[r])
  BY <1>a DEF ReconcileStart, TermFlags
<1>d. /\ Seen.template \in Templates /\ Seen.desired \in [Regions -> Sizes] /\ Seen.template \in Nat
      /\ (Seen.template)' = Seen.template
  BY <1>b, SeenType, RolloutAssumption DEF TypeOK, Seen, Deployment
<1>1. Front = Seen.template /\ Front' = Front
  BY <1>b DEF Front
<1>2. Ordered'
  <2>1. Seen.template <= template
    BY <1>a DEF StoreInv, Ordered
  <2> QED BY <1>b, <1>d, <2>1 DEF Ordered
<1>3. StoreInv'
  BY <1>a, <1>b, <1>d, <1>1, <1>2, StoreStays
<1>4. ASSUME NEW r \in Regions PROVE AsRead(r)'
  <2>1. /\ info'[r] = sub[r] /\ sub'[r] = sub[r] /\ sub[r] \in [Templates -> Subset]
    BY <1>b DEF TypeOK, StoreOK
  <2>2. \A t \in Templates : Serve(sub[r][t]) <= Serve(sub[r][t])
    <3>1. \A t \in Templates : Serve(sub[r][t]) \in Nat
      BY <2>1, ServeType
    <3> QED BY <3>1
  <2>3. sub[r][Seen.template].avail > sub[r][Seen.template].spec => Enough(sub[r][Seen.template].spec)
    BY <1>a, <1>d, <1>1 DEF Sound
  <2> QED BY <1>a, <1>b, <2>1, <2>2, <2>3 DEF AsRead
<1>5. ASSUME pc' = "saturated", NEW r \in Regions
      PROVE  snap'.want[r] <= Serve(sub'[r][snap'.tmpl])
  <2> DEFINE new == sub[r][Seen.template]
  <2>1. new.spec = Seen.desired[r] /\ (Seen.desired[r] < new.spec \/ new.avail >= new.spec)
    BY <1>c, <1>5 DEF Saturated, ReplicasDesired, AvailableDesired
  <2>2. new.spec \in Nat /\ new.avail \in Nat
    BY <1>d, ZeroTypes
  <2>3. Seen.desired[r] <= Serve(new)
    BY <2>1, <2>2 DEF Serve, Lesser
  <2> QED BY <1>b, <2>3
<1>6. LoopInv'
  BY <1>b, <1>4, <1>5 DEF LoopInv
<1> QED BY <1>3, <1>6 DEF ZeroInv

\* NewSubset finds the new subset, and regionSyncOnce starts.
LEMMA ZeroRegion ==
    ASSUME ZeroScope, TypeOK, TypeOK', ZeroInv, NEW r \in Regions, RecreateRegion(r)
    PROVE  ZeroInv'
<1> DEFINE t   == snap.tmpl
           rev == MaxRevision(info[r], Olds(info[r], t)) + 1
<1>a. /\ StoreInv /\ pc = "manage" /\ r \in todo /\ UNCHANGED <<template, seen>>
      /\ \A q \in todo : AsRead(q)
  BY DEF ZeroInv, LoopInv, RecreateRegion, userVars, statusVars
<1>b. /\ sub \in [Regions -> [Templates -> Subset]] /\ info \in [Regions -> [Templates -> Subset]]
      /\ t \in Templates /\ todo \subseteq Regions
      /\ sub[r] \in [Templates -> Subset] /\ info[r] \in [Templates -> Subset]
      /\ snap.want[r] \in Nat
  BY ZeroTypes
<1>1. CASE NoWrite /\ Return
  <2>1. pc' = "idle" /\ UNCHANGED <<sub, cache>>
    BY <1>1 DEF Return, NoWrite, storeVars
  <2>2. StoreInv'
    BY <1>a, <2>1, OrderStep, StoreStays DEF StoreInv
  <2> QED BY <2>1, <2>2, LoopEnds DEF ZeroInv
<1>2. CASE /\ RaiseRevision(r, rev)
           /\ pc' = "cleanup" /\ cur' = r /\ rest' = Olds(info[r], t) /\ todo' = todo \ {r}
           /\ left' = MaxCleanupCount(info[r], t, snap.want[r]) /\ UNCHANGED snap
  <2>1. /\ cache' = sub'
        /\ \A q \in Regions, u \in Templates :
              /\ sub'[q][u].live = sub[q][u].live /\ sub'[q][u].spec = sub[q][u].spec
              /\ sub'[q][u].avail = sub[q][u].avail
              /\ info'[q][u].live = info[q][u].live /\ info'[q][u].spec = info[q][u].spec
              /\ info'[q][u].avail = info[q][u].avail
        /\ \A q \in Regions : q # r => sub'[q] = sub[q] /\ info'[q] = info[q]
    <3>1. CASE NoWrite /\ UNCHANGED info
      BY <1>a, <3>1 DEF NoWrite, storeVars, StoreInv
    <3>2. CASE /\ sub' = [sub EXCEPT ![r][t] = WithRev(sub[r][t], rev)] /\ Published
               /\ info' = [info EXCEPT ![r][t] = WithRev(info[r][t], rev)]
      <4>1. cache' = sub'
        BY <3>2 DEF Published, ZeroScope
      <4> HIDE DEF rev
      <4> QED BY <1>b, <3>2, <4>1 DEF WithRev
    <3> QED BY <1>2, <3>1, <3>2 DEF RaiseRevision
  <2>2. \A q \in Regions, u \in Templates :
           Serve(sub'[q][u]) = Serve(sub[q][u]) /\ Serve(info'[q][u]) = Serve(info[q][u])
    BY <2>1 DEF Serve
  <2>3. sub'[r] \in [Templates -> Subset] /\ info'[r] \in [Templates -> Subset]
    BY DEF TypeOK, StoreOK, LoopOK
  <2>4. Serving(sub'[r]) = Serving(sub[r]) /\ Serving(info'[r]) = Serving(info[r])
    <3>1. ServeOf(sub'[r]) = ServeOf(sub[r]) /\ ServeOf(info'[r]) = ServeOf(info[r])
      BY <2>2 DEF ServeOf
    <3> QED BY <3>1 DEF Serving
  <2>5. AsRead(r)'
    <3>1. \A u \in Templates : /\ sub'[r][u].live => info'[r][u].spec = sub'[r][u].spec
                               /\ Serve(info'[r][u]) <= Serve(sub'[r][u])
      BY <1>a, <2>1, <2>2 DEF AsRead
    <3>2. info'[r][t].avail = info[r][t].avail /\ info'[r][t].spec = info[r][t].spec
      BY <1>b, <2>1
    <3>3. info'[r][t].avail > info'[r][t].spec => Enough(info'[r][t].spec)
      BY <1>a, <3>2 DEF AsRead
    <3>4. Enough(Serving(info'[r]))
      BY <1>a, <2>4 DEF AsRead
    <3> QED BY <1>2, <3>1, <3>3, <3>4 DEF AsRead
  <2>6. \A q \in todo' : AsRead(q)'
    BY <1>a, <1>b, <1>2, <2>1, AsReadSame
  <2>7. StoreInv'
    <3>1. Ordered' /\ Front <= Front'
      BY <1>a, <1>2, OrderStep DEF StoreInv
    <3>2. \A q \in Regions, u \in Templates : Sound(sub'[q][u], u, Front)
      BY <1>a, <2>1 DEF StoreInv, Sound
    <3>3. \A q \in Regions : sub'[q] = sub[q] \/ Enough(Serving(sub'[q]))
      BY <1>a, <2>1, <2>4 DEF StoreInv
    <3> QED BY <1>a, <2>1, <3>1, <3>2, <3>3, StoreStep
  <2>8. Olds(info'[r], t) = Olds(info[r], t)
    BY <2>1 DEF Olds
  <2>9. left' = Budget'
    <3>1. SpecReplicas(info'[r], Olds(info[r], t)) = SpecReplicas(info[r], Olds(info[r], t))
      <4>1. Olds(info[r], t) \subseteq Templates
        BY DEF Olds
      <4>2. SizeOf(info'[r]) = SizeOf(info[r])
        BY <2>1 DEF SizeOf
      <4> QED BY <1>b, <2>3, <4>1, <4>2, PodsCounted
    <3>2. info'[r][t].avail = info[r][t].avail
      BY <1>b, <2>1
    <3> QED BY <1>2, <2>8, <3>1, <3>2 DEF Budget, MaxCleanupCount
  <2>10. rest' = Olds(info'[cur'], snap'.tmpl) /\ cur' \notin todo' /\ AsRead(cur)'
    <3>1. cur' = r /\ snap' = snap /\ todo' = todo \ {r} /\ rest' = Olds(info[r], t)
      BY <1>2
    <3>2. AsRead(cur)'
      BY <2>5, <3>1 DEF AsRead
    <3> QED BY <2>8, <3>1, <3>2
  <2>11. LoopInv'
    BY <1>2, <2>6, <2>9, <2>10 DEF LoopInv
  <2> QED BY <2>7, <2>11 DEF ZeroInv
<1> QED BY <1>1, <1>2 DEF RecreateRegion, RaiseRevisionFails

\* cleanAfterSaturated empties and deletes old subsets of regions whose new one
\* serves the size asked for.
LEMMA ZeroSweep ==
    ASSUME ZeroScope, TypeOK, TypeOK', ZeroInv,
           \E o \in Templates : SweepOld(o) \/ DeleteSubset(o)
    PROVE  ZeroInv'
<1>a. StoreInv /\ LoopInv /\ UNCHANGED <<template, seen>> /\ pc \in {"sweep", "delete"}
  BY DEF ZeroInv, LoopInv, SweepOld, DeleteSubset, userVars, statusVars
<1>b. snap.tmpl \notin rest /\ \A r \in Regions : snap.want[r] <= Serve(sub[r][snap.tmpl])
  BY <1>a DEF LoopInv
<1>c. /\ snap.tmpl \in Templates /\ cur \in Regions
      /\ sub \in [Regions -> [Templates -> Subset]]
      /\ \A r \in Regions, t \in Templates : sub[r][t].avail \in Nat
  BY ZeroTypes
\* A region whose new subset is left alone serves enough.
<1>d. ASSUME NEW r \in Regions, sub'[r][snap.tmpl] = sub[r][snap.tmpl]
      PROVE  Enough(Serving(sub'[r]))
  <2>1. sub'[r] \in [Templates -> Subset]
    BY DEF TypeOK, StoreOK
  <2>2. snap.want[r] <= Serve(sub'[r][snap.tmpl]) /\ Serve(sub'[r][snap.tmpl]) \in Nat
    BY <1>b, <1>c, <1>d, <2>1, ServeType
  <2>3. Enough(snap.want[r]) /\ snap.want[r] \in Nat
    BY <1>a, EnoughSize DEF StoreInv, Ordered
  <2>4. Enough(Serve(sub'[r][snap.tmpl]))
    BY <2>2, <2>3, EnoughMore
  <2> QED BY <1>c, <2>1, <2>4, ServingOne
<1>1. ASSUME NEW o \in Templates, SweepOld(o) PROVE ZeroInv'
  <2>1. CASE NoWrite /\ Return
    <3>1. pc' = "idle" /\ UNCHANGED <<sub, cache>>
      BY <2>1 DEF Return, NoWrite, storeVars
    <3>2. StoreInv'
      BY <1>a, <3>1, OrderStep, StoreStays DEF StoreInv
    <3> QED BY <3>1, <3>2, LoopEnds DEF ZeroInv
  <2>2. CASE SetReplicas(cur, o, 0) /\ rest' = rest \ {o} /\ o \in rest /\ UNCHANGED <<pc, snap>>
    <3>1. PICK n \in Nat : n = 0
      OBVIOUS
    <3>2. SetReplicas(cur, o, n) /\ o # snap.tmpl
      BY <1>b, <2>2, <3>1
    <3>3. \A q \in Regions, u \in Templates : q # cur \/ u # o => sub'[q][u] = sub[q][u]
      BY <1>c, <3>2, ZeroWritten
    <3>4. \A q \in Regions : sub'[q][snap.tmpl] = sub[q][snap.tmpl]
      BY <1>c, <3>2, <3>3
    <3>5. StoreInv'
      BY <1>a, <1>c, <1>d, <2>2, <3>2, <3>4, ScaleKeeps
    <3>6. LoopInv'
      BY <1>a, <1>b, <2>2, <3>4 DEF LoopInv
    <3> QED BY <3>5, <3>6 DEF ZeroInv
  <2> QED BY <1>1, <2>1, <2>2 DEF SweepOld
<1>2. ASSUME NEW o \in Templates, DeleteSubset(o) PROVE ZeroInv'
  <2>1. /\ cache' = sub' /\ o \in rest /\ rest' = rest \ {o}
        /\ pc' = "delete" /\ UNCHANGED snap
    BY <1>2 DEF DeleteSubset, Published, ZeroScope
  <2>2. sub' = [sub EXCEPT ![cur][o] = Absent]
    BY <1>2 DEF DeleteSubset
  <2>3. /\ \A q \in Regions, u \in Templates : sub'[q][u] = sub[q][u] \/ sub'[q][u] = Absent
        /\ \A q \in Regions : sub'[q][snap.tmpl] = sub[q][snap.tmpl]
    BY <1>b, <1>c, <2>1, <2>2
  <2>4. \A u \in Templates : Sound(Absent, u, Front)
    BY DEF Sound, Absent
  <2>5. StoreInv'
    <3>1. Ordered' /\ Front <= Front'
      BY <1>a, <2>1, OrderStep DEF StoreInv
    <3>2. \A q \in Regions, u \in Templates : sub'[q][u] = sub[q][u] \/ Sound(sub'[q][u], u, Front)
      BY <2>3, <2>4
    <3>3. \A q \in Regions : Enough(Serving(sub'[q]))
      BY <1>d, <2>3
    <3> QED BY <1>a, <2>1, <3>1, <3>2, <3>3, StoreStep
  <2>6. LoopInv'
    BY <1>a, <1>b, <2>1, <2>3 DEF LoopInv
  <2> QED BY <2>5, <2>6 DEF ZeroInv
<1> QED BY <1>1, <1>2

\* A new subset starts with no pods.
LEMMA ZeroNew ==
    ASSUME ZeroScope, TypeOK, TypeOK', ZeroInv, NEW r \in Regions, NewSubset(r)
    PROVE  ZeroInv'
<1>a. /\ StoreInv /\ UNCHANGED <<template, seen>> /\ pc = "manage" /\ pc' = "idle"
  BY DEF ZeroInv, NewSubset, userVars, statusVars, Return
<1>b. /\ snap.tmpl \in Templates /\ sub \in [Regions -> [Templates -> Subset]]
      /\ sub[r] \in [Templates -> Subset]
      /\ \A u \in Templates : Serve(sub[r][u]) \in Nat
  BY ZeroTypes
<1>c. Ordered' /\ Front <= Front' /\ Front = snap.tmpl
  BY <1>a, OrderStep DEF StoreInv, Front
<1>1. CASE NoWrite
  <2>1. UNCHANGED <<sub, cache>>
    BY <1>1 DEF NoWrite, storeVars
  <2> QED BY <1>a, <1>c, <2>1, StoreStays, LoopEnds DEF ZeroInv
<1>2. CASE ~NoWrite
  <2>1. PICK new : /\ sub' = [sub EXCEPT ![r][snap.tmpl] = new] /\ Published
                   /\ new.live /\ new.avail = 0 /\ ~sub[r][snap.tmpl].live
    BY <1>2 DEF NewSubset
  <2>2. cache' = sub'
    BY <2>1 DEF Published, ZeroScope
  <2>3. /\ sub'[r][snap.tmpl] = new
        /\ \A q \in Regions, u \in Templates : q # r \/ u # snap.tmpl => sub'[q][u] = sub[q][u]
        /\ \A q \in Regions : q # r => sub'[q] = sub[q]
    BY <1>b, <2>1
  <2>4. sub'[r] \in [Templates -> Subset] /\ new.spec \in Nat
    <3>1. sub'[r] \in [Templates -> Subset]
      BY DEF TypeOK, StoreOK
    <3>2. sub'[r][snap.tmpl].spec \in Nat
      BY <1>b, <3>1, ServeType
    <3> QED BY <2>3, <3>1, <3>2
  <2>5. Sound(new, snap.tmpl, Front)
    <3>1. snap.tmpl \in Nat
      BY <1>b, RolloutAssumption
    <3>2. snap.tmpl <= Front
      BY <1>c, <3>1
    <3> QED BY <2>1, <2>4, <3>2 DEF Sound
  <2>6. Serve(sub[r][snap.tmpl]) = 0
    <3>1. sub[r][snap.tmpl].spec = 0 /\ sub[r][snap.tmpl].avail = 0
      BY <1>a, <1>b, <2>1 DEF StoreInv, Sound
    <3> QED BY <3>1 DEF Serve, Lesser
  <2>7. \A u \in Templates : Serve(sub[r][u]) <= Serve(sub'[r][u])
    <3>1. \A u \in Templates : Serve(sub'[r][u]) \in Nat
      BY <2>4, ServeType
    <3>2. \A u \in Templates : Serve(sub[r][u]) = 0 \/ Serve(sub[r][u]) = Serve(sub'[r][u])
      BY <2>3, <2>6
    <3> QED BY <1>b, <3>1, <3>2
  <2>8. Enough(Serving(sub'[r]))
    BY <1>a, <1>b, <2>4, <2>7, ServingGrows DEF StoreInv
  <2>9. \A q \in Regions, u \in Templates : sub'[q][u] = sub[q][u] \/ Sound(sub'[q][u], u, Front)
    BY <2>3, <2>5
  <2>10. \A q \in Regions : sub'[q] = sub[q] \/ Enough(Serving(sub'[q]))
    BY <2>3, <2>8
  <2>11. StoreInv'
    BY <1>a, <1>c, <2>2, <2>9, <2>10, StoreStep
  <2> QED BY <1>a, <2>11, LoopEnds DEF ZeroInv
<1> QED BY <1>1, <1>2

\* Every step keeps the invariant, unless a pod fails.
LEMMA ZeroStep ==
    ASSUME ZeroScope, TypeOK, TypeOK', ZeroInv, [Next]_vars, [PodsHold]_vars
    PROVE  ZeroInv'
<1>a. StoreInv /\ LoopInv /\ Ordered /\ cache = sub
  BY DEF ZeroInv, StoreInv
<1>b. UNCHANGED storeVars => UNCHANGED <<sub, cache>>
  BY DEF storeVars
<1>c. UNCHANGED loopVars => UNCHANGED <<snap, info, todo, cur, rest, left>>
  BY DEF loopVars
<1>d. Return => pc' = "idle"
  BY DEF Return
<1>e. UpdateStrategy = "ReCreate" /\ pc \notin {"rollOld", "deleteAll"}
  BY <1>a DEF ZeroScope, LoopInv
<1>f. /\ todo \subseteq Regions /\ cur \in Regions /\ snap.tmpl \in Templates
      /\ snap.want[cur] \in Nat /\ info[cur] \in [Templates -> Subset] /\ left \in Int
  BY ZeroTypes
<1>g. ASSUME UNCHANGED <<sub, cache, template, seen>>, pc' = "idle" \/ (pc # "idle" /\ UNCHANGED snap)
      PROVE  StoreInv'
  BY <1>a, <1>g, OrderStep, StoreStays
<1>1. CASE SyncRevisions \/ SyncRevisionsFails \/ Timeout \/ DeploymentSync \/ UserConfirm
           \/ UNCHANGED vars \/ (\E t \in Templates : UserApply(t))
           \/ (\E r \in Regions, n \in Sizes : UserScale(r, n))
  <2>1. UNCHANGED <<sub, cache, pc, loopVars>>
    BY <1>1, <1>b DEF SyncRevisions, SyncRevisionsFails, Timeout, DeploymentSync, UserConfirm,
                      UserApply, UserScale, vars, loopVars
  <2>2. \/ UNCHANGED <<template, seen>>
        \/ DeploymentSync
        \/ \E t \in Templates : UserApply(t)
    BY <1>1 DEF SyncRevisions, SyncRevisionsFails, Timeout, UserConfirm, UserScale, vars,
                userVars, statusVars
  <2>3. UNCHANGED <<snap, info, todo, cur, rest, left>>
    BY <1>c, <2>1
  <2>4. StoreInv'
    BY <1>a, <2>1, <2>2, <2>3, OrderEdits, StoreStays
  <2>5. UNCHANGED Budget /\ (\A u : Steady(u)' = Steady(u)) /\ \A r : AsRead(r)' = AsRead(r)
    BY <2>1, <2>3 DEF Budget, Steady, AsRead
  <2>6. LoopInv'
    BY <1>a, <2>1, <2>3, <2>5 DEF LoopInv
  <2> QED BY <2>4, <2>6 DEF ZeroInv
<1>2. CASE RefreshStatus \/ WaitStatus \/ StatusConflict \/ CleanDone \/ Abort
  <2>1. UNCHANGED <<sub, cache, template, seen>> /\ pc' = "idle"
    BY <1>2, <1>b, <1>d DEF RefreshStatus, WaitStatus, StatusConflict, CleanDone, Abort,
                            userVars, statusVars
  <2> QED BY <1>g, <2>1, LoopEnds DEF ZeroInv
<1>3. CASE RollOlds \/ RollOldDone \/ DeleteAllDone
           \/ (\E r \in Regions : RollingRegion(r) \/ DeleteAllFirstRegion(r))
           \/ (\E o \in Templates : RollOld(o))
  BY <1>3, <1>e DEF RollOlds, RollOldDone, DeleteAllDone, RollingRegion, DeleteAllFirstRegion, RollOld
<1>4. CASE ReconcileStart
  BY <1>4, ZeroStart
<1>5. CASE CheckUpgradeConfirm
  <2>1. /\ UNCHANGED <<sub, cache, template, seen>> /\ pc = "confirm"
        /\ pc' = "idle" \/ (pc' \in {"refresh", "manage"} /\ UNCHANGED loopVars)
    BY <1>5, <1>b, <1>d DEF CheckUpgradeConfirm, userVars, statusVars
  <2>2. StoreInv'
    BY <1>c, <1>g, <2>1
  <2>3. LoopInv'
    BY <1>a, <1>c, <2>1, LoopEnds, LoopNext
  <2> QED BY <2>2, <2>3 DEF ZeroInv
<1>6. CASE SaturatedStatus \/ CleanOldDone
  <2>1. /\ UNCHANGED <<sub, cache, template, seen, snap>> /\ pc \in {"saturated", "delete"} /\ pc' = "clean"
    BY <1>6, <1>b, <1>c DEF SaturatedStatus, CleanOldDone, userVars, statusVars
  <2>2. LoopInv'
    BY <1>a, <2>1 DEF LoopInv
  <2> QED BY <1>g, <2>1, <2>2 DEF ZeroInv
<1>7. ASSUME CleanOldSubsets \/ \E r \in Regions : CleanRegion(r) PROVE ZeroInv'
  <2>1. /\ UNCHANGED <<sub, cache, template, seen, snap>> /\ pc \in {"clean", "sweep"}
        /\ pc' \in {"sweep", "delete"}
        /\ snap.tmpl \notin rest'
    BY <1>7, <1>b DEF CleanRegion, CleanOldSubsets, userVars, statusVars, Sized, Olds
  <2>2. LoopInv'
    BY <1>a, <2>1 DEF LoopInv
  <2> QED BY <1>g, <2>1, <2>2 DEF ZeroInv
<1>8. CASE CleanupDone
  <2>1. /\ UNCHANGED <<sub, cache, template, seen, snap, info, todo, cur, left>> /\ pc = "cleanup"
        /\ rest' = Olds(info[cur], snap.tmpl) /\ (rest = {} \/ left <= 0)
        /\ pc' = (IF left > 0 THEN "shrink" ELSE "grow")
    BY <1>8, <1>b DEF CleanupDone, userVars, statusVars
  <2>2. CASE left > 0
    <3>1. /\ cur \notin todo /\ left = Budget /\ AsRead(cur) /\ (\A r \in todo : AsRead(r))
          /\ \A o \in Olds(info[cur], snap.tmpl) : Steady(o)
      BY <1>a, <1>f, <2>1, <2>2 DEF LoopInv
    <3>2. AsRead(cur)' /\ \A r \in todo' : AsRead(r)'
      BY <1>f, <2>1, <3>1, AsReadSame
    <3>3. /\ UNCHANGED Budget /\ \A u : Steady(u)' = Steady(u)
      BY <2>1 DEF Budget, Steady
    <3>4. left' \in Nat /\ left' <= Budget'
      BY <1>f, <2>1, <2>2, <3>1, <3>3
    <3>5. \A o \in Olds(info'[cur'], snap'.tmpl) : Steady(o)'
      BY <2>1, <3>1, <3>3
    <3>6. pc' = "shrink" /\ cur' \notin todo' /\ rest' \subseteq Olds(info'[cur'], snap'.tmpl)
      BY <2>1, <2>2, <3>1
    <3>7. LoopInv'
      BY <3>2, <3>4, <3>5, <3>6 DEF LoopInv
    <3> QED BY <1>g, <2>1, <3>7 DEF ZeroInv
  <2>3. CASE ~(left > 0)
    <3>1. LoopInv'
      BY <1>a, <2>1, <2>3, LoopGrows
    <3> QED BY <1>g, <2>1, <3>1 DEF ZeroInv
  <2> QED BY <2>2, <2>3
<1>9. CASE ShrinkDone
  <2>1. /\ UNCHANGED <<sub, cache, template, seen, snap, info, todo, cur>> /\ pc = "shrink"
        /\ pc' = "grow"
    BY <1>9, <1>b, <1>c DEF ShrinkDone, userVars, statusVars
  <2>2. LoopInv'
    BY <1>a, <2>1, LoopGrows
  <2> QED BY <1>g, <2>1, <2>2 DEF ZeroInv
<1>10. ASSUME NEW r \in Regions, NEW t \in Templates,
              PodAvailable(r, t) \/ PodsRemoved(r, t) \/ PodFails(r, t) \/ CacheSync(r, t)
       PROVE  ZeroInv'
  <2>1. CASE PodAvailable(r, t) \/ PodsRemoved(r, t)
    BY <2>1, ZeroPods
  <2>2. CASE PodFails(r, t)
    BY <1>1, <2>2 DEF PodsHold
  <2>3. CASE CacheSync(r, t)
    BY <1>a, <2>3 DEF CacheSync
  <2> QED BY <1>10, <2>1, <2>2, <2>3
<1>11. CASE \E o \in Templates : SweepOld(o) \/ DeleteSubset(o)
  BY <1>11, ZeroSweep
<1> QED BY <1>1, <1>2, <1>3, <1>4, <1>5, <1>6, <1>7, <1>8, <1>9, <1>10, <1>11,
           ZeroNew, ZeroRegion, ZeroCleanup, ZeroShrink, ZeroGrow DEF Next, Controller

LEMMA ZeroInit == ZeroScope /\ Init => ZeroInv
<1> SUFFICES ASSUME ZeroScope, Init PROVE ZeroInv
  OBVIOUS
<1>1. TypeOK
  BY TypeInit
<1>2. /\ cache = sub /\ pc = "idle" /\ template = 1 /\ Seen.template = 1
      /\ desired \in [Regions -> Sizes] /\ 1 \in Templates
  BY RolloutAssumption DEF Init, Seen, Deployment
<1>3. /\ \A r \in Regions : sub[r][1] = Running(desired[r])
      /\ \A r \in Regions, t \in Templates : t # 1 => sub[r][t] = Absent
  BY <1>2 DEF Init, ZeroScope
<1>a. \A n : Running(n).live /\ Running(n).spec = n /\ Running(n).avail = n
  BY DEF Running
<1>4. ASSUME NEW r \in Regions, NEW t \in Templates PROVE Sound(sub[r][t], t, Front)
  <2>1. CASE t = 1
    <3>1. desired[r] \in Nat
      BY <1>2, RolloutAssumption
    <3>2. sub[r][t].live /\ sub[r][t].spec = desired[r] /\ sub[r][t].avail = desired[r]
      BY <1>3, <1>a, <2>1
    <3>3. Front = 1
      BY <1>2 DEF Front
    <3> QED BY <2>1, <3>1, <3>2, <3>3 DEF Sound
  <2>2. CASE t # 1
    BY <1>3, <2>2 DEF Sound, Absent
  <2> QED BY <2>1, <2>2
<1>5. ASSUME NEW r \in Regions PROVE Enough(Serving(sub[r]))
  <2>1. Enough(desired[r]) /\ desired[r] \in Nat
    BY <1>2, EnoughSize
  <2>2. Serve(sub[r][1]) = desired[r]
    <3>1. sub[r][1].spec = desired[r] /\ sub[r][1].avail = desired[r]
      BY <1>3, <1>a
    <3> QED BY <2>1, <3>1 DEF Serve, Lesser
  <2>3. sub[r] \in [Templates -> Subset]
    BY <1>1 DEF TypeOK, StoreOK
  <2> QED BY <1>2, <2>1, <2>2, <2>3, ServingOne
<1>6. StoreInv
  BY <1>2, <1>4, <1>5 DEF StoreInv, Ordered
<1>7. LoopInv
  BY <1>2 DEF LoopInv
<1> QED BY <1>6, <1>7 DEF ZeroInv

\* regionSyncOnce and cleanAfterSaturated: in any upgrade of a running deployment
\* with strategy ReCreate by newer templates, whose cache of the subsets does not
\* lag, whatever sizes the user asks for, whatever lags behind in the deployment
\* read and wherever reconciles are cut off, a region never has fewer serving
\* pods than the smallest size asked for, as long as no pod fails.
THEOREM ServedThroughout == ASSUME ZeroScope PROVE Spec /\ [][PodsHold]_vars => []ZeroDowntime
<1>1. TypeOK /\ ZeroInv => ZeroDowntime
  <2> SUFFICES ASSUME TypeOK, ZeroInv, NEW r \in Regions
               PROVE  \E n \in Sizes : ServingPods(r) >= Floor(n)
    BY DEF ZeroDowntime
  <2>1. PICK n \in Sizes : n <= Serving(sub[r])
    BY DEF ZeroInv, StoreInv, Enough
  <2>2. Floor(n) = n
    BY DEF Floor, ZeroScope
  <2>3. ServingPods(r) = Serving(sub[r]) /\ Serving(sub[r]) \in Nat /\ n \in Nat
    <3>1. sub[r] \in [Templates -> Subset]
      BY DEF TypeOK, StoreOK
    <3> QED BY <3>1, ServingCounted, ServeType, RolloutAssumption
  <2>4. ServingPods(r) >= Floor(n)
    BY <2>1, <2>2, <2>3
  <2> QED BY <2>4
<1>2. TypeOK /\ TypeOK' /\ ZeroInv /\ [Next]_vars /\ [PodsHold]_vars => ZeroInv'
  BY ZeroStep
<1>3. Init => ZeroInv
  BY ZeroInit
<1> QED BY <1>1, <1>2, <1>3, TypeInit, TypeStep, PTL DEF Spec

-----------------------------------------------------------------------------
(* RollingUpdate: counting the serving pods of a region                    *)

\* At least the floor of the smallest size the user ever asks for.
Low(k) == \E n \in Sizes : Floor(n) <= k

LEMMA LowMore ==
    ASSUME UpdateStrategy = "RollingUpdate", NEW k \in Int, NEW j \in Int, Low(k), k <= j
    PROVE  Low(j)
<1>1. PICK n \in Sizes : Floor(n) <= k
  BY DEF Low
<1>2. n \in Nat /\ Floor(n) \in Int
  BY RolloutAssumption DEF Floor
<1>3. Floor(n) <= j
  BY <1>1, <1>2
<1> QED BY <1>3 DEF Low

\* ResolveFenceposts leaves no less than the floor, and no more than the size.
LEMMA LowMinimum ==
    ASSUME UpdateStrategy = "RollingUpdate", NEW n \in Sizes
    PROVE  MinAvailable(n) \in Int /\ Low(MinAvailable(n)) /\ Low(n) /\ n \in Nat
<1>1. n \in Nat /\ MaxSurge \in Nat /\ MaxUnavailable \in Nat
  BY RolloutAssumption
<1>2. Floor(n) = n - (IF MaxSurge + MaxUnavailable = 0 THEN 1 ELSE MaxUnavailable)
  BY DEF Floor
<1>3. MinAvailable(n) \in Int /\ Floor(n) <= MinAvailable(n) /\ Floor(n) <= n
  BY <1>1, <1>2 DEF MinAvailable
<1> QED BY <1>1, <1>3 DEF Low

\* A region whose subsets serve no less serves no less.
LEMMA LowGrows ==
    ASSUME UpdateStrategy = "RollingUpdate",
           NEW ss \in [Templates -> Subset], NEW zz \in [Templates -> Subset],
           \A t \in Templates : Serve(ss[t]) <= Serve(zz[t]), Low(Serving(ss))
    PROVE  Low(Serving(zz))
<1>1. Serving(ss) <= Serving(zz) /\ Serving(ss) \in Nat /\ Serving(zz) \in Nat
  BY ServingGrows, ServeType
<1> QED BY <1>1, LowMore

\* It serves enough when one subset does.
LEMMA LowOne ==
    ASSUME UpdateStrategy = "RollingUpdate", NEW ss \in [Templates -> Subset],
           NEW t \in Templates, NEW n \in Sizes, n <= Serve(ss[t])
    PROVE  Low(Serving(ss))
<1>1. /\ Serve(ss[t]) <= Serving(ss) /\ Serve(ss[t]) \in Nat /\ Serving(ss) \in Nat
      /\ n \in Nat /\ Low(n)
  BY ServingOne, ServeType, LowMinimum
<1>2. n <= Serving(ss)
  BY <1>1
<1> QED BY <1>1, <1>2, LowMore

\* reconcileOldSubsets may take what regionSyncOnce may, and MaxUnavailable more.
LEMMA RoomCounted ==
    ASSUME NEW ss \in [Templates -> Subset], NEW t \in Templates, NEW want \in Nat
    PROVE  /\ MaxScaleDown(ss, t, want) = MaxCleanupCount(ss, t, want) + want - MinAvailable(want)
           /\ MaxScaleDown(ss, t, want)
                = SpecReplicas(ss, Olds(ss, t)) + ss[t].avail - MinAvailable(want)
<1>1. /\ SpecReplicas(ss, Olds(ss, t)) \in Nat /\ MinAvailable(want) \in Int
      /\ ss[t].spec \in Nat /\ ss[t].avail \in Nat
  BY CountsType, ServeType
<1> QED BY <1>1 DEF MaxScaleDown, MaxCleanupCount

\* cleanupUnhealthyReplicas takes c pods of an old subset.
LEMMA RoomTakes ==
    ASSUME NEW ss \in [Templates -> Subset], NEW zz \in [Templates -> Subset],
           NEW t \in Templates, NEW o \in Olds(ss, t), NEW c \in Nat, NEW want \in Nat,
           \A u \in Templates \ {o} : zz[u] = ss[u],
           \/ zz[o].live /\ zz[o].spec = ss[o].spec - c
           \/ ~zz[o].live /\ ss[o].spec = c
    PROVE  MaxScaleDown(zz, t, want) = MaxScaleDown(ss, t, want) - c
<1>1. MaxCleanupCount(zz, t, want) = MaxCleanupCount(ss, t, want) - c
  BY CleanupTakes
<1>2. /\ MaxCleanupCount(ss, t, want) \in Int /\ MaxCleanupCount(zz, t, want) \in Int
      /\ MinAvailable(want) \in Int
  BY CountsType
<1>3. /\ MaxScaleDown(ss, t, want) = MaxCleanupCount(ss, t, want) + want - MinAvailable(want)
      /\ MaxScaleDown(zz, t, want) = MaxCleanupCount(zz, t, want) + want - MinAvailable(want)
  BY RoomCounted
<1> QED BY <1>1, <1>2, <1>3

\* The replicas asked for all serve when each subset's do.
LEMMA SizesServe ==
    ASSUME NEW ss \in [Templates -> Subset], NEW zz \in [Templates -> Subset], NEW t \in Templates,
           \A u \in Olds(ss, t) : ss[u].spec <= Serve(zz[u]), ss[t].spec <= Serve(zz[t])
    PROVE  SpecReplicas(ss, Olds(ss, t)) + ss[t].spec <= Serving(zz)
<1> DEFINE olds == Olds(ss, t)
           us   == olds \cup {t}
           f    == SizeOf(ss)
           g    == ServeOf(zz)
<1>1. /\ olds \in SUBSET Templates /\ us \in SUBSET Templates /\ t \in us
      /\ us \ {t} = olds /\ Templates \in SUBSET Templates
  BY DEF Olds
<1>2. /\ f \in [Templates -> Nat] /\ g \in [Templates -> Nat]
      /\ \A u \in Templates : f[u] = ss[u].spec /\ g[u] = Serve(zz[u])
  BY ServeType
<1>3. SpecReplicas(ss, olds) = Count(f, olds) /\ Serving(zz) = Count(g, Templates)
  BY <1>1, PodsCounted DEF Count, Serving
<1>4. \A u \in us : f[u] <= g[u]
  BY <1>1, <1>2
<1>5. f[t] = ss[t].spec
  BY <1>2
<1> HIDE DEF f, g, us
<1>6. Count(f, us) <= Count(g, Templates)
  BY <1>1, <1>2, <1>4, CountGrows
<1>7. Count(f, us) = Count(f, olds) + f[t]
  BY <1>1, <1>2, CountSplit
<1> QED BY <1>3, <1>5, <1>6, <1>7

\* Taking c serving pods of one subset takes c of the region.
LEMMA ServingTakes ==
    ASSUME NEW ss \in [Templates -> Subset], NEW zz \in [Templates -> Subset],
           NEW o \in Templates, NEW c \in Nat, Serve(zz[o]) + c = Serve(ss[o]),
           \A u \in Templates \ {o} : zz[u] = ss[u]
    PROVE  Serving(zz) + c = Serving(ss)
<1> DEFINE f == ServeOf(ss)
           g == ServeOf(zz)
           us == Templates \ {o}
<1>1. /\ f \in [Templates -> Nat] /\ g \in [Templates -> Nat]
      /\ f[o] = Serve(ss[o]) /\ g[o] = Serve(zz[o])
      /\ \A u \in us : f[u] = g[u]
  BY ServeType
<1>2. Serving(ss) = Count(f, Templates) /\ Serving(zz) = Count(g, Templates)
  BY DEF Serving
<1>a. Templates \in SUBSET Templates /\ us \in SUBSET Templates
  OBVIOUS
<1> HIDE DEF f, g
<1>3. /\ Count(f, Templates) = Count(f, us) + f[o] /\ Count(f, us) \in Nat /\ f[o] \in Nat
      /\ Count(g, Templates) = Count(g, us) + g[o] /\ Count(g, us) \in Nat /\ g[o] \in Nat
  BY <1>1, <1>a, CountSplit
<1>4. Count(f, us) = Count(g, us)
  BY <1>1, <1>a, CountSame
<1> QED BY <1>1, <1>2, <1>3, <1>4

-----------------------------------------------------------------------------
(* RollingUpdate: no downtime beyond MaxUnavailable                        *)

\* The deployments the second theorem is about: an upgrade of a running
\* deployment of one region, rollbacks included; the cache of the subsets does
\* not lag (that of the deployment may).
RollScope ==
    /\ Installed /\ UpdateStrategy = "RollingUpdate"
    /\ \E r : Regions = {r}
    /\ "subsets" \notin Lagging

\* The user asks for no smaller size in this step.
NoShrink == \A r \in Regions : desired'[r] >= desired[r]

\* Sizes only grow, and no subset is larger than the size read last.
Growing ==
    /\ \A r \in Regions : Seen.desired[r] <= desired[r]
    /\ \A r \in Regions, t \in Templates : sub[r][t].spec <= Seen.desired[r]
    /\ pc # "idle" => /\ snap.want \in [Regions -> Sizes]
                      /\ \A r \in Regions : snap.want[r] <= Seen.desired[r]

\* A subset that does not exist has no pods.
NoGhost(s) == ~s.live => s = Absent

RollStore ==
    /\ cache = sub /\ Growing
    /\ \A r \in Regions, t \in Templates : NoGhost(sub[r][t])
    /\ \A r \in Regions : Low(Serving(sub[r]))

\* What the reconcile has read of region r is not more than there is, and enough;
\* the new subset was not larger than wanted, and all of it available.
RollRead(r) ==
    /\ \A t \in Templates :
          /\ info[r][t].live <=> sub[r][t].live
          /\ t # snap.tmpl /\ sub[r][t].live => info[r][t].spec = sub[r][t].spec
          /\ Serve(info[r][t]) <= Serve(sub[r][t])
    /\ Low(Serving(info[r]))
    /\ info[r][snap.tmpl].spec <= snap.want[r]
    /\ info[r][snap.tmpl].live => info[r][snap.tmpl].avail >= info[r][snap.tmpl].spec

RollRoom == MaxScaleDown(info[cur], snap.tmpl, snap.want[cur])

\* The pods of the old subset o all serve, and the reconcile knows how many.
AllServe(o) == sub[cur][o].live => /\ sub[cur][o].spec = info[cur][o].spec
                                   /\ sub[cur][o].spec <= sub[cur][o].avail

RollLoop ==
    /\ pc \notin {"shrink", "grow", "deleteAll"}
    /\ pc \in {"confirm", "manage"} => \A r \in todo : RollRead(r)
    /\ pc \in {"cleanup", "rollOld"} => todo = {}
    /\ pc = "cleanup" =>
          /\ RollRead(cur) /\ rest \subseteq Olds(info[cur], snap.tmpl)
          /\ info[cur][snap.tmpl].live
          /\ left = RollRoom
          /\ left > 0 => \A o \in Olds(info[cur], snap.tmpl) \ rest : Steady(o)
    /\ pc = "rollOld" /\ left > 0 =>
          /\ MinAvailable(snap.want[cur]) + left <= Serving(sub[cur])
          /\ \A o \in rest : AllServe(o)
    /\ pc \in {"saturated", "clean", "sweep", "delete"} =>
          \A r \in Regions : snap.want[r] <= Serve(sub[r][snap.tmpl])
    /\ pc \in {"sweep", "delete"} => snap.tmpl \notin rest

\* The inductive invariant behind ZeroDowntime for RollingUpdate.
ServedInv == RollStore /\ RollLoop

SizesOK == Seen.desired \in [Regions -> Sizes] /\ desired \in [Regions -> Sizes]

LEMMA SizesType == TypeOK => SizesOK
BY SeenType DEF TypeOK, UserOK, SizesOK

LEMMA SizesNextType == TypeOK' => SizesOK'
BY SizesType, PTL

LEMMA SeenDesired ==
    /\ Seen.desired = IF "deployment" \in Lagging THEN seen.desired ELSE desired
    /\ (Seen.desired)' = IF "deployment" \in Lagging THEN seen'.desired ELSE desired'
BY DEF Seen, Deployment

\* What the reconcile reads of the sizes grows.
LEMMA GrowStep ==
    ASSUME TypeOK, TypeOK', Growing, NoShrink,
           seen' = seen \/ (seen' = Deployment /\ UNCHANGED desired),
           pc' # "idle" => pc # "idle" /\ UNCHANGED snap,
           \A r \in Regions, t \in Templates :
              sub'[r][t] = sub[r][t] \/ sub'[r][t].spec <= Seen.desired[r]
    PROVE  Growing'
<1>1. /\ \A r \in Regions : Seen.desired[r] \in Nat /\ desired[r] \in Nat
      /\ \A r \in Regions : (Seen.desired)'[r] \in Nat /\ desired'[r] \in Nat
  BY SizesType, SizesNextType, RolloutAssumption DEF SizesOK
<1>2. \A r \in Regions : Seen.desired[r] <= desired[r] /\ desired[r] <= desired'[r]
  BY <1>1 DEF Growing, NoShrink
<1>3. \A r \in Regions : Seen.desired[r] <= (Seen.desired)'[r] /\ (Seen.desired)'[r] <= desired'[r]
  <2>1. CASE seen' = seen
    BY <1>1, <1>2, <2>1, SeenDesired
  <2>2. CASE seen' = Deployment /\ UNCHANGED desired
    <3>1. (Seen.desired)' = desired
      BY <2>2, SeenDesired DEF Deployment
    <3> QED BY <1>1, <1>2, <2>2, <3>1
  <2> QED BY <2>1, <2>2
<1>4. ASSUME NEW r \in Regions, NEW t \in Templates PROVE sub'[r][t].spec <= (Seen.desired)'[r]
  <2>1. sub'[r][t].spec <= Seen.desired[r]
    BY DEF Growing
  <2>2. sub'[r][t].spec \in Nat
    <3>1. sub'[r] \in [Templates -> Subset]
      BY DEF TypeOK, StoreOK
    <3> QED BY <3>1, ServeType
  <2> QED BY <1>1, <1>3, <2>1, <2>2
<1>5. ASSUME pc' # "idle"
      PROVE  snap'.want \in [Regions -> Sizes] /\ \A r \in Regions : snap'.want[r] <= (Seen.desired)'[r]
  <2>1. /\ snap' = snap /\ snap.want \in [Regions -> Sizes]
        /\ \A r \in Regions : snap.want[r] <= Seen.desired[r]
    BY <1>5 DEF Growing
  <2>2. \A r \in Regions : snap.want[r] \in Nat
    BY <2>1, RolloutAssumption
  <2> QED BY <1>1, <1>3, <2>1, <2>2
<1> QED BY <1>3, <1>4, <1>5 DEF Growing

\* The subsets that a step changes are not too large, and the region serves enough.
LEMMA RollStoreStep ==
    ASSUME TypeOK, TypeOK', RollStore, cache' = sub', UNCHANGED <<desired, seen>>,
           pc' # "idle" => pc # "idle" /\ UNCHANGED snap,
           \A r \in Regions, t \in Templates :
              \/ sub'[r][t] = sub[r][t]
              \/ sub'[r][t].spec <= Seen.desired[r] /\ NoGhost(sub'[r][t]),
           \A r \in Regions : sub'[r] = sub[r] \/ Low(Serving(sub'[r]))
    PROVE  RollStore'
<1>1. NoShrink
  <2>1. \A r \in Regions : desired[r] \in Nat
    BY SizesType, RolloutAssumption DEF SizesOK
  <2> QED BY <2>1 DEF NoShrink
<1>2. Growing'
  BY <1>1, GrowStep DEF RollStore
<1>3. \A r \in Regions, t \in Templates : NoGhost(sub'[r][t])
  BY DEF RollStore
<1>4. \A r \in Regions : Low(Serving(sub'[r]))
  BY DEF RollStore
<1> QED BY <1>2, <1>3, <1>4 DEF RollStore

\* No subset is written, and the reconcile goes on or ends.
LEMMA RollStoreStays ==
    ASSUME TypeOK, TypeOK', RollStore, UNCHANGED <<sub, cache, desired, seen>>,
           pc' # "idle" => pc # "idle" /\ UNCHANGED snap
    PROVE  RollStore'
BY RollStoreStep DEF RollStore

\* The reconcile has nothing more to write.
LEMMA RollEnds == pc' \in {"idle", "refresh", "wait"} \/ (pc' = "manage" /\ todo' = {}) => RollLoop'
BY DEF RollLoop

\* ScaleSubset sets the size of one subset.
LEMMA RollWritten ==
    ASSUME RollScope, TypeOK, NEW r \in Regions, NEW t \in Templates, NEW n \in Nat,
           SetReplicas(r, t, n)
    PROVE  /\ cache' = sub' /\ sub[r][t].live
           /\ sub'[r][t].live /\ sub'[r][t].spec = n /\ sub'[r][t].avail = sub[r][t].avail
           /\ \A q \in Regions, u \in Templates : q # r \/ u # t => sub'[q][u] = sub[q][u]
           /\ \A q \in Regions : q # r => sub'[q] = sub[q]
<1>1. /\ sub \in [Regions -> [Templates -> Subset]]
      /\ sub' = [sub EXCEPT ![r][t] = WithSpec(sub[r][t], n)] /\ sub[r][t].live
  BY DEF TypeOK, StoreOK, SetReplicas, CacheCurrent
<1>2. cache' = sub'
  BY DEF RollScope, SetReplicas, Published
<1> QED BY <1>1, <1>2 DEF WithSpec

\* A subset may be set to a size that is not too large as long as enough serves.
LEMMA RollScaleKeeps ==
    ASSUME RollScope, TypeOK, TypeOK', RollStore,
           NEW r \in Regions, NEW t \in Templates, NEW n \in Nat, SetReplicas(r, t, n),
           UNCHANGED <<desired, seen, snap>>, pc # "idle",
           n <= snap.want[r] \/ n <= sub[r][t].spec, Low(Serving(sub'[r]))
    PROVE  RollStore'
<1>1. /\ cache' = sub' /\ sub'[r][t].live /\ sub'[r][t].spec = n
      /\ \A q \in Regions, u \in Templates : q # r \/ u # t => sub'[q][u] = sub[q][u]
      /\ \A q \in Regions : q # r => sub'[q] = sub[q]
  BY RollWritten
<1>2. n <= Seen.desired[r]
  <2>1. snap.want[r] <= Seen.desired[r] /\ sub[r][t].spec <= Seen.desired[r]
    BY DEF RollStore, Growing
  <2>2. snap.want[r] \in Nat /\ sub[r][t].spec \in Nat /\ Seen.desired[r] \in Nat
    BY ZeroTypes, SizesType, RolloutAssumption DEF SizesOK
  <2> QED BY <2>1, <2>2
<1>3. \A q \in Regions, u \in Templates :
              \/ sub'[q][u] = sub[q][u]
              \/ sub'[q][u].spec <= Seen.desired[q] /\ NoGhost(sub'[q][u])
  BY <1>1, <1>2 DEF NoGhost
<1>4. \A q \in Regions : sub'[q] = sub[q] \/ Low(Serving(sub'[q]))
  BY <1>1
<1> QED BY <1>1, <1>3, <1>4, RollStoreStep

\* The reconcile reads the subsets as they are; it goes on only if the new
\* subset of the region is available, or missing.
LEMMA ServedStart ==
    ASSUME RollScope, TypeOK, TypeOK', ServedInv, ReconcileStart
    PROVE  ServedInv'
<1> DEFINE t    == Seen.template
           want == Seen.desired
<1>a. /\ RollStore /\ cache = sub /\ Growing
      /\ \A r \in Regions, u \in Templates : NoGhost(sub[r][u])
      /\ \A r \in Regions : Low(Serving(sub[r]))
  BY DEF ServedInv, RollStore
<1>b. /\ pc = "idle" /\ UNCHANGED <<template, desired, seen, sub, cache>>
      /\ info' = sub /\ todo' = Regions /\ snap'.tmpl = t /\ snap'.want = want
      /\ pc' \in {"saturated", "manage", "wait", "confirm"}
  BY <1>a DEF ReconcileStart, TermFlags, userVars, statusVars, storeVars
<1>c. pc' = "saturated" => \A r \in Regions : Saturated(sub[r][t], want[r])
  BY <1>a DEF ReconcileStart, TermFlags
<1>d. pc' \in {"manage", "confirm"} =>
         \A r \in Regions : sub[r][t].live => AvailableDesired(sub[r][t], want[r])
  <2> SUFFICES ASSUME pc' \in {"manage", "confirm"}, NEW r \in Regions, sub[r][t].live
               PROVE  AvailableDesired(sub[r][t], want[r])
    OBVIOUS
  <2>1. Regions = {r}
    BY DEF RollScope
  <2>2. PICK flag \in TermFlags(sub, t, want) : flag \in {"init", "ready"}
    BY <1>a DEF ReconcileStart, TermFlags
  <2> QED BY <2>1, <2>2 DEF TermFlags
<1>e. /\ t \in Templates /\ want \in [Regions -> Sizes] /\ (Seen.desired)' = want
      /\ \A r \in Regions : want[r] \in Nat
  BY <1>b, SeenType, SeenDesired, RolloutAssumption DEF TypeOK
<1>1. Growing'
  <2>1. \A r \in Regions : want[r] <= want[r]
    BY <1>e
  <2> QED BY <1>a, <1>b, <1>e, <2>1 DEF Growing
<1>2. RollStore'
  BY <1>a, <1>b, <1>1 DEF RollStore
<1>3. ASSUME NEW r \in Regions, pc' \in {"manage", "confirm"} PROVE RollRead(r)'
  <2>1. /\ info'[r] = sub[r] /\ sub'[r] = sub[r] /\ sub[r] \in [Templates -> Subset]
    BY <1>b DEF TypeOK, StoreOK
  <2>2. \A u \in Templates : Serve(sub[r][u]) <= Serve(sub[r][u])
    <3>1. \A u \in Templates : Serve(sub[r][u]) \in Nat
      BY <2>1, ServeType
    <3> QED BY <3>1
  <2>3. sub[r][t].spec <= want[r] /\ sub[r][t].spec \in Nat /\ sub[r][t].avail \in Nat
    BY <1>a, <1>e, <2>1, ServeType DEF Growing
  <2>4. sub[r][t].live => sub[r][t].avail >= sub[r][t].spec
    BY <1>d, <1>e, <1>3, <2>3 DEF AvailableDesired
  <2> QED BY <1>a, <1>b, <2>1, <2>2, <2>3, <2>4 DEF RollRead
<1>4. ASSUME pc' = "saturated", NEW r \in Regions
      PROVE  snap'.want[r] <= Serve(sub'[r][snap'.tmpl])
  <2> DEFINE new == sub[r][t]
  <2>1. new.spec = want[r] /\ (want[r] < new.spec \/ new.avail >= new.spec)
    BY <1>c, <1>4 DEF Saturated, ReplicasDesired, AvailableDesired
  <2>2. new.spec \in Nat /\ new.avail \in Nat
    BY <1>e, ZeroTypes
  <2>3. want[r] <= Serve(new)
    BY <2>1, <2>2 DEF Serve, Lesser
  <2> QED BY <1>b, <2>3
<1>5. RollLoop'
  BY <1>b, <1>3, <1>4 DEF RollLoop
<1> QED BY <1>2, <1>5 DEF ServedInv

\* A new subset starts with no pods, and is not larger than wanted.
LEMMA ServedNew ==
    ASSUME RollScope, TypeOK, TypeOK', ServedInv, NEW r \in Regions, NewSubset(r)
    PROVE  ServedInv'
<1> DEFINE t     == snap.tmpl
           total == SpecReplicas(info[r], Olds(info[r], t))
           size  == RollingReplicas(snap.want[r], total, 0)
<1>a. RollStore /\ UNCHANGED <<desired, seen>> /\ pc = "manage" /\ pc' = "idle"
  BY DEF ServedInv, NewSubset, userVars, statusVars, Return
<1>b. /\ t \in Templates /\ sub \in [Regions -> [Templates -> Subset]]
      /\ sub[r] \in [Templates -> Subset] /\ snap.want[r] \in Nat /\ total \in Nat
      /\ \A u \in Templates : Serve(sub[r][u]) \in Nat
  BY ZeroTypes, CountsType
<1>c. sub'[r] \in [Templates -> Subset]
  BY DEF TypeOK, StoreOK
<1>1. CASE NoWrite
  <2>1. UNCHANGED <<sub, cache>>
    BY <1>1 DEF NoWrite, storeVars
  <2> QED BY <1>a, <2>1, RollStoreStays, RollEnds DEF ServedInv
<1>2. CASE ~NoWrite
  <2>1. PICK new : /\ sub' = [sub EXCEPT ![r][t] = new] /\ Published
                   /\ new.live /\ new.spec = size /\ ~sub[r][t].live
    BY <1>2 DEF NewSubset, RollScope
  <2>2. cache' = sub'
    BY <2>1 DEF Published, RollScope
  <2>3. /\ sub'[r][t] = new
        /\ \A q \in Regions, u \in Templates : q # r \/ u # t => sub'[q][u] = sub[q][u]
        /\ \A q \in Regions : q # r => sub'[q] = sub[q]
    BY <1>b, <2>1
  <2>4. size \in Nat /\ size <= snap.want[r]
    <3> HIDE DEF total
    <3> QED BY <1>b, RolloutAssumption DEF RollingReplicas, Lesser
  <2>5. new.spec <= Seen.desired[r]
    <3>1. snap.want[r] <= Seen.desired[r] /\ Seen.desired[r] \in Nat
      BY <1>a, SizesType, RolloutAssumption DEF RollStore, Growing, SizesOK
    <3> HIDE DEF size
    <3> QED BY <1>b, <2>1, <2>4, <3>1
  <2>6. Serve(sub[r][t]) = 0
    <3>1. sub[r][t] = Absent
      BY <1>a, <1>b, <2>1 DEF RollStore, NoGhost
    <3> QED BY <3>1 DEF Absent, Serve, Lesser
  <2>7. \A u \in Templates : Serve(sub[r][u]) <= Serve(sub'[r][u])
    <3>1. \A u \in Templates : Serve(sub'[r][u]) \in Nat
      BY <1>c, ServeType
    <3>2. \A u \in Templates : Serve(sub[r][u]) = 0 \/ Serve(sub[r][u]) = Serve(sub'[r][u])
      BY <2>3, <2>6
    <3> QED BY <1>b, <3>1, <3>2
  <2>8. Low(Serving(sub'[r]))
    BY <1>a, <1>b, <1>c, <2>7, LowGrows DEF RollStore, RollScope
  <2>9. \A q \in Regions, u \in Templates :
              \/ sub'[q][u] = sub[q][u]
              \/ sub'[q][u].spec <= Seen.desired[q] /\ NoGhost(sub'[q][u])
    BY <2>1, <2>3, <2>5 DEF NoGhost
  <2>10. \A q \in Regions : sub'[q] = sub[q] \/ Low(Serving(sub'[q]))
    BY <2>3, <2>8
  <2>11. RollStore'
    BY <1>a, <2>2, <2>9, <2>10, RollStoreStep
  <2> QED BY <1>a, <2>11, RollEnds DEF ServedInv
<1> QED BY <1>1, <1>2

\* A pod becomes available, or surplus ones go: no less serves.
LEMMA ServedPods ==
    ASSUME RollScope, TypeOK, TypeOK', ServedInv, NEW r \in Regions, NEW t \in Templates,
           PodAvailable(r, t) \/ PodsRemoved(r, t)
    PROVE  ServedInv'
<1>a. /\ RollStore /\ RollLoop /\ UNCHANGED <<desired, seen, pc>>
      /\ UNCHANGED <<snap, info, todo, cur, rest, left>>
  BY DEF ServedInv, PodAvailable, PodsRemoved, SetAvailable, userVars, statusVars, loopVars
<1>b. /\ sub \in [Regions -> [Templates -> Subset]] /\ sub[r][t].spec \in Nat
      /\ sub[r][t].avail \in Nat /\ todo \subseteq Regions /\ cur \in Regions
      /\ snap.tmpl \in Templates /\ snap.want \in [Regions -> Nat] /\ rest \subseteq Templates
      /\ left \in Int /\ \A q \in Regions, u \in Templates : sub[q][u].avail \in Nat /\ sub[q][u].spec \in Nat
      /\ \A q \in Regions, u \in Templates : Serve(sub[q][u]) \in Nat /\ Serve(info[q][u]) \in Nat
  BY ZeroTypes
<1>1. PICK k \in Nat : /\ SetAvailable(r, t, k)
                       /\ \/ k = sub[r][t].avail + 1 /\ sub[r][t].avail < sub[r][t].spec
                          \/ k = sub[r][t].spec /\ sub[r][t].avail > sub[r][t].spec
  BY <1>b DEF PodAvailable, PodsRemoved
<1>2. sub' = [sub EXCEPT ![r][t] = WithAvail(sub[r][t], k)] /\ cache' = sub'
  BY <1>1 DEF SetAvailable, Published, RollScope
<1>3. /\ sub'[r][t].live = sub[r][t].live /\ sub'[r][t].spec = sub[r][t].spec
      /\ sub'[r][t].avail = k
      /\ \A q \in Regions, u \in Templates : q # r \/ u # t => sub'[q][u] = sub[q][u]
      /\ \A q \in Regions : q # r => sub'[q] = sub[q]
  BY <1>b, <1>2 DEF WithAvail
<1>4. Serve(sub[r][t]) <= Serve(sub'[r][t])
  BY <1>b, <1>1, <1>3 DEF Serve, Lesser
<1>5. \A q \in Regions, u \in Templates :
         /\ sub'[q][u].live = sub[q][u].live /\ sub'[q][u].spec = sub[q][u].spec
         /\ Serve(sub[q][u]) <= Serve(sub'[q][u])
         /\ sub[q][u].spec <= sub[q][u].avail => sub[q][u].spec <= sub'[q][u].avail
  <2>1. sub[r][t].spec <= sub[r][t].avail => sub[r][t].spec <= sub'[r][t].avail
    BY <1>b, <1>1, <1>3
  <2> QED BY <1>b, <1>3, <1>4, <2>1
<1>c. /\ \A q \in Regions : sub[q] \in [Templates -> Subset] /\ sub'[q] \in [Templates -> Subset]
      /\ \A q \in Regions, u \in Templates : Serve(sub'[q][u]) \in Nat
  <2>1. \A q \in Regions : sub[q] \in [Templates -> Subset] /\ sub'[q] \in [Templates -> Subset]
    BY DEF TypeOK, StoreOK
  <2> QED BY <2>1, ServeType
<1>6. RollStore'
  <2>1. sub[r][t].live
    <3>1. ~sub[r][t].live => sub[r][t].spec = 0 /\ sub[r][t].avail = 0
      BY <1>a DEF RollStore, NoGhost, Absent
    <3> QED BY <1>1, <3>1
  <2>2. sub'[r][t].spec <= Seen.desired[r] /\ NoGhost(sub'[r][t])
    BY <1>a, <1>3, <2>1 DEF RollStore, Growing, NoGhost
  <2>3. Low(Serving(sub'[r]))
    BY <1>a, <1>5, <1>c, LowGrows DEF RollStore, RollScope
  <2>4. \A q \in Regions, u \in Templates :
              \/ sub'[q][u] = sub[q][u]
              \/ sub'[q][u].spec <= Seen.desired[q] /\ NoGhost(sub'[q][u])
    BY <1>3, <2>2
  <2>5. \A q \in Regions : sub'[q] = sub[q] \/ Low(Serving(sub'[q]))
    BY <1>3, <2>3
  <2> QED BY <1>a, <1>2, <2>4, <2>5, RollStoreStep
<1>7. ASSUME NEW q \in Regions, RollRead(q) PROVE RollRead(q)'
  <2>1. \A u \in Templates : Serve(info[q][u]) <= Serve(sub'[q][u])
    <3> SUFFICES ASSUME NEW u \in Templates PROVE Serve(info[q][u]) <= Serve(sub'[q][u])
      OBVIOUS
    <3>1. /\ Serve(info[q][u]) <= Serve(sub[q][u]) /\ Serve(sub[q][u]) <= Serve(sub'[q][u])
          /\ Serve(info[q][u]) \in Nat /\ Serve(sub[q][u]) \in Nat /\ Serve(sub'[q][u]) \in Nat
      BY <1>b, <1>c, <1>5, <1>7 DEF RollRead
    <3> QED BY <3>1
  <2> QED BY <1>a, <1>5, <1>7, <2>1 DEF RollRead
<1>8. \A q \in Regions : snap.want[q] <= Serve(sub[q][snap.tmpl]) =>
                            snap.want[q] <= Serve(sub'[q][snap.tmpl])
  <2> SUFFICES ASSUME NEW q \in Regions, snap.want[q] <= Serve(sub[q][snap.tmpl])
               PROVE  snap.want[q] <= Serve(sub'[q][snap.tmpl])
    OBVIOUS
  <2>1. /\ Serve(sub[q][snap.tmpl]) <= Serve(sub'[q][snap.tmpl])
        /\ Serve(sub[q][snap.tmpl]) \in Nat /\ snap.want[q] \in Nat /\ Serve(sub'[q][snap.tmpl]) \in Nat
    BY <1>b, <1>c, <1>5
  <2> QED BY <2>1
<1>9. UNCHANGED RollRoom /\ \A u : Steady(u)' = Steady(u)
  BY <1>a DEF RollRoom, Steady
<1>10. MinAvailable(snap.want[cur]) + left <= Serving(sub[cur]) =>
          MinAvailable(snap.want[cur]) + left <= Serving(sub'[cur])
  <2>1. /\ Serving(sub[cur]) <= Serving(sub'[cur]) /\ Serving(sub[cur]) \in Nat
        /\ Serving(sub'[cur]) \in Nat
    BY <1>b, <1>c, <1>5, ServingGrows, ServeType
  <2>2. MinAvailable(snap.want[cur]) \in Int
    BY <1>b, RolloutAssumption DEF MinAvailable
  <2> QED BY <1>b, <2>1, <2>2
<1>11. \A o \in Templates : AllServe(o) => AllServe(o)'
  BY <1>a, <1>b, <1>5 DEF AllServe
<1>12. RollLoop'
  BY <1>a, <1>b, <1>7, <1>8, <1>9, <1>10, <1>11 DEF RollLoop
<1> QED BY <1>6, <1>12 DEF ServedInv

\* reconcileNewSubset makes the new subset larger, never smaller, and
\* reconcileOldSubsets starts with what was read before.
LEMMA ServedRegion ==
    ASSUME RollScope, TypeOK, TypeOK', ServedInv, NEW r \in Regions, RollingRegion(r)
    PROVE  ServedInv'
<1> DEFINE t     == snap.tmpl
           new   == info[r][t]
           want  == snap.want[r]
           olds  == Olds(info[r], t)
           total == SpecReplicas(info[r], olds) + new.spec
           n     == IF new.spec >= want THEN want ELSE RollingReplicas(want, total, new.spec)
           Go    == /\ pc' = (IF total = new.spec \/ MaxScaleDown(info[r], t, want) <= 0
                                THEN "manage" ELSE "cleanup")
                    /\ cur' = r /\ rest' = olds /\ left' = MaxScaleDown(info[r], t, want)
                    /\ todo' = todo \ {r} /\ UNCHANGED <<snap, info>>
<1>a. /\ RollStore /\ pc = "manage" /\ r \in todo /\ UNCHANGED <<desired, seen>>
      /\ RollRead(r) /\ new.live
  BY DEF ServedInv, RollLoop, RollingRegion, userVars, statusVars
<1>b. /\ t \in Templates /\ todo \subseteq Regions /\ want \in Nat
      /\ sub[r] \in [Templates -> Subset] /\ info[r] \in [Templates -> Subset]
      /\ new.spec \in Nat /\ new.avail \in Nat /\ sub[r][t].avail \in Nat /\ sub[r][t].spec \in Nat
      /\ \A u \in Templates : Serve(info[r][u]) \in Nat /\ Serve(sub[r][u]) \in Nat
  BY ZeroTypes
<1>c. /\ sub'[r] \in [Templates -> Subset]
      /\ \A u \in Templates : Serve(sub'[r][u]) \in Nat
  <2>1. sub'[r] \in [Templates -> Subset]
    BY DEF TypeOK, StoreOK
  <2> QED BY <2>1, ServeType
<1>d. todo \ {r} = {}
  <2>1. Regions = {r}
    BY DEF RollScope
  <2> QED BY <1>b, <2>1
<1>1. \/ IF n = new.spec THEN NoWrite /\ Go ELSE SetReplicas(r, t, n) /\ Go
      \/ NoWrite /\ Return
  BY DEF RollingRegion
<1>2. n \in Nat /\ new.spec <= n /\ n <= want
  <2>1. total \in Nat
    <3>1. SpecReplicas(info[r], olds) \in Nat
      BY <1>b, CountsType
    <3> QED BY <1>b, <3>1
  <2>2. new.spec <= want
    BY <1>a DEF RollRead
  <2> HIDE DEF total, new, want
  <2> QED BY <1>b, <2>1, <2>2, RolloutAssumption DEF RollingReplicas, Lesser
<1> HIDE DEF n
<1>3. ASSUME Go, RollStore', \A u \in Templates :
                /\ sub'[r][u].live <=> sub[r][u].live
                /\ u # t => sub'[r][u] = sub[r][u]
                /\ Serve(info[r][u]) <= Serve(sub'[r][u])
      PROVE  ServedInv'
  <2>1. UNCHANGED <<snap, info>> /\ cur' = r /\ todo' = {} /\ rest' = olds
    BY <1>3, <1>d
  <2>2. CASE pc' = "manage"
    BY <1>3, <2>1, <2>2, RollEnds DEF ServedInv
  <2>3. CASE pc' = "cleanup"
    <3>1. RollRead(cur)'
      BY <1>a, <1>3, <2>1 DEF RollRead
    <3>2. left' = RollRoom'
      BY <1>3, <2>1 DEF RollRoom
    <3>3. info'[cur'][snap'.tmpl].live /\ rest' = Olds(info'[cur'], snap'.tmpl)
      BY <1>a, <2>1
    <3>4. RollLoop'
      BY <2>1, <2>3, <3>1, <3>2, <3>3 DEF RollLoop
    <3> QED BY <1>3, <3>4 DEF ServedInv
  <2> QED BY <1>3, <2>2, <2>3
<1>e. NoWrite => UNCHANGED <<sub, cache>>
  BY DEF NoWrite, storeVars
<1>f. pc' = "idle" \/ Go => (pc' # "idle" => pc # "idle" /\ UNCHANGED snap)
  BY <1>a
<1>4. CASE NoWrite /\ Return
  <2>1. pc' = "idle"
    BY <1>4 DEF Return
  <2> QED BY <1>a, <1>e, <1>4, <2>1, RollStoreStays, RollEnds DEF ServedInv
<1>5. CASE NoWrite /\ Go
  <2>1. RollStore'
    BY <1>a, <1>e, <1>f, <1>5, RollStoreStays
  <2>2. \A u \in Templates : Serve(info[r][u]) <= Serve(sub'[r][u])
    BY <1>a, <1>e, <1>5 DEF RollRead
  <2> QED BY <1>3, <1>e, <1>5, <2>1, <2>2
<1>6. CASE SetReplicas(r, t, n) /\ Go
  <2>1. /\ sub[r][t].live /\ sub'[r][t].live
        /\ sub'[r][t].spec = n /\ sub'[r][t].avail = sub[r][t].avail
        /\ \A q \in Regions, u \in Templates : q # r \/ u # t => sub'[q][u] = sub[q][u]
    <3> HIDE DEF t
    <3> QED BY <1>b, <1>2, <1>6, RollWritten
  <2>2. Serve(new) <= Serve(sub'[r][t])
    <3>1. Serve(new) <= Serve(sub[r][t]) /\ new.avail >= new.spec
      BY <1>a, <1>b DEF RollRead
    <3>2. Serve(new) = new.spec
      BY <1>b, <3>1 DEF Serve, Lesser
    <3>3. Serve(sub[r][t]) <= sub[r][t].avail
      BY <1>b DEF Serve, Lesser
    <3>4. Serve(sub'[r][t]) = Lesser(n, sub[r][t].avail)
      BY <2>1 DEF Serve
    <3> HIDE DEF new, t
    <3>5. new.spec <= sub[r][t].avail
      BY <1>b, <3>1, <3>2, <3>3
    <3> QED BY <1>2, <1>b, <3>2, <3>4, <3>5 DEF Lesser
  <2>3. \A u \in Templates : Serve(info[r][u]) <= Serve(sub'[r][u])
    BY <1>a, <2>1, <2>2 DEF RollRead
  <2>4. Low(Serving(sub'[r]))
    BY <1>a, <1>b, <1>c, <2>3, LowGrows DEF RollRead, RollScope
  <2>5. RollStore'
    <3>1. UNCHANGED snap /\ pc # "idle" /\ n <= snap.want[r]
      BY <1>a, <1>2, <1>6
    <3> HIDE DEF Go, t
    <3> QED BY <1>a, <1>b, <1>2, <1>6, <2>4, <3>1, RollScaleKeeps
  <2> QED BY <1>3, <1>6, <2>1, <2>3, <2>5
<1> HIDE DEF Go
<1> QED BY <1>1, <1>4, <1>5, <1>6

\* cleanupUnhealthyReplicas takes pods that do not serve.
LEMMA ServedCleanup ==
    ASSUME RollScope, TypeOK, TypeOK', ServedInv,
           NEW o \in Templates, CleanupUnhealthyReplicas(o)
    PROVE  ServedInv'
<1> DEFINE old   == info[cur][o]
           count == Lesser(old.spec - old.avail, left)
           n     == old.spec - count
           Go    == left' = left - count /\ rest' = rest \ {o} /\ UNCHANGED <<pc, snap, todo, cur>>
<1>a. /\ pc = "cleanup" /\ o \in rest /\ left > 0 /\ UNCHANGED <<desired, seen>>
      /\ left = RollRoom /\ todo = {} /\ rest \subseteq Olds(info[cur], snap.tmpl)
      /\ info[cur][snap.tmpl].live
      /\ RollRead(cur) /\ \A u \in Olds(info[cur], snap.tmpl) \ rest : Steady(u)
  BY DEF CleanupUnhealthyReplicas, ServedInv, RollLoop, userVars, statusVars
<1>b. o # snap.tmpl /\ old.live /\ o \in Olds(info[cur], snap.tmpl)
  BY <1>a DEF Olds
<1>c. /\ old.spec \in Nat /\ old.avail \in Nat /\ left \in Int /\ cur \in Regions
      /\ snap.tmpl \in Templates /\ snap.want[cur] \in Nat
      /\ sub[cur] \in [Templates -> Subset] /\ info[cur] \in [Templates -> Subset]
      /\ info \in [Regions -> [Templates -> Subset]] /\ sub \in [Regions -> [Templates -> Subset]]
  BY ZeroTypes
<1>d. sub'[cur] \in [Templates -> Subset] /\ info'[cur] \in [Templates -> Subset]
  BY <1>c DEF TypeOK, StoreOK, LoopOK
<1>e. RollStore
  BY DEF ServedInv
<1>1. \/ NoWrite /\ pc' = "manage" /\ UNCHANGED loopVars
      \/ old.avail = old.spec /\ NoWrite /\ UNCHANGED info /\ Go
      \/ /\ old.avail < old.spec /\ count = old.spec
         /\ sub' = [sub EXCEPT ![cur][o] = Absent] /\ Published
         /\ info' = [info EXCEPT ![cur][o] = Deleted(old)] /\ Go
      \/ /\ old.avail < old.spec /\ count < old.spec /\ SetReplicas(cur, o, n)
         /\ info' = [info EXCEPT ![cur][o] = WithSpec(old, n)] /\ Go
  BY DEF CleanupUnhealthyReplicas, RollScope
<1>2. old.avail <= old.spec => count \in Nat /\ count <= old.spec - old.avail /\ n \in Nat /\ n >= old.avail
  BY <1>a, <1>c DEF Lesser
\* The loop goes on with the other old subsets.
<1>3. ASSUME Go, RollStore', RollRead(cur)', RollRoom' = RollRoom - count,
             left - count > 0 => o \notin Olds(info'[cur], snap.tmpl) \/ Steady(o)',
             \A u \in Templates \ {o} : info'[cur][u] = info[cur][u]
      PROVE  ServedInv'
  <2>1. pc' = "cleanup" /\ cur' = cur /\ snap' = snap /\ todo' = {}
    BY <1>a, <1>3
  <2>2. left' = RollRoom'
    BY <1>a, <1>3
  <2>3. rest' \subseteq Olds(info'[cur'], snap'.tmpl) /\ info'[cur'][snap'.tmpl].live
    <3>1. info'[cur][snap.tmpl] = info[cur][snap.tmpl]
      BY <1>b, <1>c, <1>3
    <3> QED BY <1>a, <1>3, <2>1, <3>1 DEF Olds
  <2>4. ASSUME left' > 0, NEW u \in Olds(info'[cur'], snap'.tmpl) \ rest' PROVE Steady(u)'
    <3>1. CASE u = o
      BY <1>3, <2>1, <2>4, <3>1
    <3>2. CASE u # o
      <4>1. u \in Olds(info[cur], snap.tmpl) \ rest
        BY <1>3, <2>1, <2>4, <3>2 DEF Olds
      <4>2. u \in Templates /\ info'[cur'][u] = info[cur][u]
        BY <1>3, <2>1, <2>4, <3>2 DEF Olds
      <4> QED BY <1>a, <4>1, <4>2 DEF Steady
    <3> QED BY <3>1, <3>2
  <2> HIDE DEF Go
  <2>5. RollLoop'
    BY <1>3, <2>1, <2>2, <2>3, <2>4 DEF RollLoop
  <2> QED BY <1>3, <2>5 DEF ServedInv
<1>f. NoWrite => UNCHANGED <<sub, cache>>
  BY DEF NoWrite, storeVars
<1>4. CASE NoWrite /\ pc' = "manage" /\ UNCHANGED loopVars
  <2>1. UNCHANGED <<snap, todo>>
    BY <1>4 DEF loopVars
  <2>2. RollStore'
    BY <1>a, <1>e, <1>f, <1>4, <2>1, RollStoreStays
  <2> QED BY <1>a, <1>4, <2>1, <2>2, RollEnds DEF ServedInv
<1>5. CASE old.avail = old.spec /\ NoWrite /\ UNCHANGED info /\ Go
  <2>1. UNCHANGED <<sub, cache, info, cur, snap, pc>> /\ count = 0
    BY <1>a, <1>c, <1>f, <1>5 DEF Lesser
  <2>2. RollStore'
    BY <1>a, <1>e, <2>1, RollStoreStays
  <2>3. RollRead(cur)' /\ RollRoom' = RollRoom /\ Steady(o)'
    BY <1>a, <1>5, <2>1 DEF RollRead, RollRoom, Steady
  <2>4. RollRoom' = RollRoom - count
    BY <1>a, <1>c, <2>1, <2>3
  <2> HIDE DEF count
  <2> QED BY <1>3, <1>5, <2>1, <2>2, <2>3, <2>4
\* Both writes leave what serves of the old subset as it was read.
<1>6. ASSUME Serve(info'[cur][o]) = Serve(old), Serve(info'[cur][o]) <= Serve(sub'[cur][o]),
             (info'[cur][o].live <=> sub'[cur][o].live),
             sub'[cur][o].live => info'[cur][o].spec = sub'[cur][o].spec,
             \A u \in Templates \ {o} : info'[cur][u] = info[cur][u] /\ sub'[cur][u] = sub[cur][u],
             UNCHANGED <<snap, cur>>
      PROVE  RollRead(cur)' /\ Low(Serving(sub'[cur]))
  <2>1. \A u \in Templates :
           /\ (info'[cur][u].live <=> sub'[cur][u].live)
           /\ u # snap.tmpl /\ sub'[cur][u].live => info'[cur][u].spec = sub'[cur][u].spec
           /\ Serve(info'[cur][u]) <= Serve(sub'[cur][u])
    BY <1>a, <1>6 DEF RollRead
  <2>2. info'[cur][snap.tmpl] = info[cur][snap.tmpl]
    BY <1>b, <1>c, <1>6
  <2>3. \A u \in Templates : Serve(info[cur][u]) <= Serve(info'[cur][u])
    <3>1. \A u \in Templates : Serve(info[cur][u]) \in Nat
      BY <1>c, ServeType
    <3>2. \A u \in Templates : Serve(info'[cur][u]) = Serve(info[cur][u])
      BY <1>6
    <3> QED BY <3>1, <3>2
  <2>4. Low(Serving(info'[cur]))
    BY <1>a, <1>c, <1>d, <2>3, LowGrows DEF RollRead, RollScope
  <2>5. Low(Serving(sub'[cur]))
    BY <1>d, <2>1, <2>4, LowGrows DEF RollScope
  <2> QED BY <1>a, <1>6, <2>1, <2>2, <2>4, <2>5 DEF RollRead
<1>g. Go => pc' # "idle" /\ pc # "idle" /\ UNCHANGED snap
  BY <1>a
<1>7. CASE /\ old.avail < old.spec /\ count = old.spec
           /\ sub' = [sub EXCEPT ![cur][o] = Absent] /\ Published
           /\ info' = [info EXCEPT ![cur][o] = Deleted(old)] /\ Go
  <2>1. old.avail = 0
    BY <1>c, <1>2, <1>7
  <2>2. /\ cache' = sub' /\ sub'[cur][o] = Absent /\ info'[cur][o] = Deleted(old)
        /\ \A u \in Templates \ {o} : info'[cur][u] = info[cur][u] /\ sub'[cur][u] = sub[cur][u]
        /\ \A r \in Regions : r # cur => sub'[r] = sub[r]
    BY <1>c, <1>7 DEF Published, RollScope
  <2>3. /\ ~Absent.live /\ Absent.spec = 0 /\ Absent.avail = 0
        /\ ~Deleted(old).live /\ Deleted(old).spec = old.spec /\ Deleted(old).avail = old.avail
    BY DEF Absent, Deleted
  <2>4. /\ Serve(sub'[cur][o]) = 0 /\ Serve(info'[cur][o]) = 0 /\ Serve(old) = 0
    BY <1>c, <2>1, <2>2, <2>3 DEF Serve, Lesser
  <2>5. RollRead(cur)' /\ Low(Serving(sub'[cur]))
    BY <1>6, <1>7, <2>2, <2>3, <2>4
  <2>6. sub'[cur][o].spec <= Seen.desired[cur] /\ NoGhost(sub'[cur][o])
    <3>1. Seen.desired[cur] \in Nat
      BY <1>c, SizesType, RolloutAssumption DEF SizesOK
    <3> QED BY <2>2, <2>3, <3>1 DEF NoGhost
  <2>7. RollStore'
    <3>1. \A q \in Regions, u \in Templates :
              \/ sub'[q][u] = sub[q][u]
              \/ sub'[q][u].spec <= Seen.desired[q] /\ NoGhost(sub'[q][u])
      BY <2>2, <2>6
    <3>2. \A q \in Regions : sub'[q] = sub[q] \/ Low(Serving(sub'[q]))
      BY <2>2, <2>5
    <3> HIDE DEF Go
    <3> QED BY <1>a, <1>e, <1>g, <1>7, <2>2, <3>1, <3>2, RollStoreStep
  <2>8. MaxScaleDown(info'[cur], snap.tmpl, snap.want[cur])
          = MaxScaleDown(info[cur], snap.tmpl, snap.want[cur]) - old.spec
    <3>1. ~info'[cur][o].live
      BY <2>2, <2>3
    <3>2. o \in Olds(info[cur], snap.tmpl) /\ info[cur][o].spec = old.spec /\ old.spec \in Nat
      BY <1>b, <1>c
    <3> HIDE DEF old
    <3> QED BY <1>c, <1>d, <2>2, <3>1, <3>2, RoomTakes
  <2>9. RollRoom' = RollRoom - count
    BY <1>7, <2>8 DEF RollRoom
  <2>10. o \notin Olds(info'[cur], snap.tmpl)
    BY <2>2, <2>3 DEF Olds
  <2> HIDE DEF count
  <2> QED BY <1>3, <1>7, <2>2, <2>5, <2>7, <2>9, <2>10
<1>8. CASE /\ old.avail < old.spec /\ count < old.spec /\ SetReplicas(cur, o, n)
           /\ info' = [info EXCEPT ![cur][o] = WithSpec(old, n)] /\ Go
  <2>1. n \in Nat /\ n >= old.avail /\ count \in Nat /\ (left - count > 0 => n = old.avail)
        /\ n <= old.spec
    BY <1>a, <1>c, <1>8, <1>2 DEF Lesser
  <2>2. n = old.spec - count
    OBVIOUS
  <2>3. /\ cache' = sub' /\ sub[cur][o].live
        /\ sub'[cur][o].live /\ sub'[cur][o].spec = n /\ sub'[cur][o].avail = sub[cur][o].avail
        /\ \A q \in Regions, u \in Templates : q # cur \/ u # o => sub'[q][u] = sub[q][u]
    BY <1>c, <1>8, <2>1, RollWritten
  <2>4. /\ info'[cur][o] = WithSpec(old, n)
        /\ \A u \in Templates \ {o} : info'[cur][u] = info[cur][u]
    BY <1>c, <1>8
  <2>5. info'[cur][o].live /\ info'[cur][o].spec = n /\ info'[cur][o].avail = old.avail
    BY <1>b, <2>4 DEF WithSpec
  <2> HIDE DEF n, count
  <2>6. Serve(info'[cur][o]) = old.avail /\ Serve(old) = old.avail
    BY <1>c, <1>8, <2>1, <2>5 DEF Serve, Lesser
  <2>7. Serve(info'[cur][o]) <= Serve(sub'[cur][o])
    <3>1. Serve(old) <= Serve(sub[cur][o]) /\ sub[cur][o].avail \in Nat /\ sub[cur][o].spec \in Nat
      BY <1>a, <1>c, ZeroTypes DEF RollRead
    <3>2. old.avail <= sub[cur][o].avail
      BY <1>c, <2>6, <3>1 DEF Serve, Lesser
    <3> QED BY <1>c, <2>1, <2>3, <2>6, <3>1, <3>2 DEF Serve, Lesser
  <2>8. RollRead(cur)' /\ Low(Serving(sub'[cur]))
    BY <1>6, <1>8, <1>c, <2>3, <2>4, <2>5, <2>6, <2>7
  <2>9. RollStore'
    <3>1. n <= sub[cur][o].spec
      BY <1>a, <1>b, <2>1, <2>3 DEF RollRead
    <3>2. UNCHANGED snap /\ pc # "idle"
      BY <1>g, <1>8
    <3> HIDE DEF Go, old
    <3> QED BY <1>a, <1>c, <1>e, <1>8, <2>1, <2>8, <3>1, <3>2, RollScaleKeeps
  <2>10. MaxScaleDown(info'[cur], snap.tmpl, snap.want[cur])
           = MaxScaleDown(info[cur], snap.tmpl, snap.want[cur]) - count
    <3>1. /\ info'[cur][o].live /\ info'[cur][o].spec = info[cur][o].spec - count
          /\ o \in Olds(info[cur], snap.tmpl) /\ count \in Nat
      BY <1>b, <2>1, <2>2, <2>5
    <3>2. PICK c \in Nat : c = count
      BY <3>1
    <3>3. \/ info'[cur][o].live /\ info'[cur][o].spec = info[cur][o].spec - c
          \/ ~info'[cur][o].live /\ info[cur][o].spec = c
      BY <3>1, <3>2
    <3>4. MaxScaleDown(info'[cur], snap.tmpl, snap.want[cur])
            = MaxScaleDown(info[cur], snap.tmpl, snap.want[cur]) - c
      <4> HIDE DEF old
      <4>1. /\ info[cur] \in [Templates -> Subset] /\ info'[cur] \in [Templates -> Subset]
            /\ snap.tmpl \in Templates /\ snap.want[cur] \in Nat
            /\ o \in Olds(info[cur], snap.tmpl)
            /\ \A u \in Templates \ {o} : info'[cur][u] = info[cur][u]
        BY <1>c, <1>d, <2>4, <3>1
      <4> QED BY <3>3, <4>1, RoomTakes
    <3> QED BY <3>2, <3>4
  <2>11. RollRoom' = RollRoom - count
    BY <1>8, <2>10 DEF RollRoom
  <2>12. left - count > 0 => Steady(o)'
    BY <1>8, <2>1, <2>5 DEF Steady
  <2> QED BY <1>3, <1>8, <2>4, <2>8, <2>9, <2>11, <2>12
<1> HIDE DEF Go, n, count
<1> QED BY <1>1, <1>4, <1>5, <1>7, <1>8

\* scaleDownOldSubsetsForRollingUpdate starts: as long as it may take anything,
\* all replicas it counts serve.
LEMMA ServedOlds ==
    ASSUME RollScope, TypeOK, TypeOK', ServedInv, RollOlds
    PROVE  ServedInv'
<1> DEFINE t     == snap.tmpl
           olds  == Olds(info[cur], t)
           min   == MinAvailable(snap.want[cur])
           sizes == SpecReplicas(info[cur], olds)
<1>a. /\ RollStore /\ pc = "cleanup" /\ todo = {} /\ RollRead(cur) /\ info[cur][t].live
      /\ left = RollRoom /\ (left > 0 => \A o \in olds \ rest : Steady(o))
  BY DEF ServedInv, RollLoop, RollOlds
<1>b. /\ pc' = "rollOld" /\ left' = sizes + info[cur][t].spec - min
      /\ rest' = {o \in Templates \ {t} : info[cur][o].spec > 0}
      /\ rest = {} \/ left <= 0
      /\ UNCHANGED <<desired, seen, sub, cache, snap, info, todo, cur>>
  BY DEF RollOlds, userVars, statusVars, storeVars
<1>c. /\ t \in Templates /\ snap.want[cur] \in Nat /\ cur \in Regions
      /\ sub[cur] \in [Templates -> Subset] /\ info[cur] \in [Templates -> Subset]
      /\ \A u \in Templates : /\ info[cur][u].spec \in Nat /\ info[cur][u].avail \in Nat
                              /\ sub[cur][u].spec \in Nat /\ sub[cur][u].avail \in Nat
  BY ZeroTypes
<1>d. sizes \in Nat /\ min \in Int /\ Serving(sub[cur]) \in Nat
  BY <1>c, CountsType, ServeType
<1>e. info[cur][t].avail >= info[cur][t].spec
  BY <1>a DEF RollRead
<1>1. RollStore'
  BY <1>a, <1>b, RollStoreStays
<1>2. ASSUME left' > 0
      PROVE  min + left' <= Serving(sub[cur]) /\ \A o \in rest' : AllServe(o)
  <2>1. left = sizes + info[cur][t].avail - min
    <3>1. RollRoom = sizes + info[cur][t].avail - min
      BY <1>c, RoomCounted DEF RollRoom
    <3> QED BY <1>a, <3>1
  <2>2. left > 0
    <3> HIDE DEF sizes, min, t
    <3> QED BY <1>b, <1>c, <1>d, <1>e, <1>2, <2>1
  <2>3. \A o \in olds : Steady(o)
    <3>1. left \in Int /\ rest = {}
      BY <1>b, <2>2, ZeroTypes
    <3> QED BY <1>a, <2>2, <3>1
  <2>4. ASSUME NEW u \in Templates, info[cur][u].spec <= info[cur][u].avail
        PROVE  info[cur][u].spec <= Serve(sub[cur][u]) /\ info[cur][u].spec <= sub[cur][u].avail
    <3>1. Serve(info[cur][u]) = info[cur][u].spec
      BY <1>c, <2>4 DEF Serve, Lesser
    <3>2. Serve(info[cur][u]) <= Serve(sub[cur][u])
      BY <1>a DEF RollRead
    <3>3. Serve(sub[cur][u]) <= sub[cur][u].avail /\ Serve(sub[cur][u]) \in Nat
      BY <1>c DEF Serve, Lesser
    <3> QED BY <1>c, <3>1, <3>2, <3>3
  <2>5. \A u \in olds : u \in Templates /\ info[cur][u].spec <= info[cur][u].avail
    BY <1>c, <2>3 DEF Olds, Steady
  <2>6. sizes + info[cur][t].spec <= Serving(sub[cur])
    <3>1. \A u \in olds : info[cur][u].spec <= Serve(sub[cur][u])
      BY <2>4, <2>5
    <3>2. info[cur][t].spec <= Serve(sub[cur][t])
      BY <1>c, <1>e, <2>4
    <3> QED BY <1>c, <3>1, <3>2, SizesServe
  <2>7. min + left' <= Serving(sub[cur])
    <3> HIDE DEF sizes, min, t
    <3> QED BY <1>b, <1>c, <1>d, <2>6
  <2>8. ASSUME NEW o \in rest', sub[cur][o].live
        PROVE  sub[cur][o].spec = info[cur][o].spec /\ sub[cur][o].spec <= sub[cur][o].avail
    <3>1. o \in Templates /\ o # t
      BY <1>b
    <3>2. info[cur][o].live /\ sub[cur][o].spec = info[cur][o].spec
      BY <1>a, <2>8, <3>1 DEF RollRead
    <3>3. o \in olds
      BY <3>1, <3>2 DEF Olds
    <3> QED BY <2>4, <2>5, <3>2, <3>3
  <2> QED BY <2>7, <2>8 DEF AllServe
<1>3. \A o : AllServe(o) => AllServe(o)'
  BY <1>b DEF AllServe
<1>4. left' > 0 => /\ MinAvailable(snap'.want[cur']) + left' <= Serving(sub'[cur'])
                   /\ \A o \in rest' : AllServe(o)'
  BY <1>b, <1>2, <1>3
<1>5. RollLoop'
  BY <1>a, <1>b, <1>4 DEF RollLoop
<1> QED BY <1>1, <1>5 DEF ServedInv

\* One turn of its loop: what it takes from an old subset it takes from what is left.
LEMMA ServedOld ==
    ASSUME RollScope, TypeOK, TypeOK', ServedInv, NEW o \in Templates, RollOld(o)
    PROVE  ServedInv'
<1> DEFINE old   == info[cur][o]
           count == Lesser(old.spec, left)
           n     == old.spec - count
           min   == MinAvailable(snap.want[cur])
<1>a. /\ RollStore /\ pc = "rollOld" /\ o \in rest /\ left > 0 /\ todo = {}
      /\ UNCHANGED <<desired, seen>>
      /\ min + left <= Serving(sub[cur]) /\ \A u \in rest : AllServe(u)
  BY DEF ServedInv, RollLoop, RollOld, userVars, statusVars
<1>b. /\ cur \in Regions /\ left \in Int /\ old.spec \in Nat /\ rest \subseteq Templates
      /\ sub[cur] \in [Templates -> Subset] /\ sub[cur][o].spec \in Nat /\ sub[cur][o].avail \in Nat
      /\ Serving(sub[cur]) \in Nat
  BY ZeroTypes, ServeType
<1>c. snap.want[cur] \in Sizes /\ min \in Int /\ Low(min)
  <2>1. snap.want[cur] \in Sizes
    BY <1>a, <1>b DEF RollStore, Growing
  <2> QED BY <2>1, LowMinimum DEF RollScope
<1>1. count \in Nat /\ n \in Nat /\ n + count = old.spec /\ count <= left /\ n <= old.spec
  BY <1>a, <1>b DEF Lesser
<1>2. \/ /\ SetReplicas(cur, o, n) /\ left' = left - count /\ rest' = rest \ {o}
         /\ UNCHANGED <<pc, snap, info, todo, cur>>
      \/ NoWrite /\ pc' = "manage" /\ UNCHANGED loopVars
  BY DEF RollOld
<1> HIDE DEF count, n
<1>3. CASE NoWrite /\ pc' = "manage" /\ UNCHANGED loopVars
  <2>1. UNCHANGED <<sub, cache, snap, todo>>
    BY <1>3 DEF NoWrite, storeVars, loopVars
  <2>2. RollStore'
    BY <1>a, <1>3, <2>1, RollStoreStays
  <2> QED BY <1>a, <1>3, <2>1, <2>2, RollEnds DEF ServedInv
<1>4. CASE /\ SetReplicas(cur, o, n) /\ left' = left - count /\ rest' = rest \ {o}
           /\ UNCHANGED <<pc, snap, info, todo, cur>>
  <2>1. /\ sub[cur][o].live /\ sub'[cur][o].spec = n /\ sub'[cur][o].avail = sub[cur][o].avail
        /\ \A u \in Templates \ {o} : sub'[cur][u] = sub[cur][u]
    BY <1>b, <1>1, <1>4, RollWritten
  <2>2. sub[cur][o].spec = old.spec /\ sub[cur][o].spec <= sub[cur][o].avail
    BY <1>a, <2>1 DEF AllServe
  <2>3. Serve(sub'[cur][o]) + count = Serve(sub[cur][o])
    <3>1. Serve(sub[cur][o]) = old.spec
      BY <1>b, <2>2 DEF Serve, Lesser
    <3>2. Serve(sub'[cur][o]) = n
      BY <1>b, <1>1, <2>1, <2>2 DEF Serve, Lesser
    <3> QED BY <1>1, <3>1, <3>2
  <2>4. sub'[cur] \in [Templates -> Subset] /\ Serving(sub'[cur]) \in Nat
    <3>1. sub'[cur] \in [Templates -> Subset]
      BY <1>b DEF TypeOK, StoreOK
    <3> QED BY <3>1, ServeType
  <2>5. Serving(sub'[cur]) + count = Serving(sub[cur])
    BY <1>b, <1>1, <2>1, <2>3, <2>4, ServingTakes
  <2>6. min + left' <= Serving(sub'[cur]) /\ min <= Serving(sub'[cur])
    <3> HIDE DEF min
    <3> QED BY <1>a, <1>b, <1>c, <1>1, <1>4, <2>4, <2>5
  <2>7. Low(Serving(sub'[cur]))
    BY <1>c, <2>4, <2>6, LowMore DEF RollScope
  <2>8. RollStore'
    <3>1. n <= sub[cur][o].spec
      BY <1>1, <2>2
    <3> QED BY <1>a, <1>b, <1>1, <1>4, <2>7, <3>1, RollScaleKeeps
  <2>9. \A u \in rest' : AllServe(u)'
    BY <1>a, <1>b, <1>4, <2>1 DEF AllServe
  <2>10. MinAvailable(snap'.want[cur']) + left' <= Serving(sub'[cur'])
    BY <1>4, <2>6
  <2>11. RollLoop'
    BY <1>a, <1>4, <2>9, <2>10 DEF RollLoop
  <2> QED BY <2>8, <2>11 DEF ServedInv
<1> QED BY <1>2, <1>3, <1>4

\* cleanAfterSaturated empties and deletes old subsets while the new one serves
\* the size asked for.
LEMMA ServedSweep ==
    ASSUME RollScope, TypeOK, TypeOK', ServedInv,
           \E o \in Templates : SweepOld(o) \/ DeleteSubset(o)
    PROVE  ServedInv'
<1>a. RollStore /\ RollLoop /\ UNCHANGED <<desired, seen>> /\ pc \in {"sweep", "delete"}
  BY DEF ServedInv, RollLoop, SweepOld, DeleteSubset, userVars, statusVars
<1>b. snap.tmpl \notin rest /\ \A r \in Regions : snap.want[r] <= Serve(sub[r][snap.tmpl])
  BY <1>a DEF RollLoop
<1>c. /\ snap.tmpl \in Templates /\ cur \in Regions
      /\ sub \in [Regions -> [Templates -> Subset]]
      /\ \A r \in Regions, t \in Templates : sub[r][t].spec \in Nat
  BY ZeroTypes
\* A region whose new subset is left alone serves enough.
<1>d. ASSUME NEW r \in Regions, sub'[r][snap.tmpl] = sub[r][snap.tmpl]
      PROVE  Low(Serving(sub'[r]))
  <2>1. sub'[r] \in [Templates -> Subset]
    BY DEF TypeOK, StoreOK
  <2>2. snap.want[r] <= Serve(sub'[r][snap.tmpl]) /\ snap.want[r] \in Sizes
    BY <1>a, <1>b, <1>d DEF RollStore, Growing
  <2> QED BY <1>c, <2>1, <2>2, LowOne DEF RollScope
<1>1. ASSUME NEW o \in Templates, SweepOld(o) PROVE ServedInv'
  <2>1. CASE NoWrite /\ Return
    <3>1. pc' = "idle" /\ UNCHANGED <<sub, cache>>
      BY <2>1 DEF Return, NoWrite, storeVars
    <3> QED BY <1>a, <3>1, RollStoreStays, RollEnds DEF ServedInv
  <2>2. CASE SetReplicas(cur, o, 0) /\ rest' = rest \ {o} /\ o \in rest /\ UNCHANGED <<pc, snap>>
    <3>1. PICK n \in Nat : n = 0
      OBVIOUS
    <3>2. SetReplicas(cur, o, n) /\ o # snap.tmpl /\ n <= sub[cur][o].spec
      BY <1>b, <1>c, <2>2, <3>1
    <3>3. \A q \in Regions, u \in Templates : q # cur \/ u # o => sub'[q][u] = sub[q][u]
      BY <1>c, <3>2, RollWritten
    <3>4. \A q \in Regions : sub'[q][snap.tmpl] = sub[q][snap.tmpl]
      BY <1>c, <3>2, <3>3
    <3>5. RollStore'
      BY <1>a, <1>c, <1>d, <2>2, <3>2, <3>4, RollScaleKeeps
    <3>6. RollLoop'
      BY <1>a, <1>b, <2>2, <3>4 DEF RollLoop
    <3> QED BY <3>5, <3>6 DEF ServedInv
  <2> QED BY <1>1, <2>1, <2>2 DEF SweepOld
<1>2. ASSUME NEW o \in Templates, DeleteSubset(o) PROVE ServedInv'
  <2>1. /\ cache' = sub' /\ o \in rest /\ rest' = rest \ {o}
        /\ pc' = "delete" /\ UNCHANGED snap
    BY <1>2 DEF DeleteSubset, Published, RollScope
  <2>2. sub' = [sub EXCEPT ![cur][o] = Absent]
    BY <1>2 DEF DeleteSubset
  <2>3. /\ \A q \in Regions, u \in Templates : sub'[q][u] = sub[q][u] \/ sub'[q][u] = Absent
        /\ \A q \in Regions : sub'[q][snap.tmpl] = sub[q][snap.tmpl]
    BY <1>b, <1>c, <2>1, <2>2
  <2>4. \A q \in Regions : Absent.spec <= Seen.desired[q] /\ NoGhost(Absent)
    <3>1. \A q \in Regions : Seen.desired[q] \in Nat
      BY SizesType, RolloutAssumption DEF SizesOK
    <3>2. Absent.spec = 0
      BY DEF Absent
    <3> QED BY <3>1, <3>2 DEF NoGhost
  <2>5. RollStore'
    <3>1. \A q \in Regions, u \in Templates :
              \/ sub'[q][u] = sub[q][u]
              \/ sub'[q][u].spec <= Seen.desired[q] /\ NoGhost(sub'[q][u])
      BY <2>3, <2>4
    <3>2. \A q \in Regions : Low(Serving(sub'[q]))
      BY <1>d, <2>3
    <3> QED BY <1>a, <2>1, <3>1, <3>2, RollStoreStep
  <2>6. RollLoop'
    BY <1>a, <1>b, <2>1, <2>3 DEF RollLoop
  <2> QED BY <2>5, <2>6 DEF ServedInv
<1> QED BY <1>1, <1>2

\* Every step keeps the invariant, unless a pod fails or a size is reduced.
LEMMA ServedStep ==
    ASSUME RollScope, TypeOK, TypeOK', ServedInv, [Next]_vars, [PodsHold]_vars, [NoShrink]_vars
    PROVE  ServedInv'
<1>a. RollStore /\ RollLoop /\ cache = sub /\ Growing
  BY DEF ServedInv, RollStore
<1>b. UNCHANGED storeVars => UNCHANGED <<sub, cache>>
  BY DEF storeVars
<1>c. UNCHANGED loopVars => UNCHANGED <<snap, info, todo, cur, rest, left>>
  BY DEF loopVars
<1>d. Return => pc' = "idle"
  BY DEF Return
<1>e. UpdateStrategy = "RollingUpdate" /\ pc \notin {"shrink", "grow", "deleteAll"}
  BY <1>a DEF RollScope, RollLoop
<1>f. NoShrink
  <2>1. \A r \in Regions : desired[r] \in Nat
    BY SizesType, RolloutAssumption DEF SizesOK
  <2>2. UNCHANGED vars => UNCHANGED desired
    BY DEF vars
  <2> QED BY <2>1, <2>2 DEF NoShrink
<1>1. CASE SyncRevisions \/ SyncRevisionsFails \/ Timeout \/ DeploymentSync \/ UserConfirm
           \/ UNCHANGED vars \/ (\E t \in Templates : UserApply(t))
           \/ (\E r \in Regions, n \in Sizes : UserScale(r, n))
  <2>1. UNCHANGED <<sub, cache, pc, loopVars>>
    BY <1>1, <1>b DEF SyncRevisions, SyncRevisionsFails, Timeout, DeploymentSync, UserConfirm,
                      UserApply, UserScale, vars, loopVars
  <2>2. seen' = seen \/ (seen' = Deployment /\ UNCHANGED desired)
    BY <1>1 DEF SyncRevisions, SyncRevisionsFails, Timeout, UserConfirm, UserScale, UserApply,
                DeploymentSync, vars, userVars, statusVars
  <2>3. UNCHANGED <<snap, info, todo, cur, rest, left>>
    BY <1>c, <2>1
  <2>4. Growing'
    BY <1>a, <1>f, <2>1, <2>2, <2>3, GrowStep
  <2>5. RollStore'
    BY <1>a, <2>1, <2>4 DEF RollStore
  <2>6. /\ UNCHANGED RollRoom /\ (\A u : Steady(u)' = Steady(u))
        /\ \A r : RollRead(r)' = RollRead(r) /\ \A o : AllServe(o)' = AllServe(o)
    BY <2>1, <2>3 DEF RollRoom, Steady, RollRead, AllServe
  <2>7. RollLoop'
    BY <1>a, <2>1, <2>3, <2>6 DEF RollLoop
  <2> QED BY <2>5, <2>7 DEF ServedInv
<1>2. CASE RefreshStatus \/ WaitStatus \/ StatusConflict \/ CleanDone \/ Abort
  <2>1. UNCHANGED <<sub, cache, desired, seen>> /\ pc' = "idle"
    BY <1>2, <1>b, <1>d DEF RefreshStatus, WaitStatus, StatusConflict, CleanDone, Abort,
                            userVars, statusVars
  <2> QED BY <1>a, <2>1, RollStoreStays, RollEnds DEF ServedInv
<1>3. CASE CleanupDone \/ ShrinkDone \/ GrowNew \/ DeleteAllDone
           \/ (\E r \in Regions : RecreateRegion(r) \/ DeleteAllFirstRegion(r))
           \/ (\E o \in Templates : ShrinkOld(o))
  BY <1>3, <1>e DEF CleanupDone, ShrinkDone, GrowNew, DeleteAllDone, RecreateRegion,
                    DeleteAllFirstRegion, ShrinkOld
<1>4. CASE CheckUpgradeConfirm
  <2>1. /\ UNCHANGED <<sub, cache, desired, seen>> /\ pc = "confirm"
        /\ pc' = "idle" \/ (pc' \in {"refresh", "manage"} /\ UNCHANGED loopVars)
    BY <1>4, <1>b, <1>d DEF CheckUpgradeConfirm, userVars, statusVars
  <2>2. RollStore'
    BY <1>a, <1>c, <2>1, RollStoreStays
  <2>3. CASE pc' = "manage"
    <3>1. UNCHANGED <<snap, info, todo, sub>>
      BY <1>c, <2>1, <2>3
    <3>2. \A r \in todo' : RollRead(r)'
      BY <1>a, <2>1, <3>1 DEF RollLoop, RollRead
    <3>3. RollLoop'
      BY <2>3, <3>2 DEF RollLoop
    <3> QED BY <2>2, <3>3 DEF ServedInv
  <2> QED BY <2>1, <2>2, <2>3, RollEnds DEF ServedInv
<1>5. CASE SaturatedStatus \/ CleanOldDone
  <2>1. UNCHANGED <<sub, cache, desired, seen, snap>> /\ pc \in {"saturated", "delete"} /\ pc' = "clean"
    BY <1>5, <1>b, <1>c DEF SaturatedStatus, CleanOldDone, userVars, statusVars
  <2>2. RollLoop'
    BY <1>a, <2>1 DEF RollLoop
  <2> QED BY <1>a, <2>1, <2>2, RollStoreStays DEF ServedInv
<1>6. ASSUME CleanOldSubsets \/ \E r \in Regions : CleanRegion(r) PROVE ServedInv'
  <2>1. /\ UNCHANGED <<sub, cache, desired, seen, snap>> /\ pc \in {"clean", "sweep"}
        /\ pc' \in {"sweep", "delete"}
        /\ snap.tmpl \notin rest'
    BY <1>6, <1>b DEF CleanRegion, CleanOldSubsets, userVars, statusVars, Sized, Olds
  <2>2. RollLoop'
    BY <1>a, <2>1 DEF RollLoop
  <2> QED BY <1>a, <2>1, <2>2, RollStoreStays DEF ServedInv
<1>7. CASE RollOldDone
  <2>1. /\ UNCHANGED <<sub, cache, desired, seen, snap>> /\ pc = "rollOld" /\ pc' = "manage"
        /\ todo' = {}
    BY <1>7, <1>a, <1>b, <1>c DEF RollOldDone, userVars, statusVars, RollLoop
  <2> QED BY <1>a, <2>1, RollStoreStays, RollEnds DEF ServedInv
<1>8. ASSUME NEW r \in Regions, NEW t \in Templates,
             PodAvailable(r, t) \/ PodsRemoved(r, t) \/ PodFails(r, t) \/ CacheSync(r, t)
      PROVE  ServedInv'
  <2>1. CASE PodAvailable(r, t) \/ PodsRemoved(r, t)
    BY <2>1, ServedPods
  <2>2. CASE PodFails(r, t)
    BY <1>1, <2>2 DEF PodsHold
  <2>3. CASE CacheSync(r, t)
    BY <1>a, <2>3 DEF CacheSync
  <2> QED BY <1>8, <2>1, <2>2, <2>3
<1>9. CASE \E o \in Templates : SweepOld(o) \/ DeleteSubset(o)
  BY <1>9, ServedSweep
<1> QED BY <1>1, <1>2, <1>3, <1>4, <1>5, <1>6, <1>7, <1>8, <1>9, ServedStart, ServedNew,
           ServedRegion, ServedCleanup, ServedOlds, ServedOld DEF Next, Controller

LEMMA ServedInit == RollScope /\ Init => ServedInv
<1> SUFFICES ASSUME RollScope, Init PROVE ServedInv
  OBVIOUS
<1>1. TypeOK
  BY TypeInit
<1>2. /\ cache = sub /\ pc = "idle" /\ Seen.desired = desired
      /\ desired \in [Regions -> Sizes] /\ 1 \in Templates
      /\ \A r \in Regions : desired[r] \in Nat
  BY RolloutAssumption DEF Init, Seen, Deployment
<1>3. /\ \A r \in Regions : sub[r][1] = Running(desired[r])
      /\ \A r \in Regions, t \in Templates : t # 1 => sub[r][t] = Absent
  BY <1>2 DEF Init, RollScope
<1>4. /\ \A n : Running(n).live /\ Running(n).spec = n /\ Running(n).avail = n
      /\ Absent.spec = 0
  BY DEF Running, Absent
<1>5. ASSUME NEW r \in Regions, NEW t \in Templates
      PROVE  sub[r][t].spec <= desired[r] /\ NoGhost(sub[r][t])
  <2>1. CASE t = 1
    BY <1>2, <1>3, <1>4, <2>1 DEF NoGhost
  <2>2. CASE t # 1
    BY <1>2, <1>3, <1>4, <2>2 DEF NoGhost
  <2> QED BY <2>1, <2>2
<1>6. ASSUME NEW r \in Regions PROVE Low(Serving(sub[r]))
  <2>1. desired[r] <= Serve(sub[r][1])
    <3>1. sub[r][1].spec = desired[r] /\ sub[r][1].avail = desired[r] /\ desired[r] \in Nat
      BY <1>2, <1>3, <1>4
    <3> QED BY <3>1 DEF Serve, Lesser
  <2>2. sub[r] \in [Templates -> Subset] /\ desired[r] \in Sizes
    BY <1>1, <1>2 DEF TypeOK, StoreOK
  <2> QED BY <1>2, <2>1, <2>2, LowOne DEF RollScope
<1>7. RollStore
  BY <1>2, <1>5, <1>6 DEF RollStore, Growing
<1>8. RollLoop
  BY <1>2 DEF RollLoop
<1> QED BY <1>7, <1>8 DEF ServedInv

\* reconcileOldSubsets and cleanAfterSaturated: in any upgrade of a running
\* deployment of one region with strategy RollingUpdate, rollbacks included, whose
\* cache of the subsets does not lag, whatever lags behind in the deployment read
\* and wherever reconciles are cut off, the region never has fewer serving pods
\* than the smallest size asked for less MaxUnavailable (less one, when that and
\* MaxSurge are both zero), as long as no pod fails and the user asks for no
\* smaller size.
THEOREM RollingServed ==
    ASSUME RollScope
    PROVE  Spec /\ [][PodsHold]_vars /\ [][NoShrink]_vars => []ZeroDowntime
<1>1. TypeOK /\ ServedInv => ZeroDowntime
  <2> SUFFICES ASSUME TypeOK, ServedInv, NEW r \in Regions
               PROVE  \E n \in Sizes : ServingPods(r) >= Floor(n)
    BY DEF ZeroDowntime
  <2>1. PICK n \in Sizes : Floor(n) <= Serving(sub[r])
    BY DEF ServedInv, RollStore, Low
  <2>2. ServingPods(r) = Serving(sub[r]) /\ Serving(sub[r]) \in Nat /\ Floor(n) \in Int
    <3>1. sub[r] \in [Templates -> Subset]
      BY DEF TypeOK, StoreOK
    <3>2. Floor(n) \in Int
      BY RolloutAssumption DEF Floor, RollScope
    <3> QED BY <3>1, <3>2, ServingCounted, ServeType
  <2>3. ServingPods(r) >= Floor(n)
    BY <2>1, <2>2
  <2> QED BY <2>3
<1>2. TypeOK /\ TypeOK' /\ ServedInv /\ [Next]_vars /\ [PodsHold]_vars /\ [NoShrink]_vars
        => ServedInv'
  BY ServedStep
<1>3. Init => ServedInv
  BY ServedInit
<1> QED BY <1>1, <1>2, <1>3, TypeInit, TypeStep, PTL DEF Spec
=============================================================================
